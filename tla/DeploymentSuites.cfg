\* The three kinds of suite of the end-to-end harness, two tests each,
\* against a cluster whose controllers and deletions take their time.
SPECIFICATION FairSpec
CONSTANTS
    Suites <- MCSuites
    Tests <- MCTests
CHECK_DEADLOCK FALSE
INVARIANTS
    TypeOK
    EveryCreateAccepted
    DependenciesPresent
    RolloutObserved
    NoSesameOutlivesItsTest
PROPERTIES
    SuiteEnds
