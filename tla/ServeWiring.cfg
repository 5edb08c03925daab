\* doServe from the listener configuration to mgr.Start, with restarts.
SPECIFICATION FairSpec
CONSTANTS
    HTTPVersionLists <- MCHTTPVersionLists
    Configs <- MCConfigs
    MaxFailures = 1
INVARIANTS
    TypeOK
    HealthServedOnce
PROPERTIES
    StartsOnceServable
\* Once the manager is started there is nothing left for doServe to do.
CHECK_DEADLOCK FALSE
