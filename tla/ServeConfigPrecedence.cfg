\* Flags over environment over file, and the namespaces doServe watches.
SPECIFICATION Spec
CONSTANTS
    n1 = n1
    n2 = n2
    NoCert = NoCert
    NotFound = NotFound
    Flags <- MCFlags
    FileFields <- MCFileFields
    Namespaces <- MCNamespaces
    Resources <- MCResources
    MaxRoots = 2
CHECK_DEADLOCK FALSE
INVARIANTS
    TypeOK
    FlagsOverrideFile
    SecretNamespacesWatched
