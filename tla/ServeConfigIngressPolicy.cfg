\* ApplyToIngress of the configuration reaching the IngressProcessor.
SPECIFICATION Spec
CONSTANTS
    n1 = n1
    n2 = n2
    NoCert = NoCert
    NotFound = NotFound
    Flags <- MCFlags
    FileFields <- MCFileFields
    Namespaces <- MCNamespaces
    Resources <- MCResources
    MaxRoots = 2
CHECK_DEADLOCK FALSE
INVARIANTS
    IngressPolicyApplied
