\* The xDS server's certificates under rotation.
SPECIFICATION FairSpec
CONSTANTS
    e1 = e1
    e2 = e2
    Server = Server
    Envoys <- MCEnvoys
    MaxCertificates = 2
    MaxCAs = 2
INVARIANTS
    TypeOK
    HandshakeUsesLatest
    AuthenticatedUnlessInsecure
PROPERTIES
    EnvoysConnect
