SPECIFICATION Spec
CONSTANTS
    c1 = c1
    c2 = c2
    s = s
    Clients <- TwoClients
    Server = s
    Keys <- MCKeys
    RuledKey <- MCRuledKey
    PrivateKey <- TwoClientKeys
    PublicKey <- PublicKeys2
    MaxStarts <- OneStart
    MaxTime = 2
INVARIANTS
    EndpointsUnique
    EndpointKeysAreDerived
PROPERTIES
    OthersKeepTheirEntry
