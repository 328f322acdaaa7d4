SPECIFICATION Spec
CONSTANTS
    Clients = {c1, c2}
    Agreeing = {1}
    MaxExchanges = 2
    MaxCasts = 2
SYMMETRY ClientSymmetry
INVARIANTS
    TypeOK
    EachEndpointOnce
    EncryptedAfterExchange
    LatestReads
    UplinkReads
