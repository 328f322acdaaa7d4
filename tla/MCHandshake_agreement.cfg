SPECIFICATION Spec
CONSTANTS
    c1 = c1
    c2 = c2
    s = s
    Clients <- OneClient
    Server = s
    Keys <- MCKeys
    RuledKey <- MCRuledKey
    PrivateKey <- OneClientKeys
    PublicKey <- PublicKeys2
    MaxStarts <- BothRestart
    MaxTime = 2
INVARIANTS
    Agreement
