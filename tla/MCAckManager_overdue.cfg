SPECIFICATION FairManagedSpec
CONSTANTS
    p1 = p1
    e1 = e1
    ack = ack
    Packets = {p1}
    FollowUps = {}
    AckReply = ack
    Endpoints = {e1}
    Num <- OneNum
    Dest <- OneDest
    ACKRetryCooldown = 1
    ACKTimeoutTime = 2
    Wrap = 64
    MaxTime = 4
PROPERTIES
    OverdueIsHandled
