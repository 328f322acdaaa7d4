SPECIFICATION Spec
CONSTANTS
    p1 = p1
    p2 = p2
    f = f
    e1 = e1
    e2 = e2
    ack = ack
    Packets <- MCPackets
    FollowUps <- MCFollowUps
    AckReply = ack
    Endpoints <- MCEndpoints
    Num <- NumberedNum
    Dest <- UnicastDest
INVARIANTS
    AnsweredLeavesBuffer
