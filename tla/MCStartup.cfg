SPECIFICATION Spec
CONSTANTS
    server_addr = server_addr
    other_addr = other_addr
    Block <- MCBlock
    Xor <- MCXor
    SubShift <- MCSubShift
    InvSubShift <- MCInvSubShift
    MixColumns <- MCMixColumns
    InvMixColumns <- MCInvMixColumns
    KeyExp <- MCKeyExp
    CipherTests <- MCCipherTests
    ExchangeTests <- MCExchangeTests
    SECURE_PRIME_NUMBER = 11
    IntMax = 3
    Digit = {"1", "2", "3", "4"}
    Newline <- MCNewline
    Space = " "
    DigitValue <- MCDigitValue
    StoiMax = 41
    PortWidth = 32
    StunTexts <- MCStunTexts
    Adapters <- MCAdapters
    Peers = {server_addr, other_addr}
    Address = server_addr
INVARIANTS
    TypeOK
    CipherInverts
    ExchangeAgrees
    MappedAddressIsRead
    PortsOfTheAddresses
    ForwardsThroughObjects
    RepliesReachTheSender
    AttachedIsCalled
PROPERTIES
    ConstructorEnds
CHECK_DEADLOCK FALSE
