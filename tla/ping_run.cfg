SPECIFICATION Spec
CONSTANTS
    Counts <- MCCounts
    DefaultCount = 2
    PacketWait = 2
    RunTimeout = 5
    SeqMod = 2
    MaxPacketCap = 8
    Noise <- OtherMessages
    MaxDeliveries = 3
    QueueLimit = 2
INVARIANTS
    TypeOK
    Accounting
    OwnReplies
    BudgetRespected
    CancelLatency
    StopsWithContext
PROPERTIES
    LossIsAFullWait
    ImplementsContract
    EndsAsPromised
