SPECIFICATION Spec
CONSTANTS
    Counts <- MCCounts
    DefaultCount = 2
    PacketWait = 2
    RunTimeout = 3
    SeqMod = 4
    MaxPacketCap = 8
    Noise <- OtherMessages
    MaxDeliveries = 3
    QueueLimit = 2
PROPERTY
    CancelAbortsRead
