SPECIFICATION FairSpec
CONSTANTS
    Tasks = {t1, t2}
    LilBufs = 1
    BigBufs = 1
    MaxFrames = 2
    MaxSends = 2
    MaxFaults = 1
    None = None
INVARIANTS Selected OwnFrame InOrder NoBufferLost NoPanic
PROPERTIES EveryFrameTaken EveryPacketHandled EverySendReturns
