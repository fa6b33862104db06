SPECIFICATION FairSpec
CONSTANTS
    Count = 0
    Slots = 2
    SeqMod = 3
    MaxReplies = 2
    MaxAttempts = 4
    UserSignals <- NoSignals
    MaxInterrupts = 0
    HeaderOptions = FALSE
INVARIANTS RoundTripOfItsRequest ReceiveTimesBelong LastSlotsListed
PROPERTY KeepsSending
