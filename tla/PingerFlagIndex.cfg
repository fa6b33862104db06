SPECIFICATION Spec
CONSTANTS
    Count = 0
    Slots = 2
    SeqMod = 8
    MaxReplies = 1
    MaxAttempts = 4
    UserSignals <- NoSignals
    MaxInterrupts = 0
    HeaderOptions = FALSE
INVARIANT FlagIndexWraps
