SPECIFICATION Spec
CONSTANTS
    Count = 3
    Slots = 3
    SeqMod = 4
    MaxReplies = 1
    MaxAttempts = 1
    UserSignals <- NoSignals
    MaxInterrupts = 0
    HeaderOptions = FALSE
INVARIANT FlaggedHasNoReply
