SPECIFICATION Spec
CONSTANTS
    Count = 2
    Slots = 2
    SeqMod = 4
    MaxReplies = 1
    MaxAttempts = 1
    UserSignals <- NoSignals
    MaxInterrupts = 0
    HeaderOptions = FALSE
PROPERTY WaitIsHonoured
