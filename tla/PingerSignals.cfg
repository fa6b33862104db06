SPECIFICATION FairSpec
CONSTANTS
    Count = 3
    Slots = 3
    SeqMod = 4
    MaxReplies = 1
    MaxAttempts = 1
    UserSignals <- TwoSignals
    MaxInterrupts = 2
    HeaderOptions = TRUE
INVARIANTS TypeOK ControlInv EveryAttemptIsMade SuccessIsEarned FailureIsReal FlagTimesTheRequest ReportMatchesExit
PROPERTIES KeepsSafe KeepsPromise
