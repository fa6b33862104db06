SPECIFICATION FairSpec
CONSTANTS
    Devices = {d1}
    UserSignals = {"INT", "TERM", "QUIT"}
    MaxSignals = 2
    Count = 2
    CommandLines <- EitherKind
INVARIANTS TypeOK ReadyToPing StatusTellsWhy BlocksFreed FreedOnce SettingsAsAsked
PROPERTIES UsedOnlyAfterUserSignal ProcessEnds
