SPECIFICATION Spec
CONSTANTS
    Devices = {}
    UserSignals = {}
    MaxSignals = 0
    Count = 1
    CommandLines <- SettingLines
INVARIANT FragmentForced
