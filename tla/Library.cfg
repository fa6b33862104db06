SPECIFICATION MCSpec
CONSTANTS
    IntMax = 499
    Numbers <- OptionNumbers
    Intervals <- OptionIntervals
    MaxGiven = 2
    MaxPattern = 3
    MaxChars = 8
    MaxPayload = 10
    TimeSpec = 4
    Byte = 3
    MaxWords = 4
    OptionSizes = {8, 12, 16, 20}
    OverflowMax = 2
    MaxHops = 5
    Times = {0, 3}
    AreaMax = 12
    OptionLengths = {4, 7}
    DataBytes = {0, 4}
    Tick = 2
    Day = 12
    MaxDelay = 6
    Offsets <- ClockOffsets
    RTTs <- RoundTrips
    MaxSamples = 3
    Scale = 6
    ringMask = 3
    Bytes = {1, 255}
    MaxLine = 4
    DevicePieces <- DeviceWords
    SizePieces <- SizeWords
    MaxDevicePieces = 4
    MaxSizePieces = 3
    DefaultSize = 56
INVARIANTS LibraryTypeOK OptionsAsGiven PatternIsSound PayloadIsRight SumIsRight VerdictIsRight
INVARIANTS ReplyIsTold VisitsOptions EstimateIsClose StatsTellSamples UsedIsStored ArgumentsAsGiven
PROPERTIES WalkEnds IsQueue
