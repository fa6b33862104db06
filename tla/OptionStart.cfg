SPECIFICATION OptionSpec
CONSTANTS
    OptionSizes = {8, 12, 16, 20}
    OverflowMax = 2
    MaxHops = 5
    Times = {0, 3}
INVARIANT FirstDifferenceFromRequest
