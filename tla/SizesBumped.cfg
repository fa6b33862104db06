SPECIFICATION Spec
CONSTANTS
    MaxPacket = 100
    SeqMod = 2
    CommandLines <- BumpedLines
INVARIANT ReplyFits
