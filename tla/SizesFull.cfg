SPECIFICATION FairSpec
CONSTANTS
    MaxPacket = 100
    SeqMod = 3
    CommandLines <- SweepsAndOptions
INVARIANTS TypeOK SizeInRange MessageFits ReplyFitsByDefault
PROPERTY SweepGoesOn
