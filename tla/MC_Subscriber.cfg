SPECIFICATION FairSpec
CONSTANTS
    Cap = 4
    MaxPublish = 6
INVARIANTS
    PushNeverBlocks
    NewestIsNext
    DroppedBeatIsHeard
PROPERTIES
    EveryDecodedIsSuperseded
    RegisterSpec
