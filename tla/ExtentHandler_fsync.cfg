SPECIFICATION Spec
CONSTANTS
    MaxSize = 3
    Sizes = {1, 2}
    BlockSize = 2
    TinyLimit = 1
    ExtentSize = 4
    MaxPacketErrorCount = 2
    Plans <- MCPlans
INVARIANTS FlushHonest
