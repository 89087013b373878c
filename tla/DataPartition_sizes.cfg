SPECIFICATION Spec
CONSTANTS
    h1 = h1  h2 = h2  h3 = h3
    Old = {h1, h2}
    Primary = h1
    New = h3
    Extent = {1, 2, 3}
    MaxSize = 2
    MaxLog = 3
    RetainLogs = 0
    Plans <- SizePlans
CHECK_DEADLOCK FALSE
INVARIANT RepairedFirst
