SPECIFICATION FairSpec
CONSTANTS
    i1 = i1  i2 = i2  r1 = r1  r2 = r2
    Inode = {i1, i2}
    Replica = {r1, r2}
    Batch = 1
    Faults = {"leader", "restart", "snapshot"}
    MaxLink = 2
    MaxTx = 1
    MaxFault = 2
    Plans <- FilesAndFaults
CHECK_DEADLOCK FALSE
INVARIANTS TypeOK LiveKeepsData
PROPERTIES MarkedFreed
