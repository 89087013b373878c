SPECIFICATION Spec
CONSTANTS
    i1 = i1  i2 = i2  r1 = r1  r2 = r2
    Inode = {i1}
    Replica = {r1, r2}
    Batch = 1
    Faults = {}
    MaxLink = 1
    MaxTx = 2
    MaxFault = 0
    Plans <- OneFile
CHECK_DEADLOCK FALSE
PROPERTIES RollbackRestores
