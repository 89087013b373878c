SPECIFICATION Spec
CONSTANTS
    q1 = q1  q2 = q2  q3 = q3  r1 = r1  r2 = r2
    Id = {q1, q2, q3}
    Replica = {r1, r2}
    Cap = 2
    KeepTime = 1
    KeepOps = 1
    MaxLog = 4
    MaxTick = 1
    MaxRestart = 1
SYMMETRY Symmetry
CHECK_DEADLOCK FALSE
INVARIANTS TypeOK  
