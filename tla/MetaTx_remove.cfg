SPECIFICATION Spec
CONSTANTS
    t1 = t1  m1 = m1  m2 = m2  i1 = i1  i2 = i2
    Tx = {t1}
    MP = {m1, m2}
    Item = {i1, i2}
    Loc <- MCLoc
    Items <- MCItems
    TmID <- MCTmID
    StatusKept <- MCRemove
    None = None  Old = Old  Plain = Plain
    MaxFailover = 1
CHECK_DEADLOCK FALSE
INVARIANTS CommitIsComplete
