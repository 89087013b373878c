SPECIFICATION Spec
CONSTANTS
    c1 = c1  c2 = c2  f1 = f1  f2 = f2  d0 = d0  d1 = d1  a = a  b = b
    Client = {c1, c2}
    File = {f1, f2}
    Dir = {d0, d1}
    Root = d0
    Name = {a, b}
    None = None
    DirLimit = 4
    Plans <- TreePlans
    MaxStray = 1
SYMMETRY Symmetry
CHECK_DEADLOCK FALSE
INVARIANTS TypeOK  GoneIsEmpty
