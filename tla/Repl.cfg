SPECIFICATION Spec
CONSTANTS
    e1 = e1  t1 = t1
    NumFollowers = 2
    NormalExtent = e1
    TinyExtents = {t1}
    Kinds <- MCKinds
    RequestChanSize = 1
    SendChanSize = 1
    MaxFault = 1
INVARIANTS TypeOK AckedOnAll ReplicasAgree TinyReturned
PROPERTIES StopEnds Answered
CHECK_DEADLOCK FALSE
