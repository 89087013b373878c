-------------------------- MODULE MCDataPartition --------------------------
(* Instances of DataPartition for TLC. *)
EXTENDS DataPartition, TLC

CONSTANTS h1, h2, h3

\* The size of the extents on the primary and on the other old host
Sizes(m, k) == (h1 :> [e \in Extent |-> m]) @@ (h2 :> [e \in Extent |-> k])

\* The longer copy is not the primary's.
Uneven == [size |-> Sizes(1, 2), log |-> 2, leader |-> h1, timers |-> {},
           faults |-> 0, crash |-> {}, elect |-> FALSE]

\* The primary, which leads the raft group, or the new replica crashes.
CrashPrimary == [size |-> Sizes(1, 1), log |-> 2, leader |-> h1, timers |-> {h1},
                 faults |-> 1, crash |-> {h1}, elect |-> FALSE]
CrashNew == [size |-> Sizes(1, 1), log |-> 2, leader |-> h1, timers |-> {h3},
             faults |-> 1, crash |-> {h3}, elect |-> FALSE]

\* Another member becomes the leader, and cuts the log.
Election == [size |-> Sizes(1, 1), log |-> 2, leader |-> h1, timers |-> {h2},
             faults |-> 1, crash |-> {}, elect |-> TRUE]

JoinPlans == {Uneven, CrashPrimary, CrashNew, Election}

\* The primary cuts the log before the new replica joins.
CutPlans == {[size |-> Sizes(1, 1), log |-> 3, leader |-> h1, timers |-> {h1},
              faults |-> 0, crash |-> {}, elect |-> FALSE]}

\* Three extents, one of which is longer on the host that is not the primary
SizePlans == {[size |-> (h1 :> [e \in Extent |-> 1])
                        @@ (h2 :> [e \in Extent |-> IF e = 2 THEN 2 ELSE 1]),
               log |-> 1, leader |-> h1, timers |-> {}, faults |-> 0, crash |-> {},
               elect |-> FALSE]}
=============================================================================
