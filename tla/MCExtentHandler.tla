-------------------------- MODULE MCExtentHandler --------------------------
(* Small instances of ExtentHandler. *)
EXTENDS ExtentHandler

MCPlans == {[async |-> FALSE, faults |-> 1, size |-> 3], [async |-> TRUE, faults |-> 1, size |-> 3],
            [async |-> FALSE, faults |-> 2, size |-> 2]}
============================================================================
