---------------------------- MODULE AtomicCommit ----------------------------
(***************************************************************************)
(* What a metadata transaction promises: it is decided at most once, every *)
(* partition that resolves its part follows the decision, and a client is  *)
(* told of a commit only when every partition of the transaction made it.  *)
(***************************************************************************)
CONSTANTS Tx, MP, Members(_)

VARIABLES
    verdict,   \* verdict[t]: "none", "commit" or "rollback"
    outcome,   \* outcome[m][t]: the set of what m did with its part of t
    told       \* the transactions reported as committed to their client

Init ==
    /\ verdict = [t \in Tx |-> "none"]
    /\ outcome = [m \in MP |-> [t \in Tx |-> {}]]
    /\ told = {}

Decide(t) ==
    /\ verdict[t] = "none"
    /\ \E v \in {"commit", "rollback"} : verdict' = [verdict EXCEPT ![t] = v]
    /\ UNCHANGED <<outcome, told>>

Resolve(t, m) ==
    /\ verdict[t] # "none"
    /\ outcome' = [outcome EXCEPT ![m][t] = {verdict[t]}]
    /\ UNCHANGED <<verdict, told>>

Report(t) ==
    /\ verdict[t] = "commit"
    /\ \A m \in Members(t) : outcome[m][t] = {"commit"}
    /\ told' = told \cup {t}
    /\ UNCHANGED <<verdict, outcome>>

Next == \E t \in Tx : Decide(t) \/ Report(t) \/ \E m \in MP : Resolve(t, m)

Spec == Init /\ [][Next]_<<verdict, outcome, told>>
=============================================================================
