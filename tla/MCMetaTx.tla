------------------------------ MODULE MCMetaTx ------------------------------
(* Instances of MetaTx for TLC: partitions m1 and m2 with one item each, and *)
(* a transaction on both, managed by m1.                                     *)
EXTENDS MetaTx, TLC

CONSTANTS t1, m1, m2, i1, i2

MCLoc == i1 :> m1 @@ i2 :> m2
MCItems == [t \in Tx |-> {i1, i2}]
MCTmID == [t \in Tx |-> m1]
\* A create transaction: txIcreate and txDcreate report their status.
MCCreate == [t \in Tx |-> Item]
\* A remove transaction: txIunlink and txDdelete do not.
MCRemove == [t \in Tx |-> {}]
=============================================================================
