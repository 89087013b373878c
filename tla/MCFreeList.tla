----------------------------- MODULE MCFreeList -----------------------------
(* Instances of FreeList for TLC.                                           *)
EXTENDS FreeList

CONSTANTS i1, i2, r1, r2

Begin(files, gone, txsDone, faultsDone) ==
    [files |-> files, gone |-> gone, leader |-> r1, txs |-> txsDone, faults |-> faultsDone]

\* One file and transactions.
OneFile == {Begin({i1}, {}, 0, 0)}

\* One file: a transaction and all faults but one, or no transaction and all faults; two files, more
\* than a batch takes: both marked and all faults, or one still in use.
FilesAndFaults ==
    {Begin({i1}, {}, 0, 1), Begin({i1}, {}, MaxTx, 0),
     Begin({i1, i2}, {i1, i2}, MaxTx, 0), Begin({i1, i2}, {i1}, MaxTx, MaxFault)}
=============================================================================
