--------------------------- MODULE FreeListProofs ---------------------------
(* Proofs about FreeList for all inodes, replicas, batch sizes and faults.  *)
EXTENDS FreeList, TLAPS

\* The provers' time for a step, in seconds
USE ZenonT(5), SMTT(60), ZenonT(60)

\* Every step keeps LiveKeepsData.
LEMMA KeepNext ==
  ASSUME LiveKeepsData, [Next]_vars
  PROVE  LiveKeepsData'
<1>1. CASE UNCHANGED vars
  BY <1>1 DEF vars, fsmVars, LiveKeepsData, Live
<1>2. ASSUME NEW i \in Inode, NEW rename \in BOOLEAN, TxUnlink(i, rename)
      PROVE  LiveKeepsData'
  <2>1. tree' = tree /\ marked \subseteq marked' /\ UNCHANGED <<wiped, restored>>
    BY <1>2 DEF TxUnlink
  <2> QED BY <2>1 DEF LiveKeepsData, Live
<1>3. ASSUME NEW i \in Inode, TxCommit(i)
      PROVE  LiveKeepsData'
  BY <1>3 DEF TxCommit, LiveKeepsData, Live
<1>4. ASSUME NEW i \in Inode, TxRollback(i)
      PROVE  LiveKeepsData'
  \* Only the inode that is restored can come back to life.
  <2>1. CASE ~Live(i) \/ IsTempFile(i)
    BY <1>4, <2>1 DEF TxRollback, LiveKeepsData, Live
  <2>2. CASE ~(~Live(i) \/ IsTempFile(i))
    BY <1>4, <2>2 DEF TxRollback, LiveKeepsData, Live
  <2> QED BY <2>1, <2>2
<1>5. ASSUME NEW i \in Inode, Link(i) \/ Unlink(i) \/ Evict(i)
      PROVE  LiveKeepsData'
  BY <1>5 DEF Link, Unlink, Evict, LiveKeepsData, Live
<1>6. ASSUME NEW r \in Replica, DeleteExtents(r)
      PROVE  LiveKeepsData'
  BY <1>6 DEF DeleteExtents, LiveKeepsData, Live, fsmVars
<1>7. ASSUME NEW r \in Replica, FreeInodes(r)
      PROVE  LiveKeepsData'
  <2>1. tree' \subseteq tree /\ UNCHANGED <<marked, restored, wiped>>
    BY <1>7 DEF FreeInodes
  <2> QED BY <2>1 DEF LiveKeepsData, Live
<1>8. ASSUME NEW r \in Replica,
             \/ Start(r) \/ Pop(r) \/ Popped(r)
             \/ ChangeLeader(r) \/ Restart(r) \/ ApplySnapshot(r)
             \/ \E i \in Inode : DayPasses(r, i)
      PROVE  LiveKeepsData'
  <2>1. UNCHANGED <<fsmVars, wiped>>
    BY <1>8 DEF Start, Pop, Popped, ChangeLeader, Restart, ApplySnapshot, DayPasses
  <2> QED BY <2>1 DEF fsmVars, LiveKeepsData, Live
<1> QED BY <1>1, <1>2, <1>3, <1>4, <1>5, <1>6, <1>7, <1>8 DEF Next, Worker

\* No extent of a file in use is deleted (deleteWorker,
\* deleteMarkedReplicaInodes) unless a rollback has put the file back, for
\* every number of files, replicas, transactions and faults.
THEOREM DataSafe == Spec => []LiveKeepsData
<1>1. Init => LiveKeepsData
  BY DEF Init, LiveKeepsData
<1>2. LiveKeepsData /\ [Next]_vars => LiveKeepsData'
  BY KeepNext
<1> QED BY <1>1, <1>2, PTL DEF Spec
=============================================================================
