------------------------------ MODULE FreeList ------------------------------
(***************************************************************************)
(* The removal of files: the free list of a metadata partition and the     *)
(* worker that deletes the extents and then the inode of a marked file.    *)
(*                                                                         *)
(*   src/metanode/free_list.go             the list                        *)
(*   src/metanode/partition_free_list.go   deleteWorker                    *)
(*   src/metanode/partition_fsmop_inode.go unlink, evict, internalDelete   *)
(*   src/metanode/transaction.go           unlink inside a transaction     *)
(*   src/metanode/partition_fsm.go         ApplySnapshot                   *)
(*                                                                         *)
(* The inode tree is replicated by raft and an operation on it is one step *)
(* on all replicas.  The free list and the clock behind AccessTime belong  *)
(* to a replica; only the worker of the leader takes inodes off its list,  *)
(* and a deposed leader finishes the batch it is at.                       *)
(* Inodes are regular files without snapshots or migration extents.        *)
(***************************************************************************)
EXTENDS Naturals, Sequences, FiniteSets, SequencesExt

CONSTANTS
    Inode, Replica,
    Batch,       \* DeleteBatchCount
    Faults,      \* the faults that happen, of {"leader", "restart", "snapshot"}
    MaxLink,     \* bound on link counts
    MaxTx,       \* bound on the transactions of a behaviour
    MaxFault,    \* bound on the faults of a behaviour
    Plans        \* what behaviours begin with: the files, those of them that
                 \* were marked (gone) and wait in the lists, the leader, and the
                 \* transactions and faults to count as behind them

ASSUME FlAssumption ==
    /\ IsFiniteSet(Inode)
    /\ Batch \in Nat \ {0} /\ MaxLink \in Nat /\ MaxTx \in Nat /\ MaxFault \in Nat
    /\ Faults \subseteq {"leader", "restart", "snapshot"}
    /\ \A b \in Plans : b.files \subseteq Inode /\ b.gone \subseteq b.files
                       /\ b.leader \in Replica
                       /\ b.txs \in Nat /\ b.faults \in Nat

VARIABLES
    tree,     \* inodeTree
    nlink,    \* Inode.NLink
    marked,   \* inodes with DeleteMarkFlag
    rb,       \* rb[i]: link count saved in txRbInodeTree, 0 without a record
    txs,      \* transactions so far
    list,     \* list[r]: freeList
    recent,   \* recent[r]: inodes r gave an AccessTime less than
              \* InodeNLink0DelayDeleteSeconds ago
    leader,
    worker,   \* worker[r]: deleteWorker
    faults,   \* faults so far
    wiped,    \* inodes some of whose extents the data nodes were told to delete
    restored, \* history: inodes a rollback replaced by the saved copy
    snapped   \* history: replicas with a list that ApplySnapshot left

fsmVars == <<tree, nlink, marked, rb, txs, restored>>
vars == <<fsmVars, list, recent, leader, worker, faults, wiped, snapped>>

\* A batch: how many inodes were popped, those to delete (buffSlice), those to
\* push back (delayDeleteInos, then shouldRePushToFreeList).
NoBatch == [pc |-> "idle", popped |-> 0, buf |-> {}, back |-> {}]

Init ==
    /\ \E b \in Plans : /\ tree = b.files /\ leader = b.leader
                       /\ txs = b.txs /\ faults = b.faults
                       /\ marked = b.gone
                       /\ nlink = [i \in Inode |-> IF i \in b.gone THEN 0 ELSE 1]
                       /\ list = [r \in Replica |-> SetToSeq(b.gone)]
    /\ rb = [i \in Inode |-> 0]
    /\ recent = [r \in Replica |-> {}]
    /\ worker = [r \in Replica |-> NoBatch]
    /\ wiped = {} /\ restored = {} /\ snapped = {}

-----------------------------------------------------------------------------
(* The list.                                                               *)

\* Faulty variant: the index is not consulted.
PushTwice(l, i) == Append(l, i)

\* freeList.Push; Remove is that of SequencesExt.
Push(l, i) == IF Contains(l, i) THEN l ELSE Append(l, i)
PushAll(l, S) == FoldLeft(Push, l, SetToSeq(S))

OnAll(Op(_, _), i) == [r \in Replica |-> Op(list[r], i)]

-----------------------------------------------------------------------------
(* The state machine.  Operations outside a transaction are refused on an  *)
(* inode with a rollback record (inodeInTx).                               *)

Live(i) == i \in tree /\ i \notin marked
IsTempFile(i) == nlink[i] = 0

\* fsmCreateLinkInode.
Link(i) ==
    /\ rb[i] = 0 /\ Live(i) /\ nlink[i] < MaxLink
    /\ nlink' = [nlink EXCEPT ![i] = @ + 1]
    /\ UNCHANGED <<restored, tree, marked, rb, txs, list, recent, leader, worker, faults, wiped, snapped>>

\* fsmUnlinkInode: at link count 0 the file enters the free list.
Unlink(i) ==
    /\ rb[i] = 0 /\ Live(i)
    /\ nlink' = [nlink EXCEPT ![i] = IF @ > 0 THEN @ - 1 ELSE 0]
    /\ IF nlink'[i] = 0
       THEN list' = OnAll(Push, i) /\ recent' = [r \in Replica |-> recent[r] \cup {i}]
       ELSE UNCHANGED <<list, recent>>
    /\ UNCHANGED <<restored, tree, marked, rb, txs, leader, worker, faults, wiped, snapped>>

\* fsmEvictInode: a file without links is marked.
Evict(i) ==
    /\ rb[i] = 0 /\ Live(i) /\ IsTempFile(i)
    /\ marked' = marked \cup {i}
    /\ list' = OnAll(Push, i)
    /\ UNCHANGED <<restored, tree, nlink, rb, txs, recent, leader, worker, faults, wiped, snapped>>

\* fsmTxUnlinkInode: the inode is saved and unlinked; a rename that replaces a
\* file also evicts it.  The record holds the copy the handler took.
TxUnlink(i, rename) ==
    /\ txs < MaxTx /\ txs' = txs + 1
    /\ rb[i] = 0 /\ Live(i) /\ ~IsTempFile(i)
    /\ rb' = [rb EXCEPT ![i] = nlink[i]]
    /\ nlink' = [nlink EXCEPT ![i] = @ - 1]
    /\ IF nlink'[i] = 0
       THEN /\ list' = OnAll(Push, i)
            /\ recent' = [r \in Replica |-> recent[r] \cup {i}]
            /\ marked' = IF rename THEN marked \cup {i} ELSE marked
       ELSE UNCHANGED <<list, recent, marked>>
    /\ UNCHANGED <<restored, tree, leader, worker, faults, wiped, snapped>>

\* commitInode: the record goes.
TxCommit(i) ==
    /\ rb[i] > 0
    /\ rb' = [rb EXCEPT ![i] = 0]
    /\ UNCHANGED <<restored, tree, nlink, marked, txs, list, recent, leader, worker, faults, wiped, snapped>>

\* rollbackInodeInternal: a file that is gone, without links or marked is
\* replaced by the saved copy; any other gets its link back.
TxRollback(i) ==
    /\ rb[i] > 0
    /\ rb' = [rb EXCEPT ![i] = 0]
    /\ IF ~Live(i) \/ IsTempFile(i)
       THEN /\ list' = OnAll(Remove, i)
            /\ tree' = tree \cup {i}
            /\ marked' = marked \ {i}
            /\ nlink' = [nlink EXCEPT ![i] = rb[i]]
            /\ restored' = restored \cup {i}
       ELSE /\ nlink' = [nlink EXCEPT ![i] = @ + 1]
            /\ UNCHANGED <<list, tree, marked, restored>>
    /\ UNCHANGED <<txs, recent, leader, worker, faults, wiped, snapped>>

-----------------------------------------------------------------------------
(* deleteWorker.                                                           *)

ShouldDelayDelete(r, i) == i \notin marked /\ nlink[i] = 0 /\ i \in recent[r]

\* A round begins, on the leader only.
Start(r) ==
    /\ worker[r].pc = "idle" /\ r = leader /\ list[r] # <<>>
    /\ worker' = [worker EXCEPT ![r].pc = "pop"]
    /\ UNCHANGED <<fsmVars, list, recent, leader, faults, wiped, snapped>>

\* One inode is popped, and deleted or put aside for later.
Pop(r) ==
    /\ worker[r].pc = "pop" /\ worker[r].popped < Batch /\ list[r] # <<>>
    /\ LET i == Head(list[r])
           later == i \in tree /\ (ShouldDelayDelete(r, i) \/ rb[i] > 0)
       IN worker' = [worker EXCEPT ![r].popped = @ + 1,
                        ![r].back = IF later THEN @ \cup {i} ELSE @,
                        ![r].buf = IF later THEN @ ELSE @ \cup {i}]
    /\ list' = [list EXCEPT ![r] = Tail(@)]
    /\ UNCHANGED <<fsmVars, recent, leader, faults, wiped, snapped>>

\* The batch is full or the list empty.
Popped(r) ==
    /\ worker[r].pc = "pop" /\ (worker[r].popped = Batch \/ list[r] = <<>>)
    /\ list' = [list EXCEPT ![r] = PushAll(@, worker[r].back)]
    /\ worker' = [worker EXCEPT ![r].back = {}, ![r].pc = "delete"]
    /\ UNCHANGED <<fsmVars, recent, leader, faults, wiped, snapped>>

\* Faulty variant: the mark is not looked at again.
DeleteExtentsUnchecked(r) ==
    /\ worker[r].pc = "delete"
    /\ LET todo == worker[r].buf \cap tree
       IN /\ \E failed \in SUBSET todo :
                worker' = [worker EXCEPT ![r].buf = todo \ failed, ![r].back = failed,
                                         ![r].pc = "free"]
          /\ wiped' = wiped \cup todo
    /\ UNCHANGED <<fsmVars, list, recent, leader, faults, snapped>>

\* deleteMarkedReplicaInodes: the extents of the inodes that are marked are
\* deleted; where a data node fails, the inode is to be pushed back.  Other
\* inodes are dropped.
DeleteExtents(r) ==
    /\ worker[r].pc = "delete"
    /\ LET todo == worker[r].buf \cap tree \cap marked
       IN /\ \E failed \in SUBSET todo :
                worker' = [worker EXCEPT ![r].buf = todo \ failed, ![r].back = failed,
                                         ![r].pc = "free"]
          /\ wiped' = wiped \cup todo
    /\ UNCHANGED <<fsmVars, list, recent, leader, faults, snapped>>

\* Faulty variant: inodes whose proposal failed are forgotten.
FreeInodesForget(r) ==
    /\ worker[r].pc = "free"
    /\ \E applied \in BOOLEAN :
          /\ applied => r = leader
          /\ tree' = IF applied THEN tree \ worker[r].buf ELSE tree
          /\ list' = [list EXCEPT ![r] = PushAll(@, worker[r].back)]
    /\ worker' = [worker EXCEPT ![r] = NoBatch]
    /\ UNCHANGED <<restored, nlink, marked, rb, txs, recent, leader, faults, wiped, snapped>>

\* opFSMInternalDeleteInode is proposed: internalDelete takes the inodes off the
\* tree and off every list.  The proposal fails on a replica that is not the
\* leader; an error may also hide that it was applied.  After an error, and
\* where a data node failed, the inodes are pushed back.
FreeInodes(r) ==
    /\ worker[r].pc = "free"
    /\ \E applied, err \in BOOLEAN :
          LET w == worker[r]
              left(x) == IF applied THEN SelectSeq(list[x], LAMBDA i : i \notin w.buf)
                         ELSE list[x]
          IN /\ applied => r = leader
             /\ ~applied => err
             /\ tree' = IF applied THEN tree \ w.buf ELSE tree
             /\ list' = [x \in Replica |->
                           IF x # r THEN left(x)
                           ELSE PushAll(left(r), w.back \cup IF err THEN w.buf ELSE {})]
    /\ worker' = [worker EXCEPT ![r] = NoBatch]
    /\ UNCHANGED <<restored, nlink, marked, rb, txs, recent, leader, faults, wiped, snapped>>

Worker(r) == Start(r) \/ Pop(r) \/ Popped(r) \/ DeleteExtents(r) \/ FreeInodes(r)

-----------------------------------------------------------------------------
(* Faults, and time.                                                       *)

Fault(f) == f \in Faults /\ faults < MaxFault /\ faults' = faults + 1

\* The worker of the old leader notices at its next round.
ChangeLeader(r) ==
    /\ Fault("leader") /\ r # leader
    /\ leader' = r
    /\ UNCHANGED <<fsmVars, list, recent, worker, wiped, snapped>>

\* checkAndInsertFreeList of every inode loaded.
Loaded == {i \in tree : i \in marked \/ IsTempFile(i)}

\* loadInode: the list of a replica that restarts is built from its tree, and
\* an unlinked file waits once more.
Restart(r) ==
    /\ Fault("restart")
    /\ list' = [list EXCEPT ![r] = PushAll(<<>>, Loaded)]
    /\ recent' = [recent EXCEPT ![r] = Loaded \ marked]
    /\ worker' = [worker EXCEPT ![r] = NoBatch]
    /\ leader' \in Replica
    /\ snapped' = snapped \ {r}
    /\ UNCHANGED <<fsmVars, wiped>>

\* A follower that fell behind, or a new member of the group, gets its tree by
\* ApplySnapshot.  What it missed was not pushed on its list: in the worst
\* case the list is empty.  AccessTime comes with the inodes.
ApplySnapshot(r) ==
    /\ Fault("snapshot") /\ r # leader
    /\ list' = [list EXCEPT ![r] = <<>>]
    /\ recent' = [recent EXCEPT ![r] = recent[leader]]
    /\ worker' = [worker EXCEPT ![r] = NoBatch]
    /\ snapped' = snapped \cup {r}
    /\ UNCHANGED <<fsmVars, leader, wiped>>

\* InodeNLink0DelayDeleteSeconds pass since i was unlinked.
DayPasses(r, i) ==
    /\ i \in recent[r]
    /\ recent' = [recent EXCEPT ![r] = @ \ {i}]
    /\ UNCHANGED <<fsmVars, list, leader, worker, faults, wiped, snapped>>

Next ==
    \/ \E i \in Inode :
          \/ Link(i) \/ Unlink(i) \/ Evict(i)
          \/ \E rename \in BOOLEAN : TxUnlink(i, rename)
          \/ TxCommit(i) \/ TxRollback(i)
    \/ \E r \in Replica :
          \/ Worker(r)
          \/ ChangeLeader(r) \/ Restart(r) \/ ApplySnapshot(r)
          \/ \E i \in Inode : DayPasses(r, i)

Spec == Init /\ [][Next]_vars

\* The worker's goroutine runs; transactions end (module MetaTx) and time passes;
\* data nodes and raft, asked again and again, succeed in the end.
Fairness ==
    /\ \A r \in Replica : WF_vars(Worker(r))
    /\ \A i \in Inode :
          /\ SF_vars(\E r \in Replica : DeleteExtents(r) /\ i \in worker'[r].buf)
          /\ SF_vars(\E r \in Replica : FreeInodes(r) /\ i \in worker[r].buf
                                                     /\ i \notin tree')
    /\ WF_vars(\E r \in Replica, i \in Inode : DayPasses(r, i))
    /\ WF_vars(\E i \in Inode : TxCommit(i) \/ TxRollback(i))

FairSpec == Spec /\ Fairness

-----------------------------------------------------------------------------
(* Properties.                                                             *)

TypeOK ==
    /\ tree \subseteq Inode /\ marked \subseteq Inode /\ wiped \subseteq Inode
    /\ nlink \in [Inode -> 0..MaxLink] /\ rb \in [Inode -> 0..MaxLink]
    /\ \A r \in Replica :
          /\ IsInjective(list[r]) /\ ToSet(list[r]) \subseteq Inode
          /\ recent[r] \subseteq Inode
          /\ worker[r].pc \in {"idle", "pop", "delete", "free"}
          /\ worker[r].popped \in 0..Batch
          /\ worker[r].buf \subseteq Inode /\ worker[r].back \subseteq Inode

\* A file in use keeps its data: no extent is deleted of an inode that is in the
\* tree and not marked, whatever the workers of the present and of earlier
\* leaders (deleteMarkedInodes) still have in their batches and lists.  The one
\* exception is a file that a rolled back transaction has put back.
LiveKeepsData == \A i \in wiped : ~Live(i) \/ i \in restored

\* A transaction that is rolled back finds the data of the file it unlinked in
\* place: "transaction items should be rolled back to previous state".
RollbackRestores == [][\A i \in Inode : TxRollback(i) => i \notin wiped]_vars

\* Every file marked for deletion leaves the tree (or a transaction takes the
\* mark back), so its space is freed, although workers fail and lose leadership
\* in the middle of a batch, data nodes and raft refuse, and a batch is smaller
\* than the list; unless the leader has its tree from a snapshot, which does not
\* rebuild the list (ApplySnapshot).
MarkedFreed ==
    \A i \in Inode :
        i \in tree \cap marked ~> i \notin tree \cap marked \/ leader \in snapped
=============================================================================
