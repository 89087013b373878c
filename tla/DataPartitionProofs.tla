------------------------ MODULE DataPartitionProofs ------------------------
(***************************************************************************)
(* That a data partition can be loaded again after a crash at any moment,  *)
(* and that cutting the raft log never takes from an old member an entry   *)
(* it lacks, for any number of hosts, extents, blocks, entries and faults; *)
(* then that a replica holds every overwrite up to its applied index.      *)
(***************************************************************************)
EXTENDS DataPartition, TLAPS, WellFoundedInduction

\* The provers' time for a step, in seconds
USE ZenonT(2), SMTT(60), ZenonT(60)

\* The indices of a replica, and their order: what was cut, what the APPLY file
\* says, what the process has applied, what is in the log.  The id that a truncation
\* in progress has stored stays below the APPLY file's.  Only a replica in normal
\* operation runs raft or can have taken a snapshot.
IndexTypes ==
  /\ leader \in Replica
  /\ first \in [Replica -> Nat] /\ last \in [Replica -> Nat]
  /\ applied \in [Replica -> Nat] /\ appliedID \in [Replica -> Nat]
  /\ apply \in [Replica -> Nat] /\ minAppliedID \in [Replica -> Nat]
  /\ raftOn \in [Replica -> BOOLEAN] /\ pend \in [Replica -> BOOLEAN]
  /\ snapped \in [Replica -> BOOLEAN]
  /\ kind \in [Replica -> {"none", "recover", "normal"}]
  /\ sched \in [Replica -> [pc : {"idle", "off", "store", "cut"}, id : Nat]]

Ordered(r) ==
  /\ first[r] <= applied[r] /\ applied[r] <= last[r]
  /\ apply[r] <= appliedID[r] /\ appliedID[r] <= applied[r]
  /\ pend[r] => applied[r] < last[r]
  /\ ~snapped[r] => first[r] <= apply[r]
  /\ sched[r].pc = "store" => sched[r].id <= apply[r]
  /\ raftOn[r] \/ snapped[r] => kind[r] = "normal"

\* The minimum a replica was told, and so what it has cut, is in every old log.
Kept(x, r) ==
  /\ minAppliedID[x] <= last[r]
  /\ ~snapped[x] => first[x] <= last[r]

IndInv ==
  /\ IndexTypes
  /\ \A r \in Replica : Ordered(r)
  /\ \A x \in Replica, r \in Old : Kept(x, r)

indexVars == <<leader, first, last, applied, appliedID, apply, minAppliedID, raftOn,
               pend, snapped, kind, sched>>

\* A step that leaves the indices alone keeps the invariant.
LEMMA IndexStutter == ASSUME IndInv, UNCHANGED indexVars PROVE IndInv'
  BY DEF IndInv, IndexTypes, Ordered, Kept, indexVars

\* Initially every index is zero.
LEMMA IndexInit == Init => IndInv
<1> SUFFICES ASSUME Init PROVE IndInv
  OBVIOUS
<1>1. leader \in Replica
  BY PartitionAssumption DEF Init, Replica
<1>2. /\ first = [r \in Replica |-> 0] /\ last = [r \in Replica |-> 0]
      /\ applied = [r \in Replica |-> 0] /\ appliedID = [r \in Replica |-> 0]
      /\ apply = [r \in Replica |-> 0] /\ minAppliedID = [r \in Replica |-> 0]
      /\ pend = [r \in Replica |-> FALSE] /\ snapped = [r \in Replica |-> FALSE]
      /\ sched = [r \in Replica |-> [pc |-> "idle", id |-> 0]]
      /\ raftOn = [r \in Replica |-> r \in Old]
      /\ kind = [r \in Replica |-> IF r \in Old THEN "normal" ELSE "none"]
  BY DEF Init, Idle
<1>3. IndexTypes
  BY <1>1, <1>2 DEF IndexTypes
<1>4. ASSUME NEW r \in Replica PROVE Ordered(r)
  <2>1. /\ first[r] = 0 /\ last[r] = 0 /\ applied[r] = 0 /\ appliedID[r] = 0 /\ apply[r] = 0
        /\ pend[r] = FALSE /\ snapped[r] = FALSE
        /\ sched[r] = [pc |-> "idle", id |-> 0]
    BY <1>2
  <2>2. raftOn[r] => kind[r] = "normal"
    <3>1. raftOn[r] = (r \in Old) /\ kind[r] = IF r \in Old THEN "normal" ELSE "none"
      BY <1>2
    <3> QED BY <3>1
  <2>3. sched[r].pc # "store"
    BY <2>1
  <2> QED BY <2>1, <2>2, <2>3 DEF Ordered
<1>5. ASSUME NEW x \in Replica, NEW r \in Old PROVE Kept(x, r)
  BY <1>2, <1>5 DEF Kept, Replica
<1> QED BY <1>3, <1>4, <1>5 DEF IndInv

\* Committing an entry makes logs longer.
LEMMA CommitGrows ==
  ASSUME IndexTypes, NEW entry, Commit(entry)
  PROVE  last' \in [Replica -> Nat] /\ \A r \in Replica : last[r] <= last'[r]
<1>1. PICK Q \in SUBSET {r \in Members : Running(r) /\ last[r] = Len(log)} :
        last' = [r \in Replica |-> IF r \in Q THEN last[r] + 1 ELSE last[r]]
  BY DEF Commit
<1>2. last \in [Replica -> Nat]
  BY DEF IndexTypes
<1>3. ASSUME NEW r \in Replica PROVE last'[r] \in Nat /\ last[r] <= last'[r]
  <2>1. last[r] \in Nat
    BY <1>2
  <2>2. last'[r] = last[r] + 1 \/ last'[r] = last[r]
    BY <1>1
  <2> QED BY <2>1, <2>2
<1>4. last' = [r \in Replica |-> last'[r]]
  BY <1>1
<1> QED BY <1>3, <1>4

\* Replication of the log keeps the invariant.
LEMMA RaftKeeps ==
  ASSUME IndInv,
         \/ \E e \in Extent, b \in Blocks : RandomWriteSubmit(e, b)
         \/ AddRaftMember
         \/ \E r \in Replica : Replicate(r) \/ Elect(r)
  PROVE  IndInv'
<1>1. /\ leader' \in Replica
      /\ last' \in [Replica -> Nat]
      /\ \A r \in Replica : last[r] <= last'[r]
      /\ UNCHANGED <<first, applied, appliedID, apply, minAppliedID, raftOn, pend,
                     snapped, kind, sched>>
  <2>1. ASSUME NEW entry, Commit(entry),
               UNCHANGED <<leader, first, applied, appliedID, apply, minAppliedID, raftOn,
                           pend, snapped, kind, sched>>
        PROVE  /\ leader' \in Replica
               /\ last' \in [Replica -> Nat]
               /\ \A r \in Replica : last[r] <= last'[r]
               /\ UNCHANGED <<first, applied, appliedID, apply, minAppliedID, raftOn, pend,
                              snapped, kind, sched>>
    BY <2>1, CommitGrows DEF IndInv, IndexTypes
  <2>2. CASE \E e \in Extent, b \in Blocks : RandomWriteSubmit(e, b)
    <3>1. PICK e \in Extent, b \in Blocks : RandomWriteSubmit(e, b)
      BY <2>2
    <3> QED BY <3>1, <2>1 DEF RandomWriteSubmit, idVars, diskVars, histVars
  <2>3. CASE AddRaftMember
    BY <2>3, <2>1 DEF AddRaftMember, idVars, diskVars, histVars
  <2>4. CASE \E r \in Replica : Replicate(r) \/ Elect(r)
    <3>1. PICK m \in Replica : Replicate(m) \/ Elect(m)
      BY <2>4
    <3>2. CASE Replicate(m)
      <4>1. /\ last' = [last EXCEPT ![m] = @ + 1]
            /\ UNCHANGED <<leader, first, applied, appliedID, apply, minAppliedID, raftOn,
                           pend, snapped, kind, sched>>
        BY <3>2 DEF Replicate, idVars, diskVars, histVars
      <4> QED BY <4>1 DEF IndInv, IndexTypes
    <3>3. CASE Elect(m)
      <4>1. /\ leader' = m
            /\ UNCHANGED <<last, first, applied, appliedID, apply, minAppliedID, raftOn,
                           pend, snapped, kind, sched>>
        BY <3>3 DEF Elect, idVars, diskVars
      <4> QED BY <4>1 DEF IndInv, IndexTypes
    <3> QED BY <3>1, <3>2, <3>3
  <2> QED BY <2>2, <2>3, <2>4
<1>2. IndexTypes'
  BY <1>1 DEF IndInv, IndexTypes
<1>3. ASSUME NEW r \in Replica PROVE Ordered(r)'
  BY <1>1 DEF IndInv, IndexTypes, Ordered
<1>4. ASSUME NEW x \in Replica, NEW r \in Old PROVE Kept(x, r)'
  BY <1>1 DEF IndInv, IndexTypes, Kept, Replica
<1> QED BY <1>2, <1>3, <1>4 DEF IndInv

\* A snapshot moves the indices of a member forward, to a place above its log.
LEMMA SnapshotKeeps ==
  ASSUME IndInv, NEW m \in Replica, SendSnapshot(m)
  PROVE  IndInv'
<1>1. /\ first' = [first EXCEPT ![m] = applied[leader]]
      /\ last' = [last EXCEPT ![m] = applied[leader]]
      /\ applied' = [applied EXCEPT ![m] = applied[leader]]
      /\ snapped' = [snapped EXCEPT ![m] = TRUE]
      /\ first[leader] > last[m] /\ ~pend[m] /\ raftOn[m]
      /\ UNCHANGED <<leader, appliedID, apply, minAppliedID, raftOn, pend, kind, sched>>
  BY DEF SendSnapshot, idVars, diskVars, Running
<1>2. last[m] < applied[leader]
  BY <1>1 DEF IndInv, IndexTypes, Ordered
<1>3. IndexTypes'
  BY <1>1 DEF IndInv, IndexTypes
<1>4. ASSUME NEW r \in Replica PROVE Ordered(r)'
  <2>1. CASE r = m
    BY <1>1, <1>2, <2>1 DEF IndInv, IndexTypes, Ordered
  <2>2. CASE r # m
    BY <1>1, <2>2 DEF IndInv, IndexTypes, Ordered
  <2> QED BY <2>1, <2>2
<1>5. ASSUME NEW x \in Replica, NEW r \in Old PROVE Kept(x, r)'
  <2>1. last[r] <= last'[r]
    BY <1>1, <1>2 DEF IndInv, IndexTypes, Replica
  <2>2. ~snapped'[x] => first'[x] = first[x] /\ ~snapped[x]
    BY <1>1 DEF IndInv, IndexTypes
  <2>3. last'[r] \in Nat /\ last[r] \in Nat /\ first[x] \in Nat /\ minAppliedID[x] \in Nat
    BY <1>3 DEF IndInv, IndexTypes, Replica
  <2> QED BY <1>1, <2>1, <2>2, <2>3 DEF IndInv, Kept
<1> QED BY <1>3, <1>4, <1>5 DEF IndInv

\* Applying moves the applied index, and with it or behind it the applied id.
LEMMA ApplyKeeps ==
  ASSUME IndInv, NEW m \in Replica, ApplyStep(m)
  PROVE  IndInv'
<1>1. UNCHANGED <<leader, first, last, minAppliedID, raftOn, snapped, sched>>
  BY DEF ApplyStep, ApplySkip, ApplyRandomWrite, UploadApplyID, ApplyMemberChange,
         PersistApplyId, PersistMetadata, raftVars, idVars, histVars
<1>2. \A x \in Replica, r \in Old : Kept(x, r)'
  BY <1>1 DEF IndInv, Kept
<1>3. CASE ApplySkip(m)
  <2>1. /\ applied[m] < last[m] /\ ~pend[m]
        /\ applied' = [applied EXCEPT ![m] = @ + 1]
        /\ UNCHANGED <<appliedID, apply, pend, kind>>
    BY <1>3 DEF ApplySkip, CanApply, idVars, diskVars
  <2>2. IndexTypes'
    BY <1>1, <2>1 DEF IndInv, IndexTypes
  <2>3. ASSUME NEW r \in Replica PROVE Ordered(r)'
    BY <1>1, <2>1 DEF IndInv, IndexTypes, Ordered
  <2> QED BY <1>2, <2>2, <2>3 DEF IndInv
<1>4. CASE ApplyRandomWrite(m)
  <2>1. /\ applied[m] < last[m]
        /\ pend' = [pend EXCEPT ![m] = TRUE]
        /\ UNCHANGED <<applied, appliedID, apply, kind>>
    BY <1>4 DEF ApplyRandomWrite, CanApply, raftVars, idVars, diskVars
  <2>2. IndexTypes'
    BY <1>1, <2>1 DEF IndInv, IndexTypes
  <2>3. ASSUME NEW r \in Replica PROVE Ordered(r)'
    <3>1. pend'[r] => applied[r] < last[r]
      BY <2>1 DEF IndInv, IndexTypes, Ordered
    <3> QED BY <1>1, <2>1, <3>1 DEF IndInv, Ordered
  <2> QED BY <1>2, <2>2, <2>3 DEF IndInv
<1>5. CASE ApplyMemberChange(m)
  <2>1. /\ applied[m] < last[m]
        /\ pend' = [pend EXCEPT ![m] = TRUE]
        /\ kind' = [kind EXCEPT ![m] = "normal"]
        /\ UNCHANGED <<applied, appliedID, apply>>
    BY <1>5 DEF ApplyMemberChange, CanApply, raftVars
  <2>2. IndexTypes'
    BY <1>1, <2>1 DEF IndInv, IndexTypes
  <2>3. ASSUME NEW r \in Replica PROVE Ordered(r)'
    <3>1. pend'[r] => applied[r] < last[r]
      BY <2>1 DEF IndInv, IndexTypes, Ordered
    <3>2. raftOn[r] \/ snapped[r] => kind'[r] = "normal"
      BY <2>1 DEF IndInv, IndexTypes, Ordered
    <3> QED BY <1>1, <2>1, <3>1, <3>2 DEF IndInv, Ordered
  <2> QED BY <1>2, <2>2, <2>3 DEF IndInv
<1>6. CASE UploadApplyID(m) \/ PersistApplyId(m)
  <2>1. /\ pend[m]
        /\ appliedID' = [appliedID EXCEPT ![m] = applied[m] + 1]
        /\ applied' = [applied EXCEPT ![m] = @ + 1]
        /\ pend' = [pend EXCEPT ![m] = FALSE]
        /\ \/ apply' = apply
           \/ apply' = [apply EXCEPT ![m] = applied[m] + 1] /\ sched[m].pc # "store"
        /\ kind' = kind
    BY <1>6 DEF UploadApplyID, PersistApplyId, diskVars
  <2>2. IndexTypes'
    <3>1. applied[m] + 1 \in Nat
      BY DEF IndInv, IndexTypes
    <3>2. applied' \in [Replica -> Nat] /\ appliedID' \in [Replica -> Nat]
      BY <2>1, <3>1 DEF IndInv, IndexTypes
    <3>3. apply' \in [Replica -> Nat]
      BY <2>1, <3>1 DEF IndInv, IndexTypes
    <3>4. pend' \in [Replica -> BOOLEAN]
      BY <2>1 DEF IndInv, IndexTypes
    <3> QED BY <1>1, <2>1, <3>2, <3>3, <3>4 DEF IndInv, IndexTypes
  <2>3. ASSUME NEW r \in Replica PROVE Ordered(r)'
    <3>1. CASE r = m
      BY <1>1, <2>1, <3>1 DEF IndInv, IndexTypes, Ordered
    <3>2. CASE r # m
      BY <1>1, <2>1, <3>2 DEF IndInv, IndexTypes, Ordered
    <3> QED BY <3>1, <3>2
  <2> QED BY <1>2, <2>2, <2>3 DEF IndInv
<1> QED BY <1>3, <1>4, <1>5, <1>6 DEF ApplyStep

\* A cut of the log ends at an id that is stored and that every old member has.
LEMMA TruncateKeeps ==
  ASSUME IndInv, NEW m \in Replica, TruncateCut(m)
  PROVE  IndInv'
<1> DEFINE to == RaftTruncate(m, TruncIndex(m))
<1>1. /\ sched[m].pc = "store"
      /\ first' = [first EXCEPT ![m] = to]
      /\ sched' = [sched EXCEPT ![m] = [pc |-> "cut", id |-> 0]]
      /\ UNCHANGED <<leader, last, applied, appliedID, apply, minAppliedID, raftOn, pend,
                     snapped, kind>>
  BY DEF TruncateCut, diskVars, histVars
<1>2. /\ minAppliedID[m] \in Nat /\ sched[m].id \in Nat /\ last[m] \in Nat
      /\ first[m] \in Nat /\ RetainLogs \in Nat
  BY PartitionAssumption DEF IndInv, IndexTypes
<1>3. /\ to \in Nat
      /\ to = first[m] \/ (to <= minAppliedID[m] /\ to <= sched[m].id)
  <2>1. /\ TruncIndex(m) \in Nat
        /\ TruncIndex(m) <= minAppliedID[m] /\ TruncIndex(m) <= sched[m].id
    BY <1>2 DEF TruncIndex, Lesser
  <2> HIDE DEF TruncIndex
  <2> QED BY <1>2, <2>1 DEF RaftTruncate, Lesser
<1> HIDE DEF to
<1>4. IndexTypes'
  <2>1. first' \in [Replica -> Nat]
    BY <1>1, <1>3 DEF IndInv, IndexTypes
  <2>2. sched' \in [Replica -> [pc : {"idle", "off", "store", "cut"}, id : Nat]]
    BY <1>1 DEF IndInv, IndexTypes
  <2> QED BY <1>1, <2>1, <2>2 DEF IndInv, IndexTypes
<1>5. sched[m].id <= apply[m]
  BY <1>1 DEF IndInv, Ordered
<1>6. ASSUME NEW r \in Replica PROVE Ordered(r)'
  <2>1. CASE r = m
    <3>1. sched'[r].pc # "store" /\ first'[r] = to
      BY <1>1, <2>1 DEF IndInv, IndexTypes
    <3>2. to <= applied[r] /\ (~snapped[r] => to <= apply[r])
      BY <1>2, <1>3, <1>5, <2>1 DEF IndInv, IndexTypes, Ordered
    <3> QED BY <1>1, <3>1, <3>2 DEF IndInv, Ordered
  <2>2. CASE r # m
    BY <1>1, <2>2 DEF IndInv, IndexTypes, Ordered
  <2> QED BY <2>1, <2>2
<1>7. ASSUME NEW x \in Replica, NEW r \in Old PROVE Kept(x, r)'
  <2>1. CASE x = m
    BY <1>1, <1>2, <1>3, <2>1 DEF IndInv, IndexTypes, Kept, Replica
  <2>2. CASE x # m
    BY <1>1, <2>2 DEF IndInv, IndexTypes, Kept
  <2> QED BY <2>1, <2>2
<1> QED BY <1>4, <1>6, <1>7 DEF IndInv

\* The minimum that is broadcast is an applied id of every replica that gets it, so
\* every old member has the entry.
LEMMA MinimumKeeps ==
  ASSUME IndInv, NEW m \in Replica, UpdateMinAppliedID(m)
  PROVE  IndInv'
<1>1. PICK y \in Replicas(m) :
        /\ \A x \in Replicas(m) : appliedID[y] <= appliedID[x]
        /\ minAppliedID' = [x \in Replica |->
             IF x \in Replicas(m) THEN appliedID[y] ELSE minAppliedID[x]]
  BY DEF UpdateMinAppliedID
<1>2. UNCHANGED <<leader, first, last, applied, appliedID, apply, raftOn, pend, snapped,
                  kind, sched>>
  BY DEF UpdateMinAppliedID, raftVars, diskVars, histVars
<1>3. Old \subseteq Replicas(m) /\ Replicas(m) \subseteq Replica
  BY DEF Replicas, Replica
<1>4. IndexTypes'
  BY <1>1, <1>2, <1>3 DEF IndInv, IndexTypes
<1>5. ASSUME NEW r \in Replica PROVE Ordered(r)'
  BY <1>2 DEF IndInv, Ordered
<1>6. ASSUME NEW x \in Replica, NEW r \in Old PROVE Kept(x, r)'
  <2>1. appliedID[y] <= appliedID[r] /\ r \in Replica
    BY <1>1, <1>3
  <2>2. appliedID[y] <= last[r]
    BY <1>3, <2>1 DEF IndInv, IndexTypes, Ordered
  <2>3. Kept(x, r)
    BY DEF IndInv
  <2>4. minAppliedID'[x] = appliedID[y] \/ minAppliedID'[x] = minAppliedID[x]
    BY <1>1
  <2> QED BY <1>2, <2>2, <2>3, <2>4 DEF Kept
<1> QED BY <1>4, <1>5, <1>6 DEF IndInv

\* The other steps of the schedule store the applied id or wait.
LEMMA ScheduleKeeps ==
  ASSUME IndInv, NEW m \in Replica, Schedule(m)
  PROVE  IndInv'
<1>1. CASE TruncateIdle(m) \/ TruncatePersist(m) \/ TruncateStore(m) \/ StoreAppliedID(m)
  <2>1. /\ UNCHANGED <<leader, first, last, applied, appliedID, minAppliedID, raftOn, pend,
                       snapped, kind>>
        /\ apply' = apply \/ apply' = [apply EXCEPT ![m] = appliedID[m]]
        /\ \/ sched' = [sched EXCEPT ![m].pc = "off"]
           \/ sched' = [sched EXCEPT ![m] = Idle]
           \/ /\ sched' = [sched EXCEPT ![m] = [pc |-> "store", id |-> appliedID[m]]]
              /\ apply' = [apply EXCEPT ![m] = appliedID[m]]
           \/ sched' = sched
    BY <1>1 DEF TruncateIdle, TruncatePersist, TruncateStore, StoreAppliedID, PersistMetadata,
                raftVars, idVars, diskVars, histVars
  <2>2. apply' \in [Replica -> Nat] /\ \A r \in Replica : apply[r] <= apply'[r]
    <3>1. apply[m] <= appliedID[m] /\ appliedID[m] \in Nat /\ apply \in [Replica -> Nat]
      BY DEF IndInv, IndexTypes, Ordered
    <3>2. CASE apply' = apply
      BY <3>1, <3>2
    <3>3. CASE apply' = [apply EXCEPT ![m] = appliedID[m]]
      BY <3>1, <3>3
    <3> QED BY <2>1, <3>2, <3>3
  <2>3. \A r \in Replica : apply'[r] <= appliedID[r]
    BY <2>1 DEF IndInv, IndexTypes, Ordered
  <2>4. sched' \in [Replica -> [pc : {"idle", "off", "store", "cut"}, id : Nat]]
    <3>1. /\ sched \in [Replica -> [pc : {"idle", "off", "store", "cut"}, id : Nat]]
          /\ appliedID[m] \in Nat
      BY DEF IndInv, IndexTypes
    <3>2. CASE sched' = [sched EXCEPT ![m].pc = "off"]
      BY <3>1, <3>2
    <3>3. CASE sched' = [sched EXCEPT ![m] = Idle]
      BY <3>1, <3>3 DEF Idle
    <3>4. CASE sched' = [sched EXCEPT ![m] = [pc |-> "store", id |-> appliedID[m]]]
      BY <3>1, <3>4
    <3> QED BY <2>1, <3>1, <3>2, <3>3, <3>4
  <2>5. ASSUME NEW r \in Replica, sched'[r].pc = "store" PROVE sched'[r].id <= apply'[r]
    <3>1. CASE sched'[r] = sched[r]
      BY <2>2, <2>5, <3>1 DEF IndInv, IndexTypes, Ordered
    <3>2. CASE sched'[r] # sched[r]
      <4>1. r = m
        BY <2>1, <3>2 DEF IndInv, IndexTypes
      <4>2. CASE sched' = [sched EXCEPT ![m].pc = "off"] \/ sched' = [sched EXCEPT ![m] = Idle]
        BY <2>5, <4>1, <4>2 DEF IndInv, IndexTypes, Idle
      <4>3. CASE /\ sched' = [sched EXCEPT ![m] = [pc |-> "store", id |-> appliedID[m]]]
                 /\ apply' = [apply EXCEPT ![m] = appliedID[m]]
        <5>1. sched'[r].id = appliedID[m] /\ apply'[r] = appliedID[m] /\ appliedID[m] \in Nat
          BY <4>1, <4>3 DEF IndInv, IndexTypes
        <5> QED BY <5>1
      <4> QED BY <2>1, <3>2, <4>2, <4>3
    <3> QED BY <3>1, <3>2
  <2>6. IndexTypes'
    BY <2>1, <2>2, <2>4 DEF IndInv, IndexTypes
  <2>7. ASSUME NEW r \in Replica PROVE Ordered(r)'
    BY <2>1, <2>2, <2>3, <2>5 DEF IndInv, IndexTypes, Ordered
  <2>8. \A x \in Replica, r \in Old : Kept(x, r)'
    BY <2>1 DEF IndInv, Kept
  <2> QED BY <2>6, <2>7, <2>8 DEF IndInv
<1> QED BY <1>1, TruncateKeeps, MinimumKeeps DEF Schedule

\* Repair moves blocks, not indices; creating New and starting its raft change its kind.
LEMMA RepairKeeps ==
  ASSUME IndInv, Repair \/ Quiet \/ WaitRepair
  PROVE  IndInv'
<1>1. CASE BuildRepairTasks \/ FollowersDone \/ DoRepair \/ RepairDone \/ WaitRepair
  BY <1>1, IndexStutter DEF BuildRepairTasks, FollowersDone, DoRepair, RepairDone, WaitRepair,
       indexVars, raftVars, idVars, diskVars, histVars
<1>2. ASSUME NEW m \in Replica, NotifyFollower(m) PROVE IndInv'
  BY <1>2, IndexStutter DEF NotifyFollower, indexVars, raftVars, idVars, diskVars, histVars
<1>3. ASSUME NEW m \in Replica, NEW s \in stream[m], RepairRead(m, s) PROVE IndInv'
  BY <1>3, IndexStutter DEF RepairRead, indexVars, raftVars, idVars, diskVars, histVars
<1>4. ASSUME NEW m \in Replica, NEW s \in stream[m], StreamRepairExtent(m, s) PROVE IndInv'
  BY <1>4, IndexStutter DEF StreamRepairExtent, indexVars, raftVars, idVars, diskVars
<1>5. ASSUME NEW m \in Replica, NEW e \in Extent, Age(m, e) PROVE IndInv'
  BY <1>5, IndexStutter DEF Age, indexVars, raftVars, idVars, diskVars, histVars
<1> QED BY <1>1, <1>2, <1>3, <1>4, <1>5 DEF Repair, Quiet

\* The new replica is created, or starts its raft.
LEMMA JoinKeeps ==
  ASSUME IndInv, CreateReplica \/ StartRaftAfterRepair
  PROVE  IndInv'
<1>1. New \in Replica
  BY DEF Replica
<1>2. /\ UNCHANGED <<leader, first, last, applied, appliedID, apply, minAppliedID, pend,
                     snapped, sched>>
      /\ \/ /\ kind[New] = "none" /\ raftOn' = raftOn
            /\ kind' = [kind EXCEPT ![New] = "recover"]
         \/ /\ raftOn' = [raftOn EXCEPT ![New] = TRUE]
            /\ kind' = [kind EXCEPT ![New] = "normal"]
  BY DEF CreateReplica, StartRaftAfterRepair, raftVars, idVars, histVars
<1>3. /\ kind' \in [Replica -> {"none", "recover", "normal"}]
      /\ raftOn' \in [Replica -> BOOLEAN]
  <2>1. kind' \in [Replica -> {"none", "recover", "normal"}]
    BY <1>1, <1>2 DEF IndInv, IndexTypes
  <2>2. raftOn' \in [Replica -> BOOLEAN]
    BY <1>1, <1>2 DEF IndInv, IndexTypes
  <2> QED BY <2>1, <2>2
<1>4. IndexTypes'
  BY <1>2, <1>3 DEF IndInv, IndexTypes
<1>5. ASSUME NEW r \in Replica PROVE raftOn'[r] \/ snapped[r] => kind'[r] = "normal"
  <2>1. raftOn[r] \/ snapped[r] => kind[r] = "normal"
    BY DEF IndInv, Ordered
  <2>2. /\ kind \in [Replica -> {"none", "recover", "normal"}]
        /\ raftOn \in [Replica -> BOOLEAN]
    BY DEF IndInv, IndexTypes
  <2>3. CASE r = New
    BY <1>1, <1>2, <2>1, <2>2, <2>3
  <2>4. CASE r # New
    BY <1>1, <1>2, <2>1, <2>2, <2>4
  <2> QED BY <2>3, <2>4
<1>6. ASSUME NEW r \in Replica PROVE Ordered(r)'
  BY <1>2, <1>5 DEF IndInv, Ordered
<1>7. \A x \in Replica, r \in Old : Kept(x, r)'
  BY <1>2 DEF IndInv, Kept
<1> QED BY <1>4, <1>6, <1>7 DEF IndInv

\* A crash loses the minimum and the truncation in progress, nothing the files say.
LEMMA CrashKeeps ==
  ASSUME IndInv, NEW m \in Replica, Crash(m)
  PROVE  IndInv'
<1>1. /\ UNCHANGED <<leader, first, last, applied, appliedID, apply, snapped, kind>>
      /\ raftOn' = [raftOn EXCEPT ![m] = FALSE]
      /\ pend' = [pend EXCEPT ![m] = FALSE]
      /\ minAppliedID' = [minAppliedID EXCEPT ![m] = 0]
      /\ sched' = [sched EXCEPT ![m] = [pc |-> "idle", id |-> 0]]
  BY DEF Crash, diskVars, Idle
<1>2. IndexTypes'
  BY <1>1 DEF IndInv, IndexTypes
<1>3. ASSUME NEW r \in Replica PROVE Ordered(r)'
  <2>1. CASE r = m
    <3>1. raftOn'[r] = FALSE /\ pend'[r] = FALSE
      BY <1>1, <2>1 DEF IndInv, IndexTypes
    <3>2. sched'[r] = [pc |-> "idle", id |-> 0]
      BY <1>1, <2>1 DEF IndInv, IndexTypes
    <3> QED BY <1>1, <3>1, <3>2 DEF IndInv, Ordered
  <2>2. CASE r # m
    <3>1. raftOn'[r] = raftOn[r] /\ pend'[r] = pend[r] /\ sched'[r] = sched[r]
      BY <1>1, <2>2 DEF IndInv, IndexTypes
    <3> QED BY <1>1, <3>1 DEF IndInv, Ordered
  <2> QED BY <2>1, <2>2
<1>4. ASSUME NEW x \in Replica, NEW r \in Old PROVE Kept(x, r)'
  <2>1. last[r] \in Nat
    BY DEF IndInv, IndexTypes, Replica
  <2>2. minAppliedID'[x] <= last[r]
    <3>1. minAppliedID'[x] = 0 \/ minAppliedID'[x] = minAppliedID[x]
      BY <1>1 DEF IndInv, IndexTypes
    <3>2. minAppliedID[x] <= last[r]
      BY DEF IndInv, Kept
    <3> QED BY <2>1, <3>1, <3>2
  <2> QED BY <1>1, <2>2 DEF IndInv, Kept
<1> QED BY <1>2, <1>3, <1>4 DEF IndInv

\* Loading goes back to the id of the APPLY file, which is not below the log.
LEMMA LoadKeeps ==
  ASSUME IndInv, NEW m \in Replica, LoadDataPartition(m)
  PROVE  IndInv'
<1> DEFINE from == IF apply[m] = 0 THEN first[m] ELSE apply[m]
<1>1. /\ UNCHANGED <<leader, first, last, apply, minAppliedID, pend, snapped, kind, sched>>
      /\ raftOn' = [raftOn EXCEPT ![m] = kind[m] = "normal"]
      /\ applied' = [applied EXCEPT ![m] = from]
      /\ appliedID' = [appliedID EXCEPT ![m] = apply[m]]
      /\ kind[m] = "normal" => apply[m] = 0 \/ first[m] <= apply[m]
  BY DEF LoadDataPartition, Loadable, diskVars, histVars
<1>2. /\ first[m] \in Nat /\ apply[m] \in Nat /\ last[m] \in Nat /\ applied[m] \in Nat
      /\ appliedID[m] \in Nat
  BY DEF IndInv, IndexTypes
<1>2a. Ordered(m)
  BY DEF IndInv
<1>3. apply[m] = 0 \/ first[m] <= apply[m]
  BY <1>1, <1>2, <1>2a DEF Ordered
<1>4. /\ from \in Nat /\ first[m] <= from /\ from <= applied[m] /\ apply[m] <= from
  BY <1>2, <1>3, <1>2a DEF Ordered
<1> HIDE DEF from
<1>5. IndexTypes'
  BY <1>1, <1>2, <1>4 DEF IndInv, IndexTypes
<1>6. ASSUME NEW r \in Replica PROVE Ordered(r)'
  <2>1. CASE r = m
    <3>1. applied'[r] = from /\ appliedID'[r] = apply[m]
      BY <1>1, <2>1 DEF IndInv, IndexTypes
    <3>4. raftOn'[r] => kind[r] = "normal"
      <4>1. raftOn'[m] = (kind[m] = "normal")
        BY <1>1 DEF IndInv, IndexTypes
      <4> QED BY <2>1, <4>1
    <3>2. from <= last[m] /\ (pend[m] => from < last[m])
      BY <1>2, <1>4, <1>2a DEF Ordered
    <3>3. /\ ~snapped[m] => first[m] <= apply[m]
          /\ sched[m].pc = "store" => sched[m].id <= apply[m]
          /\ snapped[m] => kind[m] = "normal"
          /\ apply[m] <= apply[m]
      BY <1>2, <1>2a DEF Ordered
    <3> QED BY <1>1, <1>4, <2>1, <3>1, <3>2, <3>3, <3>4 DEF Ordered
  <2>2. CASE r # m
    BY <1>1, <2>2 DEF IndInv, IndexTypes, Ordered
  <2> QED BY <2>1, <2>2
<1>7. \A x \in Replica, r \in Old : Kept(x, r)'
  BY <1>1 DEF IndInv, Kept
<1> QED BY <1>5, <1>6, <1>7 DEF IndInv

\* The order of the indices is kept by every step.
THEOREM IndexInvariant == Spec => []IndInv
<1>1. IndInv /\ [Next]_vars => IndInv'
  <2> SUFFICES ASSUME IndInv, [Next]_vars PROVE IndInv'
    OBVIOUS
  <2>1. CASE UNCHANGED vars
    BY <2>1, IndexStutter DEF vars, indexVars, raftVars, idVars, diskVars, histVars
  <2>2. CASE Progress
    BY <2>2, RaftKeeps, SnapshotKeeps, ApplyKeeps, ScheduleKeeps, LoadKeeps, RepairKeeps,
       JoinKeeps DEF Progress
  <2>3. CASE \E r \in Replica : Elect(r) \/ Crash(r)
    BY <2>3, RaftKeeps, CrashKeeps
  <2> QED BY <2>1, <2>2, <2>3, RaftKeeps DEF Next
<1> QED BY <1>1, IndexInit, PTL DEF Spec

\* A crash at any moment leaves a partition that can be loaded: what the schedule of
\* StartRaftLoggingSchedule cuts from the log was stored as applied before.
THEOREM CrashRestart == Spec => []Restartable
<1>1. IndInv => Restartable
  BY DEF IndInv, IndexTypes, Ordered, Restartable, Loadable
<1> QED BY <1>1, IndexInvariant, PTL

\* The minimum of the applied ids bounds every cut, so no old member ever lacks an
\* entry that the leader has cut.
THEOREM LogKept == Spec => []OldKeepLog
<1>1. IndInv => OldKeepLog
  BY DEF IndInv, IndexTypes, Kept, OldKeepLog
<1> QED BY <1>1, IndexInvariant, PTL

----------------------------------------------------------------------------
(* What a replica holds *)
----------------------------------------------------------------------------
(* What a replica holds *)

\* A set of natural numbers has a least element.
LEMMA LeastNat ==
  ASSUME NEW S \in SUBSET Nat, S # {}
  PROVE  \E m \in S : \A k \in S : m <= k
<1> DEFINE R == OpToRel(<, Nat)
<1>1. IsWellFoundedOn(R, Nat)
  BY NatLessThanWellFounded
<1>2. \A i, j \in Nat : i < j => <<i, j>> \in R
  BY DEF OpToRel
<1> HIDE DEF R
<1>3. \E x \in S : \A y \in S : ~ (<<y, x>> \in R)
  BY <1>1, WFMin
<1>4. PICK m \in S : \A y \in S : ~ (<<y, m>> \in R)
  BY <1>3
<1>5. ASSUME NEW k \in S PROVE m <= k
  <2>1. ~ (k < m)
    BY <1>2, <1>4
  <2> QED BY <2>1
<1> QED BY <1>5

\* Max of a bounded set of natural numbers is a member of it.
LEMMA MaxIn ==
  ASSUME NEW n \in Nat, NEW S \in SUBSET (0..n), S # {}
  PROVE  Max(S) \in S
<1> DEFINE T == {u \in Nat : \A y \in S : y <= u}
<1>1. n \in T
  OBVIOUS
<1>2. PICK m \in T : \A k \in T : m <= k
  BY <1>1, LeastNat
<1>3. m \in S
  <2> SUFFICES ASSUME m \notin S PROVE FALSE
    OBVIOUS
  <2>1. \A y \in S : y <= m - 1
    OBVIOUS
  <2>2. m - 1 \in Nat
    <3>1. PICK y \in S : TRUE
      OBVIOUS
    <3>2. y <= m - 1 /\ y \in Nat /\ m \in Nat
      BY <2>1
    <3> QED BY <3>2
  <2>3. m - 1 \in T
    BY <2>1, <2>2
  <2> QED BY <1>2, <2>3
<1>4. \E x \in S : \A y \in S : x >= y
  BY <1>3
<1> QED BY <1>4 DEF Max

\* Max of two numbers.
LEMMA MaxOfTwo ==
  ASSUME NEW i \in Int, NEW j \in Int
  PROVE  Max({i, j}) = IF i <= j THEN j ELSE i
<1>1. \E x \in {i, j} : \A y \in {i, j} : x >= y
  <2>1. CASE i <= j
    BY <2>1
  <2>2. CASE ~(i <= j)
    BY <2>2
  <2> QED BY <2>1, <2>2
<1>2. Max({i, j}) \in {i, j} /\ \A y \in {i, j} : Max({i, j}) >= y
  BY <1>1 DEF Max
<1> QED BY <1>2

\* The log holds overwrites of blocks whose append was answered, and no index is
\* beyond its end; what a metadata file says is what the process believes it says.
Entry == {w \in [op : {"write", "add"}, e : Nat, b : Nat] :
            w.op = "write" => w.e \in Extent /\ w.b \in Acked(w.e)}

LogInv ==
  /\ log \in Seq(Entry)
  /\ metaAppliedID \in [Replica -> Nat] /\ lastTruncateID \in [Replica -> Nat]
  /\ known \in [Replica -> BOOLEAN]
  /\ meta \in [Replica -> [id : Nat, trunc : Nat, known : BOOLEAN]]
  /\ \A r \in Replica : /\ last[r] <= Len(log)
                        /\ metaAppliedID[r] <= Len(log)
                        /\ meta[r].id = metaAppliedID[r]

\* A replica in normal operation runs raft whenever its process runs, another one has
\* applied nothing; only a process that runs has streams, and rounds of the primary.
ProcInv ==
  /\ up \in [Replica -> BOOLEAN] /\ late \in [Replica -> BOOLEAN]
  /\ \A r \in Replica : /\ kind[r] # "normal" => applied[r] = 0 /\ ~pend[r]
                        /\ up[r] /\ kind[r] = "normal" => raftOn[r]
                        /\ stream[r] # {} => up[r]
  /\ round.phase # "idle" => up[Primary]
  /\ \A r \in Old : kind[r] = "normal"

\* The store, and the copies on their way to it.  Only extents that exist have data.
Carried == [e : Extent, src : Replica, at : Nat, to : Nat, buf : Seq(Int), cur : BOOLEAN]

Bounded(s) == s.at + Len(s.buf) <= s.to /\ s.to <= MaxSize

StoreInv ==
  /\ data \in [Replica -> [Extent -> [Blocks -> Int]]]
  /\ size \in [Replica -> [Extent -> -1..MaxSize]]
  /\ \A r \in Replica, e \in Extent, b \in Blocks : data[r][e][b] >= 0 => size[r][e] >= 0
  /\ stream \in [Replica -> SUBSET Carried]
  /\ \A r \in Replica : \A s \in stream[r] : Bounded(s)
  /\ round \in [phase : {"idle", "notify", "own"}, task : [Replica -> SUBSET TaskType],
                todo : SUBSET Replica]

Frame == LogInv /\ ProcInv /\ StoreInv

\* The frame holds initially.
LEMMA FrameInit == Init => Frame
<1> SUFFICES ASSUME Init PROVE Frame
  OBVIOUS
<1>0. Old \subseteq Replica /\ New \in Replica /\ Primary \in Old /\ MaxSize \in Nat
  BY PartitionAssumption DEF Replica
<1>1. LogInv
  <2>1. /\ log = <<>> /\ last = [r \in Replica |-> 0]
        /\ metaAppliedID = [r \in Replica |-> 0] /\ lastTruncateID = [r \in Replica |-> 0]
        /\ known = [r \in Replica |-> r = New]
        /\ meta = [r \in Replica |-> [id |-> 0, trunc |-> 0, known |-> r = New]]
    BY DEF Init
  <2>2. known \in [Replica -> BOOLEAN]
    BY <2>1
  <2>3. meta \in [Replica -> [id : Nat, trunc : Nat, known : BOOLEAN]]
    BY <2>1
  <2>4. log \in Seq(Entry) /\ Len(log) = 0
    BY <2>1
  <2> QED BY <2>1, <2>2, <2>3, <2>4 DEF LogInv
<1>2. ProcInv
  <2>1. /\ up = [r \in Replica |-> r \in Old] /\ late = [r \in Replica |-> FALSE]
        /\ kind = [r \in Replica |-> IF r \in Old THEN "normal" ELSE "none"]
        /\ applied = [r \in Replica |-> 0] /\ pend = [r \in Replica |-> FALSE]
        /\ raftOn = [r \in Replica |-> r \in Old]
        /\ stream = [r \in Replica |-> {}] /\ round.phase = "idle"
    BY DEF Init, NoRound
  <2>2. up \in [Replica -> BOOLEAN] /\ late \in [Replica -> BOOLEAN]
    BY <2>1
  <2>3. ASSUME NEW r \in Replica PROVE up[r] => raftOn[r]
    BY <2>1
  <2> QED BY <1>0, <2>1, <2>2, <2>3 DEF ProcInv
<1>3. StoreInv
  <2>1. plan \in Plans
    BY DEF Init
  <2>2. \A r \in Old, e \in Extent : plan.size[r][e] \in 0..MaxSize
    BY <2>1, PartitionAssumption
  <2>3. /\ size = [r \in Replica |-> [e \in Extent |-> IF r \in Old THEN plan.size[r][e] ELSE -1]]
        /\ data = [r \in Replica |-> [e \in Extent |-> [b \in Blocks |->
                     IF r \in Old /\ b <= plan.size[r][e] THEN 0 ELSE -1]]]
        /\ stream = [r \in Replica |-> {}]
        /\ round = [phase |-> "idle", task |-> [r \in Replica |-> {}], todo |-> {}]
    BY DEF Init, NoRound
  <2>4. data \in [Replica -> [Extent -> [Blocks -> Int]]]
    BY <2>3
  <2>5. size \in [Replica -> [Extent -> -1..MaxSize]]
    BY <1>0, <2>2, <2>3
  <2>6. ASSUME NEW r \in Replica, NEW e \in Extent, NEW b \in Blocks, data[r][e][b] >= 0
        PROVE  size[r][e] >= 0
    <3>1. data[r][e][b] = IF r \in Old /\ b <= plan.size[r][e] THEN 0 ELSE -1
      BY <2>3
    <3>2. r \in Old
      BY <2>6, <3>1
    <3> QED BY <2>2, <2>3, <3>2
  <2>7. round \in [phase : {"idle", "notify", "own"}, task : [Replica -> SUBSET TaskType],
                   todo : SUBSET Replica]
    BY <2>3
  <2> QED BY <2>3, <2>4, <2>5, <2>6, <2>7 DEF StoreInv
<1> QED BY <1>1, <1>2, <1>3 DEF Frame

\* How many entries of the log replica r has, in every block whose append was
\* answered; below n it has all of them.
Upto(r) == {n \in Nat : \A e \in Extent : \A b \in Acked(e) : HasUpTo(r, e, b, n)}

\* A replica has the entries up to the applied index, up to the id in the metadata
\* file (below which a replay skips entries), and the one that is being applied.
Current(r) ==
  /\ applied[r] \in Upto(r)
  /\ metaAppliedID[r] \in Upto(r)
  /\ pend[r] => applied[r] + 1 \in Upto(r)

Good(r) == kind[r] = "normal" /\ ~snapped[r] /\ ~late[r] => Current(r)

\* The plan, and with it the answered blocks, never changes.
LEMMA PlanFixed == ASSUME [Next]_vars PROVE plan' = plan
<1>1. CASE UNCHANGED vars
  BY <1>1 DEF vars, histVars
<1>2. ASSUME NEW r \in Replica, Replicate(r) \/ SendSnapshot(r) \/ Elect(r) \/ Crash(r)
                                \/ LoadDataPartition(r)
      PROVE  plan' = plan
  BY <1>2 DEF Replicate, SendSnapshot, Elect, Crash, LoadDataPartition, histVars
<1>3. ASSUME NEW r \in Replica, ApplyStep(r) PROVE plan' = plan
  BY <1>3 DEF ApplyStep, ApplySkip, ApplyRandomWrite, UploadApplyID, ApplyMemberChange,
              PersistApplyId, histVars
<1>4. ASSUME NEW r \in Replica, Schedule(r) PROVE plan' = plan
  BY <1>4 DEF Schedule, UpdateMinAppliedID, TruncateIdle, TruncateStore, TruncateCut,
              TruncatePersist, StoreAppliedID, histVars
<1>5. CASE Repair
  <2>1. ASSUME NEW r \in Replica, NEW s \in stream[r], RepairRead(r, s) \/ StreamRepairExtent(r, s)
        PROVE  plan' = plan
    BY <2>1 DEF RepairRead, StreamRepairExtent, histVars
  <2>2. ASSUME NEW r \in Replica, NotifyFollower(r) PROVE plan' = plan
    BY <2>2 DEF NotifyFollower, histVars
  <2>3. CASE BuildRepairTasks \/ FollowersDone \/ DoRepair \/ RepairDone
    BY <2>3 DEF BuildRepairTasks, FollowersDone, DoRepair, RepairDone, histVars
  <2> QED BY <1>5, <2>1, <2>2, <2>3 DEF Repair
<1>6. CASE Quiet \/ CreateReplica \/ WaitRepair \/ StartRaftAfterRepair
  BY <1>6 DEF Quiet, Age, CreateReplica, WaitRepair, StartRaftAfterRepair, histVars
<1>7. CASE (\E e \in Extent, b \in Blocks : RandomWriteSubmit(e, b)) \/ AddRaftMember
  BY <1>7 DEF RandomWriteSubmit, AddRaftMember, histVars
<1> QED BY <1>1, <1>2, <1>3, <1>4, <1>5, <1>6, <1>7 DEF Next, Progress

logVars == <<log, plan, last, metaAppliedID, lastTruncateID, known, meta>>

\* A step that leaves the log and the ids alone
LEMMA LogStutter == ASSUME LogInv, UNCHANGED logVars PROVE LogInv'
<1>1. Entry' = Entry
  BY DEF logVars, Entry, Acked
<1> QED BY <1>1 DEF LogInv, logVars

\* The log grows by an entry.
LEMMA CommitLog ==
  ASSUME LogInv, IndexTypes, NEW entry \in Entry, Commit(entry),
         UNCHANGED <<plan, metaAppliedID, lastTruncateID, known, meta>>
  PROVE  LogInv'
<1>1. log' = Append(log, entry)
  BY DEF Commit
<1>2. log \in Seq(Entry) /\ Len(log) \in Nat
  BY DEF LogInv
<1>3. /\ log' \in Seq(Entry) /\ Len(log') = Len(log) + 1
      /\ \A i \in 1..Len(log) : log'[i] = log[i]
      /\ log'[Len(log) + 1] = entry
  BY <1>1, <1>2
<1>4. Entry' = Entry
  BY DEF Entry, Acked
<1>5. ASSUME NEW r \in Replica PROVE last'[r] <= Len(log')
  <2>1. PICK Q \in SUBSET {x \in Members : Running(x) /\ last[x] = Len(log)} :
          last' = [x \in Replica |-> IF x \in Q THEN last[x] + 1 ELSE last[x]]
    BY DEF Commit
  <2>2. last[r] \in Nat /\ last[r] <= Len(log)
    BY DEF IndexTypes, LogInv
  <2>3. last'[r] = last[r] + 1 \/ last'[r] = last[r]
    BY <2>1
  <2> QED BY <1>2, <1>3, <2>2, <2>3
<1>6. ASSUME NEW r \in Replica PROVE metaAppliedID[r] <= Len(log')
  <2>1. metaAppliedID[r] \in Nat /\ metaAppliedID[r] <= Len(log)
    BY DEF LogInv
  <2> QED BY <1>2, <1>3, <2>1
<1> QED BY <1>3, <1>4, <1>5, <1>6 DEF LogInv

\* Replication moves the end of a member's log, not beyond the end of the log.
LEMMA MoveLog ==
  ASSUME LogInv, NEW n \in Nat, n <= Len(log), NEW m \in Replica,
         last \in [Replica -> Nat], last' = [last EXCEPT ![m] = n],
         UNCHANGED <<log, plan, metaAppliedID, lastTruncateID, known, meta>>
  PROVE  LogInv'
<1>1. \A r \in Replica : last'[r] <= Len(log)
  BY DEF LogInv
<1>2. Entry' = Entry
  BY DEF Entry, Acked
<1> QED BY <1>1, <1>2 DEF LogInv

\* PersistMetadata stores the applied id, which is in the log.
LEMMA PersistLog ==
  ASSUME LogInv, IndInv, NEW m \in Replica, NEW trunc \in Nat, NEW hosts \in BOOLEAN,
         PersistMetadata(m, trunc, hosts), known' \in [Replica -> BOOLEAN],
         UNCHANGED <<log, plan, last, lastTruncateID>>
  PROVE  LogInv'
<1>1. /\ meta' = [meta EXCEPT ![m] = [id |-> appliedID[m], trunc |-> trunc, known |-> hosts]]
      /\ metaAppliedID' = [metaAppliedID EXCEPT ![m] = appliedID[m]]
  BY DEF PersistMetadata
<1>2. /\ appliedID[m] \in Nat /\ appliedID[m] <= last[m] /\ last[m] <= Len(log)
      /\ metaAppliedID \in [Replica -> Nat] /\ last[m] \in Nat /\ Len(log) \in Nat
      /\ meta \in [Replica -> [id : Nat, trunc : Nat, known : BOOLEAN]]
  BY DEF IndInv, IndexTypes, Ordered, LogInv
<1>3. metaAppliedID' \in [Replica -> Nat]
  BY <1>1, <1>2
<1>4. meta' \in [Replica -> [id : Nat, trunc : Nat, known : BOOLEAN]]
  BY <1>1, <1>2
<1>5. ASSUME NEW r \in Replica
      PROVE  metaAppliedID'[r] <= Len(log) /\ meta'[r].id = metaAppliedID'[r]
  <2>1. CASE r = m
    BY <1>1, <1>2, <2>1
  <2>2. CASE r # m
    <3>1. metaAppliedID'[r] = metaAppliedID[r] /\ meta'[r] = meta[r]
      BY <1>1, <1>2, <2>2
    <3> QED BY <3>1 DEF LogInv
  <2> QED BY <2>1, <2>2
<1>6. Entry' = Entry
  BY DEF Entry, Acked
<1> QED BY <1>3, <1>4, <1>5, <1>6 DEF LogInv

\* No step takes an index beyond the end of the log.
LEMMA LogKeeps == ASSUME IndInv, LogInv, [Next]_vars PROVE LogInv'
<1>0. plan' = plan /\ New \in Replica /\ IndexTypes
  BY PlanFixed DEF Replica, IndInv
<1>1. CASE UNCHANGED vars
  BY <1>1, LogStutter DEF vars, raftVars, idVars, diskVars, histVars, logVars
<1>2. ASSUME NEW e \in Extent, NEW b \in Blocks, RandomWriteSubmit(e, b) PROVE LogInv'
  <2>1. Write(e, b) \in Entry
    <3>1. e \in Nat /\ b \in Nat /\ b \in Acked(e)
      BY <1>2, PartitionAssumption DEF RandomWriteSubmit, Blocks
    <3> QED BY <3>1 DEF Write, Entry
  <2> QED BY <1>0, <1>2, <2>1, CommitLog DEF RandomWriteSubmit, idVars, diskVars
<1>3. CASE AddRaftMember
  <2>1. Add \in Entry
    BY DEF Add, Entry
  <2> QED BY <1>0, <1>3, <2>1, CommitLog DEF AddRaftMember, idVars, diskVars
<1>4. ASSUME NEW r \in Replica, Replicate(r) PROVE LogInv'
  <2>1. /\ last' = [last EXCEPT ![r] = last[r] + 1] /\ last[r] < Len(log)
        /\ UNCHANGED <<log, metaAppliedID, lastTruncateID, known, meta>>
    BY <1>4 DEF Replicate, idVars, diskVars
  <2>2. last \in [Replica -> Nat] /\ last[r] + 1 \in Nat /\ last[r] + 1 <= Len(log)
    BY <2>1 DEF IndInv, IndexTypes, LogInv
  <2> QED BY <1>0, <2>1, <2>2, MoveLog
<1>5. ASSUME NEW r \in Replica, SendSnapshot(r) PROVE LogInv'
  <2>1. /\ last' = [last EXCEPT ![r] = applied[leader]]
        /\ UNCHANGED <<log, metaAppliedID, lastTruncateID, known, meta>>
    BY <1>5 DEF SendSnapshot, idVars, diskVars
  <2>2. /\ last \in [Replica -> Nat] /\ applied[leader] \in Nat /\ last[leader] \in Nat
        /\ applied[leader] <= last[leader] /\ last[leader] <= Len(log) /\ Len(log) \in Nat
    BY DEF IndInv, IndexTypes, Ordered, LogInv
  <2>3. applied[leader] <= Len(log)
    BY <2>2
  <2> QED BY <1>0, <2>1, <2>2, <2>3, MoveLog
<1>6. ASSUME NEW r \in Replica, ApplyStep(r) PROVE LogInv'
  <2>1. CASE ApplySkip(r) \/ ApplyRandomWrite(r) \/ UploadApplyID(r) \/ PersistApplyId(r)
    BY <2>1, LogStutter DEF ApplySkip, ApplyRandomWrite, UploadApplyID, PersistApplyId,
         logVars, raftVars, idVars, diskVars, histVars
  <2>2. CASE ApplyMemberChange(r)
    <3>1. /\ PersistMetadata(r, lastTruncateID[r], TRUE)
          /\ known' = [known EXCEPT ![r] = TRUE]
          /\ UNCHANGED <<log, last, lastTruncateID>>
      BY <2>2 DEF ApplyMemberChange, raftVars
    <3>2. lastTruncateID[r] \in Nat /\ known' \in [Replica -> BOOLEAN]
      BY <3>1 DEF LogInv
    <3> QED BY <1>0, <3>1, <3>2, PersistLog
  <2> QED BY <1>6, <2>1, <2>2 DEF ApplyStep
<1>7. ASSUME NEW r \in Replica, Schedule(r) PROVE LogInv'
  <2>1. CASE UpdateMinAppliedID(r) \/ TruncateIdle(r) \/ TruncateStore(r) \/ StoreAppliedID(r)
    BY <2>1, LogStutter DEF UpdateMinAppliedID, TruncateIdle, TruncateStore, StoreAppliedID,
         logVars, raftVars, idVars, diskVars, histVars
  <2>2. CASE TruncateCut(r)
    <3>1. /\ lastTruncateID' = [lastTruncateID EXCEPT ![r] = TruncIndex(r)]
          /\ UNCHANGED <<log, last, metaAppliedID, known, meta>>
      BY <2>2 DEF TruncateCut, diskVars
    <3>2. TruncIndex(r) \in Nat
      BY DEF IndInv, IndexTypes, TruncIndex, Lesser
    <3>3. lastTruncateID' \in [Replica -> Nat]
      BY <3>1, <3>2 DEF LogInv
    <3>4. Entry' = Entry
      BY <1>0 DEF Entry, Acked
    <3> QED BY <3>1, <3>3, <3>4 DEF LogInv
  <2>3. CASE TruncatePersist(r)
    <3>1. /\ PersistMetadata(r, lastTruncateID[r], known[r])
          /\ UNCHANGED <<log, last, lastTruncateID, known>>
      BY <2>3 DEF TruncatePersist, raftVars
    <3>2. lastTruncateID[r] \in Nat /\ known[r] \in BOOLEAN /\ known' \in [Replica -> BOOLEAN]
      BY <3>1 DEF LogInv
    <3> QED BY <1>0, <3>1, <3>2, PersistLog
  <2> QED BY <1>7, <2>1, <2>2, <2>3 DEF Schedule
<1>8. CASE StartRaftAfterRepair
  <2>1. /\ PersistMetadata(New, lastTruncateID[New], known[New])
        /\ UNCHANGED <<log, last, lastTruncateID, known>>
    BY <1>8 DEF StartRaftAfterRepair
  <2>2. lastTruncateID[New] \in Nat /\ known[New] \in BOOLEAN /\ known' \in [Replica -> BOOLEAN]
    BY <1>0, <2>1 DEF LogInv
  <2> QED BY <1>0, <2>1, <2>2, PersistLog
<1>9. ASSUME NEW r \in Replica, LoadDataPartition(r) PROVE LogInv'
  <2>1. /\ metaAppliedID' = [metaAppliedID EXCEPT ![r] = meta[r].id]
        /\ lastTruncateID' = [lastTruncateID EXCEPT ![r] = meta[r].trunc]
        /\ known' = [known EXCEPT ![r] = meta[r].known]
        /\ UNCHANGED <<log, last, meta>>
    BY <1>9 DEF LoadDataPartition, diskVars
  <2>2. /\ meta[r] \in [id : Nat, trunc : Nat, known : BOOLEAN]
        /\ meta[r].id = metaAppliedID[r]
    BY DEF LogInv
  <2>3. metaAppliedID' = metaAppliedID
    BY <2>1, <2>2 DEF LogInv
  <2>4. lastTruncateID' \in [Replica -> Nat]
    BY <2>1, <2>2 DEF LogInv
  <2>5. known' \in [Replica -> BOOLEAN]
    BY <2>1, <2>2 DEF LogInv
  <2>6. Entry' = Entry
    BY <1>0 DEF Entry, Acked
  <2> QED BY <2>1, <2>3, <2>4, <2>5, <2>6 DEF LogInv
<1>10. ASSUME NEW r \in Replica, Elect(r) \/ Crash(r) PROVE LogInv'
  BY <1>10, LogStutter DEF Elect, Crash, logVars, raftVars, idVars, diskVars, histVars
<1>11. CASE Repair
  <2>1. ASSUME NEW r \in Replica, NEW s \in stream[r], RepairRead(r, s) \/ StreamRepairExtent(r, s)
        PROVE  LogInv'
    BY <2>1, LogStutter DEF RepairRead, StreamRepairExtent, logVars, raftVars, idVars, diskVars,
         histVars
  <2>2. ASSUME NEW r \in Replica, NotifyFollower(r) PROVE LogInv'
    BY <2>2, LogStutter DEF NotifyFollower, logVars, raftVars, idVars, diskVars, histVars
  <2>3. CASE BuildRepairTasks \/ FollowersDone \/ DoRepair \/ RepairDone
    BY <2>3, LogStutter DEF BuildRepairTasks, FollowersDone, DoRepair, RepairDone, logVars,
         raftVars, idVars, diskVars, histVars
  <2> QED BY <1>11, <2>1, <2>2, <2>3 DEF Repair
<1>12. CASE Quiet \/ CreateReplica \/ WaitRepair
  <2>1. ASSUME NEW r \in Replica, NEW e \in Extent, Age(r, e) PROVE LogInv'
    BY <2>1, LogStutter DEF Age, logVars, raftVars, idVars, diskVars, histVars
  <2>2. CASE CreateReplica \/ WaitRepair
    BY <2>2, LogStutter DEF CreateReplica, WaitRepair, logVars, raftVars, idVars, diskVars,
         histVars
  <2> QED BY <1>12, <2>1, <2>2 DEF Quiet
<1> QED BY <1>1, <1>2, <1>3, <1>4, <1>5, <1>6, <1>7, <1>8, <1>9, <1>10, <1>11, <1>12
        DEF Next, Progress

procVars == <<up, late, kind, applied, pend, raftOn, stream, round>>

\* A step that leaves the processes alone
LEMMA ProcStutter == ASSUME ProcInv, UNCHANGED procVars PROVE ProcInv'
  BY DEF ProcInv, procVars

\* A step of a replica in normal operation that moves its applied index
LEMMA ProcApply ==
  ASSUME ProcInv, IndexTypes, NEW m \in Replica, kind[m] = "normal",
         kind' = kind \/ kind' = [kind EXCEPT ![m] = "normal"],
         \A r \in Replica \ {m} : applied'[r] = applied[r] /\ pend'[r] = pend[r],
         UNCHANGED <<up, late, raftOn, stream, round>>
  PROVE  ProcInv'
<1>1. kind' = kind
  BY DEF IndexTypes
<1>2. ASSUME NEW r \in Replica, kind[r] # "normal" PROVE applied'[r] = 0 /\ ~pend'[r]
  BY <1>2 DEF ProcInv
<1> QED BY <1>1, <1>2 DEF ProcInv

\* A round of the primary, and the streams it begins, on replicas that run
LEMMA ProcRepair ==
  ASSUME ProcInv, UNCHANGED <<up, kind, applied, pend, raftOn>>,
         late' \in [Replica -> BOOLEAN],
         \A r \in Replica : stream'[r] # {} => stream[r] # {} \/ up[r],
         round'.phase # "idle" => up[Primary]
  PROVE  ProcInv'
<1>1. \A r \in Replica : stream'[r] # {} => up[r]
  BY DEF ProcInv
<1> QED BY <1>1 DEF ProcInv

\* Every step keeps what is said of the processes.
LEMMA ProcKeeps == ASSUME IndInv, StoreInv, ProcInv, [Next]_vars PROVE ProcInv'
<1>0. /\ New \in Replica /\ New \notin Old /\ Old \subseteq Replica /\ Primary \in Old
      /\ IndexTypes
  BY PartitionAssumption DEF Replica, IndInv
<1>1. CASE UNCHANGED vars
  BY <1>1, ProcStutter DEF vars, raftVars, repairVars, diskVars, histVars, procVars
<1>2. CASE (\E e \in Extent, b \in Blocks : RandomWriteSubmit(e, b)) \/ AddRaftMember
  BY <1>2, ProcStutter DEF RandomWriteSubmit, AddRaftMember, repairVars, diskVars, histVars, procVars
<1>3. ASSUME NEW r \in Replica, Replicate(r) \/ Elect(r) \/ Schedule(r) PROVE ProcInv'
  <2>1. CASE Replicate(r) \/ Elect(r)
    BY <2>1, ProcStutter DEF Replicate, Elect, repairVars, diskVars, histVars, procVars
  <2>2. CASE Schedule(r)
    BY <2>2, ProcStutter DEF Schedule, UpdateMinAppliedID, TruncateIdle, TruncateStore,
         TruncateCut, TruncatePersist, StoreAppliedID, raftVars, repairVars, diskVars,
         histVars, procVars
  <2> QED BY <1>3, <2>1, <2>2
<1>4. ASSUME NEW r \in Replica, SendSnapshot(r) \/ ApplyStep(r) PROVE ProcInv'
  <2>1. raftOn[r]
    BY <1>4 DEF SendSnapshot, ApplyStep, ApplySkip, ApplyRandomWrite, UploadApplyID,
         ApplyMemberChange, PersistApplyId, CanApply, Running
  <2>2. kind[r] = "normal"
    BY <2>1 DEF IndInv, Ordered
  <2>3. CASE SendSnapshot(r)
    <3>1. /\ applied' = [applied EXCEPT ![r] = applied[leader]]
          /\ UNCHANGED <<up, late, kind, pend, raftOn, stream, round>>
      BY <2>3 DEF SendSnapshot, repairVars, diskVars
    <3> QED BY <1>0, <2>2, <3>1, ProcApply DEF IndexTypes
  <2>4. CASE ApplyStep(r)
    <3>1. /\ UNCHANGED <<up, late, raftOn, stream, round>>
          /\ kind' = kind \/ kind' = [kind EXCEPT ![r] = "normal"]
          /\ applied' = applied \/ applied' = [applied EXCEPT ![r] = @ + 1]
          /\ pend' = pend \/ pend' = [pend EXCEPT ![r] = TRUE] \/ pend' = [pend EXCEPT ![r] = FALSE]
      BY <2>4 DEF ApplyStep, ApplySkip, ApplyRandomWrite, UploadApplyID, ApplyMemberChange,
           PersistApplyId, raftVars, repairVars, diskVars, histVars
    <3>2. \A x \in Replica \ {r} : applied'[x] = applied[x] /\ pend'[x] = pend[x]
      BY <1>0, <3>1 DEF IndexTypes
    <3> QED BY <1>0, <2>2, <3>1, <3>2, ProcApply
  <2> QED BY <1>4, <2>3, <2>4
<1>5. CASE Repair
  <2>1. ASSUME NEW r \in Replica, NEW s \in stream[r], RepairRead(r, s) PROVE ProcInv'
    <3>1. /\ UNCHANGED <<up, kind, applied, pend, raftOn, late, round>>
          /\ stream' = [stream EXCEPT ![r] = (@ \ {s}) \cup
               {[s EXCEPT !.buf = Append(@, data[s.src][s.e][s.at + Len(s.buf) + 1])]}]
      BY <2>1 DEF RepairRead, raftVars, diskVars, histVars
    <3>2. \A x \in Replica : stream'[x] # {} => stream[x] # {}
      BY <3>1 DEF StoreInv
    <3> QED BY <3>1, <3>2, ProcRepair DEF ProcInv
  <2>2. ASSUME NEW r \in Replica, NEW s \in stream[r], StreamRepairExtent(r, s) PROVE ProcInv'
    <3> DEFINE t == [s EXCEPT !.at = @ + 1, !.buf = Tail(@)]
    <3>1. /\ UNCHANGED <<up, kind, applied, pend, raftOn, round>>
          /\ stream' = [stream EXCEPT ![r] = (@ \ {s}) \cup (IF t.at < t.to THEN {t} ELSE {})]
          /\ late' = [late EXCEPT ![r] = @ \/ (raftOn[r] /\ t.at \in Acked(s.e))]
      BY <2>2 DEF StreamRepairExtent, raftVars, diskVars
    <3> HIDE DEF t
    <3>2. \A x \in Replica : stream'[x] # {} => stream[x] # {}
      BY <3>1 DEF StoreInv
    <3>3. late' \in [Replica -> BOOLEAN]
      BY <3>1 DEF ProcInv
    <3> QED BY <3>1, <3>2, <3>3, ProcRepair DEF ProcInv
  <2>3. ASSUME NEW r \in Replica, NotifyFollower(r) PROVE ProcInv'
    <3>1. /\ UNCHANGED <<up, kind, applied, pend, raftOn, late>>
          /\ round.phase = "notify" /\ round' = [round EXCEPT !.todo = @ \ {r}]
          /\ \/ stream' = stream
             \/ up[r] /\ stream' = [stream EXCEPT ![r] = @ \cup Streams(r, round.task[r])]
      BY <2>3 DEF NotifyFollower, raftVars, diskVars, histVars
    <3>2. \A x \in Replica : stream'[x] # {} => stream[x] # {} \/ up[x]
      BY <3>1 DEF StoreInv
    <3> QED BY <3>1, <3>2, ProcRepair DEF ProcInv
  <2>4. CASE DoRepair
    <3>1. PICK u \in round.task[Primary] :
             /\ round' = [round EXCEPT !.task[Primary] = @ \ {u}]
             /\ stream' = [stream EXCEPT ![Primary] = @ \cup Streams(Primary, {u})]
      BY <2>4 DEF DoRepair
    <3>2. /\ UNCHANGED <<up, kind, applied, pend, raftOn, late>>
          /\ round.phase = "own"
      BY <2>4 DEF DoRepair, raftVars, diskVars, histVars
    <3>3. up[Primary]
      BY <3>2 DEF ProcInv
    <3>4. \A x \in Replica : stream'[x] # {} => stream[x] # {} \/ up[x]
      BY <1>0, <3>1, <3>3 DEF StoreInv
    <3> QED BY <3>2, <3>3, <3>4, ProcRepair DEF ProcInv
  <2>5. CASE BuildRepairTasks
    BY <2>5, ProcRepair DEF BuildRepairTasks, raftVars, diskVars, histVars, ProcInv
  <2>6. CASE FollowersDone
    <3>1. /\ UNCHANGED <<up, kind, applied, pend, raftOn, late, stream>>
          /\ round.phase = "notify"
      BY <2>6 DEF FollowersDone, raftVars, diskVars, histVars
    <3> QED BY <3>1, ProcRepair DEF ProcInv
  <2>7. CASE RepairDone
    BY <2>7, ProcRepair DEF RepairDone, NoRound, raftVars, diskVars, histVars, ProcInv
  <2> QED BY <1>5, <2>1, <2>2, <2>3, <2>4, <2>5, <2>6, <2>7 DEF Repair
<1>6. CASE Quiet \/ WaitRepair
  BY <1>6, ProcStutter DEF Quiet, Age, WaitRepair, raftVars, repairVars, diskVars, histVars, procVars
<1>7. CASE CreateReplica
  <2>1. /\ kind[New] = "none" /\ kind' = [kind EXCEPT ![New] = "recover"]
        /\ up' = [up EXCEPT ![New] = TRUE]
        /\ UNCHANGED <<late, applied, pend, raftOn, stream, round>>
    BY <1>7 DEF CreateReplica, raftVars, repairVars, histVars
  <2>2. up' \in [Replica -> BOOLEAN]
    BY <1>0, <2>1 DEF ProcInv
  <2>3. /\ kind'[New] = "recover" /\ up'[New] = TRUE
        /\ \A r \in Replica \ {New} : kind'[r] = kind[r] /\ up'[r] = up[r]
    BY <1>0, <2>1 DEF IndexTypes, ProcInv
  <2>4. ASSUME NEW r \in Replica
        PROVE  /\ kind'[r] # "normal" => applied'[r] = 0 /\ ~pend'[r]
               /\ up'[r] /\ kind'[r] = "normal" => raftOn'[r]
               /\ stream'[r] # {} => up'[r]
    <3>1. CASE r = New
      BY <2>1, <2>3, <3>1 DEF ProcInv
    <3>2. CASE r # New
      BY <2>1, <2>3, <3>2 DEF ProcInv
    <3> QED BY <3>1, <3>2
  <2> QED BY <1>0, <2>1, <2>2, <2>3, <2>4 DEF ProcInv
<1>8. CASE StartRaftAfterRepair
  <2>1. /\ kind' = [kind EXCEPT ![New] = "normal"]
        /\ raftOn' = [raftOn EXCEPT ![New] = TRUE]
        /\ UNCHANGED <<up, late, applied, pend, stream, round>>
    BY <1>8 DEF StartRaftAfterRepair, histVars
  <2>2. /\ kind'[New] = "normal" /\ raftOn'[New] = TRUE
        /\ \A r \in Replica \ {New} : kind'[r] = kind[r] /\ raftOn'[r] = raftOn[r]
    BY <1>0, <2>1 DEF IndexTypes
  <2> QED BY <1>0, <2>1, <2>2 DEF ProcInv
<1>9. ASSUME NEW m \in Replica, Crash(m) PROVE ProcInv'
  <2>1. /\ up' = [up EXCEPT ![m] = FALSE]
        /\ raftOn' = [raftOn EXCEPT ![m] = FALSE]
        /\ pend' = [pend EXCEPT ![m] = FALSE]
        /\ round' = IF m = Primary THEN NoRound ELSE round
        /\ UNCHANGED <<kind, applied, late>>
    BY <1>9 DEF Crash, diskVars
  <2>2. stream' = [x \in Replica |->
          IF x = m THEN {}
          ELSE {IF m = Primary THEN [s EXCEPT !.cur = FALSE] ELSE s : s \in Cut(stream[x], m)}]
    BY <1>9 DEF Crash
  <2>3. up' \in [Replica -> BOOLEAN]
    BY <2>1 DEF ProcInv
  <2>4. /\ up'[m] = FALSE /\ pend'[m] = FALSE
        /\ \A r \in Replica \ {m} : up'[r] = up[r] /\ raftOn'[r] = raftOn[r] /\ pend'[r] = pend[r]
    BY <1>0, <2>1 DEF IndexTypes, ProcInv
  <2>5. stream'[m] = {} /\ \A r \in Replica \ {m} : stream'[r] # {} => stream[r] # {}
    <3>1. stream'[m] = {}
      BY <2>2
    <3>2. ASSUME NEW r \in Replica \ {m}, stream[r] = {} PROVE stream'[r] = {}
      <4>1. Cut(stream[r], m) = {}
        BY <3>2 DEF Cut
      <4> QED BY <2>2, <4>1
    <3> QED BY <3>1, <3>2
  <2>6. ASSUME NEW r \in Replica
        PROVE  /\ kind'[r] # "normal" => applied'[r] = 0 /\ ~pend'[r]
               /\ up'[r] /\ kind'[r] = "normal" => raftOn'[r]
               /\ stream'[r] # {} => up'[r]
    <3>1. CASE r = m
      BY <2>1, <2>4, <2>5, <3>1 DEF ProcInv
    <3>2. CASE r # m
      BY <2>1, <2>4, <2>5, <3>2 DEF ProcInv
    <3> QED BY <3>1, <3>2
  <2>7. round'.phase # "idle" => up'[Primary]
    <3>1. CASE m = Primary
      BY <2>1, <3>1 DEF NoRound
    <3>2. CASE m # Primary
      BY <1>0, <2>1, <2>4, <3>2 DEF ProcInv
    <3> QED BY <3>1, <3>2
  <2> QED BY <2>1, <2>3, <2>6, <2>7 DEF ProcInv
<1>10. ASSUME NEW m \in Replica, LoadDataPartition(m) PROVE ProcInv'
  <2>1. /\ ~up[m]
        /\ up' = [up EXCEPT ![m] = TRUE]
        /\ raftOn' = [raftOn EXCEPT ![m] = kind[m] = "normal"]
        /\ applied' = [applied EXCEPT ![m] = IF apply[m] = 0 THEN first[m] ELSE apply[m]]
        /\ UNCHANGED <<kind, late, pend, stream, round>>
    BY <1>10 DEF LoadDataPartition, repairVars, diskVars, histVars
  <2>2. up' \in [Replica -> BOOLEAN]
    BY <2>1 DEF ProcInv
  <2>3. /\ up'[m] = TRUE /\ raftOn'[m] = (kind[m] = "normal")
        /\ \A r \in Replica \ {m} : up'[r] = up[r] /\ raftOn'[r] = raftOn[r] /\ applied'[r] = applied[r]
    BY <1>0, <2>1 DEF IndexTypes, ProcInv
  <2>4. applied[m] = 0 => applied'[m] = 0
    BY <2>1 DEF IndInv, IndexTypes, Ordered
  <2>5. ASSUME NEW r \in Replica
        PROVE  /\ kind'[r] # "normal" => applied'[r] = 0 /\ ~pend'[r]
               /\ up'[r] /\ kind'[r] = "normal" => raftOn'[r]
               /\ stream'[r] # {} => up'[r]
    <3>1. CASE r = m
      BY <2>1, <2>3, <2>4, <3>1 DEF ProcInv
    <3>2. CASE r # m
      BY <2>1, <2>3, <3>2 DEF ProcInv
    <3> QED BY <3>1, <3>2
  <2>6. round'.phase # "idle" => up'[Primary]
    BY <1>0, <2>1, <2>3 DEF ProcInv
  <2> QED BY <2>1, <2>2, <2>5, <2>6 DEF ProcInv
<1> QED BY <1>1, <1>2, <1>3, <1>4, <1>5, <1>6, <1>7, <1>8, <1>9, <1>10 DEF Next, Progress

\* The longest copy is one of those that were reported.
LEMMA SourceIn ==
  ASSUME StoreInv, NEW e \in Extent, NEW S \in SUBSET Replica, S # {}
  PROVE  Source(e, S) \in S
<1> DEFINE T == {MaxSize - size[x][e] : x \in S}
           best == {r \in S : \A x \in S : size[x][e] <= size[r][e]}
<1>1. \A x \in S : size[x][e] \in -1..MaxSize /\ MaxSize \in Nat
  BY PartitionAssumption DEF StoreInv
<1>2. T \in SUBSET Nat /\ T # {}
  BY <1>1
<1>3. PICK m \in T : \A k \in T : m <= k
  BY <1>2, LeastNat
<1>4. PICK r \in S : m = MaxSize - size[r][e]
  BY <1>3
<1>5. ASSUME NEW x \in S PROVE size[x][e] <= size[r][e]
  <2>1. m <= MaxSize - size[x][e]
    BY <1>3
  <2> QED BY <1>1, <1>4, <2>1
<1>6. best # {} /\ best \subseteq S
  BY <1>5
<1>7. Source(e, S) = IF Primary \in best THEN Primary
                     ELSE IF best \cap Old # {} THEN CHOOSE x \in best \cap Old : TRUE
                     ELSE CHOOSE x \in best : TRUE
  BY DEF Source
<1> HIDE DEF best
<1>8. CASE Primary \in best
  BY <1>6, <1>7, <1>8
<1>9. CASE Primary \notin best /\ best \cap Old # {}
  <2>1. (CHOOSE x \in best \cap Old : TRUE) \in best \cap Old
    BY <1>9
  <2> QED BY <1>6, <1>7, <1>9, <2>1
<1>10. CASE Primary \notin best /\ best \cap Old = {}
  <2>1. (CHOOSE x \in best : TRUE) \in best
    BY <1>6
  <2> QED BY <1>6, <1>7, <1>10, <2>1
<1> QED BY <1>8, <1>9, <1>10

\* The tasks of a round name copies that exist.
LEMMA TaskTyped ==
  ASSUME StoreInv, NEW r \in Replica, NEW S \in SUBSET Replica
  PROVE  Task(r, S) \in SUBSET TaskType
<1> DEFINE holders(e) == {x \in S : e \in Watermarks(x)}
           from(e) == Source(e, holders(e))
<1>1. ASSUME NEW e \in Extent, holders(e) # {}
      PROVE  from(e) \in Replica /\ size[from(e)][e] \in 0..MaxSize
  <2>1. holders(e) \in SUBSET Replica
    OBVIOUS
  <2>2. from(e) \in holders(e)
    BY <1>1, <2>1, SourceIn
  <2>3. from(e) \in Replica /\ e \in Watermarks(from(e))
    BY <2>2
  <2> HIDE DEF from, holders
  <2>4. size[from(e)][e] >= 0 /\ size[from(e)][e] \in -1..MaxSize
    BY <2>3 DEF Watermarks, StoreInv
  <2> QED BY <2>3, <2>4
<1>2. ASSUME NEW u \in Task(r, S) PROVE u \in TaskType
  <2>1. PICK e \in Extent : holders(e) # {}
                            /\ u = [e |-> e, src |-> from(e), to |-> size[from(e)][e]]
    BY <1>2 DEF Task
  <2> HIDE DEF from, holders
  <2> QED BY <1>1, <2>1 DEF TaskType
<1> QED BY <1>2

\* The streams of a task begin at the local size and end at the task's.
LEMMA StreamsTyped ==
  ASSUME StoreInv, NEW r \in Replica, NEW tasks \in SUBSET TaskType
  PROVE  Streams(r, tasks) \in SUBSET Carried /\ \A s \in Streams(r, tasks) : Bounded(s)
<1>1. ASSUME NEW s \in Streams(r, tasks) PROVE s \in Carried /\ Bounded(s)
  <2>1. PICK u \in tasks : /\ size[r][u.e] < u.to
                           /\ s = [e |-> u.e, src |-> u.src, at |-> Max({size[r][u.e], 0}),
                                   to |-> u.to, buf |-> <<>>, cur |-> TRUE]
    BY <1>1 DEF Streams
  <2>2. u.e \in Extent /\ u.src \in Replica /\ u.to \in 0..MaxSize /\ MaxSize \in Nat
    BY PartitionAssumption DEF TaskType
  <2>3. size[r][u.e] \in Int
    BY <2>2 DEF StoreInv
  <2>4. Max({size[r][u.e], 0}) \in Nat /\ Max({size[r][u.e], 0}) <= u.to
    <3> DEFINE n == size[r][u.e]
    <3>1. n \in Int /\ 0 \in Int /\ n < u.to /\ u.to \in Nat
      BY <2>1, <2>2, <2>3
    <3> HIDE DEF n
    <3>2. Max({n, 0}) = IF n <= 0 THEN 0 ELSE n
      BY <3>1, MaxOfTwo
    <3>3. Max({n, 0}) \in Nat /\ Max({n, 0}) <= u.to
      BY <3>1, <3>2
    <3> QED BY <3>3 DEF n
  <2>5. <<>> \in Seq(Int) /\ Len(<<>>) = 0
    OBVIOUS
  <2>6. s \in Carried
    BY <2>1, <2>2, <2>4, <2>5 DEF Carried
  <2>7. s.at = Max({size[r][u.e], 0}) /\ s.to = u.to /\ s.buf = <<>>
    BY <2>1
  <2>8. Bounded(s)
    BY <2>2, <2>4, <2>5, <2>7 DEF Bounded
  <2> QED BY <2>6, <2>8
<1> QED BY <1>1

\* Creating the missing extents makes no extent shorter.
LEMMA CreatedTyped ==
  ASSUME StoreInv, NEW m \in Replica, NEW tasks
  PROVE  /\ Created(m, tasks) \in [Replica -> [Extent -> -1..MaxSize]]
         /\ \A r \in Replica, e \in Extent : size[r][e] >= 0 => Created(m, tasks)[r][e] >= 0
<1> DEFINE new == [e \in Extent |-> IF e \in Missing(m, tasks) THEN 0 ELSE size[m][e]]
<1>1. Created(m, tasks) = [size EXCEPT ![m] = new]
  BY DEF Created
<1>2. MaxSize \in Nat /\ size \in [Replica -> [Extent -> -1..MaxSize]]
  BY PartitionAssumption DEF StoreInv
<1>3. new \in [Extent -> -1..MaxSize] /\ \A e \in Extent : new[e] = 0 \/ new[e] = size[m][e]
  BY <1>2
<1> HIDE DEF new
<1> QED BY <1>1, <1>2, <1>3

\* The length of a file, when a partition is loaded
LEMMA LoadedTyped ==
  ASSUME StoreInv, NEW m \in Replica
  PROVE  /\ LoadedSize(m) \in [Extent -> -1..MaxSize]
         /\ \A e \in Extent : size[m][e] >= 0 => LoadedSize(m)[e] >= 0
<1>1. ASSUME NEW e \in Extent
      PROVE  Max({b \in Blocks : data[m][e][b] >= 0} \cup {0}) \in 0..MaxSize
  <2> DEFINE S == {b \in Blocks : data[m][e][b] >= 0} \cup {0}
  <2>1. MaxSize \in Nat
    BY PartitionAssumption
  <2>2. S \in SUBSET (0..MaxSize) /\ S # {}
    BY <2>1 DEF Blocks
  <2> HIDE DEF S
  <2>3. Max(S) \in S
    BY <2>1, <2>2, MaxIn
  <2> QED BY <2>2, <2>3 DEF S
<1>2. MaxSize \in Nat /\ \A e \in Extent : size[m][e] \in Int
  BY PartitionAssumption DEF StoreInv
<1> QED BY <1>1, <1>2 DEF LoadedSize

copyVars == <<data, size, stream, round>>

\* A step that leaves the store and the copies alone
LEMMA StoreStutter == ASSUME StoreInv, UNCHANGED copyVars PROVE StoreInv'
  BY DEF StoreInv, copyVars, Bounded

\* A follower gets its tasks, or the primary begins one of its own.
LEMMA StoreNotified ==
  ASSUME StoreInv, NEW m \in Replica, NEW tasks \in SUBSET TaskType,
         size' = Created(m, tasks),
         stream' = [stream EXCEPT ![m] = @ \cup Streams(m, tasks)],
         data' = data,
         round' \in [phase : {"idle", "notify", "own"}, task : [Replica -> SUBSET TaskType],
                     todo : SUBSET Replica]
  PROVE  StoreInv'
<1>1. /\ size' \in [Replica -> [Extent -> -1..MaxSize]]
      /\ \A r \in Replica, e \in Extent : size[r][e] >= 0 => size'[r][e] >= 0
  BY CreatedTyped
<1>2. Streams(m, tasks) \in SUBSET Carried /\ \A s \in Streams(m, tasks) : Bounded(s)
  BY StreamsTyped
<1>3. /\ stream \in [Replica -> SUBSET Carried]
      /\ \A r \in Replica : \A s \in stream[r] : Bounded(s)
  BY DEF StoreInv
<1>4. stream' \in [Replica -> SUBSET Carried]
  BY <1>2, <1>3
<1>5. ASSUME NEW r \in Replica, NEW s \in stream'[r] PROVE Bounded(s)
  BY <1>2, <1>3, <1>5
<1>6. \A r \in Replica : \A s \in stream'[r] : s.at + Len(s.buf) <= s.to /\ s.to <= MaxSize
  BY <1>5 DEF Bounded
<1> QED BY <1>1, <1>4, <1>6 DEF StoreInv, Bounded

\* A stream moves on, is cut short or ends.
LEMMA StreamMoved ==
  ASSUME StoreInv, NEW m \in Replica, NEW s, NEW X \in SUBSET Carried, \A x \in X : Bounded(x),
         stream' = [stream EXCEPT ![m] = (@ \ {s}) \cup X]
  PROVE  /\ stream' \in [Replica -> SUBSET Carried]
         /\ \A r \in Replica : \A x \in stream'[r] : Bounded(x)
<1>1. /\ stream \in [Replica -> SUBSET Carried]
      /\ \A r \in Replica : \A x \in stream[r] : Bounded(x)
  BY DEF StoreInv
<1> QED BY <1>1

\* The source sends a block.
LEMMA StoreRead ==
  ASSUME StoreInv, NEW m \in Replica, NEW s \in stream[m], RepairRead(m, s)
  PROVE  StoreInv'
<1> DEFINE d == data[s.src][s.e][s.at + Len(s.buf) + 1]
           t == [s EXCEPT !.buf = Append(@, d)]
<1>1. /\ s.at + Len(s.buf) < s.to
      /\ stream' = [stream EXCEPT ![m] = (@ \ {s}) \cup {t}]
      /\ UNCHANGED <<data, size, round>>
  BY DEF RepairRead, storeVars
<1>2. s \in Carried /\ Bounded(s) /\ MaxSize \in Nat
  BY PartitionAssumption DEF StoreInv
<1>3. /\ s.src \in Replica /\ s.e \in Extent /\ s.at \in Nat /\ s.to \in Nat
      /\ s.buf \in Seq(Int) /\ Len(s.buf) \in Nat
  BY <1>2 DEF Carried
<1>4. d \in Int
  <2>1. s.at + Len(s.buf) + 1 \in Blocks
    BY <1>1, <1>2, <1>3 DEF Blocks, Bounded
  <2> QED BY <1>3, <2>1 DEF StoreInv
<1>5. Append(s.buf, d) \in Seq(Int) /\ Len(Append(s.buf, d)) = Len(s.buf) + 1
  BY <1>3, <1>4
<1> HIDE DEF d
<1>6. t \in Carried
  <2> DEFINE buf == Append(s.buf, d)
  <2>1. buf \in Seq(Int) /\ t = [s EXCEPT !.buf = buf]
    BY <1>5
  <2> HIDE DEF buf, t
  <2> QED BY <1>2, <2>1 DEF Carried
<1>7. Bounded(t)
  <2>1. t.at = s.at /\ t.to = s.to /\ t.buf = Append(s.buf, d)
    BY <1>2 DEF Carried
  <2> QED BY <1>1, <1>2, <1>3, <1>5, <2>1 DEF Bounded
<1> HIDE DEF t
<1>8. /\ stream' \in [Replica -> SUBSET Carried]
      /\ \A r \in Replica : \A x \in stream'[r] : Bounded(x)
  BY <1>1, <1>6, <1>7, StreamMoved
<1> QED BY <1>1, <1>8 DEF StoreInv, Bounded

\* The receiver writes a block.
LEMMA StoreWritten ==
  ASSUME StoreInv, NEW m \in Replica, NEW s \in stream[m], StreamRepairExtent(m, s)
  PROVE  /\ StoreInv'
         /\ \A r \in Replica, e \in Extent : size[r][e] >= 0 => size'[r][e] >= 0
<1> DEFINE t == [s EXCEPT !.at = @ + 1, !.buf = Tail(@)]
           X == IF t.at < t.to THEN {t} ELSE {}
<1>1. /\ s.buf # <<>>
      /\ data' = [data EXCEPT ![m][s.e][t.at] = Head(s.buf)]
      /\ size' = [size EXCEPT ![m][s.e] = Max({@, t.at})]
      /\ stream' = [stream EXCEPT ![m] = (@ \ {s}) \cup X]
      /\ round' = round
  BY DEF StreamRepairExtent
<1>2. s \in Carried /\ Bounded(s) /\ MaxSize \in Nat
  BY PartitionAssumption DEF StoreInv
<1>3. /\ s.src \in Replica /\ s.e \in Extent /\ s.at \in Nat /\ s.to \in Nat
      /\ s.buf \in Seq(Int) /\ Len(s.buf) \in Nat
  BY <1>2 DEF Carried
<1>4. /\ Head(s.buf) \in Int /\ Tail(s.buf) \in Seq(Int)
      /\ Len(Tail(s.buf)) = Len(s.buf) - 1 /\ Len(s.buf) >= 1
  BY <1>1, <1>3
<1>5. t.at = s.at + 1 /\ t.to = s.to /\ t.buf = Tail(s.buf)
  BY <1>2 DEF Carried
<1>6. t \in Carried
  <2> DEFINE at == s.at + 1
             buf == Tail(s.buf)
  <2>1. at \in Nat /\ buf \in Seq(Int) /\ t = [s EXCEPT !.at = at, !.buf = buf]
    BY <1>3, <1>4
  <2> HIDE DEF at, buf, t
  <2> QED BY <1>2, <2>1 DEF Carried
<1> HIDE DEF t
<1>7. Bounded(t) /\ t.at \in 1..MaxSize
  BY <1>2, <1>3, <1>4, <1>5 DEF Bounded
<1>8. /\ stream' \in [Replica -> SUBSET Carried]
      /\ \A r \in Replica : \A x \in stream'[r] : Bounded(x)
  <2>1. X \in SUBSET Carried /\ \A x \in X : Bounded(x)
    BY <1>6, <1>7
  <2> HIDE DEF X
  <2> QED BY <1>1, <2>1, StreamMoved
<1>9. data' \in [Replica -> [Extent -> [Blocks -> Int]]]
  <2> DEFINE h == Head(s.buf)
             x == s.e
             at == t.at
  <2>1. data \in [Replica -> [Extent -> [Blocks -> Int]]] /\ h \in Int
    BY <1>4 DEF StoreInv
  <2>2. data' = [data EXCEPT ![m][x][at] = h]
    BY <1>1
  <2> HIDE DEF h, x, at
  <2> QED BY <2>1, <2>2
<1>10. /\ size' \in [Replica -> [Extent -> -1..MaxSize]]
       /\ size'[m][s.e] >= 0
       /\ \A r \in Replica, e \in Extent : r # m \/ e # s.e => size'[r][e] = size[r][e]
  <2> DEFINE n == Max({size[m][s.e], t.at})
  <2>1. size \in [Replica -> [Extent -> -1..MaxSize]] /\ size[m][s.e] \in -1..MaxSize
    BY <1>3 DEF StoreInv
  <2>2. n \in 0..MaxSize
    BY <1>2, <1>7, <2>1, MaxOfTwo
  <2>3. size' = [size EXCEPT ![m][s.e] = n]
    BY <1>1
  <2> HIDE DEF n
  <2> QED BY <1>2, <1>3, <2>1, <2>2, <2>3
<1>11. \A r \in Replica, e \in Extent : size[r][e] >= 0 => size'[r][e] >= 0
  BY <1>10
<1>12. ASSUME NEW r \in Replica, NEW e \in Extent, NEW b \in Blocks, data'[r][e][b] >= 0
       PROVE  size'[r][e] >= 0
  <2>1. CASE r = m /\ e = s.e
    BY <1>10, <2>1
  <2>2. CASE ~(r = m /\ e = s.e)
    <3>1. data'[r][e][b] = data[r][e][b]
      BY <1>1, <1>3, <2>2 DEF StoreInv
    <3> QED BY <1>11, <1>12, <3>1 DEF StoreInv
  <2> QED BY <2>1, <2>2
<1> QED BY <1>1, <1>8, <1>9, <1>10, <1>11, <1>12 DEF StoreInv, Bounded

\* An overwrite changes a block of an extent that exists.
LEMMA StoreApplied ==
  ASSUME StoreInv, LogInv, IndInv, NEW m \in Replica, ApplyRandomWrite(m)
  PROVE  StoreInv'
<1> DEFINE w == log[applied[m] + 1]
<1>1. /\ data' = IF size[m][w.e] >= 0 THEN [data EXCEPT ![m][w.e][w.b] = applied[m] + 1]
                 ELSE data
      /\ UNCHANGED <<size, stream, round>>
      /\ w.op = "write" /\ applied[m] < last[m]
  BY DEF ApplyRandomWrite, Next1, CanApply, repairVars
<1>2. applied[m] \in Nat /\ applied[m] + 1 \in 1..Len(log) /\ log \in Seq(Entry)
  BY <1>1 DEF IndInv, IndexTypes, LogInv
<1>3. w \in Entry
  BY <1>2
<1> HIDE DEF w
<1>4. w.e \in Extent /\ w.b \in Blocks
  BY <1>1, <1>3 DEF Entry, Acked
<1>5. data \in [Replica -> [Extent -> [Blocks -> Int]]]
  BY DEF StoreInv
<1>6. data' \in [Replica -> [Extent -> [Blocks -> Int]]]
  BY <1>1, <1>2, <1>4, <1>5
<1>7. ASSUME NEW r \in Replica, NEW e \in Extent, NEW b \in Blocks, data'[r][e][b] >= 0
      PROVE  size[r][e] >= 0
  <2>1. CASE data' = data
    BY <1>7, <2>1 DEF StoreInv
  <2>2. CASE data' # data /\ r = m /\ e = w.e
    BY <1>1, <2>2
  <2>3. CASE data' # data /\ ~(r = m /\ e = w.e)
    <3>1. data'[r][e][b] = data[r][e][b]
      BY <1>1, <1>4, <1>5, <2>3
    <3> QED BY <1>7, <3>1 DEF StoreInv
  <2> QED BY <2>1, <2>2, <2>3
<1> QED BY <1>1, <1>6, <1>7 DEF StoreInv, Bounded

\* A crash ends the streams of the process and cuts those it is the source of.
LEMMA StoreCrashed ==
  ASSUME StoreInv, NEW m \in Replica, Crash(m)
  PROVE  StoreInv'
<1>1. ASSUME NEW x \in Replica, NEW s \in Cut(stream[x], m)
      PROVE  s \in Carried /\ Bounded(s)
  <2>1. PICK t \in stream[x] : s = IF t.src = m THEN [t EXCEPT !.to = t.at + Len(t.buf)] ELSE t
    BY <1>1 DEF Cut
  <2>2. t \in Carried /\ Bounded(t)
    BY DEF StoreInv
  <2>3. t.at \in Nat /\ t.to \in Nat /\ t.buf \in Seq(Int) /\ Len(t.buf) \in Nat
    BY <2>2 DEF Carried
  <2>4. t.at + Len(t.buf) \in Nat /\ t.at + Len(t.buf) <= t.to /\ t.to <= MaxSize /\ MaxSize \in Nat
    BY <2>2, <2>3, PartitionAssumption DEF Bounded
  <2>5. CASE t.src = m
    <3> DEFINE n == t.at + Len(t.buf)
    <3>1. s = [t EXCEPT !.to = n]
      BY <2>1, <2>5
    <3>2. n \in Nat /\ n <= MaxSize
      BY <2>3, <2>4
    <3> HIDE DEF n
    <3>3. s \in Carried /\ s.at = t.at /\ s.buf = t.buf /\ s.to = n
      BY <2>2, <3>1, <3>2 DEF Carried
    <3> QED BY <3>2, <3>3 DEF Bounded, n
  <2> QED BY <2>1, <2>2, <2>5
<1>2. ASSUME NEW s \in Carried, Bounded(s)
      PROVE  [s EXCEPT !.cur = FALSE] \in Carried /\ Bounded([s EXCEPT !.cur = FALSE])
  <2> DEFINE u == [s EXCEPT !.cur = FALSE]
  <2>1. u \in Carried /\ u.at = s.at /\ u.to = s.to /\ u.buf = s.buf
    BY DEF Carried
  <2> HIDE DEF u
  <2>2. u \in Carried /\ Bounded(u)
    BY <1>2, <2>1 DEF Bounded
  <2> QED BY <2>2 DEF u
<1>3. /\ stream' = [x \in Replica |->
            IF x = m THEN {}
            ELSE {IF m = Primary THEN [s EXCEPT !.cur = FALSE] ELSE s : s \in Cut(stream[x], m)}]
      /\ round' = IF m = Primary THEN NoRound ELSE round
      /\ UNCHANGED <<data, size>>
  BY DEF Crash, storeVars
<1>4. ASSUME NEW x \in Replica, NEW u \in stream'[x] PROVE u \in Carried /\ Bounded(u)
  <2>1. PICK s \in Cut(stream[x], m) : u = s \/ u = [s EXCEPT !.cur = FALSE]
    BY <1>3, <1>4
  <2> QED BY <1>1, <1>2, <2>1
<1>5. stream' \in [Replica -> SUBSET Carried]
  BY <1>3, <1>4
<1>6. round' \in [phase : {"idle", "notify", "own"}, task : [Replica -> SUBSET TaskType],
                  todo : SUBSET Replica]
  BY <1>3 DEF StoreInv, NoRound
<1> QED BY <1>3, <1>4, <1>5, <1>6 DEF StoreInv, Bounded

\* A partition that is loaded takes the lengths of its files for the sizes.
LEMMA StoreLoaded ==
  ASSUME StoreInv, NEW m \in Replica, size' = [size EXCEPT ![m] = LoadedSize(m)],
         UNCHANGED <<data, stream, round>>
  PROVE  StoreInv'
<1>1. /\ size \in [Replica -> [Extent -> -1..MaxSize]]
      /\ LoadedSize(m) \in [Extent -> -1..MaxSize]
      /\ \A e \in Extent : size[m][e] >= 0 => LoadedSize(m)[e] >= 0
  BY LoadedTyped DEF StoreInv
<1>2. /\ size' \in [Replica -> [Extent -> -1..MaxSize]]
      /\ \A r \in Replica, e \in Extent : size[r][e] >= 0 => size'[r][e] >= 0
  BY <1>1
<1> QED BY <1>2 DEF StoreInv, Bounded

\* The primary's round goes on.
LEMMA StoreRound ==
  ASSUME StoreInv, BuildRepairTasks \/ FollowersDone \/ DoRepair \/ RepairDone
  PROVE  StoreInv'
<1> DEFINE RoundSet == [phase : {"idle", "notify", "own"}, task : [Replica -> SUBSET TaskType],
                        todo : SUBSET Replica]
<1>0. Primary \in Replica /\ Old \subseteq Replica /\ round \in RoundSet
  BY PartitionAssumption DEF Replica, StoreInv
<1>1. CASE BuildRepairTasks
  <2> DEFINE S == {r \in Replicas(Primary) : up[r]}
             task == [r \in Replica |-> IF r \in S THEN Task(r, S) ELSE {}]
  <2>1. /\ round' = [phase |-> "notify", task |-> task, todo |-> S \ {Primary}]
        /\ UNCHANGED <<data, size, stream>>
    BY <1>1 DEF BuildRepairTasks, storeVars
  <2>2. S \in SUBSET Replica
    BY <1>0 DEF Replicas
  <2>3. task \in [Replica -> SUBSET TaskType]
    BY <2>2, TaskTyped
  <2> HIDE DEF S, task
  <2>4. round' \in RoundSet
    BY <2>1, <2>2, <2>3
  <2> QED BY <2>1, <2>4 DEF StoreInv, Bounded
<1>2. CASE FollowersDone \/ RepairDone
  <2>1. /\ round' = NoRound \/ round' = [round EXCEPT !.phase = "own"]
        /\ UNCHANGED <<data, size, stream>>
    BY <1>2 DEF FollowersDone, RepairDone, storeVars
  <2>2. round' \in RoundSet
    BY <1>0, <2>1 DEF NoRound
  <2> QED BY <2>1, <2>2 DEF StoreInv, Bounded
<1>3. CASE DoRepair
  <2>1. PICK t \in round.task[Primary] :
          /\ round' = [round EXCEPT !.task[Primary] = @ \ {t}]
          /\ size' = Created(Primary, {t})
          /\ stream' = [stream EXCEPT ![Primary] = @ \cup Streams(Primary, {t})]
          /\ data' = data
    BY <1>3 DEF DoRepair
  <2>2. round.task[Primary] \in SUBSET TaskType
    BY <1>0
  <2>3. round' \in RoundSet
    BY <1>0, <2>1, <2>2
  <2>4. {t} \in SUBSET TaskType
    BY <2>2
  <2> HIDE DEF RoundSet
  <2>5. size' = Created(Primary, {t}) /\ data' = data
        /\ stream' = [stream EXCEPT ![Primary] = @ \cup Streams(Primary, {t})]
    BY <2>1
  <2> QED BY <1>0, <2>3, <2>4, <2>5, StoreNotified DEF RoundSet
<1> QED BY <1>1, <1>2, <1>3

\* Every step keeps what is said of the store and the copies.
LEMMA StoreKeeps == ASSUME IndInv, LogInv, StoreInv, [Next]_vars PROVE StoreInv'
<1>1. CASE UNCHANGED vars
  BY <1>1, StoreStutter DEF vars, storeVars, repairVars, copyVars
<1>2. CASE (\E e \in Extent, b \in Blocks : RandomWriteSubmit(e, b)) \/ AddRaftMember
  BY <1>2, StoreStutter DEF RandomWriteSubmit, AddRaftMember, storeVars, repairVars, copyVars
<1>3. ASSUME NEW r \in Replica, Replicate(r) \/ SendSnapshot(r) \/ Elect(r) PROVE StoreInv'
  BY <1>3, StoreStutter DEF Replicate, SendSnapshot, Elect, storeVars, repairVars, copyVars
<1>4. ASSUME NEW r \in Replica, Schedule(r) PROVE StoreInv'
  BY <1>4, StoreStutter DEF Schedule, UpdateMinAppliedID, TruncateIdle, TruncateStore,
       TruncateCut, TruncatePersist, StoreAppliedID, storeVars, repairVars, copyVars
<1>5. ASSUME NEW r \in Replica, ApplyStep(r) PROVE StoreInv'
  <2>1. CASE ApplySkip(r) \/ UploadApplyID(r) \/ ApplyMemberChange(r) \/ PersistApplyId(r)
    BY <2>1, StoreStutter DEF ApplySkip, UploadApplyID, ApplyMemberChange, PersistApplyId,
         storeVars, repairVars, copyVars
  <2> QED BY <1>5, <2>1, StoreApplied DEF ApplyStep
<1>6. ASSUME NEW r \in Replica, LoadDataPartition(r) PROVE StoreInv'
  BY <1>6, StoreLoaded DEF LoadDataPartition, repairVars
<1>7. CASE Repair
  <2>1. ASSUME NEW r \in Replica, NotifyFollower(r) PROVE StoreInv'
    <3>1. round' = [round EXCEPT !.todo = @ \ {r}] /\ data' = data
      BY <2>1 DEF NotifyFollower
    <3>2. round' \in [phase : {"idle", "notify", "own"}, task : [Replica -> SUBSET TaskType],
                      todo : SUBSET Replica]
          /\ round.task[r] \in SUBSET TaskType
      BY <3>1 DEF StoreInv
    <3>3. CASE up[r]
      <4>1. /\ size' = Created(r, round.task[r])
            /\ stream' = [stream EXCEPT ![r] = @ \cup Streams(r, round.task[r])]
        BY <2>1, <3>3 DEF NotifyFollower
      <4> QED BY <3>1, <3>2, <4>1, StoreNotified
    <3>4. CASE ~up[r]
      <4>1. UNCHANGED <<size, stream>>
        BY <2>1, <3>4 DEF NotifyFollower
      <4> QED BY <3>1, <3>2, <4>1 DEF StoreInv, Bounded
    <3> QED BY <3>3, <3>4
  <2> QED BY <1>7, <2>1, StoreRound, StoreRead, StoreWritten DEF Repair
<1>8. CASE Quiet \/ CreateReplica \/ WaitRepair \/ StartRaftAfterRepair
  BY <1>8, StoreStutter DEF Quiet, Age, CreateReplica, WaitRepair, StartRaftAfterRepair,
       storeVars, repairVars, copyVars
<1> QED BY <1>1, <1>2, <1>3, <1>4, <1>5, <1>6, <1>7, <1>8, StoreCrashed DEF Next, Progress

\* A replica that has the first n entries has fewer of them too.
LEMMA UptoLess ==
  ASSUME NEW r, NEW n \in Upto(r), NEW m \in Nat, m <= n
  PROVE  m \in Upto(r)
<1>1. n \in Nat /\ \A i \in 1..m : i \in 1..n
  BY DEF Upto
<1> QED BY <1>1 DEF Upto, HasUpTo

\* It keeps them while the log grows at its end and no answered block gets older.
LEMMA UptoKept ==
  ASSUME plan' = plan, NEW r \in Replica, NEW n \in Upto(r), Len(log) \in Nat, n <= Len(log),
         \A i \in 1..Len(log) : log'[i] = log[i],
         \A e \in Extent : \A b \in Acked(e) :
            /\ data[r][e][b] \in Int /\ data'[r][e][b] \in Int
            /\ data[r][e][b] <= data'[r][e][b]
  PROVE  n \in Upto(r)'
<1>1. n \in Nat /\ \A i \in 1..n : i \in 1..Len(log) /\ i \in Nat
  BY DEF Upto
<1>2. \A e : Acked(e)' = Acked(e)
  BY DEF Acked
<1>3. ASSUME NEW e \in Extent, NEW b \in Acked(e)
      PROVE  /\ data'[r][e][b] >= 0
             /\ \A i \in 1..n : log'[i] = Write(e, b) => data'[r][e][b] >= i
  <2>1. HasUpTo(r, e, b, n)
    BY DEF Upto
  <2>2. data'[r][e][b] >= 0
    BY <2>1 DEF HasUpTo
  <2>3. ASSUME NEW i \in 1..n, log'[i] = Write(e, b) PROVE data'[r][e][b] >= i
    <3>1. log[i] = Write(e, b)
      BY <1>1, <2>3
    <3>2. data[r][e][b] >= i
      BY <2>1, <3>1 DEF HasUpTo
    <3> QED BY <1>1, <3>2
  <2> QED BY <2>2, <2>3
<1> QED BY <1>1, <1>2, <1>3 DEF Upto, HasUpTo

\* The blocks of a replica are numbers, and its ids are inside the log.
LEMMA InLog ==
  ASSUME Frame, IndInv, NEW r \in Replica
  PROVE  /\ log \in Seq(Entry) /\ Len(log) \in Nat
         /\ applied[r] \in Nat /\ metaAppliedID[r] \in Nat /\ appliedID[r] \in Nat
         /\ first[r] \in Nat /\ apply[r] \in Nat /\ pend[r] \in BOOLEAN
         /\ applied[r] <= Len(log) /\ metaAppliedID[r] <= Len(log)
         /\ appliedID[r] <= applied[r] /\ applied[r] <= last[r] /\ last[r] \in Nat
         /\ last[r] <= Len(log)
         /\ pend[r] => applied[r] + 1 <= Len(log)
         /\ \A e \in Extent : \A b \in Acked(e) : b \in Blocks /\ data[r][e][b] \in Int
<1>1. /\ log \in Seq(Entry) /\ metaAppliedID[r] \in Nat /\ metaAppliedID[r] <= Len(log)
      /\ last[r] <= Len(log)
  BY DEF Frame, LogInv
<1>2. /\ applied[r] \in Nat /\ appliedID[r] \in Nat /\ first[r] \in Nat /\ apply[r] \in Nat
      /\ pend[r] \in BOOLEAN /\ last[r] \in Nat
      /\ appliedID[r] <= applied[r] /\ applied[r] <= last[r]
      /\ pend[r] => applied[r] < last[r]
  BY DEF IndInv, IndexTypes, Ordered
<1>3. \A e \in Extent : \A b \in Acked(e) : b \in Blocks /\ data[r][e][b] \in Int
  BY DEF Frame, StoreInv, Acked
<1>4. Len(log) \in Nat
  BY <1>1
<1> QED BY <1>1, <1>2, <1>3, <1>4

\* A step that makes no answered block older, and moves the applied index only back
\* or over an entry the replica has, keeps the replica current.
LEMMA CurrentKept ==
  ASSUME Frame, IndInv, Frame', plan' = plan, NEW r \in Replica, Current(r),
         \A i \in 1..Len(log) : log'[i] = log[i],
         \A e \in Extent : \A b \in Acked(e) : data[r][e][b] <= data'[r][e][b],
         \/ applied'[r] \in Nat /\ applied'[r] <= applied[r]
         \/ applied'[r] = applied[r] + 1 /\ (pend[r] \/ applied[r] + 1 <= metaAppliedID[r]),
         metaAppliedID'[r] = metaAppliedID[r] \/ metaAppliedID'[r] = appliedID[r],
         pend'[r] => pend[r] /\ applied'[r] <= applied[r] /\ applied'[r] \in Nat
  PROVE  Current(r)'
<1>1. ASSUME NEW n \in Upto(r), n <= Len(log) PROVE n \in Upto(r)'
  <2>1. \A e \in Extent : \A b \in Acked(e) : data'[r][e][b] \in Int
    BY DEF Frame, StoreInv, Acked
  <2> QED BY <1>1, <2>1, InLog, UptoKept
<1>2. applied[r] \in Upto(r) /\ metaAppliedID[r] \in Upto(r)
      /\ (pend[r] => applied[r] + 1 \in Upto(r))
  BY DEF Current
<1>3. applied'[r] \in Upto(r) /\ applied'[r] <= Len(log)
  <2>1. CASE applied'[r] \in Nat /\ applied'[r] <= applied[r]
    BY <1>2, <2>1, UptoLess, InLog
  <2>2. CASE applied'[r] = applied[r] + 1 /\ pend[r]
    BY <1>2, <2>2, InLog
  <2>3. CASE applied'[r] = applied[r] + 1 /\ applied[r] + 1 <= metaAppliedID[r]
    <3>1. applied[r] + 1 \in Nat /\ applied[r] + 1 <= Len(log)
      BY <2>3, InLog
    <3> QED BY <1>2, <2>3, <3>1, UptoLess
  <2> QED BY <2>1, <2>2, <2>3
<1>4. metaAppliedID'[r] \in Upto(r) /\ metaAppliedID'[r] <= Len(log)
  <2>1. CASE metaAppliedID'[r] = metaAppliedID[r]
    BY <1>2, <2>1, InLog
  <2>2. CASE metaAppliedID'[r] = appliedID[r]
    BY <1>2, <2>2, UptoLess, InLog
  <2> QED BY <2>1, <2>2
<1>5. ASSUME pend'[r] PROVE applied'[r] + 1 \in Upto(r) /\ applied'[r] + 1 <= Len(log)
  <2>1. applied'[r] + 1 \in Nat /\ applied'[r] + 1 <= applied[r] + 1
        /\ applied[r] + 1 <= Len(log) /\ applied[r] + 1 \in Upto(r)
    BY <1>2, <1>5, InLog
  <2>2. applied'[r] + 1 \in Upto(r)
    BY <2>1, UptoLess
  <2>3. Len(log) \in Nat /\ applied[r] \in Nat
    BY InLog
  <2> QED BY <2>1, <2>2, <2>3
<1> QED BY <1>1, <1>3, <1>4, <1>5 DEF Current

\* ... above all a step that leaves the replica alone.
LEMMA CurrentSame ==
  ASSUME Frame, IndInv, Frame', plan' = plan, NEW r \in Replica, Current(r),
         \A i \in 1..Len(log) : log'[i] = log[i],
         data'[r] = data[r], applied'[r] = applied[r], metaAppliedID'[r] = metaAppliedID[r],
         pend'[r] = pend[r]
  PROVE  Current(r)'
<1>1. \A e \in Extent : \A b \in Acked(e) : data[r][e][b] <= data'[r][e][b]
  BY InLog
<1>2. applied'[r] \in Nat /\ applied'[r] <= applied[r]
  BY InLog
<1> QED BY <1>1, <1>2, CurrentKept

\* ApplyRandomWrite.  After a restart it may put an older overwrite over a newer one,
\* but never below the id of the metadata file.
LEMMA CurrentApplied ==
  ASSUME Frame, IndInv, plan' = plan, NEW r \in Replica, Current(r), ApplyRandomWrite(r)
  PROVE  Current(r)'
<1> DEFINE w == log[applied[r] + 1]
           k == applied[r] + 1
<1>1. /\ data' = IF size[r][w.e] >= 0 THEN [data EXCEPT ![r][w.e][w.b] = k] ELSE data
      /\ applied' = applied /\ metaAppliedID' = metaAppliedID /\ log' = log
      /\ w.op = "write" /\ applied[r] < last[r] /\ k > metaAppliedID[r]
  BY DEF ApplyRandomWrite, Next1, CanApply, raftVars, idVars
<1>2. /\ applied[r] \in Nat /\ k \in 1..Len(log) /\ log \in Seq(Entry)
      /\ metaAppliedID[r] \in Nat
  BY <1>1, InLog
<1>3. w \in Entry
  BY <1>2
<1>4. data \in [Replica -> [Extent -> [Blocks -> Int]]]
  BY DEF Frame, StoreInv
<1>5. w.e \in Extent /\ w.b \in Acked(w.e) /\ w.b \in Blocks
  BY <1>1, <1>3 DEF Entry, Acked
<1>6. applied[r] \in Upto(r)
  BY DEF Current
<1>7. size[r][w.e] >= 0
  <2>1. data[r][w.e][w.b] >= 0
    BY <1>5, <1>6 DEF Upto, HasUpTo
  <2> QED BY <1>5, <2>1 DEF Frame, StoreInv
<1>8. data' = [data EXCEPT ![r][w.e][w.b] = k]
  BY <1>1, <1>7
<1>9. \A e : Acked(e)' = Acked(e)
  BY DEF Acked
<1>10. ASSUME NEW n \in Nat, n <= k PROVE n \in Upto(r)'
  <2>1. ASSUME NEW e \in Extent, NEW b \in Acked(e)
        PROVE  /\ data'[r][e][b] >= 0
               /\ \A i \in 1..n : log[i] = Write(e, b) => data'[r][e][b] >= i
    <3>0. b \in Blocks
      BY DEF Acked
    <3>1. CASE e = w.e /\ b = w.b
      <4>1. data'[r][e][b] = k
        BY <1>4, <1>5, <1>8, <3>1
      <4> QED BY <1>2, <1>10, <4>1
    <3>2. CASE ~(e = w.e /\ b = w.b)
      <4>1. data'[r][e][b] = data[r][e][b] /\ data[r][e][b] \in Int
        BY <1>4, <1>5, <1>8, <3>0, <3>2
      <4>2. HasUpTo(r, e, b, applied[r])
        BY <1>6 DEF Upto
      <4>3. w # Write(e, b)
        BY <3>2 DEF Write
      <4>4. ASSUME NEW i \in 1..n, log[i] = Write(e, b) PROVE data[r][e][b] >= i
        <5>1. i # k
          BY <4>3, <4>4
        <5>2. i \in 1..applied[r]
          BY <1>2, <1>10, <5>1
        <5> QED BY <4>2, <4>4, <5>2 DEF HasUpTo
      <4>5. data[r][e][b] >= 0
        BY <4>2 DEF HasUpTo
      <4> QED BY <4>1, <4>4, <4>5
    <3> QED BY <3>1, <3>2
  <2> QED BY <1>1, <1>9, <2>1 DEF Upto, HasUpTo
<1>11. applied[r] \in Upto(r)' /\ metaAppliedID[r] \in Upto(r)' /\ k \in Upto(r)'
  <2>1. k \in Nat /\ k <= k /\ applied[r] <= k /\ metaAppliedID[r] <= k
    BY <1>1, <1>2
  <2> HIDE DEF k, w
  <2> QED BY <1>2, <1>10, <2>1
<1> QED BY <1>1, <1>11 DEF Current

\* ApplyMemberChange: the entry is no overwrite.
LEMMA CurrentMember ==
  ASSUME Frame, IndInv, Frame', plan' = plan, NEW r \in Replica, Current(r), ApplyMemberChange(r)
  PROVE  Current(r)'
<1> DEFINE k == applied[r] + 1
<1>1. /\ applied' = applied /\ data' = data /\ log' = log
      /\ metaAppliedID' = [metaAppliedID EXCEPT ![r] = appliedID[r]]
      /\ log[k].op = "add" /\ applied[r] < last[r]
  BY DEF ApplyMemberChange, PersistMetadata, Next1, CanApply, raftVars, storeVars
<1>2. k \in Nat /\ k <= Len(log) /\ applied[r] \in Nat /\ metaAppliedID'[r] = appliedID[r]
      /\ appliedID[r] \in Nat /\ appliedID[r] <= applied[r] /\ Len(log) \in Nat
  <2>1. metaAppliedID \in [Replica -> Nat]
    BY DEF Frame, LogInv
  <2> QED BY <1>1, <2>1, InLog
<1>3. applied[r] \in Upto(r)
  BY DEF Current
<1>4. k \in Upto(r)
  <2>1. ASSUME NEW e \in Extent, NEW b \in Acked(e) PROVE HasUpTo(r, e, b, k)
    <3>1. HasUpTo(r, e, b, applied[r])
      BY <1>3 DEF Upto
    <3>2. log[k] # Write(e, b)
      BY <1>1 DEF Write
    <3>3. \A i \in 1..k : i # k => i \in 1..applied[r]
      BY <1>2
    <3> HIDE DEF k
    <3> QED BY <3>1, <3>2, <3>3 DEF HasUpTo
  <2> QED BY <1>2, <2>1 DEF Upto
<1>5. appliedID[r] \in Upto(r)
  BY <1>2, <1>3, UptoLess
<1>6. ASSUME NEW n \in Upto(r), n <= k PROVE n \in Upto(r)'
  <2>1. n <= Len(log)
    BY <1>2, <1>6 DEF Upto
  <2>2. \A e \in Extent : \A b \in Acked(e) :
            /\ data[r][e][b] \in Int /\ data'[r][e][b] \in Int
            /\ data[r][e][b] <= data'[r][e][b]
    BY <1>1, InLog
  <2> HIDE DEF k
  <2> QED BY <1>1, <1>2, <2>1, <2>2, UptoKept
<1>7. applied[r] <= k /\ appliedID[r] <= k /\ k <= k
  BY <1>2
<1> HIDE DEF k
<1>8. applied[r] \in Upto(r)' /\ appliedID[r] \in Upto(r)' /\ k \in Upto(r)'
  BY <1>3, <1>4, <1>5, <1>6, <1>7
<1> QED BY <1>1, <1>2, <1>8 DEF Current, k

\* What the frame says of a replica that stays current over a step: it was in normal
\* operation, took no snapshot and got no late copy.
Stays(r) == r \in Replica /\ kind[r] = "normal" /\ ~snapped'[r] /\ ~late'[r] /\ Current(r)

\* Replication: the log grows at its end; a snapshot is excepted.
LEMMA CurrentRaft ==
  ASSUME Frame, IndInv, Frame', plan' = plan, NEW r \in Replica, Stays(r),
         \/ \E e \in Extent, b \in Blocks : RandomWriteSubmit(e, b)
         \/ AddRaftMember
         \/ \E m \in Replica : Replicate(m) \/ SendSnapshot(m) \/ Elect(m)
  PROVE  Current(r)'
<1>0. snapped \in [Replica -> BOOLEAN] /\ applied \in [Replica -> Nat] /\ log \in Seq(Entry)
  BY DEF IndInv, IndexTypes, Frame, LogInv
<1>1. UNCHANGED <<data, metaAppliedID, pend>> /\ (log' = log \/ \E w : log' = Append(log, w))
  BY DEF RandomWriteSubmit, AddRaftMember, Commit, Replicate, SendSnapshot, Elect, storeVars,
         idVars
<1>2. applied'[r] = applied[r]
  <2>1. ASSUME NEW m \in Replica, SendSnapshot(m) PROVE applied'[r] = applied[r]
    <3>1. applied' = [applied EXCEPT ![m] = applied[leader]]
          /\ snapped' = [snapped EXCEPT ![m] = TRUE]
      BY <2>1 DEF SendSnapshot
    <3>2. r # m
      BY <1>0, <3>1 DEF Stays
    <3> QED BY <1>0, <3>1, <3>2
  <2>2. CASE \/ \E e \in Extent, b \in Blocks : RandomWriteSubmit(e, b)
             \/ AddRaftMember
             \/ \E m \in Replica : Replicate(m) \/ Elect(m)
    BY <2>2 DEF RandomWriteSubmit, AddRaftMember, Replicate, Elect
  <2> QED BY <2>1, <2>2
<1>3. \A i \in 1..Len(log) : log'[i] = log[i]
  BY <1>0, <1>1
<1> QED BY <1>1, <1>2, <1>3, CurrentSame DEF Stays

\* Apply
LEMMA CurrentApply ==
  ASSUME Frame, IndInv, Frame', plan' = plan, NEW r \in Replica, Stays(r),
         NEW m \in Replica, ApplyStep(m)
  PROVE  Current(r)'
<1>0. /\ applied \in [Replica -> Nat] /\ pend \in [Replica -> BOOLEAN]
      /\ metaAppliedID \in [Replica -> Nat]
      /\ data \in [Replica -> [Extent -> [Blocks -> Int]]]
  BY DEF IndInv, IndexTypes, Frame, LogInv, StoreInv
<1>1. CASE r # m
  <2>1. log' = log
    BY DEF ApplyStep, ApplySkip, ApplyRandomWrite, UploadApplyID, ApplyMemberChange,
           PersistApplyId, raftVars
  <2>2. applied'[r] = applied[r] /\ pend'[r] = pend[r] /\ metaAppliedID'[r] = metaAppliedID[r]
    BY <1>0, <1>1 DEF ApplyStep, ApplySkip, ApplyRandomWrite, UploadApplyID, ApplyMemberChange,
           PersistApplyId, PersistMetadata, raftVars, idVars
  <2>3. data'[r] = data[r]
    <3>1. CASE ApplyRandomWrite(m)
      <4>1. PICK w : data' = data \/ data' = [data EXCEPT ![m][w.e][w.b] = applied[m] + 1]
        BY <3>1 DEF ApplyRandomWrite
      <4> QED BY <1>0, <1>1, <4>1
    <3>2. CASE ApplySkip(m) \/ UploadApplyID(m) \/ ApplyMemberChange(m) \/ PersistApplyId(m)
      BY <3>2 DEF ApplySkip, UploadApplyID, ApplyMemberChange, PersistApplyId, storeVars
    <3> QED BY <3>1, <3>2 DEF ApplyStep
  <2> QED BY <2>1, <2>2, <2>3, CurrentSame DEF Stays
<1>2. CASE r = m
  <2>1. CASE ApplySkip(m) \/ UploadApplyID(m) \/ PersistApplyId(m)
    <3>1. /\ applied' = [applied EXCEPT ![r] = @ + 1]
          /\ UNCHANGED <<log, data, metaAppliedID>>
          /\ ApplySkip(m) => ~pend[r] /\ applied[r] + 1 <= metaAppliedID[r] /\ pend' = pend
          /\ UploadApplyID(m) \/ PersistApplyId(m) =>
               pend[r] /\ pend' = [pend EXCEPT ![r] = FALSE]
      BY <1>2, <2>1 DEF ApplySkip, UploadApplyID, PersistApplyId, CanApply, storeVars, idVars
    <3>2. /\ applied'[r] = applied[r] + 1 /\ ~pend'[r]
          /\ pend[r] \/ applied[r] + 1 <= metaAppliedID[r]
      BY <1>0, <2>1, <3>1
    <3>3. \A e \in Extent : \A b \in Acked(e) : data[r][e][b] <= data'[r][e][b]
      BY <3>1, InLog
    <3>4. \A i \in 1..Len(log) : log'[i] = log[i]
      BY <3>1
    <3>5. metaAppliedID'[r] = metaAppliedID[r]
      BY <3>1
    <3> QED BY <3>2, <3>3, <3>4, <3>5, CurrentKept DEF Stays
  <2> QED BY <1>2, <2>1, CurrentApplied, CurrentMember DEF ApplyStep, Stays
<1> QED BY <1>1, <1>2

\* The schedule: PersistMetadata writes an id that has been applied.
LEMMA CurrentSchedule ==
  ASSUME Frame, IndInv, Frame', plan' = plan, NEW r \in Replica, Stays(r),
         NEW m \in Replica, Schedule(m)
  PROVE  Current(r)'
<1>0. metaAppliedID \in [Replica -> Nat]
  BY DEF Frame, LogInv
<1>1. UNCHANGED <<log, data, applied, pend>>
  BY DEF Schedule, UpdateMinAppliedID, TruncateIdle, TruncateStore, TruncateCut,
         TruncatePersist, StoreAppliedID, raftVars, storeVars
<1>2. metaAppliedID'[r] = metaAppliedID[r] \/ metaAppliedID'[r] = appliedID[r]
  BY <1>0 DEF Schedule, UpdateMinAppliedID, TruncateIdle, TruncateStore, TruncateCut,
         TruncatePersist, StoreAppliedID, PersistMetadata, idVars
<1>3. \A e \in Extent : \A b \in Acked(e) : data[r][e][b] <= data'[r][e][b]
  BY <1>1, InLog
<1>4. applied'[r] \in Nat /\ applied'[r] <= applied[r] /\ pend'[r] = pend[r]
  BY <1>1, InLog
<1> QED BY <1>1, <1>2, <1>3, <1>4, CurrentKept DEF Stays

\* A crash loses the entry being applied; a restart begins at the index in the APPLY
\* file, which is not above the applied one.
LEMMA CurrentRestart ==
  ASSUME Frame, IndInv, Frame', plan' = plan, NEW r \in Replica, Stays(r), ~snapped[r],
         NEW m \in Replica, Crash(m) \/ LoadDataPartition(m)
  PROVE  Current(r)'
<1>0. /\ applied \in [Replica -> Nat] /\ pend \in [Replica -> BOOLEAN]
      /\ metaAppliedID \in [Replica -> Nat]
  BY DEF IndInv, IndexTypes, Frame, LogInv
<1>1. /\ UNCHANGED <<log, data>>
      /\ pend' = pend \/ pend' = [pend EXCEPT ![m] = FALSE]
      /\ applied' = applied
         \/ applied' = [applied EXCEPT ![m] = IF apply[m] = 0 THEN first[m] ELSE apply[m]]
      /\ metaAppliedID' = metaAppliedID
         \/ metaAppliedID' = [metaAppliedID EXCEPT ![m] = meta[m].id]
  BY DEF Crash, LoadDataPartition, storeVars
<1>2. metaAppliedID'[r] = metaAppliedID[r]
  <2>1. meta[m].id = metaAppliedID[m]
    BY DEF Frame, LogInv
  <2> QED BY <1>0, <1>1, <2>1
<1>3. pend'[r] => pend[r]
  BY <1>0, <1>1
<1>4. applied'[r] \in Nat /\ applied'[r] <= applied[r]
  <2>1. /\ first[r] \in Nat /\ apply[r] \in Nat /\ applied[r] \in Nat /\ appliedID[r] \in Nat
        /\ first[r] <= applied[r] /\ apply[r] <= appliedID[r] /\ appliedID[r] <= applied[r]
    BY DEF IndInv, IndexTypes, Ordered
  <2>2. applied'[r] \in {applied[r], first[r], apply[r]}
    BY <1>0, <1>1
  <2> QED BY <2>1, <2>2
<1>5. \A e \in Extent : \A b \in Acked(e) : data[r][e][b] <= data'[r][e][b]
  BY <1>1, InLog
<1> QED BY <1>1, <1>2, <1>3, <1>4, <1>5, CurrentKept DEF Stays

\* The repair writes only to blocks that were not answered, or the copy is late.
LEMMA CurrentStream ==
  ASSUME Frame, IndInv, Frame', plan' = plan, NEW r \in Replica, Stays(r),
         NEW m \in Replica, NEW s \in stream[m], StreamRepairExtent(m, s)
  PROVE  Current(r)'
<1> DEFINE at == s.at + 1
<1>0. /\ data \in [Replica -> [Extent -> [Blocks -> Int]]]
      /\ late \in [Replica -> BOOLEAN]
      /\ s \in Carried
  BY DEF Frame, StoreInv, ProcInv
<1>1. /\ data' = [data EXCEPT ![m][s.e][at] = Head(s.buf)]
      /\ late' = [late EXCEPT ![m] = @ \/ (raftOn[m] /\ at \in Acked(s.e))]
      /\ UNCHANGED <<log, applied, metaAppliedID, pend>>
  <2>1. [s EXCEPT !.at = @ + 1, !.buf = Tail(@)].at = at
    BY <1>0 DEF Carried
  <2> QED BY <2>1 DEF StreamRepairExtent, raftVars, idVars
<1> HIDE DEF at
<1>2. ASSUME NEW e \in Extent, NEW b \in Acked(e) PROVE data'[r][e][b] = data[r][e][b]
  <2>0. b \in Blocks
    BY DEF Acked
  <2>1. CASE r = m
    <3>1. raftOn[m]
      BY <2>1 DEF Frame, ProcInv, Stays
    <3>2. at \notin Acked(s.e)
      BY <1>0, <1>1, <2>1, <3>1 DEF Stays
    <3>3. ~(e = s.e /\ b = at)
      BY <3>2
    <3> QED BY <1>0, <1>1, <2>0, <3>3
  <2>2. CASE r # m
    BY <1>0, <1>1, <2>2
  <2> QED BY <2>1, <2>2
<1>3. \A e \in Extent : \A b \in Acked(e) : data[r][e][b] <= data'[r][e][b]
  BY <1>2, InLog
<1>4. applied'[r] \in Nat /\ applied'[r] <= applied[r] /\ pend'[r] = pend[r]
      /\ metaAppliedID'[r] = metaAppliedID[r]
  BY <1>1, InLog
<1>5. \A i \in 1..Len(log) : log'[i] = log[i]
  BY <1>1
<1> QED BY <1>3, <1>4, <1>5, CurrentKept DEF Stays

\* The other steps leave a replica in normal operation alone.
LEMMA CurrentOther ==
  ASSUME Frame, IndInv, Frame', plan' = plan, NEW r \in Replica, Stays(r),
         \/ UNCHANGED vars
         \/ BuildRepairTasks \/ FollowersDone \/ DoRepair \/ RepairDone
         \/ \E m \in Replica : NotifyFollower(m) \/ \E s \in stream[m] : RepairRead(m, s)
         \/ Quiet \/ CreateReplica \/ WaitRepair \/ StartRaftAfterRepair
  PROVE  Current(r)'
<1>1. UNCHANGED <<log, data, applied, pend>>
  <2>1. CASE UNCHANGED vars
    BY <2>1 DEF vars, raftVars, storeVars
  <2>2. CASE BuildRepairTasks \/ FollowersDone \/ DoRepair \/ RepairDone
    BY <2>2 DEF BuildRepairTasks, FollowersDone, DoRepair, RepairDone, raftVars, storeVars
  <2>3. CASE \E m \in Replica : NotifyFollower(m) \/ \E s \in stream[m] : RepairRead(m, s)
    BY <2>3 DEF NotifyFollower, RepairRead, raftVars, storeVars
  <2>4. CASE Quiet \/ CreateReplica \/ WaitRepair \/ StartRaftAfterRepair
    BY <2>4 DEF Quiet, Age, CreateReplica, WaitRepair, StartRaftAfterRepair, raftVars, storeVars
  <2> QED BY <2>1, <2>2, <2>3, <2>4
<1>2. metaAppliedID'[r] = metaAppliedID[r]
  <2>1. CASE StartRaftAfterRepair
    <3>1. kind[New] = "recover"
          /\ metaAppliedID' = [metaAppliedID EXCEPT ![New] = appliedID[New]]
      BY <2>1 DEF StartRaftAfterRepair, Waiting, PersistMetadata
    <3>2. r # New
      BY <3>1 DEF Stays
    <3>3. metaAppliedID \in [Replica -> Nat]
      BY DEF Frame, LogInv
    <3> QED BY <3>1, <3>2, <3>3
  <2>2. CASE \/ UNCHANGED vars
             \/ BuildRepairTasks \/ FollowersDone \/ DoRepair \/ RepairDone
             \/ \E m \in Replica : NotifyFollower(m) \/ \E s \in stream[m] : RepairRead(m, s)
             \/ Quiet \/ CreateReplica \/ WaitRepair
    BY <2>2 DEF vars, BuildRepairTasks, FollowersDone, DoRepair, RepairDone, NotifyFollower,
         RepairRead, Quiet, Age, CreateReplica, WaitRepair, idVars
  <2> QED BY <2>1, <2>2
<1>3. \A i \in 1..Len(log) : log'[i] = log[i]
  BY <1>1
<1> QED BY <1>1, <1>2, <1>3, CurrentSame DEF Stays

\* That a replica took a snapshot or got a late copy is never forgotten.
LEMMA HistoryKept ==
  ASSUME IndInv, ProcInv, [Next]_vars, NEW r \in Replica
  PROVE  (snapped[r] => snapped'[r]) /\ (late[r] => late'[r])
<1>0. snapped \in [Replica -> BOOLEAN] /\ late \in [Replica -> BOOLEAN]
  BY DEF IndInv, IndexTypes, ProcInv
<1>1. CASE UNCHANGED vars
  BY <1>1 DEF vars, histVars
<1>2. ASSUME NEW m \in Replica, Replicate(m) \/ Elect(m) \/ Crash(m) \/ LoadDataPartition(m)
      PROVE  UNCHANGED <<snapped, late>>
  BY <1>2 DEF Replicate, Elect, Crash, LoadDataPartition, histVars
<1>3. ASSUME NEW m \in Replica, SendSnapshot(m)
      PROVE  late' = late /\ (snapped[r] => snapped'[r])
  BY <1>0, <1>3 DEF SendSnapshot
<1>4. ASSUME NEW m \in Replica, ApplyStep(m) \/ Schedule(m) PROVE UNCHANGED <<snapped, late>>
  <2>1. CASE ApplyStep(m)
    BY <2>1 DEF ApplyStep, ApplySkip, ApplyRandomWrite, UploadApplyID, ApplyMemberChange,
                PersistApplyId, histVars
  <2>2. CASE Schedule(m)
    BY <2>2 DEF Schedule, UpdateMinAppliedID, TruncateIdle, TruncateStore, TruncateCut,
                TruncatePersist, StoreAppliedID, histVars
  <2> QED BY <1>4, <2>1, <2>2
<1>5. CASE Repair
  <2>1. ASSUME NEW m \in Replica, NEW s \in stream[m], StreamRepairExtent(m, s)
        PROVE  snapped' = snapped /\ (late[r] => late'[r])
    <3>1. snapped' = snapped /\ \E c : late' = [late EXCEPT ![m] = @ \/ c]
      BY <2>1 DEF StreamRepairExtent
    <3> QED BY <1>0, <3>1
  <2>2. CASE \/ BuildRepairTasks \/ FollowersDone \/ DoRepair \/ RepairDone
             \/ \E m \in Replica : NotifyFollower(m) \/ \E s \in stream[m] : RepairRead(m, s)
    BY <2>2 DEF BuildRepairTasks, FollowersDone, DoRepair, RepairDone, NotifyFollower,
         RepairRead, histVars
  <2> QED BY <1>5, <2>1, <2>2 DEF Repair
<1>6. CASE Quiet \/ CreateReplica \/ WaitRepair \/ StartRaftAfterRepair
  BY <1>6 DEF Quiet, Age, CreateReplica, WaitRepair, StartRaftAfterRepair, histVars
<1>7. CASE (\E e \in Extent, b \in Blocks : RandomWriteSubmit(e, b)) \/ AddRaftMember
  BY <1>7 DEF RandomWriteSubmit, AddRaftMember, histVars
<1> QED BY <1>1, <1>2, <1>3, <1>4, <1>5, <1>6, <1>7 DEF Next, Progress

\* Only StartRaftAfterRepair brings a replica into normal operation.
LEMMA Joins ==
  ASSUME IndInv, ProcInv, [Next]_vars, NEW r \in Replica, kind[r] # "normal", kind'[r] = "normal"
  PROVE  r = New /\ StartRaftAfterRepair
<1>0. kind \in [Replica -> {"none", "recover", "normal"}] /\ r = New
  BY DEF IndInv, IndexTypes, ProcInv, Replica
<1>1. ASSUME NEW m \in Replica, ApplyMemberChange(m) PROVE FALSE
  <2>1. kind' = [kind EXCEPT ![m] = "normal"] /\ raftOn[m]
    BY <1>1 DEF ApplyMemberChange, CanApply, Running
  <2>2. kind[m] = "normal"
    BY <2>1 DEF IndInv, Ordered
  <2> QED BY <1>0, <2>1, <2>2
<1>2. CASE CreateReplica
  BY <1>0, <1>2 DEF CreateReplica
<1>3. CASE UNCHANGED vars
  BY <1>3 DEF vars, diskVars
<1>4. ASSUME NEW m \in Replica, \/ Replicate(m) \/ SendSnapshot(m) \/ Elect(m) \/ Crash(m)
                                \/ LoadDataPartition(m)
      PROVE  kind' = kind
  BY <1>4 DEF Replicate, SendSnapshot, Elect, Crash, LoadDataPartition, diskVars
<1>5. ASSUME NEW m \in Replica, \/ ApplySkip(m) \/ ApplyRandomWrite(m) \/ UploadApplyID(m)
                                \/ PersistApplyId(m)
      PROVE  kind' = kind
  BY <1>5 DEF ApplySkip, ApplyRandomWrite, UploadApplyID, PersistApplyId, diskVars
<1>6. ASSUME NEW m \in Replica, Schedule(m) PROVE kind' = kind
  BY <1>6 DEF Schedule, UpdateMinAppliedID, TruncateIdle, TruncateStore, TruncateCut,
              TruncatePersist, StoreAppliedID, diskVars
<1>7. CASE Repair
  BY <1>7 DEF Repair, BuildRepairTasks, FollowersDone, DoRepair, RepairDone, NotifyFollower,
       RepairRead, StreamRepairExtent, diskVars
<1>8. CASE Quiet \/ WaitRepair
  BY <1>8 DEF Quiet, Age, WaitRepair, diskVars
<1>9. CASE (\E e \in Extent, b \in Blocks : RandomWriteSubmit(e, b)) \/ AddRaftMember
  BY <1>9 DEF RandomWriteSubmit, AddRaftMember, diskVars
<1> QED BY <1>0, <1>1, <1>2, <1>3, <1>4, <1>5, <1>6, <1>7, <1>8, <1>9
        DEF Next, Progress, ApplyStep

\* The new replica starts with nothing applied, so being filled is all it needs.
LEMMA CurrentJoined ==
  ASSUME Frame, IndInv, Frame', StartRaftAfterRepair, RepairedFirst', kind[New] # "normal"
  PROVE  Current(New)'
<1>0. New \in Replica
  BY DEF Replica
<1>1. /\ kind' = [kind EXCEPT ![New] = "normal"]
      /\ metaAppliedID' = [metaAppliedID EXCEPT ![New] = appliedID[New]]
      /\ UNCHANGED <<applied, pend>>
  BY DEF StartRaftAfterRepair, PersistMetadata
<1>2. applied[New] = 0 /\ ~pend[New]
  BY <1>0 DEF Frame, ProcInv
<1>3. appliedID[New] = 0
  BY <1>0, <1>2, InLog
<1>4. kind'[New] = "normal" /\ metaAppliedID'[New] = 0
  <2>1. metaAppliedID \in [Replica -> Nat] /\ kind \in [Replica -> {"none", "recover", "normal"}]
    BY DEF Frame, LogInv, IndInv, IndexTypes
  <2> QED BY <1>0, <1>1, <1>3, <2>1
<1>5. 0 \in Upto(New)'
  BY <1>4 DEF RepairedFirst, Upto, HasUpTo
<1> QED BY <1>1, <1>2, <1>4, <1>5 DEF Current

\* Every step keeps a replica current; the new one if it was filled first.
LEMMA GoodKept ==
  ASSUME Frame, IndInv, [Next]_vars, Frame', NEW r \in Replica, Good(r),
         r = New => RepairedFirst'
  PROVE  Good(r)'
<1> SUFFICES ASSUME kind'[r] = "normal", ~snapped'[r], ~late'[r] PROVE Current(r)'
  BY DEF Good
<1>0. plan' = plan /\ ~snapped[r] /\ ~late[r]
  BY PlanFixed, HistoryKept DEF Frame
<1>1. CASE kind[r] # "normal"
  BY <1>1, Joins, CurrentJoined DEF Frame
<1>2. CASE kind[r] = "normal"
  <2>1. Stays(r)
    BY <1>0, <1>2 DEF Good, Stays
  <2>2. ASSUME NEW m \in Replica, \/ Replicate(m) \/ SendSnapshot(m) \/ Elect(m) \/ Crash(m)
                                  \/ LoadDataPartition(m) \/ ApplyStep(m) \/ Schedule(m)
        PROVE  Current(r)'
    BY <1>0, <2>1, <2>2, CurrentRaft, CurrentApply, CurrentSchedule, CurrentRestart
  <2>3. CASE Repair
    BY <1>0, <2>1, <2>3, CurrentStream, CurrentOther DEF Repair
  <2>4. CASE UNCHANGED vars \/ Quiet \/ CreateReplica \/ WaitRepair \/ StartRaftAfterRepair
    BY <1>0, <2>1, <2>4, CurrentOther
  <2>5. CASE (\E e \in Extent, b \in Blocks : RandomWriteSubmit(e, b)) \/ AddRaftMember
    BY <1>0, <2>1, <2>5, CurrentRaft
  <2> QED BY <2>2, <2>3, <2>4, <2>5 DEF Next, Progress
<1> QED BY <1>1, <1>2

\* Initially an old replica has the appended data and nothing is overwritten.
LEMMA GoodInit == ASSUME Init, NEW r \in Replica PROVE Good(r)
<1>1. CASE r \in Old
  <2>1. /\ applied[r] = 0 /\ metaAppliedID[r] = 0 /\ ~pend[r]
        /\ data = [x \in Replica |-> [e \in Extent |-> [b \in Blocks |->
                     IF x \in Old /\ b <= plan.size[x][e] THEN 0 ELSE -1]]]
    BY DEF Init
  <2>2. \A e \in Extent : \A b \in Acked(e) : data[r][e][b] = 0
    BY <1>1, <2>1 DEF Acked
  <2>3. 0 \in Upto(r)
    BY <2>2 DEF Upto, HasUpTo
  <2> QED BY <2>1, <2>3 DEF Good, Current
<1>2. CASE r \notin Old
  BY <1>2 DEF Init, Good
<1> QED BY <1>1, <1>2

\* The frame is an invariant.
LEMMA FrameInvariant == Spec => []Frame
<1>1. IndInv /\ Frame /\ [Next]_vars => Frame'
  BY LogKeeps, ProcKeeps, StoreKeeps DEF Frame
<1> QED BY <1>1, FrameInit, IndexInvariant, PTL DEF Spec

\* A current replica whose raft runs holds what it has applied.
LEMMA GoodHolds ==
  ASSUME IndInv, NEW r \in Replica, Good(r), Running(r), ~snapped[r], ~late[r]
  PROVE  Holds(r)
<1>1. kind[r] = "normal"
  BY DEF IndInv, Ordered, Running
<1> QED BY <1>1 DEF Good, Current, Upto, Holds

OldCovered == \A r \in Old : Running(r) /\ ~snapped[r] /\ ~late[r] => Holds(r)

\* An old replica whose raft runs holds every overwrite up to its applied index, over
\* any number of crashes, replays of the log, cuts and copies: Apply skips only what
\* the metadata file covers, and what it covers is on the disk.
THEOREM OldReplicasCovered == Spec => []OldCovered
<1> DEFINE GoodOld == \A r \in Old : Good(r)
<1>0. Old \subseteq Replica /\ \A r \in Old : r # New
  BY PartitionAssumption DEF Replica
<1>1. Init => GoodOld
  BY <1>0, GoodInit
<1>2. IndInv /\ Frame /\ Frame' /\ GoodOld /\ [Next]_vars => GoodOld'
  BY <1>0, GoodKept
<1>3. IndInv /\ GoodOld => OldCovered
  BY <1>0, GoodHolds DEF OldCovered
<1> QED BY <1>1, <1>2, <1>3, IndexInvariant, FrameInvariant, PTL DEF Spec

\* All replicas hold what they have applied, if StartRaftAfterRepair starts the raft
\* of the new one only when it was filled, as its comment says: the test of the sizes
\* is the one thing the guarantee rests on.
THEOREM FilledThenCovered == Spec /\ []RepairedFirst => []Covered
<1> DEFINE GoodAll == \A r \in Replica : Good(r)
<1>1. Init => GoodAll
  BY GoodInit
<1>2. IndInv /\ Frame /\ Frame' /\ RepairedFirst' /\ GoodAll /\ [Next]_vars => GoodAll'
  BY GoodKept
<1>3. IndInv /\ GoodAll => Covered
  BY GoodHolds DEF Covered
<1> QED BY <1>1, <1>2, <1>3, IndexInvariant, FrameInvariant, PTL DEF Spec
=============================================================================
