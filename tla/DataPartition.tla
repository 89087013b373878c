--------------------------- MODULE DataPartition ---------------------------
(***************************************************************************)
(* One data partition of the data nodes while a replica is added to it.    *)
(*                                                                         *)
(* Two mechanisms keep the replicas of a partition equal.  Extents grow by *)
(* appends of the primary-backup protocol (ReplProtocol), and the primary  *)
(* (the first host) repairs those that are shorter somewhere, by having a  *)
(* replica copy the missing blocks from the longest one.  Overwrites of    *)
(* blocks that are already there go through a raft log that every member   *)
(* applies, and that is cut at the smallest applied index of the members.  *)
(* A new replica is first a raft member that does not run, is filled by    *)
(* the repair, and starts its raft when its extents have the primary's     *)
(* sizes.                                                                  *)
(*                                                                         *)
(* The raft library is external: it is a committed log, of which member r  *)
(* holds the entries first[r]+1..last[r].  A block is the number of the    *)
(* last overwrite it holds, 0 for the data that was appended.              *)
(***************************************************************************)
EXTENDS Integers, Sequences, FiniteSets, FiniteSetsExt

CONSTANTS
  Old,         \* the hosts of the partition before the new one is added
  Primary,     \* the first of them (dp.isLeader)
  New,         \* the host that is added
  Extent,      \* ids of the normal extents
  MaxSize,     \* bound: blocks of an extent
  MaxLog,      \* bound: entries of the raft log
  RetainLogs,  \* entries of its log a member keeps in any case
  Plans        \* instances: sizes of the extents of Old, the first raft leader, bounds on
               \* the log and the faults, and the replicas whose timers fire

ASSUME PartitionAssumption ==
  /\ Primary \in Old
  /\ New \notin Old
  /\ IsFiniteSet(Old)
  /\ Extent \subseteq Nat
  /\ MaxSize \in Nat
  /\ MaxLog \in Nat
  /\ RetainLogs \in Nat
  /\ \A pl \in Plans : /\ pl.leader \in Old
                       /\ \A r \in Old, e \in Extent : pl.size[r][e] \in 0..MaxSize

Replica == Old \cup {New}

VARIABLES
  plan,       \* the instance, chosen once
  \* raft
  log,        \* the committed entries
  leader,     \* the raft leader
  raftOn,     \* dp.raftPartition runs
  first,      \* the entries 1..first[r] are not in r's log
  last,       \* the entries first[r]+1..last[r] are
  applied,    \* index up to which raft has handed the entries to Apply
  \* the store
  data,       \* data[r][e][b], -1 for a block never written
  size,       \* the size of an extent, -1 for one that does not exist
  fresh,      \* extents appended to less than RepairInterval ago
  \* the memory of the process
  up,         \* the process runs and has the partition
  pend,       \* the entry applied[r]+1 is on the disk but Apply has not returned
  appliedID, metaAppliedID, minAppliedID, lastTruncateID,
  known,      \* New is in dp.replicas
  sched,      \* the schedule of StartRaftLoggingSchedule: a truncation in progress
  init,       \* initMaxExtentID and initPartitionSize of StartRaftAfterRepair
  round,      \* repair of the primary
  stream,     \* the calls of streamRepairExtent in progress on r
  \* the files of the partition
  kind,       \* DataPartitionCreateType: none, recover or normal
  apply,      \* the APPLY file
  meta,       \* ApplyID, LastTruncateID and Hosts of the META file
  \* history
  snapped,    \* r took a raft snapshot
  late,       \* a repair wrote a block of a finished append while r's raft ran
  faults      \* crashes and elections so far

raftVars == <<log, leader, raftOn, first, last, applied>>
storeVars == <<data, size, fresh>>
idVars == <<appliedID, metaAppliedID, minAppliedID, lastTruncateID, sched>>
repairVars == <<init, round, stream>>
diskVars == <<kind, apply, meta>>
histVars == <<plan, snapped, late, faults>>
vars == <<raftVars, storeVars, idVars, repairVars, diskVars, histVars,
          up, pend, known>>

----------------------------------------------------------------------------
Blocks == 1..MaxSize

\* Blocks whose append has been answered: every old replica has them.
Acked(e) == {b \in Blocks : \A r \in Old : b <= plan.size[r][e]}

\* Overwrites of the plan's blocks, as entries of the log, and the entry of
\* master's request to add New.
Write(e, b) == [op |-> "write", e |-> e, b |-> b]
Add == [op |-> "add", e |-> 0, b |-> 0]

Added == \E i \in DOMAIN log : log[i] = Add
Members == IF Added THEN Replica ELSE Old

\* dp.replicas of r
Replicas(r) == IF known[r] THEN Replica ELSE Old

Lesser(m, n) == IF m < n THEN m ELSE n

Running(r) == up[r] /\ raftOn[r]

Majority(S) == 2 * Cardinality(S) > Cardinality(Members)

Idle == [pc |-> "idle", id |-> 0]
NoRound == [phase |-> "idle", task |-> [r \in Replica |-> {}], todo |-> {}]
NoInit == [max |-> 0, size |-> 0]

Init ==
  /\ plan \in Plans
  /\ log = <<>>
  /\ leader = plan.leader
  /\ raftOn = [r \in Replica |-> r \in Old]
  /\ first = [r \in Replica |-> 0]
  /\ last = [r \in Replica |-> 0]
  /\ applied = [r \in Replica |-> 0]
  /\ size = [r \in Replica |-> [e \in Extent |-> IF r \in Old THEN plan.size[r][e] ELSE -1]]
  /\ data = [r \in Replica |-> [e \in Extent |-> [b \in Blocks |->
               IF r \in Old /\ b <= plan.size[r][e] THEN 0 ELSE -1]]]
  /\ fresh = [r \in Replica |-> {}]
  /\ up = [r \in Replica |-> r \in Old]
  /\ pend = [r \in Replica |-> FALSE]
  /\ appliedID = [r \in Replica |-> 0]
  /\ metaAppliedID = [r \in Replica |-> 0]
  /\ minAppliedID = [r \in Replica |-> 0]
  /\ lastTruncateID = [r \in Replica |-> 0]
  /\ known = [r \in Replica |-> r = New]
  /\ sched = [r \in Replica |-> Idle]
  /\ init = NoInit
  /\ round = NoRound
  /\ stream = [r \in Replica |-> {}]
  /\ kind = [r \in Replica |-> IF r \in Old THEN "normal" ELSE "none"]
  /\ apply = [r \in Replica |-> 0]
  /\ meta = [r \in Replica |-> [id |-> 0, trunc |-> 0, known |-> r = New]]
  /\ snapped = [r \in Replica |-> FALSE]
  /\ late = [r \in Replica |-> FALSE]
  /\ faults = 0

----------------------------------------------------------------------------
(* The raft library: a committed log *)

\* The leader has the entry on a majority of the members, which includes it.
Commit(entry) ==
  /\ Len(log) < plan.log
  /\ Running(leader)
  /\ \E Q \in SUBSET {r \in Members : Running(r) /\ last[r] = Len(log)} :
       /\ leader \in Q
       /\ Majority(Q)
       /\ last' = [r \in Replica |-> IF r \in Q THEN last[r] + 1 ELSE last[r]]
  /\ log' = Append(log, entry)

\* RandomWriteSubmit: the client overwrites a block it has been answered for.
RandomWriteSubmit(e, b) ==
  /\ b \in Acked(e)
  /\ Commit(Write(e, b))
  /\ UNCHANGED <<leader, raftOn, first, applied, storeVars, idVars, repairVars,
                 diskVars, histVars, up, pend, known>>

\* Master adds the member to the raft group.
AddRaftMember ==
  /\ ~Added
  /\ Commit(Add)
  /\ UNCHANGED <<leader, raftOn, first, applied, storeVars, idVars, repairVars,
                 diskVars, histVars, up, pend, known>>

\* sendAppend when the leader still has the next entry of r ...
Replicate(r) ==
  /\ r \in Members \ {leader}
  /\ Running(leader) /\ Running(r)
  /\ last[r] < Len(log)
  /\ first[leader] <= last[r]
  /\ last' = [last EXCEPT ![r] = @ + 1]
  /\ UNCHANGED <<log, leader, raftOn, first, applied, storeVars, idVars, repairVars,
                 diskVars, histVars, up, pend, known>>

\* ... and when it does not: a snapshot at the leader's applied index.  Snapshot
\* has no content and ApplySnapshot does nothing, so only raft's indices move.
SendSnapshot(r) ==
  /\ r \in Members \ {leader}
  /\ Running(leader) /\ Running(r) /\ ~pend[r]
  /\ first[leader] > last[r]
  /\ first' = [first EXCEPT ![r] = applied[leader]]
  /\ last' = [last EXCEPT ![r] = applied[leader]]
  /\ applied' = [applied EXCEPT ![r] = applied[leader]]
  /\ snapped' = [snapped EXCEPT ![r] = TRUE]
  /\ UNCHANGED <<log, leader, raftOn, storeVars, idVars, repairVars, diskVars,
                 plan, late, faults, up, pend, known>>

\* A member with the whole committed log becomes the leader.
Elect(r) ==
  /\ faults < plan.faults /\ plan.elect
  /\ faults' = faults + 1
  /\ r \in Members \ {leader}
  /\ Running(r) /\ last[r] = Len(log)
  /\ Majority({x \in Members : Running(x)})
  /\ leader' = r
  /\ UNCHANGED <<log, raftOn, first, last, applied, storeVars, idVars, repairVars,
                 diskVars, plan, snapped, late, up, pend, known>>

----------------------------------------------------------------------------
(* Apply, and what it leaves on the disk *)

\* Faulty variant: the id of the last entry in place of the last applied one
PersistMetadataLast(r, trunc, hosts) ==
  /\ meta' = [meta EXCEPT ![r] = [id |-> last[r], trunc |-> trunc, known |-> hosts]]
  /\ metaAppliedID' = [metaAppliedID EXCEPT ![r] = last[r]]

\* PersistMetadata with the applied id, the truncation and the hosts of the moment
PersistMetadata(r, trunc, hosts) ==
  /\ meta' = [meta EXCEPT ![r] = [id |-> appliedID[r], trunc |-> trunc, known |-> hosts]]
  /\ metaAppliedID' = [metaAppliedID EXCEPT ![r] = appliedID[r]]

Next1(r) == log[applied[r] + 1]

CanApply(r) == Running(r) /\ ~pend[r] /\ applied[r] < last[r]

\* Apply skips what the metadata file says has been applied.
ApplySkip(r) ==
  /\ CanApply(r)
  /\ Next1(r).op = "write"
  /\ applied[r] + 1 <= metaAppliedID[r]
  /\ applied' = [applied EXCEPT ![r] = @ + 1]
  /\ UNCHANGED <<log, leader, raftOn, first, last, storeVars, idVars, repairVars,
                 diskVars, histVars, up, pend, known>>

\* ApplyRandomWrite up to the write: an extent that is not there is no error, and
\* a write beyond the size does not change the size.
ApplyRandomWrite(r) ==
  LET w == Next1(r) IN
  /\ CanApply(r)
  /\ w.op = "write"
  /\ applied[r] + 1 > metaAppliedID[r]
  /\ data' = IF size[r][w.e] >= 0
             THEN [data EXCEPT ![r][w.e][w.b] = applied[r] + 1]
             ELSE data
  /\ pend' = [pend EXCEPT ![r] = TRUE]
  /\ UNCHANGED <<raftVars, size, fresh, idVars, repairVars, diskVars,
                 histVars, up, known>>

\* uploadApplyID at the end of Apply
UploadApplyID(r) ==
  /\ Running(r) /\ pend[r]
  /\ Next1(r).op = "write"
  /\ appliedID' = [appliedID EXCEPT ![r] = applied[r] + 1]
  /\ applied' = [applied EXCEPT ![r] = @ + 1]
  /\ pend' = [pend EXCEPT ![r] = FALSE]
  /\ UNCHANGED <<log, leader, raftOn, first, last, storeVars, metaAppliedID,
                 minAppliedID, lastTruncateID, sched, repairVars, diskVars,
                 histVars, up, known>>

\* ApplyMemberChange up to its deferred function: addRaftNode and PersistMetadata
ApplyMemberChange(r) ==
  /\ CanApply(r)
  /\ Next1(r).op = "add"
  /\ known' = [known EXCEPT ![r] = TRUE]
  /\ kind' = [kind EXCEPT ![r] = "normal"]
  /\ PersistMetadata(r, lastTruncateID[r], TRUE)
  /\ pend' = [pend EXCEPT ![r] = TRUE]
  /\ UNCHANGED <<raftVars, storeVars, appliedID, minAppliedID, lastTruncateID, sched,
                 repairVars, apply, histVars, up>>

\* The deferred function: the schedule, between two of its cases, stores the id.
PersistApplyId(r) ==
  /\ Running(r) /\ pend[r]
  /\ Next1(r).op = "add"
  /\ sched[r].pc \in {"idle", "off"}
  /\ appliedID' = [appliedID EXCEPT ![r] = applied[r] + 1]
  /\ apply' = [apply EXCEPT ![r] = applied[r] + 1]
  /\ applied' = [applied EXCEPT ![r] = @ + 1]
  /\ pend' = [pend EXCEPT ![r] = FALSE]
  /\ UNCHANGED <<log, leader, raftOn, first, last, storeVars, metaAppliedID,
                 minAppliedID, lastTruncateID, sched, repairVars, kind, meta,
                 histVars, up, known>>

----------------------------------------------------------------------------
(* StartRaftLoggingSchedule *)

\* updateMaxMinAppliedID and broadcastMinAppliedID: every replica the leader knows
\* has to reply, and then gets the minimum.
UpdateMinAppliedID(r) ==
  /\ r \in plan.timers
  /\ r = leader /\ Running(r)
  /\ appliedID[r] > 0
  /\ \A x \in Replicas(r) : up[x]
  /\ \E y \in Replicas(r) :
       /\ \A x \in Replicas(r) : appliedID[y] <= appliedID[x]
       /\ minAppliedID' = [x \in Replica |->
            IF x \in Replicas(r) THEN appliedID[y] ELSE minAppliedID[x]]
  /\ UNCHANGED <<raftVars, storeVars, appliedID, metaAppliedID, lastTruncateID, sched,
                 repairVars, diskVars, histVars, up, pend, known>>

\* The truncation timer: with raft stopped it is not armed again.
TruncateIdle(r) ==
  /\ r \in plan.timers
  /\ up[r] /\ sched[r].pc = "idle"
  /\ ~raftOn[r]
  /\ sched' = [sched EXCEPT ![r].pc = "off"]
  /\ UNCHANGED <<raftVars, storeVars, appliedID, metaAppliedID, minAppliedID,
                 lastTruncateID, repairVars, diskVars, histVars, up, pend, known>>

\* Faulty variant: the applied id is not stored before the log is cut
TruncateStoreNot(r) ==
  /\ r \in plan.timers
  /\ Running(r) /\ sched[r].pc = "idle"
  /\ minAppliedID[r] > lastTruncateID[r]
  /\ sched' = [sched EXCEPT ![r] = [pc |-> "store", id |-> appliedID[r]]]
  /\ UNCHANGED <<raftVars, storeVars, appliedID, metaAppliedID, minAppliedID,
                 lastTruncateID, repairVars, diskVars, histVars, up, pend, known>>

\* First the applied id is stored ...
TruncateStore(r) ==
  /\ r \in plan.timers
  /\ Running(r) /\ sched[r].pc = "idle"
  /\ minAppliedID[r] > lastTruncateID[r]
  /\ apply' = [apply EXCEPT ![r] = appliedID[r]]
  /\ sched' = [sched EXCEPT ![r] = [pc |-> "store", id |-> appliedID[r]]]
  /\ UNCHANGED <<raftVars, storeVars, appliedID, metaAppliedID, minAppliedID,
                 lastTruncateID, repairVars, kind, meta, histVars, up, pend, known>>

\* Faulty variant: the replica's own applied id, not the minimum
TruncIndexOwn(r) == sched[r].id

\* ... then the log is cut, by raft, which retains some of it ...
TruncIndex(r) == Lesser(minAppliedID[r], sched[r].id)

RaftTruncate(r, index) ==
  LET to == Lesser(index, last[r] - RetainLogs)
  IN IF to > first[r] THEN to ELSE first[r]

TruncateCut(r) ==
  /\ up[r] /\ sched[r].pc = "store"
  /\ first' = [first EXCEPT ![r] = RaftTruncate(r, TruncIndex(r))]
  /\ lastTruncateID' = [lastTruncateID EXCEPT ![r] = TruncIndex(r)]
  /\ sched' = [sched EXCEPT ![r] = [pc |-> "cut", id |-> 0]]
  /\ UNCHANGED <<log, leader, raftOn, last, applied, storeVars, appliedID,
                 metaAppliedID, minAppliedID, repairVars, diskVars, histVars,
                 up, pend, known>>

\* ... and the metadata is persisted.
TruncatePersist(r) ==
  /\ up[r] /\ sched[r].pc = "cut"
  /\ PersistMetadata(r, lastTruncateID[r], known[r])
  /\ sched' = [sched EXCEPT ![r] = Idle]
  /\ UNCHANGED <<raftVars, storeVars, appliedID, minAppliedID, lastTruncateID,
                 repairVars, kind, apply, histVars, up, pend, known>>

\* The timer that stores the applied id
StoreAppliedID(r) ==
  /\ r \in plan.timers
  /\ up[r] /\ sched[r].pc \in {"idle", "off"}
  /\ apply[r] # appliedID[r]
  /\ apply' = [apply EXCEPT ![r] = appliedID[r]]
  /\ UNCHANGED <<raftVars, storeVars, idVars, repairVars, kind, meta, histVars,
                 up, pend, known>>

----------------------------------------------------------------------------
(* Repair of the normal extents: the primary's round *)

\* GetAllWatermarks with NormalExtentFilter: extents that exist and are not fresh
Watermarks(r) == {e \in Extent : size[r][e] >= 0 /\ e \notin fresh[r]}

\* Appends have been quiet for RepairInterval.
Age(r, e) ==
  /\ e \in fresh[r]
  /\ fresh' = [fresh EXCEPT ![r] = @ \ {e}]
  /\ UNCHANGED <<raftVars, data, size, idVars, repairVars, diskVars, histVars,
                 up, pend, known>>

\* prepareRepairTasks: the longest of the copies that were reported; of several
\* the primary's, and New comes last.
Source(e, S) ==
  LET best == {r \in S : \A x \in S : size[x][e] <= size[r][e]}
  IN IF Primary \in best THEN Primary
     ELSE IF best \cap Old # {} THEN CHOOSE r \in best \cap Old : TRUE
     ELSE CHOOSE r \in best : TRUE

\* Faulty variant: only extents that r reported
TaskExisting(r, S) ==
  LET holders(e) == {x \in S : e \in Watermarks(x)}
      short == {e \in Watermarks(r) : size[r][e] < size[Source(e, holders(e))][e]}
  IN {[e |-> e, src |-> Source(e, holders(e)), to |-> size[Source(e, holders(e))][e]] :
        e \in short}

\* What r, which did not report the extent or a shorter copy of it, has to get
Task(r, S) ==
  LET holders(e) == {x \in S : e \in Watermarks(x)}
      short == {e \in Extent : /\ holders(e) # {}
                               /\ e \in Watermarks(r) =>
                                    size[r][e] < size[Source(e, holders(e))][e]}
  IN {[e |-> e, src |-> Source(e, holders(e)), to |-> size[Source(e, holders(e))][e]] :
        e \in short}

\* repair: the replicas that reply get a task.
BuildRepairTasks ==
  LET S == {r \in Replicas(Primary) : up[r]}
      task == [r \in Replica |-> IF r \in S THEN Task(r, S) ELSE {}]
  IN /\ up[Primary]
     /\ round.phase = "idle"
     /\ \E r \in S : task[r] # {}
     /\ round' = [phase |-> "notify", task |-> task, todo |-> S \ {Primary}]
     /\ UNCHANGED <<raftVars, storeVars, idVars, init, stream, diskVars, histVars,
                    up, pend, known>>

\* streamRepairExtent begins: it asks the source for the blocks above the local size.
Streams(r, tasks) ==
  {[e |-> t.e, src |-> t.src, at |-> Max({size[r][t.e], 0}), to |-> t.to,
    buf |-> <<>>, cur |-> TRUE] : t \in {x \in tasks : size[r][x.e] < x.to /\ up[x.src]}}

Missing(r, tasks) == {t.e : t \in {x \in tasks : size[r][x.e] < 0}}


Created(r, tasks) ==
  [size EXCEPT ![r] = [e \in Extent |-> IF e \in Missing(r, tasks) THEN 0 ELSE @[e]]]

\* notifyFollower and, on the follower, DoExtentStoreRepair: it creates the missing
\* extents and repairs all of them in parallel.
NotifyFollower(r) ==
  /\ round.phase = "notify" /\ r \in round.todo
  /\ round' = [round EXCEPT !.todo = @ \ {r}]
  /\ IF up[r]
     THEN /\ size' = Created(r, round.task[r])
          /\ fresh' = [fresh EXCEPT ![r] = @ \cup Missing(r, round.task[r])]
          /\ stream' = [stream EXCEPT ![r] = @ \cup Streams(r, round.task[r])]
     ELSE UNCHANGED <<size, fresh, stream>>
  /\ UNCHANGED <<raftVars, data, idVars, init, diskVars, histVars, up, pend, known>>

\* No repair of this round is in progress on r.
Finished(r) == \A s \in stream[r] : ~s.cur

\* NotifyExtentRepair has waited for every follower; the primary goes on with its own.
FollowersDone ==
  /\ round.phase = "notify" /\ round.todo = {}
  /\ \A r \in Replica \ {Primary} : Finished(r)
  /\ round' = [round EXCEPT !.phase = "own"]
  /\ UNCHANGED <<raftVars, storeVars, idVars, init, stream, diskVars, histVars,
                 up, pend, known>>

\* DoRepair: the primary repairs its extents one after the other.
DoRepair ==
  /\ round.phase = "own" /\ Finished(Primary)
  /\ \E t \in round.task[Primary] :
       /\ round' = [round EXCEPT !.task[Primary] = @ \ {t}]
       /\ size' = Created(Primary, {t})
       /\ fresh' = [fresh EXCEPT ![Primary] = @ \cup Missing(Primary, {t})]
       /\ stream' = [stream EXCEPT ![Primary] = @ \cup Streams(Primary, {t})]
  /\ UNCHANGED <<raftVars, data, idVars, init, diskVars, histVars, up, pend, known>>

RepairDone ==
  /\ round.phase = "own" /\ Finished(Primary)
  /\ round.task[Primary] = {}
  /\ round' = NoRound
  /\ UNCHANGED <<raftVars, storeVars, idVars, init, stream, diskVars, histVars,
                 up, pend, known>>

\* Faulty variant: the source does not advance its offset
RepairReadAgain(r, s) ==
  /\ s \in stream[r]
  /\ s.at < s.to
  /\ stream' = [stream EXCEPT ![r] = (@ \ {s}) \cup
       {[s EXCEPT !.buf = Append(@, data[s.src][s.e][s.at + 1])]}]
  /\ UNCHANGED <<raftVars, storeVars, idVars, init, round, diskVars, histVars,
                 up, pend, known>>

\* NormalExtentRepairRead: the source reads the next block and sends it, whether or
\* not the one before has been written.
RepairRead(r, s) ==
  /\ s \in stream[r]
  /\ s.at + Len(s.buf) < s.to
  /\ stream' = [stream EXCEPT ![r] = (@ \ {s}) \cup
       {[s EXCEPT !.buf = Append(@, data[s.src][s.e][s.at + Len(s.buf) + 1])]}]
  /\ UNCHANGED <<raftVars, storeVars, idVars, init, round, diskVars, histVars,
                 up, pend, known>>

\* streamRepairExtent writes the next block; after the last one it returns.
StreamRepairExtent(r, s) ==
  LET t == [s EXCEPT !.at = @ + 1, !.buf = Tail(@)] IN
  /\ s \in stream[r]
  /\ s.buf # <<>>
  /\ data' = [data EXCEPT ![r][s.e][t.at] = Head(s.buf)]
  /\ size' = [size EXCEPT ![r][s.e] = Max({@, t.at})]
  /\ fresh' = [fresh EXCEPT ![r] = @ \cup {s.e}]
  /\ stream' = [stream EXCEPT ![r] = (@ \ {s}) \cup (IF t.at < t.to THEN {t} ELSE {})]
  /\ late' = [late EXCEPT ![r] = @ \/ (raftOn[r] /\ t.at \in Acked(s.e))]
  /\ UNCHANGED <<raftVars, idVars, init, round, diskVars, plan, snapped, faults,
                 up, pend, known>>

----------------------------------------------------------------------------
(* The new replica *)

\* addDataPartitionRaftMember has returned, so the leader has applied the entry;
\* CreateDataPartition of a replica to be filled.
CreateReplica ==
  /\ kind[New] = "none"
  /\ \E r \in Old : up[r] /\ \E i \in 1..applied[r] : log[i] = Add
  /\ kind' = [kind EXCEPT ![New] = "recover"]
  /\ up' = [up EXCEPT ![New] = TRUE]
  /\ UNCHANGED <<raftVars, storeVars, idVars, repairVars, apply, meta, histVars,
                 pend, known>>

Exist(r) == {e \in Extent : size[r][e] >= 0}

MaxExtentID(r) == Max(Exist(r) \cup {0})

StoreSizeExtentID(r, max) ==
  MapThenSumSet(LAMBDA e : size[r][e], {e \in Exist(r) : e <= max})

\* Every size the primary reports is the size of some extent reported locally.
CompareExtentsBySize(r) ==
  \A e \in Watermarks(Primary) : \E x \in Watermarks(r) : size[r][x] = size[Primary][e]

\* initMaxExtentID and initPartitionSize, kept once both are not zero
InitSize ==
  IF init.max = 0 \/ init.size = 0
  THEN [max |-> MaxExtentID(Primary), size |-> StoreSizeExtentID(Primary, MaxExtentID(Primary))]
  ELSE [init EXCEPT !.size = Lesser(@, StoreSizeExtentID(Primary, init.max))]

Waiting == up[New] /\ kind[New] = "recover" /\ up[Primary]

Repaired == /\ InitSize.size <= StoreSizeExtentID(New, InitSize.max)
            /\ CompareExtentsBySize(New)

\* A tick of StartRaftAfterRepair that goes on waiting
WaitRepair ==
  /\ Waiting /\ ~Repaired
  /\ init' = InitSize
  /\ UNCHANGED <<raftVars, storeVars, idVars, round, stream, diskVars, histVars,
                 up, pend, known>>

\* ... and the one that starts raft
StartRaftAfterRepair ==
  /\ Waiting /\ Repaired
  /\ init' = InitSize
  /\ raftOn' = [raftOn EXCEPT ![New] = TRUE]
  /\ kind' = [kind EXCEPT ![New] = "normal"]
  /\ PersistMetadata(New, lastTruncateID[New], known[New])
  /\ UNCHANGED <<log, leader, first, last, applied, storeVars, appliedID, minAppliedID,
                 lastTruncateID, sched, round, stream, apply, histVars, up, pend, known>>

----------------------------------------------------------------------------
(* Crash and restart of a process *)

\* What the receiver of a stream gets from a source that has gone: what was sent
Cut(S, r) ==
  {s \in {IF t.src = r THEN [t EXCEPT !.to = t.at + Len(t.buf)] ELSE t : t \in S} :
     s.at < s.to}

Crash(r) ==
  /\ faults < plan.faults /\ r \in plan.crash
  /\ up[r]
  /\ faults' = faults + 1
  /\ up' = [up EXCEPT ![r] = FALSE]
  /\ raftOn' = [raftOn EXCEPT ![r] = FALSE]
  /\ pend' = [pend EXCEPT ![r] = FALSE]
  /\ minAppliedID' = [minAppliedID EXCEPT ![r] = 0]
  /\ sched' = [sched EXCEPT ![r] = Idle]
  /\ init' = IF r = New THEN NoInit ELSE init
  /\ round' = IF r = Primary THEN NoRound ELSE round
  /\ stream' = [x \in Replica |->
       IF x = r THEN {}
       ELSE {IF r = Primary THEN [s EXCEPT !.cur = FALSE] ELSE s : s \in Cut(stream[x], r)}]
  /\ UNCHANGED <<log, leader, first, last, applied, storeVars, appliedID, metaAppliedID,
                 lastTruncateID, diskVars, plan, snapped, late, known>>

\* Raft refuses an applied index below the first entry of its log.
Loadable(r) == apply[r] = 0 \/ first[r] <= apply[r]

\* The size of an extent is the length of its file.
LoadedSize(r) == [e \in Extent |->
  IF size[r][e] < 0 THEN -1 ELSE Max({b \in Blocks : data[r][e][b] >= 0} \cup {0})]

\* LoadDataPartition: the ids of the files; raft starts unless the repair comes first.
LoadDataPartition(r) ==
  /\ ~up[r] /\ kind[r] # "none"
  /\ kind[r] = "normal" => Loadable(r)
  /\ up' = [up EXCEPT ![r] = TRUE]
  /\ raftOn' = [raftOn EXCEPT ![r] = kind[r] = "normal"]
  /\ applied' = [applied EXCEPT ![r] = IF apply[r] = 0 THEN first[r] ELSE apply[r]]
  /\ size' = [size EXCEPT ![r] = LoadedSize(r)]
  /\ appliedID' = [appliedID EXCEPT ![r] = apply[r]]
  /\ metaAppliedID' = [metaAppliedID EXCEPT ![r] = meta[r].id]
  /\ lastTruncateID' = [lastTruncateID EXCEPT ![r] = meta[r].trunc]
  /\ known' = [known EXCEPT ![r] = meta[r].known]
  /\ UNCHANGED <<log, leader, first, last, data, fresh, minAppliedID, sched, repairVars,
                 diskVars, histVars, pend>>

----------------------------------------------------------------------------
ApplyStep(r) ==
  \/ ApplySkip(r)
  \/ ApplyRandomWrite(r)
  \/ UploadApplyID(r)
  \/ ApplyMemberChange(r)
  \/ PersistApplyId(r)

Schedule(r) ==
  \/ UpdateMinAppliedID(r)
  \/ TruncateIdle(r)
  \/ TruncateStore(r)
  \/ TruncateCut(r)
  \/ TruncatePersist(r)
  \/ StoreAppliedID(r)

Repair ==
  \/ BuildRepairTasks
  \/ FollowersDone
  \/ DoRepair
  \/ RepairDone
  \/ \E r \in Replica : \/ NotifyFollower(r)
                        \/ \E s \in stream[r] : RepairRead(r, s) \/ StreamRepairExtent(r, s)

Quiet == \E r \in Replica, e \in Extent : Age(r, e)

\* What the processes do by themselves
Progress ==
  \/ \E r \in Replica : \/ Replicate(r)
                        \/ SendSnapshot(r)
                        \/ ApplyStep(r)
                        \/ Schedule(r)
                        \/ LoadDataPartition(r)
  \/ Repair
  \/ Quiet
  \/ CreateReplica
  \/ WaitRepair
  \/ StartRaftAfterRepair

Next ==
  \/ Progress
  \/ \E e \in Extent, b \in Blocks : RandomWriteSubmit(e, b)
  \/ AddRaftMember
  \/ \E r \in Replica : Elect(r) \/ Crash(r)

Spec == Init /\ [][Next]_vars

\* The timers keep firing, raft delivers to the members that run, a process that
\* crashed is started again; time goes on while the primary's rounds find the same
\* work again and again.  Nobody has to write, to add a member or to crash.
FairSpec == Spec /\ WF_vars(Progress) /\ WF_vars(Quiet)

----------------------------------------------------------------------------
(* Properties *)

Index == 0..MaxLog
StreamType == [e : Extent, src : Replica, at : 0..MaxSize, to : 0..MaxSize,
               buf : Seq(0..MaxLog), cur : BOOLEAN]
TaskType == [e : Extent, src : Replica, to : 0..MaxSize]

\* Types; the indices of the log are in order; a stream carries only blocks that
\* were ever written at its source, and no more than it asked for.
TypeOK ==
  /\ log \in Seq([op : {"write", "add"}, e : Extent \cup {0}, b : Blocks \cup {0}])
  /\ Len(log) <= MaxLog
  /\ leader \in Replica
  /\ raftOn \in [Replica -> BOOLEAN]
  /\ first \in [Replica -> Index] /\ last \in [Replica -> Index]
  /\ applied \in [Replica -> Index]
  /\ \A r \in Replica : first[r] <= applied[r] /\ applied[r] <= last[r] /\ last[r] <= Len(log)
  /\ data \in [Replica -> [Extent -> [Blocks -> -1..MaxLog]]]
  /\ size \in [Replica -> [Extent -> -1..MaxSize]]
  /\ fresh \in [Replica -> SUBSET Extent]
  /\ up \in [Replica -> BOOLEAN] /\ pend \in [Replica -> BOOLEAN]
  /\ appliedID \in [Replica -> Index] /\ metaAppliedID \in [Replica -> Index]
  /\ minAppliedID \in [Replica -> Index] /\ lastTruncateID \in [Replica -> Index]
  /\ known \in [Replica -> BOOLEAN]
  /\ sched \in [Replica -> [pc : {"idle", "off", "store", "cut"}, id : Index]]
  /\ init \in [max : Extent \cup {0}, size : Nat]
  /\ round.phase \in {"idle", "notify", "own"} /\ round.todo \subseteq Replica
  /\ \A r \in Replica : round.task[r] \subseteq TaskType
  /\ \A r \in Replica : stream[r] \subseteq StreamType
  /\ \A r \in Replica : \A s \in stream[r] : s.at + Len(s.buf) <= s.to
  /\ kind \in [Replica -> {"none", "recover", "normal"}]
  /\ apply \in [Replica -> Index]
  /\ meta \in [Replica -> [id : Index, trunc : Index, known : BOOLEAN]]
  /\ snapped \in [Replica -> BOOLEAN] /\ late \in [Replica -> BOOLEAN]
  /\ faults \in Nat

\* The new replica is filled before it is in normal operation: "It can only happens
\* after all the extent files are repaired by the leader", says StartRaftAfterRepair
\* of itself, and what it tests are sizes.  It has every block whose append was
\* answered.
RepairedFirst ==
  kind[New] = "normal" => \A e \in Extent : \A b \in Acked(e) : data[New][e][b] >= 0

\* r has the block and every overwrite of it among the first n entries.
HasUpTo(r, e, b, n) ==
  /\ data[r][e][b] >= 0
  /\ \A i \in 1..n : log[i] = Write(e, b) => data[r][e][b] >= i

Holds(r) == \A e \in Extent : \A b \in Acked(e) : HasUpTo(r, e, b, applied[r])

\* A replica whose raft runs holds every overwrite up to the index raft has applied
\* on it: whatever the order of applying, storing the id, cutting the log, copying
\* blocks from another replica and crashing.  This is what a client reads after its
\* overwrite was answered.  Excepted are the replicas that were brought up by a raft
\* snapshot (SnapshotCovers) and those a repair wrote to while raft already ran.
Covered == \A r \in Replica : Running(r) /\ ~snapped[r] /\ ~late[r] => Holds(r)

\* ApplySnapshot does nothing because "Never delete the raft log which hadn't
\* applied, so snapshot no need": a replica that took a snapshot has every overwrite
\* up to its applied index too.
SnapshotCovers == \A r \in Replica : Running(r) /\ snapped[r] /\ ~late[r] => Holds(r)

\* A partition can be loaded again after a crash at any moment: the applied id in the
\* APPLY file is not below the part of the log that was cut (raft would refuse to
\* start and the partition would be dropped from the node).
Restartable == \A r \in Replica : ~snapped[r] => Loadable(r)

\* Cutting the log at the minimum of the applied ids leaves every old member the
\* entries it lacks: a leader that itself has the whole log never has to send an
\* old member a snapshot.
OldKeepLog == \A r \in Old : ~snapped[leader] => first[leader] <= last[r]

\* Once the new replica has been created it will run its raft: the repair brings its
\* extents to the sizes StartRaftAfterRepair waits for, over crashes of every process.
Joined == (kind[New] = "recover") ~> raftOn[New]
=============================================================================
