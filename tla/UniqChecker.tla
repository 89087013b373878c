---------------------------- MODULE UniqChecker -----------------------------
(***************************************************************************)
(* The filter that keeps a repeated link or unlink request from being      *)
(* applied twice.                                                          *)
(*                                                                         *)
(*   src/metanode/uniq_checker.go          the checker and its queue       *)
(*   src/metanode/partition_op_uniq.go     eviction, proposed by the leader*)
(*   src/metanode/partition_fsmop_uniq.go  eviction, applied               *)
(*   src/metanode/partition.go             startCheckerEvict               *)
(*                                                                         *)
(* Every replica applies the same raft log, each at its own pace, and      *)
(* stamps an id with its own clock.  Ids are evicted by age, so replicas   *)
(* must not decide that by themselves: the leader proposes an id, and      *)
(* every replica drops that id and all ids before it in its queue.         *)
(***************************************************************************)
EXTENDS Integers, Sequences, FiniteSets, SequencesExt

CONSTANTS
    Id,          \* request ids; 0, which is never filtered, is not one
    Replica,
    Cap,         \* opCheckerSliceCap
    KeepTime, KeepOps,
    MaxLog,      \* bound on the log
    MaxTick,     \* bound on the steps of the clock
    MaxRestart   \* bound on the restarts of a behaviour

ASSUME UqAssumption ==
    /\ Cap \in Nat \ {0} /\ KeepTime \in Nat \ {0} /\ KeepOps \in Nat
    /\ MaxLog \in Nat /\ MaxTick \in Nat /\ MaxRestart \in Nat

VARIABLES
    now, ticks,
    leader,
    log,        \* raft log: requests and evictions, with the time of the proposal
    rep,        \* rep[r]: replica r, in memory
    disk,       \* disk[r]: what r stored last
    proposal,   \* proposal[r]: the id r is about to propose for eviction, or none
    restarts    \* restarts so far

vars == <<now, ticks, leader, log, rep, disk, proposal, restarts>>

-----------------------------------------------------------------------------
(* uniqOpQueue: a queue in chunks of Cap entries.  A chunk cut at the      *)
(* front has no more room at its end than before.                          *)

NewChunk == [s |-> <<>>, room |-> Cap]
NewQueue == [cnt |-> 0, ss |-> <<NewChunk>>]

\* Faulty variant: the last chunk is never full.
QAppendOver(q, v) ==
    LET cur == Last(q.ss)
    IN [cnt |-> q.cnt + 1,
        ss |-> ReplaceAt(q.ss, Len(q.ss), [s |-> Append(cur.s, v), room |-> cur.room - 1])]

QAppend(q, v) ==
    LET full == Last(q.ss).room = 0
        ss == IF full THEN Append(q.ss, NewChunk) ELSE q.ss
        cur == Last(ss)
    IN [cnt |-> q.cnt + 1,
        ss |-> ReplaceAt(ss, Len(ss), [s |-> Append(cur.s, v), room |-> cur.room - 1])]

\* Everything in the queue, in the order of scan.
Scan(q) == FlattenSeq([k \in DOMAIN q.ss |-> q.ss[k].s])

\* The number of entries in the chunks before chunk k.
Before(q, k) == Len(FlattenSeq([j \in 1..k - 1 |-> q.ss[j].s]))


\* truncate(idx): the entries 0..idx go.
Truncate(q, idx) ==
    IF idx >= q.cnt - 1 THEN NewQueue
    ELSE LET t == CHOOSE k \in DOMAIN q.ss :
                     Before(q, k) <= idx /\ idx < Before(q, k) + Len(q.ss[k].s)
             rest == SubSeq(q.ss[t].s, idx - Before(q, t) + 2, Len(q.ss[t].s))
         IN [cnt |-> q.cnt - idx - 1,
             ss |-> <<[q.ss[t] EXCEPT !.s = rest]>> \o SubSeq(q.ss, t + 1, Len(q.ss))]

-----------------------------------------------------------------------------
(* uniqChecker.  legal holds the log positions of requests it let pass.    *)

NewReplica == [applied |-> 0, op |-> {}, que |-> NewQueue, legal |-> {}]

Init ==
    /\ now = 0 /\ ticks = 0
    /\ leader \in Replica
    /\ log = <<>>
    /\ rep = [r \in Replica |-> NewReplica]
    /\ disk = [r \in Replica |-> NewReplica]
    /\ proposal = [r \in Replica |-> {}]
    /\ restarts = 0

\* legalIn, for the request at position n.
LegalIn(c, n) ==
    IF log[n].id \in c.op THEN c
    ELSE [c EXCEPT !.op = @ \cup {log[n].id},
                   !.que = QAppend(@, [id |-> log[n].id, atime |-> now]),
                   !.legal = @ \cup {n}]

\* doEvict: the queue up to and including id is dropped; the map rebuilt once a
\* day is the map it replaces.
DoEvict(c, id) ==
    IF id \notin c.op THEN c
    ELSE LET q == Scan(c.que)
             cnt == CHOOSE k \in DOMAIN q : q[k].id = id /\ \A j \in 1..k - 1 : q[j].id # id
         IN [c EXCEPT !.op = @ \ {q[k].id : k \in 1..cnt},
                      !.que = Truncate(@, cnt - 1)]


\* evictIndex: the ids that may go, oldest first.  Past KeepOps ids, one may go
\* after KeepTime; the last KeepOps only after ten times as long.
EvictCount(c) ==
    LET q == Scan(c.que)
        old(k) == now - q[k].atime >=
                    IF c.que.cnt - (k - 1) <= KeepOps THEN 10 * KeepTime ELSE KeepTime
        fit == {n \in 0..Len(q) : \A k \in 1..n : old(k)}
    IN IF c.que.cnt <= KeepOps THEN 0
       ELSE CHOOSE n \in fit : \A k \in fit : k <= n

-----------------------------------------------------------------------------
(* The steps.                                                              *)

Propose(e) == Len(log) < MaxLog /\ log' = Append(log, e)

\* A link or unlink request, for the first time or again.
Request(id) ==
    /\ Propose([kind |-> "op", id |-> id, at |-> now])
    /\ UNCHANGED <<now, ticks, leader, rep, disk, proposal, restarts>>

\* uniqCheckerEvict on the leader: what to evict is read first, ...
EvictIndex(r) ==
    /\ r = leader /\ proposal[r] = {}
    /\ EvictCount(rep[r]) > 0
    /\ proposal' = [proposal EXCEPT ![r] = {Scan(rep[r].que)[EvictCount(rep[r])].id}]
    /\ UNCHANGED <<now, ticks, leader, log, rep, disk, restarts>>

\* ... and proposed later; a replica that no longer leads fails.
SubmitEvict(r) ==
    /\ \E id \in proposal[r] :
          IF r = leader THEN Propose([kind |-> "evict", id |-> id, at |-> now])
                        ELSE UNCHANGED log
    /\ proposal' = [proposal EXCEPT ![r] = {}]
    /\ UNCHANGED <<now, ticks, leader, rep, disk, restarts>>

\* Replica r applies its next log entry.
Apply(r) ==
    /\ rep[r].applied < Len(log)
    /\ LET n == rep[r].applied + 1
           c == [rep[r] EXCEPT !.applied = n]
       IN rep' = [rep EXCEPT ![r] = IF log[n].kind = "op" THEN LegalIn(c, n)
                                    ELSE DoEvict(c, log[n].id)]
    /\ UNCHANGED <<now, ticks, leader, log, disk, proposal, restarts>>

\* opFSMStoreTick: the queue is cloned and written out (as long as a restart
\* may still read it).
Store(r) ==
    /\ disk[r] # rep[r] /\ restarts < MaxRestart
    /\ disk' = [disk EXCEPT ![r] = rep[r]]
    /\ UNCHANGED <<now, ticks, leader, log, rep, proposal, restarts>>

\* UnMarshal: the stored entries are appended to an empty queue.
Load(d) ==
    LET q == Scan(d.que)
    IN [d EXCEPT !.op = {q[k].id : k \in DOMAIN q},
                 !.que = FoldLeft(QAppend, NewQueue, q)]

\* A replica restarts and replays the log; entries get the time of the replay.
Restart(r) ==
    /\ restarts < MaxRestart /\ restarts' = restarts + 1
    /\ rep' = [rep EXCEPT ![r] = Load(disk[r])]
    /\ proposal' = [proposal EXCEPT ![r] = {}]
    /\ leader' \in Replica
    /\ UNCHANGED <<now, ticks, log, disk>>

ChangeLeader(r) ==
    /\ r # leader
    /\ leader' = r
    /\ UNCHANGED <<now, ticks, log, rep, disk, proposal, restarts>>

Tick ==
    /\ ticks < MaxTick /\ ticks' = ticks + 1
    /\ now' \in {now + 1, now + 10 * KeepTime}
    /\ UNCHANGED <<leader, log, rep, disk, proposal, restarts>>

Next ==
    \/ \E id \in Id : Request(id)
    \/ \E r \in Replica :
          \/ EvictIndex(r) \/ SubmitEvict(r) \/ Apply(r)
          \/ Store(r) \/ Restart(r) \/ ChangeLeader(r)
    \/ Tick

Spec == Init /\ [][Next]_vars

-----------------------------------------------------------------------------
(* Properties.                                                             *)

TypeOK ==
    /\ now \in Nat /\ ticks \in 0..MaxTick /\ leader \in Replica /\ restarts \in 0..MaxRestart
    /\ Len(log) <= MaxLog
    /\ \A r \in Replica : \A c \in {rep[r], disk[r]} :
          /\ c.applied \in 0..Len(log) /\ c.legal \subseteq 1..c.applied
          /\ c.op \subseteq Id
          /\ c.que.ss # <<>>
          /\ \A k \in DOMAIN c.que.ss : c.que.ss[k].room \in 0..Cap - Len(c.que.ss[k].s)

\* What the log up to position n says is remembered, ids in order of arrival: the
\* checker without clocks, chunks, maps and files.
Remembered(n) ==
    LET step(q, e) ==
            IF e.kind = "op" THEN IF Contains(q, e.id) THEN q ELSE Append(q, e.id)
            ELSE IF Contains(q, e.id)
                 THEN SubSeq(q, 1 + CHOOSE k \in DOMAIN q : q[k] = e.id, Len(q)) ELSE q
    IN FoldLeft(step, <<>>, SubSeq(log, 1, n))


=============================================================================
