------------------------------- MODULE MetaTx -------------------------------
(***************************************************************************)
(* Metadata transactions of CubeFS.                                        *)
(*                                                                         *)
(* A transaction that touches inodes and dentries of several metadata      *)
(* partitions is coordinated by one of these partitions, its transaction   *)
(* manager (TM); every partition that holds one of its items is a resource *)
(* manager (RM).  A partition is a raft group: an FSM operation is one     *)
(* atomic step on durable state.  What a leader remembers between two FSM  *)
(* operations (which RMs have answered) is volatile.                       *)
(*                                                                         *)
(*   src/metanode/transaction.go              TM, RM, timers               *)
(*   src/metanode/partition_op_transaction.go request handlers             *)
(*   src/metanode/partition_fsmop_transaction.go  FSM operations           *)
(*   src/proto/transaction.go                 transaction record           *)
(*   src/sdk/meta/{api,operation,transaction}.go  the client               *)
(***************************************************************************)
EXTENDS Naturals, FiniteSets

CONSTANTS
    Tx,           \* transaction identifiers; a TM never hands one out twice
    MP,           \* metadata partitions
    Item,         \* inodes and dentries
    Loc,          \* Loc[i]: the partition that stores item i
    Items,        \* Items[t]: TxInodeInfos and TxDentryInfos of t
    TmID,         \* TmID[t]: the partition that is t's TM
    StatusKept,   \* StatusKept[t]: the items whose operation reports its
                  \* status to the client code (txDcreate, txIcreate)
    None, Old, Plain,   \* no transaction, initial value, non-tx write
    MaxFailover   \* bound on the TM leader changes of a behaviour

Parts(t) == {Loc[i] : i \in Items[t]}
Val == Tx \cup {Old, Plain}
NoRb == [tx |-> None, old |-> Old]
Ops == {"commit", "rollback"}

\* Faulty variant: a finished transaction gets a state nobody knows.
DoneUnknown(op) == "finished"

\* The state commitTxInfo / rollbackTxInfo leave behind.
Done(op) == IF op = "commit" THEN "commitDone" ELSE "rollbackDone"

ASSUME ConstAssumption ==
    /\ Loc \in [Item -> MP]
    /\ Items \in [Tx -> SUBSET Item]
    /\ TmID \in [Tx -> MP]
    /\ StatusKept \in [Tx -> SUBSET Item]
    /\ None \notin Tx /\ Old \notin Tx /\ Plain \notin Tx
    /\ \A t \in Tx : TmID[t] \in Parts(t)
    /\ MaxFailover \in Nat

VARIABLES
    state,     \* state[m][t]: TransactionInfo.State in m's txTree, "none" if absent
    rmFinish,  \* rmFinish[m][t]: TransactionInfo.RMFinish
    rb,        \* rb[i]: entry of txRbInodeTree / txRbDentryTree: owner, old value
    val,       \* val[i]: who wrote the inode or dentry last
    initReq,   \* initReq[t]: partitions with an OpMetaTxCreate of t in flight
    initAck,   \* initAck[t]: partitions that answered it
    opReq,     \* opReq[t]: items with a client request in flight
    res,       \* res[t][i]: what the client knows of its request
    tmReq,     \* tmReq[t]: OpTxCommit / OpTxRollback of the client in flight
    rmReq,     \* rmReq[t]: <<op, m>>: OpTxCommitRM / OpTxRollbackRM in flight
    rmAck,     \* rmAck[t]: <<op, m>>: answers the TM's leader has collected
    cli,       \* cli[t]: progress of the client
    failover,  \* leader changes of TMs so far
    \* History, read by no guard:
    decision,  \* decision[t]: what txSetState decided
    fates,     \* fates[m][t]: what m did with its part of t
    applied    \* applied[t]: items t has changed

rmVars  == <<state, rmFinish, rb, val, fates>>
netVars == <<initReq, initAck, opReq, tmReq, rmReq, rmAck>>
cliVars == <<res, cli>>
vars == <<rmVars, netVars, cliVars, failover, decision, applied>>

States == {"none", "preCommit", "commit", "rollback", "commitDone", "rollbackDone"}
CliStates == {"idle", "creating", "prepare", "committing", "rollingback",
              "committed", "done"}
Results == {"none", "ok", "fail", "err"}

Init ==
    /\ state = [m \in MP |-> [t \in Tx |-> "none"]]
    /\ rmFinish = [m \in MP |-> [t \in Tx |-> FALSE]]
    /\ rb = [i \in Item |-> NoRb]
    /\ val = [i \in Item |-> Old]
    /\ initReq = [t \in Tx |-> {}]
    /\ initAck = [t \in Tx |-> {}]
    /\ opReq = [t \in Tx |-> {}]
    /\ res = [t \in Tx |-> [i \in Item |-> "none"]]
    /\ tmReq = [t \in Tx |-> {}]
    /\ rmReq = [t \in Tx |-> {}]
    /\ rmAck = [t \in Tx |-> {}]
    /\ cli = [t \in Tx |-> "idle"]
    /\ failover = 0
    /\ decision = [t \in Tx |-> "none"]
    /\ fates = [m \in MP |-> [t \in Tx |-> {}]]
    /\ applied = [t \in Tx |-> {}]

-----------------------------------------------------------------------------
(* Helpers of the partition state machine.                                 *)

\* txInRMDone: the partition does not know t, or has finished its part.
TxInRMDone(m, t) == state[m][t] = "none" \/ rmFinish[m][t]

\* The items of t that m has to commit or roll back.
Held(m, t) == {i \in Items[t] : Loc[i] = m /\ rb[i].tx = t}

\* The effect of fsmTxCommitRM: the rollback records go, the values stay.
CommitRM(m, t) ==
    /\ rb' = [i \in Item |-> IF i \in Held(m, t) THEN NoRb ELSE rb[i]]
    /\ rmFinish' = [rmFinish EXCEPT ![m][t] = TRUE]
    /\ fates' = [fates EXCEPT ![m][t] = @ \cup {"commit"}]
    /\ UNCHANGED <<state, val>>

\* Faulty variant: the records go, the old values do not come back.
RollbackRMNoRestore(m, t) ==
    /\ rb' = [i \in Item |-> IF i \in Held(m, t) THEN NoRb ELSE rb[i]]
    /\ rmFinish' = [rmFinish EXCEPT ![m][t] = TRUE]
    /\ fates' = [fates EXCEPT ![m][t] = @ \cup {"rollback"}]
    /\ UNCHANGED <<state, val>>

\* The effect of fsmTxRollbackRM: the old values come back.
RollbackRM(m, t) ==
    /\ rb' = [i \in Item |-> IF i \in Held(m, t) THEN NoRb ELSE rb[i]]
    /\ val' = [i \in Item |-> IF i \in Held(m, t) THEN rb[i].old ELSE val[i]]
    /\ rmFinish' = [rmFinish EXCEPT ![m][t] = TRUE]
    /\ fates' = [fates EXCEPT ![m][t] = @ \cup {"rollback"}]
    /\ UNCHANGED state

-----------------------------------------------------------------------------
(* Creation of a transaction.                                              *)

\* The TM registers t in state PreCommit and asks the other partitions to
\* register it too.
TxCreate(t) ==
    /\ cli[t] = "idle"
    /\ cli' = [cli EXCEPT ![t] = "creating"]
    /\ state' = [state EXCEPT ![TmID[t]][t] = "preCommit"]
    /\ initReq' = [initReq EXCEPT ![t] = Parts(t) \ {TmID[t]}]
    /\ UNCHANGED <<rmFinish, rb, val, fates, initAck, opReq, tmReq, rmReq, rmAck,
                   res, failover, decision, applied>>

\* An RM registers t; a transaction it knows already is left as it is.
RmTxCreate(t, m) ==
    /\ m \in initReq[t]
    /\ \/ /\ state[m][t] = "none"
          /\ state' = [state EXCEPT ![m][t] = "preCommit"]
          /\ rmFinish' = [rmFinish EXCEPT ![m][t] = FALSE]
       \/ state[m][t] # "none" /\ UNCHANGED <<state, rmFinish>>
    /\ initAck' = [initAck EXCEPT ![t] = @ \cup {m}]
    /\ UNCHANGED <<rb, val, fates, initReq, opReq, tmReq, rmReq, rmAck,
                   cliVars, failover, decision, applied>>

\* Every partition has registered t: the client sends its operations.
TxStarted(t) ==
    /\ cli[t] = "creating"
    /\ Parts(t) \ {TmID[t]} \subseteq initAck[t]
    /\ cli' = [cli EXCEPT ![t] = "prepare"]
    /\ opReq' = [opReq EXCEPT ![t] = Items[t]]
    /\ UNCHANGED <<rmVars, initReq, initAck, tmReq, rmReq, rmAck, res,
                   failover, decision, applied>>

\* Some partition did not answer, or the answer to the client was lost: the
\* client has no transaction and sends nothing more.
TxCreateFailed(t) ==
    /\ cli[t] = "creating"
    /\ cli' = [cli EXCEPT ![t] = "done"]
    /\ UNCHANGED <<rmVars, netVars, res, failover, decision, applied>>

-----------------------------------------------------------------------------
(* The operations of a transaction.                                        *)

\* The client hears of the outcome r of its request for item i, unless it has
\* stopped waiting or the answer is lost.
Answer(t, i, r) ==
    \/ /\ cli[t] = "prepare" /\ res[t][i] = "none"
       /\ res' = [res EXCEPT ![t][i] = r]
    \/ UNCHANGED res

\* Faulty variant: no txInRMDone check before the change.
RmTxOpUnchecked(t, i) ==
    /\ i \in opReq[t]
    /\ rb[i].tx = None
    /\ rb' = [rb EXCEPT ![i] = [tx |-> t, old |-> val[i]]]
    /\ val' = [val EXCEPT ![i] = t]
    /\ applied' = [applied EXCEPT ![t] = @ \cup {i}]
    /\ Answer(t, i, "ok")
    /\ UNCHANGED <<state, rmFinish, fates, netVars, cli, failover, decision>>

\* fsmTxCreateInode, fsmTxUnlinkInode, fsmTxCreateLinkInode, fsmTxCreateDentry,
\* fsmTxDeleteDentry, fsmTxUpdateDentry: save the old value, make the change.
RmTxOp(t, i) ==
    /\ i \in opReq[t]
    /\ ~TxInRMDone(Loc[i], t)
    /\ rb[i].tx = None
    /\ rb' = [rb EXCEPT ![i] = [tx |-> t, old |-> val[i]]]
    /\ val' = [val EXCEPT ![i] = t]
    /\ applied' = [applied EXCEPT ![t] = @ \cup {i}]
    /\ Answer(t, i, "ok")
    /\ UNCHANGED <<state, rmFinish, fates, netVars, cli, failover, decision>>

\* The same request again: addTxRollback* finds t's own record.
RmTxOpAgain(t, i) ==
    /\ i \in opReq[t]
    /\ ~TxInRMDone(Loc[i], t)
    /\ rb[i].tx = t
    /\ Answer(t, i, "ok")
    /\ UNCHANGED <<rmVars, netVars, cli, failover, decision, applied>>

\* The request is refused: t is finished or unknown here, another transaction
\* holds the item, or the operation itself does not apply.  "err" is a refusal
\* with OpExistErr, "fail" one with another status.
RmTxOpRefused(t, i) ==
    /\ i \in opReq[t]
    /\ \/ Answer(t, i, "fail")
       \/ ~TxInRMDone(Loc[i], t) /\ rb[i].tx = None /\ Answer(t, i, "err")
    /\ UNCHANGED <<rmVars, netVars, cli, failover, decision, applied>>

\* The client's retries are exhausted without an answer.
ClientOpTimeout(t, i) ==
    /\ cli[t] = "prepare" /\ i \in Items[t] /\ res[t][i] = "none"
    /\ res' = [res EXCEPT ![t][i] = "err"]
    /\ UNCHANGED <<rmVars, netVars, cli, failover, decision, applied>>

\* Faulty variant: no operation hands its status on.
OpSucceededAlways(t, i) == res[t][i] \in {"ok", "fail"}

\* What SendTxPack and its callers make of an answer: only txDcreate and
\* txIcreate hand a status other than OpExistErr on to their caller.
OpSucceeded(t, i) ==
    \/ res[t][i] = "ok"
    \/ res[t][i] = "fail" /\ i \notin StatusKept[t]

\* Transaction.OnDone: commit if every operation succeeded, else roll back.
OnDone(t) ==
    /\ cli[t] = "prepare"
    /\ \A i \in Items[t] : res[t][i] # "none"
    /\ LET ok == \A i \in Items[t] : OpSucceeded(t, i)
       IN /\ cli' = [cli EXCEPT ![t] = IF ok THEN "committing" ELSE "rollingback"]
          /\ tmReq' = [tmReq EXCEPT ![t] =
                         @ \cup {IF ok THEN "commit" ELSE "rollback"}]
    /\ UNCHANGED <<rmVars, initReq, initAck, opReq, rmReq, rmAck, res,
                   failover, decision, applied>>

\* The answer to OpTxCommit: commitTx says Ok once the TM is in CommitDone.
CommitAnswered(t) ==
    /\ cli[t] = "committing"
    /\ state[TmID[t]][t] = "commitDone"
    /\ cli' = [cli EXCEPT ![t] = "committed"]
    /\ UNCHANGED <<rmVars, netVars, res, failover, decision, applied>>

\* The client gets an error, or no answer, and leaves t to the TM's timer.
ClientGivesUp(t) ==
    /\ cli[t] \in {"committing", "rollingback"}
    /\ cli' = [cli EXCEPT ![t] = "done"]
    /\ UNCHANGED <<rmVars, netVars, res, failover, decision, applied>>

-----------------------------------------------------------------------------
(* The transaction manager.                                                *)

\* Faulty variant: the current state is not looked at.
SetStateUnguarded(t, op) ==
    /\ state[TmID[t]][t] # "none"
    /\ state' = [state EXCEPT ![TmID[t]][t] = op]
    /\ decision' = [decision EXCEPT ![t] = op]
    /\ UNCHANGED <<rmFinish, rb, val, fates, netVars, cliVars, failover, applied>>

\* txSetState: a transaction in PreCommit is decided, once.
SetState(t, op) ==
    /\ state[TmID[t]][t] = "preCommit"
    /\ state' = [state EXCEPT ![TmID[t]][t] = op]
    /\ decision' = [decision EXCEPT ![t] = op]
    /\ UNCHANGED <<rmFinish, rb, val, fates, netVars, cliVars, failover, applied>>

TxCommit(t) == "commit" \in tmReq[t] /\ SetState(t, "commit")
TxRollback(t) == "rollback" \in tmReq[t] /\ SetState(t, "rollback")

\* processTx finds t expired; the timeout may pass at any moment.
TxExpired(t) == SetState(t, "rollback")

\* sendToRM, of the handler or, repeated, of processTx.
SendToRM(t, m) ==
    /\ m \in Parts(t)
    /\ state[TmID[t]][t] \in Ops
    /\ <<state[TmID[t]][t], m>> \notin rmReq[t]
    /\ rmReq' = [rmReq EXCEPT ![t] = @ \cup {<<state[TmID[t]][t], m>>}]
    /\ UNCHANGED <<rmVars, initReq, initAck, opReq, tmReq, rmAck, cliVars,
                   failover, decision, applied>>

\* TxCommitRM / TxRollbackRM on an RM.  "Not there" and "finished" count as Ok
\* in sendToRM; the answer may be lost.
RmTxApply(t, m, op) ==
    /\ <<op, m>> \in rmReq[t]
    /\ \/ TxInRMDone(m, t) /\ UNCHANGED rmVars
       \/ ~TxInRMDone(m, t) /\ op = "commit" /\ CommitRM(m, t)
       \/ ~TxInRMDone(m, t) /\ op = "rollback" /\ RollbackRM(m, t)
    /\ rmAck' \in {rmAck, [rmAck EXCEPT ![t] = @ \cup {<<op, m>>}]}
    /\ UNCHANGED <<initReq, initAck, opReq, tmReq, rmReq, cliVars, failover,
                   decision, applied>>

\* Faulty variant: one answer is enough.
TxAppliedEarly(t) ==
    /\ state[TmID[t]][t] \in Ops
    /\ \E m \in Parts(t) : <<state[TmID[t]][t], m>> \in rmAck[t]
    /\ state' = [state EXCEPT ![TmID[t]][t] = Done(@)]
    /\ UNCHANGED <<rmFinish, rb, val, fates, netVars, cliVars, failover,
                   decision, applied>>

\* Every RM has answered: opFSMTxCommit / opFSMTxRollback.
TxApplied(t) ==
    /\ state[TmID[t]][t] \in Ops
    /\ \A m \in Parts(t) : <<state[TmID[t]][t], m>> \in rmAck[t]
    /\ state' = [state EXCEPT ![TmID[t]][t] = Done(@)]
    /\ UNCHANGED <<rmFinish, rb, val, fates, netVars, cliVars, failover,
                   decision, applied>>

\* The TM's leader is replaced: its unfinished commitTx / rollbackTx is lost.
TmFailover(t) ==
    /\ failover < MaxFailover
    /\ state[TmID[t]][t] \in Ops
    /\ failover' = failover + 1
    /\ rmAck' = [rmAck EXCEPT ![t] = {}]
    /\ UNCHANGED <<rmVars, initReq, initAck, opReq, tmReq, rmReq, cliVars,
                   decision, applied>>

-----------------------------------------------------------------------------
(* Removal of transaction records.                                         *)

\* delTxFromRM, DefaultTxDeleteTime (120 s) after the RM finished; a TM also
\* waits for CommitDone or RollbackDone.  A registration request is not in
\* flight that long, which is what the delay is for.
DelTx(t, m) ==
    /\ state[m][t] # "none" /\ rmFinish[m][t]
    /\ m = TmID[t] => state[m][t] \in {"commitDone", "rollbackDone"}
    /\ state' = [state EXCEPT ![m][t] = "none"]
    /\ rmFinish' = [rmFinish EXCEPT ![m][t] = FALSE]
    /\ initReq' = [initReq EXCEPT ![t] = @ \ {m}]
    /\ UNCHANGED <<rb, val, fates, initAck, opReq, tmReq, rmReq, rmAck, cliVars,
                   failover, decision, applied>>

\* Faulty variant: only a transaction whose TM says RollbackDone is cleared.
ClearOrphanTxKnown(t, m) ==
    /\ m # TmID[t]
    /\ ~TxInRMDone(m, t)
    /\ state[TmID[t]][t] = "rollbackDone"
    /\ RollbackRM(m, t)
    /\ UNCHANGED <<netVars, cliVars, failover, decision, applied>>

\* Faulty variant: the TM is not asked.
ClearOrphanTxUnasked(t, m) ==
    /\ m # TmID[t]
    /\ ~TxInRMDone(m, t)
    /\ RollbackRM(m, t)
    /\ UNCHANGED <<netVars, cliVars, failover, decision, applied>>

\* clearOrphanTx: an RM that has held t for an hour asks t's TM, which does not
\* know it, and rolls its part back.
ClearOrphanTx(t, m) ==
    /\ m # TmID[t]
    /\ ~TxInRMDone(m, t)
    /\ state[TmID[t]][t] = "none"
    /\ RollbackRM(m, t)
    /\ UNCHANGED <<netVars, cliVars, failover, decision, applied>>

-----------------------------------------------------------------------------
(* The environment.                                                        *)

\* An operation outside transactions: refused on an item with a rollback
\* record (inodeInTx, dentryInTx).
PlainOp(i) ==
    /\ rb[i].tx = None
    /\ val' = [val EXCEPT ![i] = Plain]
    /\ UNCHANGED <<state, rmFinish, rb, fates, netVars, cliVars, failover,
                   decision, applied>>

\* A request of sendToRM is lost.  (Any other request that is lost is one that
\* is never handled: nothing obliges a handler to run.)
Lose(t) ==
    /\ \E r \in rmReq[t] : rmReq' = [rmReq EXCEPT ![t] = @ \ {r}]
    /\ UNCHANGED <<rmVars, initReq, initAck, opReq, tmReq, rmAck, cliVars,
                   failover, decision, applied>>

-----------------------------------------------------------------------------
Client(t) ==
    \/ TxCreate(t) \/ TxStarted(t) \/ TxCreateFailed(t)
    \/ \E i \in Item : ClientOpTimeout(t, i)
    \/ OnDone(t) \/ CommitAnswered(t) \/ ClientGivesUp(t)

TM(t) ==
    \/ TxCommit(t) \/ TxRollback(t) \/ TxExpired(t)
    \/ \E m \in MP : SendToRM(t, m)
    \/ TxApplied(t) \/ TmFailover(t)

RM(t) ==
    \/ \E i \in Item : RmTxOp(t, i) \/ RmTxOpAgain(t, i) \/ RmTxOpRefused(t, i)
    \/ \E m \in MP : \/ RmTxCreate(t, m)
                     \/ \E op \in Ops : RmTxApply(t, m, op)
                     \/ DelTx(t, m)
                     \/ ClearOrphanTx(t, m)

Next ==
    \/ \E t \in Tx : Client(t) \/ TM(t) \/ RM(t) \/ Lose(t)
    \/ \E i \in Item : PlainOp(i)

Spec == Init /\ [][Next]_vars

\* The timers and goroutines of a live leader run: processTx expires, re-sends,
\* deletes and clears (every 3 s on the leader), commitTx / rollbackTx finish
\* once every RM answered, and a request that is re-sent for ever gets through.
Fairness ==
    \A t \in Tx :
        /\ WF_vars(TxExpired(t))
        /\ WF_vars(TxApplied(t))
        /\ \A m \in MP :
            /\ WF_vars(SendToRM(t, m))
            /\ \A op \in Ops :
                 SF_vars(RmTxApply(t, m, op) /\ <<op, m>> \in rmAck'[t])
            /\ WF_vars(DelTx(t, m))
            /\ WF_vars(ClearOrphanTx(t, m))

FairSpec == Spec /\ Fairness

-----------------------------------------------------------------------------
(* Properties.                                                             *)

TypeOK ==
    /\ state \in [MP -> [Tx -> States]]
    /\ rmFinish \in [MP -> [Tx -> BOOLEAN]]
    /\ rb \in [Item -> [tx : Tx \cup {None}, old : Val]]
    /\ val \in [Item -> Val]
    /\ initReq \in [Tx -> SUBSET MP] /\ initAck \in [Tx -> SUBSET MP]
    /\ opReq \in [Tx -> SUBSET Item]
    /\ res \in [Tx -> [Item -> Results]]
    /\ tmReq \in [Tx -> SUBSET Ops]
    /\ rmReq \in [Tx -> SUBSET (Ops \X MP)]
    /\ rmAck \in [Tx -> SUBSET (Ops \X MP)]
    /\ cli \in [Tx -> CliStates]
    /\ failover \in 0..MaxFailover
    /\ decision \in [Tx -> Ops \cup {"none"}]
    /\ fates \in [MP -> [Tx -> SUBSET Ops]]
    /\ applied \in [Tx -> SUBSET Item]

\* No partition commits its part of a transaction while another, or the same
\* one at another time, rolls it back: the client's commit races with the
\* expiry timer, with duplicated requests and with the orphan cleaner.
Agreement ==
    \A t \in Tx, m1, m2 \in MP :
        ~("commit" \in fates[m1][t] /\ "rollback" \in fates[m2][t])

\* A client that is told its commit succeeded finds it applied on every
\* partition, although sendToRM counts "no such transaction" as success.
CommittedEverywhere ==
    \A t \in Tx : cli[t] = "committed" =>
        \A m \in Parts(t) : "commit" \in fates[m][t]

\* A value that no rollback record protects was not left behind by an
\* unfinished or rolled back transaction.
NoDirtyValue ==
    \A i \in Item, t \in Tx :
        val[i] = t /\ rb[i].tx # t => "commit" \in fates[Loc[i]][t]

\* A rollback record never outlives its transaction on that partition: an item
\* cannot stay locked by a transaction nobody will finish.
LockHasOwner ==
    \A i \in Item, t \in Tx :
        rb[i].tx = t => i \in Items[t] /\ ~TxInRMDone(Loc[i], t)

\* A commit is decided only for a transaction that changed all its items:
\* Commit notifies the RMs "that transaction is completed successfully".
CommitIsComplete ==
    \A t \in Tx : decision[t] = "commit" => applied[t] = Items[t]

\* Every transaction is forgotten by every partition in the end, so every
\* rollback record is released, whatever client, TM leader and network do.
AllResolved ==
    \A t \in Tx : <>[](\A m \in MP : state[m][t] = "none")

\* Transactions commit atomically: MetaTx implements AtomicCommit, with the
\* decision of txSetState as the verdict.
Told == {t \in Tx : cli[t] = "committed"}
AC == INSTANCE AtomicCommit
      WITH Members <- Parts, verdict <- decision, outcome <- fates, told <- Told
CommitsAtomically == AC!Spec

-----------------------------------------------------------------------------
(* The inductive invariant behind Agreement, CommittedEverywhere,          *)
(* NoDirtyValue and LockHasOwner.                                          *)

\* Nothing is known of a transaction nobody has created.
FreshInv(t) == cli[t] = "idle" =>
    /\ \A m \in MP : state[m][t] = "none" /\ ~rmFinish[m][t] /\ fates[m][t] = {}
    /\ initReq[t] = {} /\ initAck[t] = {} /\ opReq[t] = {}
    /\ tmReq[t] = {} /\ rmReq[t] = {} /\ rmAck[t] = {}
    /\ decision[t] = "none"

\* The TM's record and the decision tell the same story.
DecisionInv(t) ==
    /\ state[TmID[t]][t] = "preCommit" => decision[t] = "none"
    /\ state[TmID[t]][t] \in {"commit", "commitDone"} => decision[t] = "commit"
    /\ state[TmID[t]][t] \in {"rollback", "rollbackDone"} => decision[t] = "rollback"
    /\ state[TmID[t]][t] = "none" /\ cli[t] # "idle" => decision[t] # "none"

\* What is in flight, acknowledged and done follows the decision.
FollowInv(t) ==
    /\ initReq[t] \subseteq Parts(t) \ {TmID[t]} /\ opReq[t] \subseteq Items[t]
    /\ \A m \in MP : state[m][t] # "none" => m \in Parts(t)
    /\ \A op \in Ops, m \in MP :
         /\ <<op, m>> \in rmReq[t] => decision[t] = op /\ m \in Parts(t)
         /\ op \in fates[m][t] => decision[t] = op
         /\ <<"commit", m>> \in rmAck[t] => "commit" \in fates[m][t]

\* A decision to commit finds every partition registered, and none of them
\* can lose its part before committing it, or see it again afterwards.
CommitInv(t) ==
    /\ "commit" \in tmReq[t] \/ cli[t] = "prepare" =>
         Parts(t) \ {TmID[t]} \subseteq initAck[t]
    /\ \A m \in MP :
         /\ m \in initAck[t] => state[m][t] # "none" \/ fates[m][t] # {}
         /\ state[m][t] # "none" /\ rmFinish[m][t] => fates[m][t] # {}
         /\ "commit" \in fates[m][t] => TxInRMDone(m, t)
                           /\ (state[m][t] = "none" => m \notin initReq[t])
    /\ decision[t] = "commit" =>
         \A m \in Parts(t) : ~TxInRMDone(m, t) \/ "commit" \in fates[m][t]
    /\ \/ state[TmID[t]][t] = "commitDone"
       \/ state[TmID[t]][t] = "none" /\ decision[t] = "commit"
       \/ cli[t] = "committed"
       => \A m \in Parts(t) : "commit" \in fates[m][t]

\* A saved old value was not left behind by an unfinished transaction either.
SavedInv ==
    \A i \in Item, t \in Tx :
        rb[i].tx # None /\ rb[i].old = t => "commit" \in fates[Loc[i]][t]

IndInv ==
    /\ TypeOK /\ LockHasOwner /\ NoDirtyValue /\ SavedInv
    /\ \A t \in Tx : FreshInv(t) /\ DecisionInv(t) /\ FollowInv(t) /\ CommitInv(t)
=============================================================================
