---------------------------- MODULE MetaTxProofs ----------------------------
(* Proofs about MetaTx for all transactions, partitions and items: it is   *)
(* well typed, IndInv is inductive, and what follows from it.              *)
EXTENDS MetaTx, TLAPS

\* The provers' time for a step, in seconds
USE ZenonT(5), SMTT(60), ZenonT(60)

\* The initial state is well typed.
LEMMA InitTypeOK == Init => TypeOK
BY ConstAssumption DEF Init, TypeOK, Val, NoRb, Ops, States, CliStates, Results

\* Every step keeps the state well typed.
LEMMA NextTypeOK == TypeOK /\ [Next]_vars => TypeOK'
<1> SUFFICES ASSUME TypeOK, [Next]_vars PROVE TypeOK'
  OBVIOUS
<1> USE ConstAssumption
<1>1. ASSUME NEW t \in Tx, Client(t) PROVE TypeOK'
  <2>1. CASE TxCreate(t)
    BY <2>1 DEF TxCreate, TypeOK, Parts, States, CliStates
  <2>2. CASE TxStarted(t)
    BY <2>2 DEF TxStarted, TypeOK, rmVars, CliStates
  <2>3. CASE TxCreateFailed(t)
    BY <2>3 DEF TxCreateFailed, TypeOK, rmVars, netVars, CliStates
  <2>4. CASE \E i \in Item : ClientOpTimeout(t, i)
    BY <2>4 DEF ClientOpTimeout, TypeOK, rmVars, netVars, Results
  <2>5. CASE OnDone(t)
    BY <2>5 DEF OnDone, TypeOK, rmVars, CliStates, Ops
  <2>6. CASE CommitAnswered(t)
    BY <2>6 DEF CommitAnswered, TypeOK, rmVars, netVars, CliStates
  <2>7. CASE ClientGivesUp(t)
    BY <2>7 DEF ClientGivesUp, TypeOK, rmVars, netVars, CliStates
  <2> QED BY <1>1, <2>1, <2>2, <2>3, <2>4, <2>5, <2>6, <2>7 DEF Client
<1>2. ASSUME NEW t \in Tx, TM(t) PROVE TypeOK'
  <2>1. ASSUME NEW op \in Ops, SetState(t, op) PROVE TypeOK'
    BY <2>1 DEF SetState, TypeOK, netVars, cliVars, States, Ops
  <2>2. CASE TxCommit(t) \/ TxRollback(t) \/ TxExpired(t)
    BY <2>1, <2>2 DEF TxCommit, TxRollback, TxExpired, Ops
  <2>3. ASSUME NEW m \in MP, SendToRM(t, m) PROVE TypeOK'
    BY <2>3 DEF SendToRM, TypeOK, rmVars, cliVars
  <2>4. CASE TxApplied(t)
    BY <2>4 DEF TxApplied, TypeOK, netVars, cliVars, States, Ops, Done
  <2>5. CASE TmFailover(t)
    BY <2>5 DEF TmFailover, TypeOK, rmVars, cliVars
  <2> QED BY <1>2, <2>2, <2>3, <2>4, <2>5 DEF TM
<1>3. ASSUME NEW t \in Tx, RM(t) PROVE TypeOK'
  <2>0. ASSUME NEW i \in Item, NEW r \in Results, Answer(t, i, r)
        PROVE  res' \in [Tx -> [Item -> Results]]
    <3>1. res \in [Tx -> [Item -> Results]]
      BY DEF TypeOK
    <3>2. CASE res' = [res EXCEPT ![t][i] = r]
      BY <3>1, <3>2
    <3> QED BY <2>0, <3>1, <3>2 DEF Answer
  <2>1. ASSUME NEW i \in Item, RmTxOp(t, i) PROVE TypeOK'
    <3>1. res' \in [Tx -> [Item -> Results]]
      BY <2>0, <2>1 DEF RmTxOp, Results
    <3>2. rb' \in [Item -> [tx : Tx \cup {None}, old : Val]] /\ val' \in [Item -> Val]
      BY <2>1 DEF RmTxOp, TypeOK, Val
    <3>3. applied' \in [Tx -> SUBSET Item]
      BY <2>1 DEF RmTxOp, TypeOK
    <3> QED BY <2>1, <3>1, <3>2, <3>3 DEF RmTxOp, TypeOK, netVars
  <2>2. ASSUME NEW i \in Item, RmTxOpAgain(t, i) \/ RmTxOpRefused(t, i) PROVE TypeOK'
    <3>1. res' \in [Tx -> [Item -> Results]]
      BY <2>0, <2>2 DEF RmTxOpAgain, RmTxOpRefused, Results
    <3> QED BY <2>2, <3>1 DEF RmTxOpAgain, RmTxOpRefused, TypeOK, rmVars, netVars
  <2>3. ASSUME NEW m \in MP, RmTxCreate(t, m) PROVE TypeOK'
    <3>1. state' \in [MP -> [Tx -> States]] /\ rmFinish' \in [MP -> [Tx -> BOOLEAN]]
      <4>1. state \in [MP -> [Tx -> States]] /\ rmFinish \in [MP -> [Tx -> BOOLEAN]]
        BY DEF TypeOK
      <4>2. CASE state[m][t] = "none"
        <5>1. "preCommit" \in States
          BY DEF States
        <5>2. /\ state' = [state EXCEPT ![m][t] = "preCommit"]
              /\ rmFinish' = [rmFinish EXCEPT ![m][t] = FALSE]
          BY <2>3, <4>2 DEF RmTxCreate
        <5>3. state' \in [MP -> [Tx -> States]]
          BY <4>1, <5>1, <5>2
        <5>4. rmFinish' \in [MP -> [Tx -> BOOLEAN]]
          BY <4>1, <5>2
        <5> QED BY <5>3, <5>4
      <4> QED BY <2>3, <4>1, <4>2 DEF RmTxCreate
    <3> QED BY <2>3, <3>1 DEF RmTxCreate, TypeOK, cliVars
  <2>4. ASSUME NEW m \in MP, NEW op \in Ops, RmTxApply(t, m, op) PROVE TypeOK'
    <3>1. rmAck' \in [Tx -> SUBSET (Ops \X MP)]
      <4>1. rmAck \in [Tx -> SUBSET (Ops \X MP)] /\ <<op, m>> \in Ops \X MP
        BY DEF TypeOK
      <4>2. CASE rmAck' = [rmAck EXCEPT ![t] = @ \cup {<<op, m>>}]
        BY <4>1, <4>2
      <4> QED BY <2>4, <4>1, <4>2 DEF RmTxApply
    <3>2. CASE TxInRMDone(m, t)
      BY <2>4, <3>1, <3>2 DEF RmTxApply, TypeOK, rmVars, cliVars
    <3>3. CASE CommitRM(m, t)
      BY <2>4, <3>1, <3>3 DEF RmTxApply, CommitRM, TypeOK, cliVars, NoRb, Val, Ops
    <3>4. CASE RollbackRM(m, t)
      BY <2>4, <3>1, <3>4 DEF RmTxApply, RollbackRM, TypeOK, cliVars, NoRb, Val, Ops
    <3> QED BY <2>4, <3>2, <3>3, <3>4 DEF RmTxApply
  <2>5. ASSUME NEW m \in MP, DelTx(t, m) PROVE TypeOK'
    BY <2>5 DEF DelTx, TypeOK, cliVars, States
  <2>6. ASSUME NEW m \in MP, ClearOrphanTx(t, m) PROVE TypeOK'
    BY <2>6 DEF ClearOrphanTx, RollbackRM, TypeOK, netVars, cliVars, NoRb, Val, Ops
  <2> QED BY <1>3, <2>1, <2>2, <2>3, <2>4, <2>5, <2>6 DEF RM
<1>4. ASSUME NEW t \in Tx, Lose(t) PROVE TypeOK'
  BY <1>4 DEF Lose, TypeOK, rmVars, cliVars
<1>5. ASSUME NEW i \in Item, PlainOp(i) PROVE TypeOK'
  BY <1>5 DEF PlainOp, TypeOK, netVars, cliVars, Val
<1>6. CASE UNCHANGED vars
  BY <1>6 DEF vars, rmVars, netVars, cliVars, TypeOK
<1> QED BY <1>1, <1>2, <1>3, <1>4, <1>5, <1>6 DEF Next

\* MetaTx is type correct whatever the transactions, partitions and items.
THEOREM TypeCorrect == Spec => []TypeOK
BY InitTypeOK, NextTypeOK, PTL DEF Spec

-----------------------------------------------------------------------------
(* IndInv is inductive.  Its conjuncts about one transaction are shown for  *)
(* every transaction u, whichever transaction t takes the step.             *)

\* Locks and values are as good after a step that leaves the partitions alone.
LEMMA RmSame ==
  ASSUME IndInv, UNCHANGED rmVars
  PROVE  LockHasOwner' /\ NoDirtyValue' /\ SavedInv'
BY DEF IndInv, rmVars, LockHasOwner, NoDirtyValue, SavedInv, TxInRMDone

\* The steps of a client keep the invariant of every transaction.
LEMMA ClientKeeps ==
  ASSUME IndInv, NEW t \in Tx, Client(t), NEW u \in Tx
  PROVE  FreshInv(u)' /\ DecisionInv(u)' /\ FollowInv(u)' /\ CommitInv(u)'
<1>a. TypeOK /\ FreshInv(u) /\ DecisionInv(u) /\ FollowInv(u) /\ CommitInv(u)
  BY DEF IndInv
<1>b. TmID[u] \in Parts(u) /\ TmID[u] \in MP /\ TmID[t] \in MP /\ Parts(u) \subseteq MP
  BY ConstAssumption DEF Parts
<1>c. ASSUME UNCHANGED <<rmVars, netVars, decision>>,
             (cli'[u] = "idle") <=> (cli[u] = "idle"),
             cli'[u] = "prepare" => cli[u] = "prepare",
             cli'[u] = "committed" =>
                 cli[u] = "committed" \/ state[TmID[u]][u] = "commitDone"
      PROVE  FreshInv(u)' /\ DecisionInv(u)' /\ FollowInv(u)' /\ CommitInv(u)'
  <2>1. FreshInv(u)' /\ DecisionInv(u)' /\ FollowInv(u)'
    BY <1>a, <1>c DEF rmVars, netVars, FreshInv, DecisionInv, FollowInv
  <2>2. CommitInv(u)'
    BY <1>a, <1>c DEF rmVars, netVars, CommitInv, TxInRMDone
  <2> QED BY <2>1, <2>2
<1>1. CASE TxCreate(t)
  <2>1. FreshInv(u)'
    BY <1>1, <1>a, <1>b DEF TxCreate, TypeOK, FreshInv
  <2>2. DecisionInv(u)'
    BY <1>1, <1>a, <1>b DEF TxCreate, TypeOK, FreshInv, DecisionInv
  <2>3. FollowInv(u)'
    <3>1. CASE u = t
      <4>1. /\ initReq'[t] = Parts(t) \ {TmID[t]} /\ opReq'[t] = {}
            /\ rmReq'[t] = {} /\ rmAck'[t] = {} /\ \A m \in MP : fates'[m][t] = {}
        BY <1>1, <1>a, <3>1 DEF TxCreate, TypeOK, FreshInv
      <4>2. \A m \in MP : state'[m][t] # "none" => m = TmID[t]
        BY <1>1, <1>a, <3>1 DEF TxCreate, TypeOK, FreshInv
      <4> QED BY <1>b, <3>1, <4>1, <4>2 DEF FollowInv
    <3>2. CASE u # t
      <4>1. \A m \in MP : state'[m][u] = state[m][u]
        BY <1>1, <1>a, <3>2 DEF TxCreate, TypeOK
      <4>2. initReq'[u] = initReq[u]
        BY <1>1, <1>a, <3>2 DEF TxCreate, TypeOK
      <4> QED BY <1>1, <1>a, <4>1, <4>2 DEF TxCreate, FollowInv
    <3> QED BY <3>1, <3>2
  <2>4. CommitInv(u)'
    <3>1. CASE u = t
      <4>1. /\ \A m \in MP : fates'[m][t] = {} /\ (state'[m][t] # "none" => m = TmID[t])
            /\ initAck'[t] = {} /\ tmReq'[t] = {} /\ decision'[t] = "none"
            /\ cli'[t] = "creating" /\ state'[TmID[t]][t] = "preCommit"
        BY <1>1, <1>a, <1>b, <3>1 DEF TxCreate, TypeOK, FreshInv
      <4>2. ~rmFinish'[TmID[t]][t]
        BY <1>1, <1>a, <1>b, <3>1 DEF TxCreate, FreshInv
      <4> QED BY <3>1, <4>1, <4>2, <1>b DEF CommitInv, TxInRMDone
    <3>2. CASE u # t
      <4>1. \A m \in MP : state'[m][u] = state[m][u]
        BY <1>1, <3>2 DEF TxCreate, TypeOK, IndInv
      <4>2. initReq'[u] = initReq[u] /\ cli'[u] = cli[u]
        BY <1>1, <3>2 DEF TxCreate, TypeOK, IndInv
      <4> QED BY <1>1, <1>a, <1>b, <4>1, <4>2 DEF TxCreate, CommitInv, TxInRMDone, Parts
    <3> QED BY <3>1, <3>2
  <2> QED BY <2>1, <2>2, <2>3, <2>4
<1>2. CASE TxStarted(t)
  <2>1. FreshInv(u)' /\ DecisionInv(u)'
    BY <1>2, <1>a, <1>b DEF TxStarted, TypeOK, FreshInv, DecisionInv, rmVars
  <2>3. FollowInv(u)'
    BY <1>2, <1>a, <1>b DEF TxStarted, TypeOK, FollowInv, rmVars, Parts
  <2>4. CommitInv(u)'
    BY <1>2, <1>a, <1>b DEF TxStarted, TypeOK, CommitInv, rmVars, TxInRMDone, Parts
  <2> QED BY <2>1, <2>3, <2>4
<1>3. CASE TxCreateFailed(t)
  BY <1>3, <1>a, <1>c DEF TxCreateFailed, TypeOK
<1>4. CASE \E i \in Item : ClientOpTimeout(t, i)
  BY <1>4, <1>c DEF ClientOpTimeout
<1>5. CASE OnDone(t)
  <2>1. FreshInv(u)' /\ DecisionInv(u)'
    BY <1>5, <1>a, <1>b DEF OnDone, TypeOK, FreshInv, DecisionInv, rmVars
  <2>3. FollowInv(u)'
    BY <1>5, <1>a, <1>b DEF OnDone, TypeOK, FollowInv, rmVars, Parts
  <2>4. CommitInv(u)'
    <3>1. /\ cli'[u] \in {cli[u], "committing", "rollingback"}
          /\ "commit" \in tmReq'[u] => "commit" \in tmReq[u] \/ cli[u] = "prepare"
      BY <1>5, <1>a DEF OnDone, TypeOK
    <3> QED BY <1>5, <1>a, <3>1 DEF OnDone, CommitInv, rmVars, TxInRMDone
  <2> QED BY <2>1, <2>3, <2>4
<1>6. CASE CommitAnswered(t)
  BY <1>6, <1>a, <1>c DEF CommitAnswered, TypeOK
<1>7. CASE ClientGivesUp(t)
  BY <1>7, <1>a, <1>c DEF ClientGivesUp, TypeOK
<1> QED BY <1>1, <1>2, <1>3, <1>4, <1>5, <1>6, <1>7 DEF Client

\* The steps of a TM (txSetState, sendToRM, opFSMTxCommit, opFSMTxRollback,
\* leader change) keep the invariant of every transaction.
LEMMA TMKeeps ==
  ASSUME IndInv, NEW t \in Tx, TM(t), NEW u \in Tx
  PROVE  FreshInv(u)' /\ DecisionInv(u)' /\ FollowInv(u)' /\ CommitInv(u)'
<1>a. TypeOK /\ FreshInv(u) /\ DecisionInv(u) /\ FollowInv(u) /\ CommitInv(u)
  BY DEF IndInv
<1>b. TmID[u] \in Parts(u) /\ TmID[u] \in MP /\ TmID[t] \in MP /\ Parts(u) \subseteq MP
  BY ConstAssumption DEF Parts
<1>1. ASSUME NEW op \in Ops, SetState(t, op), op = "commit" => "commit" \in tmReq[t]
      PROVE  FreshInv(u)' /\ DecisionInv(u)' /\ FollowInv(u)' /\ CommitInv(u)'
  <2>1. FreshInv(u)'
    BY <1>1, <1>a, <1>b DEF SetState, TypeOK, FreshInv, netVars, cliVars
  <2>2. DecisionInv(u)'
    BY <1>1, <1>a, <1>b DEF SetState, TypeOK, DecisionInv, netVars, cliVars, Ops
  <2>3. FollowInv(u)'
    <3>1. /\ \A m \in MP : state'[m][u] # "none" => state[m][u] # "none"
          /\ decision[u] = decision'[u] \/ decision[u] = "none"
      BY <1>1, <1>a, <1>b DEF SetState, TypeOK, DecisionInv, Ops
    <3>2. UNCHANGED <<initReq, opReq, rmReq, rmAck, fates>>
      BY <1>1 DEF SetState, netVars
    <3> QED BY <1>a, <3>1, <3>2 DEF FollowInv, Ops
  <2>4. CommitInv(u)'
    <3>1. CASE u = t
      <4>1. /\ \A m \in MP : (state'[m][t] = "none") <=> (state[m][t] = "none")
            /\ state'[TmID[t]][t] = op /\ decision'[t] = op /\ decision[t] = "none"
        BY <1>1, <1>a, <1>b, <3>1 DEF SetState, TypeOK, DecisionInv, Ops
      <4>2. \A m \in MP : fates[m][t] = {}
        <5>1. fates \in [MP -> [Tx -> SUBSET Ops]]
          BY <1>a DEF TypeOK
        <5>2. \A m \in MP, o \in Ops : o \notin fates[m][t]
          BY <4>1, <1>a, <3>1 DEF FollowInv, Ops
        <5> QED BY <5>1, <5>2
      <4>3. op = "commit" => \A m \in Parts(t) : ~TxInRMDone(m, t)
        BY <1>1, <1>a, <1>b, <3>1, <4>2 DEF CommitInv, SetState, TxInRMDone, Parts
      <4>4. UNCHANGED <<rmFinish, fates, initReq, initAck, tmReq, cli>>
        BY <1>1 DEF SetState, netVars, cliVars
      <4>5. op # "commitDone" /\ op # "none"
        BY <1>1 DEF Ops
      <4>6. cli[t] = "committed" => \A m \in Parts(t) : "commit" \in fates[m][t]
        BY <1>a, <3>1 DEF CommitInv
      <4>7. /\ "commit" \in tmReq'[t] \/ cli'[t] = "prepare" =>
                 Parts(t) \ {TmID[t]} \subseteq initAck'[t]
            /\ \A m \in MP :
                 /\ m \in initAck'[t] => state'[m][t] # "none" \/ fates'[m][t] # {}
                 /\ state'[m][t] # "none" /\ rmFinish'[m][t] => fates'[m][t] # {}
                 /\ "commit" \notin fates'[m][t]
        BY <1>a, <3>1, <4>1, <4>2, <4>4 DEF CommitInv
      <4>8. decision'[t] = "commit" => \A m \in Parts(t) : ~TxInRMDone(m, t)'
        BY <1>b, <3>1, <4>1, <4>3, <4>4 DEF TxInRMDone
      <4> QED BY <3>1, <4>1, <4>4, <4>5, <4>6, <4>7, <4>8 DEF CommitInv
    <3>2. CASE u # t
      <4>1. \A m \in MP : state'[m][u] = state[m][u]
        BY <1>1, <3>2 DEF SetState, TypeOK, IndInv
      <4>2. decision'[u] = decision[u]
        BY <1>1, <3>2 DEF SetState, TypeOK, IndInv
      <4> QED BY <1>1, <1>a, <1>b, <4>1, <4>2 DEF SetState, CommitInv, TxInRMDone, netVars, cliVars, Parts
    <3> QED BY <3>1, <3>2
  <2> QED BY <2>1, <2>2, <2>3, <2>4
<1>2. CASE TxCommit(t) \/ TxRollback(t) \/ TxExpired(t)
  BY <1>1, <1>2 DEF TxCommit, TxRollback, TxExpired, Ops
<1>3. ASSUME NEW m \in MP, SendToRM(t, m)
      PROVE  FreshInv(u)' /\ DecisionInv(u)' /\ FollowInv(u)' /\ CommitInv(u)'
  <2>0. /\ UNCHANGED <<state, rmFinish, fates, initReq, initAck, opReq, tmReq, rmAck, cli, decision>>
        /\ state[TmID[t]][t] # "none"
        /\ u # t => rmReq'[u] = rmReq[u]
    BY <1>3, <1>a DEF SendToRM, TypeOK, rmVars, cliVars, Ops
  <2>1. FreshInv(u)'
    BY <1>a, <1>b, <2>0 DEF FreshInv
  <2>2. DecisionInv(u)' /\ CommitInv(u)'
    BY <1>a, <2>0 DEF DecisionInv, CommitInv, TxInRMDone
  <2>3. FollowInv(u)'
    <3>1. CASE u = t
      <4>1. /\ rmReq'[t] = rmReq[t] \cup {<<state[TmID[t]][t], m>>}
            /\ m \in Parts(t) /\ decision[t] = state[TmID[t]][t]
        BY <1>3, <1>a, <3>1 DEF SendToRM, TypeOK, DecisionInv, Ops
      <4>2. UNCHANGED <<state, fates, initReq, opReq, rmAck, decision>>
        BY <1>3 DEF SendToRM, rmVars
      <4> QED BY <1>a, <3>1, <4>1, <4>2 DEF FollowInv
    <3>2. CASE u # t
      <4>1. rmReq'[u] = rmReq[u]
        BY <1>3, <1>a, <3>2 DEF SendToRM, TypeOK
      <4> QED BY <1>3, <1>a, <4>1 DEF SendToRM, FollowInv, rmVars
    <3> QED BY <3>1, <3>2
  <2> QED BY <2>1, <2>2, <2>3
<1>4. CASE TxApplied(t)
  <2>0. /\ UNCHANGED <<rmFinish, fates, initReq, initAck, opReq, tmReq, rmReq, rmAck, cli, decision>>
        /\ state[TmID[t]][t] \in Ops
        /\ state'[TmID[t]][t] = Done(state[TmID[t]][t])
        /\ \A m \in MP : u # t => state'[m][u] = state[m][u]
    BY <1>4, <1>a, <1>b DEF TxApplied, TypeOK, netVars, cliVars
  <2>1. FreshInv(u)'
    <3>1. u = t => cli[u] # "idle"
      BY <1>a, <1>b, <2>0 DEF FreshInv, Ops
    <3> QED BY <1>a, <2>0, <3>1 DEF FreshInv
  <2>2. DecisionInv(u)'
    <3>1. CASE u = t
      BY <1>a, <2>0, <3>1 DEF DecisionInv, Ops, Done
    <3>2. CASE u # t
      BY <1>a, <1>b, <2>0, <3>2 DEF DecisionInv
    <3> QED BY <3>1, <3>2
  <2>3. FollowInv(u)'
    BY <1>4, <1>a, <1>b DEF TxApplied, TypeOK, FollowInv, netVars, cliVars, Parts
  <2>4. CommitInv(u)'
    <3>1. CASE u = t
      <4>1. /\ \A m \in MP : (state'[m][t] = "none") <=> (state[m][t] = "none")
            /\ state'[TmID[t]][t] = Done(state[TmID[t]][t])
        BY <1>4, <1>a, <1>b, <3>1 DEF TxApplied, TypeOK, Ops, Done
      <4>2. state'[TmID[t]][t] = "commitDone" =>
               \A m \in Parts(t) : "commit" \in fates[m][t]
        <5>1. state'[TmID[t]][t] = "commitDone" => state[TmID[t]][t] = "commit"
          BY <4>1 DEF Done
        <5>2. state'[TmID[t]][t] = "commitDone" =>
                 \A m \in Parts(t) : <<"commit", m>> \in rmAck[t]
          BY <1>4, <5>1 DEF TxApplied
        <5>3. \A m \in MP : <<"commit", m>> \in rmAck[t] => "commit" \in fates[m][t]
          BY <1>a, <3>1 DEF FollowInv, Ops
        <5> QED BY <1>b, <3>1, <5>2, <5>3
      <4>3. /\ UNCHANGED <<rmFinish, fates, initReq, initAck, tmReq, cli, decision>>
            /\ state[TmID[t]][t] # "none"
        BY <1>4 DEF TxApplied, netVars, cliVars, Ops
      <4> QED BY <1>a, <1>b, <3>1, <4>1, <4>2, <4>3 DEF CommitInv, TxInRMDone
    <3>2. CASE u # t
      <4>1. \A m \in MP : state'[m][u] = state[m][u]
        BY <1>4, <3>2 DEF TxApplied, TypeOK, IndInv
      <4> QED BY <1>4, <1>a, <1>b, <4>1 DEF TxApplied, CommitInv, TxInRMDone, netVars, cliVars, Parts
    <3> QED BY <3>1, <3>2
  <2> QED BY <2>1, <2>2, <2>3, <2>4
<1>5. CASE TmFailover(t)
  <2>1. rmAck'[u] \subseteq rmAck[u]
    BY <1>5, <1>a DEF TmFailover, TypeOK
  <2>2. FreshInv(u)' /\ DecisionInv(u)' /\ FollowInv(u)'
    BY <1>5, <1>a, <2>1 DEF TmFailover, rmVars, cliVars, FreshInv, DecisionInv, FollowInv
  <2>3. CommitInv(u)'
    BY <1>5, <1>a DEF TmFailover, rmVars, cliVars, CommitInv, TxInRMDone
  <2> QED BY <2>2, <2>3
<1> QED BY <1>2, <1>3, <1>4, <1>5 DEF TM

-----------------------------------------------------------------------------
(* IndInv is kept by the resource managers and by the logs. *)

\* fsmTxCommitRM and fsmTxRollbackRM leave neither a lock of the finished
\* transaction nor one of its unfinished values behind.
LEMMA RollbackKeepsData ==
  ASSUME IndInv, NEW t \in Tx, NEW m \in MP, RollbackRM(m, t) \/ CommitRM(m, t)
  PROVE  LockHasOwner' /\ NoDirtyValue' /\ SavedInv'
<1>a. TypeOK /\ LockHasOwner /\ NoDirtyValue /\ SavedInv
  BY DEF IndInv
<1>b. \A i \in Item : rb'[i] = IF i \in Held(m, t) THEN NoRb ELSE rb[i]
  BY DEF RollbackRM, CommitRM
<1>c. /\ \A i \in Item, u \in Tx : fates[Loc[i]][u] \subseteq fates'[Loc[i]][u]
      /\ CommitRM(m, t) => "commit" \in fates'[m][t]
  <2>1. fates \in [MP -> [Tx -> SUBSET Ops]]
    BY <1>a DEF TypeOK
  <2>2. \E op \in Ops : fates' = [fates EXCEPT ![m][t] = @ \cup {op}]
                        /\ (CommitRM(m, t) => op = "commit")
    BY DEF RollbackRM, CommitRM, Ops
  <2> QED BY <2>1, <2>2
<1>d. \A n \in MP, u \in Tx : state'[n][u] = state[n][u]
          /\ (<<n, u>> # <<m, t>> => rmFinish'[n][u] = rmFinish[n][u])
  <2>1. rmFinish \in [MP -> [Tx -> BOOLEAN]]
    BY <1>a DEF TypeOK
  <2>2. rmFinish' = [rmFinish EXCEPT ![m][t] = TRUE] /\ state' = state
    BY DEF RollbackRM, CommitRM
  <2> QED BY <2>1, <2>2
<1>1. LockHasOwner'
  <2> SUFFICES ASSUME NEW i \in Item, NEW u \in Tx, rb'[i].tx = u
               PROVE  i \in Items[u] /\ ~TxInRMDone(Loc[i], u)'
    BY DEF LockHasOwner
  <2>1. i \notin Held(m, t) /\ rb[i].tx = u
    BY <1>b, ConstAssumption DEF NoRb
  <2>2. i \in Items[u] /\ ~TxInRMDone(Loc[i], u)
    BY <1>a, <2>1 DEF LockHasOwner
  <2>3. <<Loc[i], u>> # <<m, t>>
    BY <2>1, <2>2 DEF Held
  <2> QED BY <1>d, <2>2, <2>3, ConstAssumption DEF TxInRMDone
<1>2. SavedInv'
  BY <1>a, <1>b, <1>c DEF SavedInv, NoRb
<1>3. NoDirtyValue'
  <2> SUFFICES ASSUME NEW i \in Item, NEW u \in Tx, val'[i] = u, rb'[i].tx # u
               PROVE  "commit" \in fates'[Loc[i]][u]
    BY DEF NoDirtyValue
  <2>1. CASE i \notin Held(m, t)
    <3>1. val'[i] = val[i] /\ rb'[i] = rb[i]
      BY <2>1, <1>b DEF RollbackRM, CommitRM
    <3> QED BY <3>1, <1>a, <1>c DEF NoDirtyValue
  <2>2. CASE i \in Held(m, t) /\ RollbackRM(m, t)
    <3>1. val'[i] = rb[i].old /\ rb[i].tx = t
      BY <2>2 DEF RollbackRM, Held
    <3> QED BY <3>1, <1>a, <1>c, ConstAssumption DEF SavedInv
  <2>3. CASE i \in Held(m, t) /\ CommitRM(m, t)
    <3>1. val[i] = u /\ rb[i].tx = t /\ Loc[i] = m
      BY <2>3 DEF CommitRM, Held
    <3> QED BY <2>3, <3>1, <1>a, <1>c DEF NoDirtyValue
  <2> QED BY <2>1, <2>2, <2>3
<1> QED BY <1>1, <1>2, <1>3

\* Every step keeps the facts about locks and values.
LEMMA DataKept ==
  ASSUME IndInv, [Next]_vars
  PROVE  LockHasOwner' /\ NoDirtyValue' /\ SavedInv'
<1>a. TypeOK /\ LockHasOwner /\ NoDirtyValue /\ SavedInv
  BY DEF IndInv
<1>1. ASSUME UNCHANGED <<rb, val, fates>>,
             \A m \in MP, u \in Tx : ~TxInRMDone(m, u) => ~TxInRMDone(m, u)'
      PROVE  LockHasOwner' /\ NoDirtyValue' /\ SavedInv'
  BY <1>1, <1>a, ConstAssumption DEF LockHasOwner, NoDirtyValue, SavedInv
<1>2. ASSUME NEW t \in Tx, Client(t) PROVE LockHasOwner' /\ NoDirtyValue' /\ SavedInv'
  <2>1. CASE TxCreate(t)
    BY <2>1, <1>1, <1>a DEF TxCreate, TxInRMDone, TypeOK
  <2>2. CASE UNCHANGED rmVars
    BY <2>2, RmSame
  <2> QED BY <1>2, <2>1, <2>2 DEF Client, TxStarted, TxCreateFailed, ClientOpTimeout,
             OnDone, CommitAnswered, ClientGivesUp
<1>3. ASSUME NEW t \in Tx, TM(t) PROVE LockHasOwner' /\ NoDirtyValue' /\ SavedInv'
  <2>1. ASSUME NEW op \in Ops, SetState(t, op)
        PROVE LockHasOwner' /\ NoDirtyValue' /\ SavedInv'
    BY <2>1, <1>1, <1>a DEF SetState, TxInRMDone, TypeOK, Ops
  <2>2. CASE TxApplied(t)
    BY <2>2, <1>1, <1>a DEF TxApplied, TxInRMDone, TypeOK, Done
  <2>3. CASE UNCHANGED rmVars
    BY <2>3, RmSame
  <2> QED BY <1>3, <2>1, <2>2, <2>3 DEF TM, TxCommit, TxRollback, TxExpired, SendToRM,
             TmFailover, Ops
<1>4. ASSUME NEW t \in Tx, RM(t) PROVE LockHasOwner' /\ NoDirtyValue' /\ SavedInv'
  <2>1. ASSUME NEW i \in Item, RmTxOp(t, i)
        PROVE  LockHasOwner' /\ NoDirtyValue' /\ SavedInv'
    <3>1. FollowInv(t)
      BY DEF IndInv
    <3>2. /\ rb' = [rb EXCEPT ![i] = [tx |-> t, old |-> val[i]]]
          /\ val' = [val EXCEPT ![i] = t]
          /\ state' = state /\ rmFinish' = rmFinish /\ fates' = fates
          /\ rb[i].tx = None /\ ~TxInRMDone(Loc[i], t) /\ i \in Items[t]
      BY <2>1, <3>1 DEF RmTxOp, FollowInv
    <3>3. rb \in [Item -> [tx : Tx \cup {None}, old : Val]] /\ val \in [Item -> Val]
      BY <1>a DEF TypeOK
    <3>4. LockHasOwner'
      BY <3>2, <3>3, <1>a DEF LockHasOwner, TxInRMDone
    <3>5. NoDirtyValue'
      BY <3>2, <3>3, <1>a DEF NoDirtyValue
    <3>6. SavedInv'
      BY <3>2, <3>3, <1>a, ConstAssumption DEF NoDirtyValue, SavedInv
    <3> QED BY <3>4, <3>5, <3>6
  <2>2. ASSUME NEW m \in MP, RmTxCreate(t, m)
        PROVE  LockHasOwner' /\ NoDirtyValue' /\ SavedInv'
    <3>1. CASE UNCHANGED <<state, rmFinish>>
      BY <2>2, <3>1, RmSame DEF RmTxCreate, rmVars
    <3>2. CASE state[m][t] = "none"
      <4>1. state \in [MP -> [Tx -> States]] /\ rmFinish \in [MP -> [Tx -> BOOLEAN]]
        BY <1>a DEF TypeOK
      <4>2. /\ state' = [state EXCEPT ![m][t] = "preCommit"]
            /\ rmFinish' = [rmFinish EXCEPT ![m][t] = FALSE]
            /\ UNCHANGED <<rb, val, fates>>
        BY <2>2, <3>2 DEF RmTxCreate
      <4>3. \A n \in MP, u \in Tx : ~TxInRMDone(n, u) => ~TxInRMDone(n, u)'
        BY <4>1, <4>2 DEF TxInRMDone
      <4> QED BY <4>2, <4>3, <1>1
    <3> QED BY <2>2, <3>1, <3>2 DEF RmTxCreate
  <2>3. ASSUME NEW m \in MP, DelTx(t, m)
        PROVE  LockHasOwner' /\ NoDirtyValue' /\ SavedInv'
    BY <2>3, <1>1, <1>a DEF DelTx, TxInRMDone, TypeOK
  <2>4. ASSUME NEW m \in MP, CommitRM(m, t) \/ RollbackRM(m, t)
        PROVE  LockHasOwner' /\ NoDirtyValue' /\ SavedInv'
    BY <2>4, RollbackKeepsData
  <2>5. CASE UNCHANGED rmVars
    BY <2>5, RmSame
  <2> QED BY <1>4, <2>1, <2>2, <2>3, <2>4, <2>5
          DEF RM, RmTxOpAgain, RmTxOpRefused, RmTxApply, ClearOrphanTx
<1>5. ASSUME NEW t \in Tx, Lose(t) PROVE LockHasOwner' /\ NoDirtyValue' /\ SavedInv'
  BY <1>5, RmSame DEF Lose
<1>6. ASSUME NEW i \in Item, PlainOp(i) PROVE LockHasOwner' /\ NoDirtyValue' /\ SavedInv'
  <2>1. val' = [val EXCEPT ![i] = Plain] /\ UNCHANGED <<state, rmFinish, rb, fates>>
    BY <1>6 DEF PlainOp
  <2>2. val \in [Item -> Val]
    BY <1>a DEF TypeOK
  <2> QED BY <2>1, <2>2, <1>a, ConstAssumption DEF LockHasOwner, NoDirtyValue, SavedInv, TxInRMDone
<1>7. CASE UNCHANGED vars
  BY <1>7, RmSame DEF vars
<1> QED BY <1>2, <1>3, <1>4, <1>5, <1>6, <1>7 DEF Next

\* The steps of an RM (registration, operations, commit and rollback, deletion,
\* orphan clearing) keep the invariant of every transaction.
LEMMA RMKeeps ==
  ASSUME IndInv, NEW t \in Tx, RM(t), NEW u \in Tx
  PROVE  FreshInv(u)' /\ DecisionInv(u)' /\ FollowInv(u)' /\ CommitInv(u)'
<1>a. TypeOK /\ FreshInv(u) /\ DecisionInv(u) /\ FollowInv(u) /\ CommitInv(u)
  BY DEF IndInv
<1>b. TmID[u] \in Parts(u) /\ TmID[u] \in MP /\ TmID[t] \in MP /\ Parts(u) \subseteq MP
  BY ConstAssumption DEF Parts
<1>1. ASSUME UNCHANGED <<state, rmFinish, fates, netVars, cli, decision>>
      PROVE  FreshInv(u)' /\ DecisionInv(u)' /\ FollowInv(u)' /\ CommitInv(u)'
  BY <1>1, <1>a, <1>b DEF netVars, FreshInv, DecisionInv, FollowInv, CommitInv, TxInRMDone
<1>2. ASSUME NEW i \in Item, RmTxOp(t, i) \/ RmTxOpAgain(t, i) \/ RmTxOpRefused(t, i)
      PROVE  UNCHANGED <<state, rmFinish, fates, netVars, cli, decision>>
  BY <1>2 DEF RmTxOp, RmTxOpAgain, RmTxOpRefused, rmVars, cliVars
<1>3. ASSUME NEW m \in MP, RmTxCreate(t, m)
      PROVE  FreshInv(u)' /\ DecisionInv(u)' /\ FollowInv(u)' /\ CommitInv(u)'
  <2>1. m \in initReq[t] /\ m \in Parts(t) /\ m # TmID[t] /\ cli[t] # "idle"
        /\ (state[m][t] = "none" => "commit" \notin fates[m][t])
    BY <1>3 DEF RmTxCreate, IndInv, FollowInv, FreshInv, CommitInv
  <2>2. /\ \A n \in MP : n # m \/ u # t =>
              state'[n][u] = state[n][u] /\ rmFinish'[n][u] = rmFinish[n][u]
        /\ state'[m][t] # "none"
        /\ state[m][t] # "none" => state'[m][t] = state[m][t] /\ rmFinish'[m][t] = rmFinish[m][t]
        /\ state[m][t] = "none" => rmFinish'[m][t] = FALSE
    <3>1. state \in [MP -> [Tx -> States]] /\ rmFinish \in [MP -> [Tx -> BOOLEAN]]
      BY <1>a DEF TypeOK
    <3>2. CASE state[m][t] = "none"
      <4>1. /\ state' = [state EXCEPT ![m][t] = "preCommit"]
            /\ rmFinish' = [rmFinish EXCEPT ![m][t] = FALSE]
        BY <1>3, <3>2 DEF RmTxCreate
      <4> QED BY <3>1, <3>2, <4>1
    <3>3. CASE state[m][t] # "none"
      BY <1>3, <3>3 DEF RmTxCreate
    <3> QED BY <3>2, <3>3
  <2>3. /\ initAck'[u] \subseteq initAck[u] \cup (IF u = t THEN {m} ELSE {})
        /\ initAck[u] \subseteq initAck'[u]
    BY <1>3, <1>a DEF RmTxCreate, TypeOK
  <2>4. UNCHANGED <<rb, val, fates, initReq, opReq, tmReq, rmReq, rmAck, cli, decision>>
    BY <1>3 DEF RmTxCreate, cliVars
  <2>5. FreshInv(u)' /\ DecisionInv(u)'
    BY <1>a, <1>b, <2>1, <2>2, <2>3, <2>4 DEF FreshInv, DecisionInv
  <2>6. FollowInv(u)'
    <3>1. \A n \in MP : state'[n][u] # "none" => n \in Parts(u)
      BY <1>a, <2>1, <2>2 DEF FollowInv
    <3> QED BY <1>a, <2>4, <3>1 DEF FollowInv
  <2>7. CommitInv(u)'
    <3>1. CASE u # t
      BY <1>a, <1>b, <2>2, <2>3, <2>4, <3>1 DEF CommitInv, TxInRMDone
    <3>2. CASE u = t
      <4>1. \A n \in MP :
              /\ n \in initAck'[t] => state'[n][t] # "none" \/ fates[n][t] # {}
              /\ state'[n][t] # "none" /\ rmFinish'[n][t] => fates[n][t] # {}
              /\ "commit" \in fates[n][t] => TxInRMDone(n, t)'
                           /\ (state'[n][t] = "none" => n \notin initReq[t])
        <5> SUFFICES ASSUME NEW n \in MP
                     PROVE /\ n \in initAck'[t] => state'[n][t] # "none" \/ fates[n][t] # {}
                           /\ state'[n][t] # "none" /\ rmFinish'[n][t] => fates[n][t] # {}
                           /\ "commit" \in fates[n][t] => TxInRMDone(n, t)'
                                    /\ (state'[n][t] = "none" => n \notin initReq[t])
          OBVIOUS
        <5>1. CASE n = m
          BY <1>a, <2>1, <2>2, <3>2, <5>1 DEF CommitInv, TxInRMDone
        <5>2. CASE n # m
          BY <1>a, <2>2, <2>3, <3>2, <5>2 DEF CommitInv, TxInRMDone
        <5> QED BY <5>1, <5>2
      <4>2. decision[t] = "commit" =>
              \A n \in Parts(t) : ~TxInRMDone(n, t)' \/ "commit" \in fates[n][t]
        BY <1>a, <1>b, <2>2, <3>2 DEF CommitInv, TxInRMDone
      <4>3. state'[TmID[t]][t] = state[TmID[t]][t]
        BY <1>b, <2>1, <2>2, <3>2
      <4> QED BY <1>a, <2>3, <2>4, <3>2, <4>1, <4>2, <4>3 DEF CommitInv
    <3> QED BY <3>1, <3>2
  <2> QED BY <2>5, <2>6, <2>7
<1>4. ASSUME NEW m \in MP, NEW op \in Ops, ~TxInRMDone(m, t), decision[t] = op,
             fates' = [fates EXCEPT ![m][t] = @ \cup {op}],
             rmFinish' = [rmFinish EXCEPT ![m][t] = TRUE],
             rmAck' \in {rmAck, [rmAck EXCEPT ![t] = @ \cup {<<op, m>>}]},
             UNCHANGED <<state, initReq, initAck, opReq, tmReq, rmReq, cli, decision>>
      PROVE  FreshInv(u)' /\ DecisionInv(u)' /\ FollowInv(u)' /\ CommitInv(u)'
  <2>1. /\ \A n \in MP : n # m \/ u # t =>
              fates'[n][u] = fates[n][u] /\ rmFinish'[n][u] = rmFinish[n][u]
        /\ fates'[m][t] = fates[m][t] \cup {op} /\ rmFinish'[m][t] = TRUE
    <3>1. fates \in [MP -> [Tx -> SUBSET Ops]] /\ rmFinish \in [MP -> [Tx -> BOOLEAN]]
      BY <1>a DEF TypeOK
    <3>2. /\ \A n \in MP : n # m \/ u # t => fates'[n][u] = fates[n][u]
          /\ fates'[m][t] = fates[m][t] \cup {op}
      BY <1>4, <3>1
    <3>3. /\ \A n \in MP : n # m \/ u # t => rmFinish'[n][u] = rmFinish[n][u]
          /\ rmFinish'[m][t] = TRUE
      BY <1>4, <3>1
    <3> QED BY <3>2, <3>3
  <2>2. /\ u # t => rmAck'[u] = rmAck[u]
        /\ rmAck'[t] \subseteq rmAck[t] \cup {<<op, m>>}
    BY <1>4, <1>a DEF TypeOK
  <2>3. FreshInv(u)' /\ DecisionInv(u)'
    BY <1>4, <1>a, <2>1, <2>2 DEF FreshInv, DecisionInv, Ops
  <2>4. FollowInv(u)'
    BY <1>4, <1>a, <2>1, <2>2 DEF FollowInv, Ops
  <2>5. CommitInv(u)'
    <3>1. CASE u # t
      BY <1>4, <1>a, <1>b, <2>1, <3>1 DEF CommitInv, TxInRMDone
    <3>2. CASE u = t
      <4>1. /\ \A n \in MP : fates[n][t] \subseteq fates'[n][t]
                              /\ (rmFinish[n][t] => rmFinish'[n][t])
            /\ \A n \in MP : n # m => fates'[n][t] = fates[n][t]
                                        /\ rmFinish'[n][t] = rmFinish[n][t]
            /\ op \in fates'[m][t] /\ rmFinish'[m][t] /\ state[m][t] # "none"
            /\ decision[t] = "commit" => op = "commit"
        BY <1>4, <2>1 DEF TxInRMDone
      <4>2. \A n \in MP :
              /\ n \in initAck[t] => state[n][t] # "none" \/ fates'[n][t] # {}
              /\ state[n][t] # "none" /\ rmFinish'[n][t] => fates'[n][t] # {}
              /\ "commit" \in fates'[n][t] => TxInRMDone(n, t)'
                           /\ (state[n][t] = "none" => n \notin initReq[t])
        <5> SUFFICES ASSUME NEW n \in MP
                     PROVE /\ n \in initAck[t] => state[n][t] # "none" \/ fates'[n][t] # {}
                           /\ state[n][t] # "none" /\ rmFinish'[n][t] => fates'[n][t] # {}
                           /\ "commit" \in fates'[n][t] => TxInRMDone(n, t)'
                                    /\ (state[n][t] = "none" => n \notin initReq[t])
          OBVIOUS
        <5>1. CASE n = m
          BY <1>4, <4>1, <5>1 DEF TxInRMDone
        <5>2. CASE n # m
          BY <1>4, <1>a, <3>2, <4>1, <5>2 DEF CommitInv, TxInRMDone
        <5> QED BY <5>1, <5>2
      <4>3. decision[t] = "commit" =>
              \A n \in Parts(t) : ~TxInRMDone(n, t)' \/ "commit" \in fates'[n][t]
        BY <1>4, <1>a, <1>b, <3>2, <4>1 DEF CommitInv, TxInRMDone
      <4>4. (\A n \in Parts(t) : "commit" \in fates[n][t]) =>
               \A n \in Parts(t) : "commit" \in fates'[n][t]
        BY <4>1, <1>b, <3>2
      <4> QED BY <1>4, <1>a, <3>2, <4>2, <4>3, <4>4 DEF CommitInv
    <3> QED BY <3>1, <3>2
  <2> QED BY <2>3, <2>4, <2>5
<1>5. ASSUME NEW m \in MP, NEW op \in Ops, RmTxApply(t, m, op)
      PROVE  FreshInv(u)' /\ DecisionInv(u)' /\ FollowInv(u)' /\ CommitInv(u)'
  <2>1. FollowInv(t) /\ CommitInv(t) /\ FreshInv(t)
    BY DEF IndInv
  <2>2. decision[t] = op /\ m \in Parts(t)
    BY <1>5, <2>1 DEF RmTxApply, FollowInv
  <2>3. CASE TxInRMDone(m, t)
    <3>1. UNCHANGED rmVars
      BY <1>5, <2>3 DEF RmTxApply
    <3>2. op = "commit" => "commit" \in fates[m][t]
      BY <2>1, <2>2, <2>3 DEF CommitInv
    <3>3. /\ u # t => rmAck'[u] = rmAck[u]
          /\ rmAck'[t] \subseteq rmAck[t] \cup {<<op, m>>}
      BY <1>5, <1>a DEF RmTxApply, TypeOK
    <3>4. FreshInv(u)' /\ DecisionInv(u)' /\ CommitInv(u)'
      BY <1>5, <1>a, <1>b, <2>2, <3>1, <3>3
         DEF RmTxApply, rmVars, cliVars, FreshInv, DecisionInv, CommitInv, TxInRMDone, Ops
    <3>5. FollowInv(u)'
      <4>1. UNCHANGED <<state, fates, initReq, opReq, rmReq, decision>>
        BY <1>5, <3>1 DEF RmTxApply, rmVars
      <4>2. \A n \in MP : <<"commit", n>> \in rmAck'[u] => "commit" \in fates[n][u]
        <5>1. \A n \in MP : <<"commit", n>> \in rmAck[u] => "commit" \in fates[n][u]
          BY <1>a DEF FollowInv, Ops
        <5> QED BY <5>1, <3>2, <3>3
      <4> QED BY <1>a, <4>1, <4>2 DEF FollowInv
    <3> QED BY <3>4, <3>5
  <2>4. CASE ~TxInRMDone(m, t)
    BY <1>4, <1>5, <2>2, <2>4 DEF RmTxApply, CommitRM, RollbackRM, cliVars
  <2> QED BY <2>3, <2>4
<1>6. ASSUME NEW m \in MP, DelTx(t, m)
      PROVE  FreshInv(u)' /\ DecisionInv(u)' /\ FollowInv(u)' /\ CommitInv(u)'
  <2>1. /\ \A n \in MP : n # m \/ u # t =>
              state'[n][u] = state[n][u] /\ rmFinish'[n][u] = rmFinish[n][u]
        /\ state'[m][t] = "none"
        /\ initReq'[u] = IF u = t THEN initReq[t] \ {m} ELSE initReq[u]
        /\ UNCHANGED <<rb, val, fates, initAck, opReq, tmReq, rmReq, rmAck, cli, decision>>
    BY <1>6, <1>a DEF DelTx, TypeOK, cliVars
  <2>2. /\ state[m][t] # "none" /\ rmFinish[m][t]
        /\ m = TmID[t] => state[m][t] \in {"commitDone", "rollbackDone"}
    BY <1>6 DEF DelTx
  <2>3. FreshInv(u)' /\ DecisionInv(u)'
    BY <1>a, <1>b, <2>1, <2>2 DEF FreshInv, DecisionInv
  <2>4. FollowInv(u)'
    BY <1>a, <2>1 DEF FollowInv
  <2>5. CommitInv(u)'
    <3>1. CASE u # t
      BY <1>a, <1>b, <2>1, <3>1 DEF CommitInv, TxInRMDone
    <3>2. CASE u = t
      <4>1. fates[m][t] # {} /\ TxInRMDone(m, t) /\ TxInRMDone(m, t)'
        BY <1>a, <2>1, <2>2, <3>2 DEF CommitInv, TxInRMDone
      <4>2. \A n \in MP : (n # m => TxInRMDone(n, t)' = TxInRMDone(n, t))
        BY <2>1, <3>2 DEF TxInRMDone
      <4>3. \A n \in MP :
              /\ n \in initAck[t] => state'[n][t] # "none" \/ fates[n][t] # {}
              /\ state'[n][t] # "none" /\ rmFinish'[n][t] => fates[n][t] # {}
              /\ "commit" \in fates[n][t] => TxInRMDone(n, t)'
                                /\ (state'[n][t] = "none" => n \notin initReq'[t])
        BY <1>a, <2>1, <3>2, <4>1, <4>2 DEF CommitInv
      <4>4. decision[t] = "commit" =>
              \A n \in Parts(t) : ~TxInRMDone(n, t)' \/ "commit" \in fates[n][t]
        BY <1>a, <1>b, <3>2, <4>1, <4>2 DEF CommitInv
      <4>5. state'[TmID[t]][t] = "commitDone" \/
              (state'[TmID[t]][t] = "none" /\ decision[t] = "commit")
              => \A n \in Parts(t) : "commit" \in fates[n][t]
        BY <1>a, <1>b, <2>1, <2>2, <3>2 DEF CommitInv, DecisionInv
      <4> QED BY <1>a, <2>1, <3>2, <4>3, <4>4, <4>5 DEF CommitInv
    <3> QED BY <3>1, <3>2
  <2> QED BY <2>3, <2>4, <2>5
<1>7. ASSUME NEW m \in MP, ClearOrphanTx(t, m)
      PROVE  FreshInv(u)' /\ DecisionInv(u)' /\ FollowInv(u)' /\ CommitInv(u)'
  <2>1. FreshInv(t) /\ DecisionInv(t) /\ CommitInv(t) /\ TypeOK
    BY DEF IndInv
  <2>2. decision[t] # "none"
    BY <1>7, <1>b, <2>1 DEF ClearOrphanTx, FreshInv, DecisionInv, TxInRMDone
  <2>3. decision[t] # "commit"
    <3>1. state[m][t] # "none" => m \in Parts(t)
      BY DEF IndInv, FollowInv
    <3> QED BY <1>7, <2>1, <3>1 DEF ClearOrphanTx, CommitInv, TxInRMDone
  <2>4. decision[t] = "rollback"
    BY <2>1, <2>2, <2>3 DEF TypeOK, Ops
  <2> QED BY <1>4, <1>7, <2>4 DEF ClearOrphanTx, RollbackRM, netVars, cliVars, Ops
<1> QED BY <1>a, <1>1, <1>2, <1>3, <1>5, <1>6, <1>7 DEF RM

\* The inductive invariant holds initially.
LEMMA InitInd == Init => IndInv
<1> SUFFICES ASSUME Init PROVE IndInv
  OBVIOUS
<1>1. TypeOK
  BY InitTypeOK
<1>2. LockHasOwner /\ NoDirtyValue /\ SavedInv
  BY ConstAssumption DEF Init, LockHasOwner, NoDirtyValue, SavedInv, NoRb
<1>3. ASSUME NEW t \in Tx PROVE FreshInv(t) /\ DecisionInv(t) /\ FollowInv(t) /\ CommitInv(t)
  <2>1. TmID[t] \in MP /\ Parts(t) \subseteq MP
    BY ConstAssumption DEF Parts
  <2> QED BY <2>1 DEF Init, FreshInv, DecisionInv, FollowInv, CommitInv, TxInRMDone
<1> QED BY <1>1, <1>2, <1>3 DEF IndInv

\* Every step keeps the inductive invariant.
LEMMA NextInd == IndInv /\ [Next]_vars => IndInv'
<1> SUFFICES ASSUME IndInv, [Next]_vars PROVE IndInv'
  OBVIOUS
<1>1. TypeOK'
  BY NextTypeOK DEF IndInv
<1>2. LockHasOwner' /\ NoDirtyValue' /\ SavedInv'
  BY DataKept
<1>3. ASSUME NEW u \in Tx
      PROVE  FreshInv(u)' /\ DecisionInv(u)' /\ FollowInv(u)' /\ CommitInv(u)'
  <2>a. TypeOK /\ FreshInv(u) /\ DecisionInv(u) /\ FollowInv(u) /\ CommitInv(u)
    BY DEF IndInv
  <2>1. ASSUME NEW t \in Tx, Lose(t)
        PROVE  FreshInv(u)' /\ DecisionInv(u)' /\ FollowInv(u)' /\ CommitInv(u)'
    <3>1. rmReq'[u] \subseteq rmReq[u]
      BY <2>1, <2>a DEF Lose, TypeOK
    <3> QED BY <2>1, <2>a, <3>1 DEF Lose, rmVars, cliVars, FreshInv, DecisionInv,
               FollowInv, CommitInv, TxInRMDone
  <2>2. ASSUME UNCHANGED <<state, rmFinish, fates, netVars, cli, decision>>
        PROVE  FreshInv(u)' /\ DecisionInv(u)' /\ FollowInv(u)' /\ CommitInv(u)'
    BY <2>2, <2>a DEF netVars, FreshInv, DecisionInv, FollowInv, CommitInv, TxInRMDone
  <2>3. CASE (\E i \in Item : PlainOp(i)) \/ UNCHANGED vars
    BY <2>2, <2>3 DEF PlainOp, vars, rmVars, cliVars
  <2> QED BY <2>1, <2>3, ClientKeeps, TMKeeps, RMKeeps DEF Next
<1> QED BY <1>1, <1>2, <1>3 DEF IndInv

\* The inductive invariant holds always.
LEMMA Inductive == Spec => []IndInv
BY InitInd, NextInd, PTL DEF Spec

\* No partition commits what another one rolls back (txSetState, fsmTxCommitRM,
\* fsmTxRollbackRM, clearOrphanTx), for any number of transactions and partitions.
THEOREM AgreementHolds == Spec => []Agreement
<1>1. IndInv => Agreement
  BY DEF IndInv, Agreement, FollowInv, Ops
<1> QED BY <1>1, Inductive, PTL

\* A client whose Commit returned success finds every partition committed,
\* although sendToRM takes "no such transaction" for success.
THEOREM CommittedEverywhereHolds == Spec => []CommittedEverywhere
<1>1. IndInv => CommittedEverywhere
  BY DEF IndInv, CommittedEverywhere, CommitInv
<1> QED BY <1>1, Inductive, PTL

\* fsmTxRollbackRM and fsmTxCommitRM leave no value of an unfinished or rolled
\* back transaction unprotected.
THEOREM ValuesClean == Spec => []NoDirtyValue
BY Inductive, PTL DEF IndInv

\* No rollback record outlives its transaction on its partition.
THEOREM LocksOwned == Spec => []LockHasOwner
BY Inductive, PTL DEF IndInv

\* The initial states of MetaTx are initial states of AtomicCommit.
LEMMA InitAbstract == Init => AC!Init
BY DEF Init, AC!Init, Told

\* Every step of MetaTx is a step of AtomicCommit or leaves it alone.
LEMMA NextAbstract ==
  IndInv /\ IndInv' /\ [Next]_vars => [AC!Next]_<<decision, fates, Told>>
<1> SUFFICES ASSUME IndInv, IndInv', [Next]_vars
             PROVE  AC!Next \/ UNCHANGED <<decision, fates, Told>>
  OBVIOUS
<1>0. TypeOK
  BY DEF IndInv
<1>1. ASSUME NEW t \in Tx, NEW op \in Ops, SetState(t, op) PROVE AC!Next
  <2>1. decision[t] = "none"
    BY <1>1 DEF SetState, IndInv, DecisionInv
  <2>2. Told' = Told
    BY <1>1 DEF SetState, cliVars, Told
  <2>3. AC!Decide(t)
    BY <1>1, <2>1, <2>2 DEF SetState, AC!Decide, Ops
  <2> QED BY <2>3 DEF AC!Next
<1>2. ASSUME NEW t \in Tx, CommitAnswered(t) PROVE AC!Next
  <2>1. decision[t] = "commit" /\ \A m \in Parts(t) : "commit" \in fates[m][t]
    BY <1>2 DEF CommitAnswered, IndInv, DecisionInv, CommitInv
  <2>2. \A m \in Parts(t) : fates[m][t] = {"commit"}
    <3>1. fates \in [MP -> [Tx -> SUBSET Ops]]
      BY <1>0 DEF TypeOK
    <3>2. \A m \in MP, op \in Ops : op \in fates[m][t] => op = "commit"
      BY <2>1 DEF IndInv, FollowInv
    <3>3. Parts(t) \subseteq MP
      BY ConstAssumption DEF Parts
    <3> QED BY <2>1, <3>1, <3>2, <3>3
  <2>3. Told' = Told \cup {t}
    BY <1>2, <1>0 DEF CommitAnswered, Told, TypeOK
  <2>4. AC!Report(t)
    BY <1>2, <2>1, <2>2, <2>3 DEF AC!Report, CommitAnswered, rmVars
  <2> QED BY <2>4 DEF AC!Next
<1>3. ASSUME NEW t \in Tx, NEW m \in MP, NEW op \in Ops,
             fates' = [fates EXCEPT ![m][t] = @ \cup {op}], UNCHANGED <<cli, decision>>
      PROVE  AC!Next
  <2>1. fates \in [MP -> [Tx -> SUBSET Ops]] /\ fates' \in [MP -> [Tx -> SUBSET Ops]]
    BY <1>0 DEF IndInv, TypeOK
  <2>2. op \in fates'[m][t]
    BY <1>3, <2>1
  <2>3. decision'[t] = op /\ \A o \in Ops : o \in fates'[m][t] => o = op
    <3>1. FollowInv(t)'
      BY DEF IndInv
    <3> QED BY <2>2, <3>1 DEF FollowInv
  <2>4. fates'[m][t] = {op}
    BY <2>1, <2>2, <2>3
  <2>5. fates' = [fates EXCEPT ![m][t] = {op}]
    BY <1>3, <2>1, <2>4
  <2>6. AC!Resolve(t, m)
    BY <1>3, <2>3, <2>5 DEF AC!Resolve, Told, Ops
  <2> QED BY <2>6 DEF AC!Next
<1>4. ASSUME NEW t \in Tx, Client(t)
      PROVE  AC!Next \/ UNCHANGED <<decision, fates, Told>>
  <2>1. CASE CommitAnswered(t)
    BY <1>2, <2>1
  <2>2. CASE ~CommitAnswered(t)
    <3>1. UNCHANGED <<decision, fates>>
      BY <1>4, <2>2 DEF Client, TxCreate, TxStarted, TxCreateFailed, ClientOpTimeout,
           OnDone, ClientGivesUp, rmVars
    <3>2. cli' = cli \/ \E s \in CliStates \ {"committed"} :
              cli' = [cli EXCEPT ![t] = s] /\ cli[t] # "committed"
      BY <1>4, <2>2 DEF Client, TxCreate, TxStarted, TxCreateFailed, ClientOpTimeout,
           OnDone, ClientGivesUp, CliStates
    <3>3. Told' = Told
      BY <1>0, <3>2 DEF Told, TypeOK
    <3> QED BY <3>1, <3>3
  <2> QED BY <2>1, <2>2
<1>5. ASSUME NEW t \in Tx, TM(t)
      PROVE  AC!Next \/ UNCHANGED <<decision, fates, Told>>
  BY <1>1, <1>5 DEF TM, TxCommit, TxRollback, TxExpired, SendToRM, TxApplied, TmFailover,
       rmVars, cliVars, Told, Ops
<1>6. ASSUME NEW t \in Tx, RM(t)
      PROVE  AC!Next \/ UNCHANGED <<decision, fates, Told>>
  <2>1. ASSUME NEW i \in Item, RmTxOp(t, i) \/ RmTxOpAgain(t, i) \/ RmTxOpRefused(t, i)
        PROVE  UNCHANGED <<decision, fates, Told>>
    BY <2>1 DEF RmTxOp, RmTxOpAgain, RmTxOpRefused, rmVars, Told
  <2>2. ASSUME NEW m \in MP, RmTxCreate(t, m) \/ DelTx(t, m)
        PROVE  UNCHANGED <<decision, fates, Told>>
    BY <2>2 DEF RmTxCreate, DelTx, cliVars, Told
  <2>3. ASSUME NEW m \in MP, NEW op \in Ops, RmTxApply(t, m, op)
        PROVE  AC!Next \/ UNCHANGED <<decision, fates, Told>>
    BY <1>3, <2>3 DEF RmTxApply, CommitRM, RollbackRM, rmVars, cliVars, Told, Ops
  <2>4. ASSUME NEW m \in MP, ClearOrphanTx(t, m) PROVE AC!Next
    BY <1>3, <2>4 DEF ClearOrphanTx, RollbackRM, cliVars, Ops
  <2> QED BY <1>6, <2>1, <2>2, <2>3, <2>4 DEF RM
<1>7. CASE (\E t \in Tx : Lose(t)) \/ (\E i \in Item : PlainOp(i)) \/ UNCHANGED vars
  BY <1>7 DEF Lose, PlainOp, vars, rmVars, cliVars, Told
<1> QED BY <1>4, <1>5, <1>6, <1>7 DEF Next

\* The transaction protocol implements atomic commitment: decided once, followed
\* by every partition, reported to the client only when all have committed.
THEOREM Refinement == Spec => CommitsAtomically
BY InitAbstract, NextAbstract, Inductive, PTL DEF Spec, CommitsAtomically, AC!Spec

-----------------------------------------------------------------------------
(* A commit is complete when every operation reports its status. *)

\* What a client was told is done, what t holds and what it asks to commit was
\* changed by t.
CompleteInv ==
  /\ \A t \in Tx : applied[t] \subseteq Items[t]
  /\ \A t \in Tx, i \in Item : rb[i].tx = t => i \in applied[t]
  /\ \A t \in Tx : \A i \in Items[t] : res[t][i] = "ok" => i \in applied[t]
  /\ \A t \in Tx :
       "commit" \in tmReq[t] \/ decision[t] = "commit" => Items[t] \subseteq applied[t]

\* Every operation hands a refusal on to its caller, as those of create and mkdir do.
AllKept == \A t \in Tx : Items[t] \subseteq StatusKept[t]

\* A step that leaves the changes alone, releases records, and neither hears of a
\* success nor asks for or decides a commit keeps CompleteInv.
LEMMA CompleteSame ==
  ASSUME CompleteInv, applied' = applied,
         \A t \in Tx, i \in Item : rb'[i].tx = t => rb[i].tx = t,
         \A t \in Tx : \A i \in Items[t] : res'[t][i] = "ok" => i \in applied[t],
         \A t \in Tx : "commit" \in tmReq'[t] \/ decision'[t] = "commit"
                         => Items[t] \subseteq applied[t]
  PROVE  CompleteInv'
BY DEF CompleteInv

\* An answer to t's request for i is heard by t only.
LEMMA AnswerOnly ==
  ASSUME TypeOK, NEW t \in Tx, NEW i \in Item, NEW r \in Results, Answer(t, i, r)
  PROVE  \A u \in Tx, j \in Item : res'[u][j] = res[u][j] \/ (u = t /\ j = i /\ res'[u][j] = r)
BY DEF Answer, TypeOK

\* Every step keeps CompleteInv.
LEMMA CompleteNext ==
  ASSUME AllKept, IndInv, CompleteInv, [Next]_vars
  PROVE  CompleteInv'
<1>0. /\ TypeOK /\ Items \in [Tx -> SUBSET Item]
      /\ applied \in [Tx -> SUBSET Item] /\ tmReq \in [Tx -> SUBSET Ops]
      /\ decision \in [Tx -> Ops \cup {"none"}]
  BY ConstAssumption DEF IndInv, TypeOK
<1>s. ASSUME UNCHANGED <<applied, res, tmReq, decision>>,
             \A t \in Tx, i \in Item : rb'[i].tx = t => rb[i].tx = t
      PROVE  CompleteInv'
  BY <1>s, CompleteSame DEF CompleteInv
<1>1. ASSUME NEW t \in Tx, Client(t) PROVE CompleteInv'
  <2>1. CASE OnDone(t)
    <3>1. \A i \in Items[t] : OpSucceeded(t, i) => i \in applied[t]
      BY <1>0 DEF OpSucceeded, AllKept, CompleteInv
    <3>2. UNCHANGED <<applied, res, decision, rb>>
      BY <2>1 DEF OnDone, rmVars
    <3>3. "commit" \in tmReq'[t] =>
            "commit" \in tmReq[t] \/ \A i \in Items[t] : OpSucceeded(t, i)
      BY <1>0, <2>1 DEF OnDone
    <3>4. \A u \in Tx : u # t => tmReq'[u] = tmReq[u]
      BY <1>0, <2>1 DEF OnDone
    <3>5. \A u \in Tx : "commit" \in tmReq'[u] \/ decision'[u] = "commit"
                          => Items[u] \subseteq applied[u]
      BY <3>1, <3>2, <3>3, <3>4 DEF CompleteInv
    <3> QED BY <3>2, <3>5, CompleteSame DEF CompleteInv
  <2>2. ASSUME NEW i \in Item, ClientOpTimeout(t, i) PROVE CompleteInv'
    <3>1. UNCHANGED <<applied, tmReq, decision, rb>>
      BY <2>2 DEF ClientOpTimeout, rmVars, netVars
    <3>2. \A u \in Tx, j \in Item : res'[u][j] = "ok" => res[u][j] = "ok"
      BY <1>0, <2>2 DEF ClientOpTimeout, TypeOK
    <3> QED BY <1>0, <3>1, <3>2, CompleteSame DEF CompleteInv
  <2>3. CASE \/ TxCreate(t) \/ TxStarted(t) \/ TxCreateFailed(t)
             \/ CommitAnswered(t) \/ ClientGivesUp(t)
    <3>1. UNCHANGED <<applied, res, tmReq, decision, rb>>
      BY <2>3 DEF TxCreate, TxStarted, TxCreateFailed, CommitAnswered, ClientGivesUp,
           rmVars, netVars
    <3> QED BY <1>s, <3>1
  <2> QED BY <1>1, <2>1, <2>2, <2>3 DEF Client
<1>2. ASSUME NEW t \in Tx, TM(t) PROVE CompleteInv'
  <2>1. ASSUME NEW op \in Ops, SetState(t, op), op = "commit" => "commit" \in tmReq[t]
        PROVE  CompleteInv'
    <3>1. UNCHANGED <<applied, res, tmReq, rb>>
      BY <2>1 DEF SetState, netVars, cliVars
    <3>2. \A u \in Tx : decision'[u] = "commit" => decision[u] = "commit" \/ "commit" \in tmReq[u]
      BY <1>0, <2>1 DEF SetState
    <3> QED BY <3>1, <3>2, CompleteSame DEF CompleteInv
  <2>2. CASE TxCommit(t) \/ TxRollback(t) \/ TxExpired(t)
    BY <2>1, <2>2 DEF TxCommit, TxRollback, TxExpired, Ops
  <2>3. CASE (\E m \in MP : SendToRM(t, m)) \/ TxApplied(t) \/ TmFailover(t)
    <3>1. UNCHANGED <<applied, res, tmReq, decision, rb>>
      BY <2>3 DEF SendToRM, TxApplied, TmFailover, rmVars, netVars, cliVars
    <3> QED BY <1>s, <3>1
  <2> QED BY <1>2, <2>2, <2>3 DEF TM
<1>3. ASSUME NEW t \in Tx, RM(t) PROVE CompleteInv'
  <2>1. ASSUME NEW i \in Item, RmTxOp(t, i) PROVE CompleteInv'
    <3>1. i \in Items[t] /\ UNCHANGED <<tmReq, decision>>
      BY <2>1 DEF RmTxOp, IndInv, FollowInv, netVars
    <3>2. /\ applied'[t] = applied[t] \cup {i}
          /\ \A u \in Tx : u # t => applied'[u] = applied[u]
      BY <1>0, <2>1 DEF RmTxOp
    <3>3. \A u \in Tx, j \in Item : rb'[j].tx = u => rb[j].tx = u \/ (u = t /\ j = i)
      BY <1>0, <2>1 DEF RmTxOp, TypeOK
    <3>4. \A u \in Tx, j \in Item : res'[u][j] = "ok" => res[u][j] = "ok" \/ (u = t /\ j = i)
      BY <1>0, <2>1, AnswerOnly DEF RmTxOp, Results
    <3> QED BY <1>0, <3>1, <3>2, <3>3, <3>4 DEF CompleteInv
  <2>2. ASSUME NEW i \in Item, RmTxOpAgain(t, i) PROVE CompleteInv'
    <3>1. i \in applied[t] /\ UNCHANGED <<applied, tmReq, decision, rb>>
      BY <2>2 DEF RmTxOpAgain, CompleteInv, netVars, rmVars
    <3>2. \A u \in Tx, j \in Item : res'[u][j] = "ok" => res[u][j] = "ok" \/ (u = t /\ j = i)
      BY <1>0, <2>2, AnswerOnly DEF RmTxOpAgain, Results
    <3> QED BY <1>0, <3>1, <3>2, CompleteSame DEF CompleteInv
  <2>3. ASSUME NEW i \in Item, RmTxOpRefused(t, i) PROVE CompleteInv'
    <3>1. UNCHANGED <<applied, tmReq, decision, rb>>
      BY <2>3 DEF RmTxOpRefused, netVars, rmVars
    <3>2. \A u \in Tx, j \in Item : res'[u][j] = "ok" => res[u][j] = "ok"
      BY <1>0, <2>3, AnswerOnly DEF RmTxOpRefused, Results
    <3> QED BY <1>0, <3>1, <3>2, CompleteSame DEF CompleteInv
  <2>4. ASSUME NEW m \in MP, RmTxCreate(t, m) \/ DelTx(t, m) PROVE CompleteInv'
    <3>1. UNCHANGED <<applied, res, tmReq, decision, rb>>
      BY <2>4 DEF RmTxCreate, DelTx, cliVars
    <3> QED BY <1>s, <3>1
  <2>5. ASSUME NEW m \in MP, NEW op \in Ops, RmTxApply(t, m, op) \/ ClearOrphanTx(t, m)
        PROVE  CompleteInv'
    <3>1. UNCHANGED <<applied, res, tmReq, decision>>
      BY <2>5 DEF RmTxApply, ClearOrphanTx, cliVars, netVars
    <3>2. rb' = rb \/ rb' = [i \in Item |-> IF i \in Held(m, t) THEN NoRb ELSE rb[i]]
      BY <2>5 DEF RmTxApply, ClearOrphanTx, CommitRM, RollbackRM, rmVars
    <3>3. \A u \in Tx, i \in Item : rb'[i].tx = u => rb[i].tx = u
      BY <3>2, ConstAssumption DEF NoRb
    <3> QED BY <1>s, <3>1, <3>3
  <2> QED BY <1>3, <2>1, <2>2, <2>3, <2>4, <2>5 DEF RM, Ops
<1>4. CASE (\E t \in Tx : Lose(t)) \/ (\E i \in Item : PlainOp(i)) \/ UNCHANGED vars
  <2>1. UNCHANGED <<applied, res, tmReq, decision, rb>>
    BY <1>4 DEF Lose, PlainOp, vars, rmVars, netVars, cliVars
  <2> QED BY <1>s, <2>1
<1> QED BY <1>1, <1>2, <1>3, <1>4 DEF Next

\* When every operation of the transactions hands its status on (create_ll's
\* transaction: txIcreate, txDcreate), OnDone commits only transactions that have
\* changed all their items.  Finding 1 is about the operations that do not.
THEOREM CommitsComplete == AllKept => (Spec => []CommitIsComplete)
<1> SUFFICES ASSUME AllKept PROVE Spec => []CommitIsComplete
  OBVIOUS
<1>1. Init => CompleteInv
  BY ConstAssumption DEF Init, CompleteInv, NoRb
<1>2. IndInv /\ CompleteInv /\ [Next]_vars => CompleteInv'
  BY CompleteNext
<1>3. CompleteInv => CommitIsComplete
  BY DEF CompleteInv, CommitIsComplete
<1> QED BY <1>1, <1>2, <1>3, Inductive, PTL DEF Spec
=============================================================================
