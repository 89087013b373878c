------------------------------ MODULE ReplInv -------------------------------
(***************************************************************************)
(* The inductive invariant of ReplProtocol, and what its conjuncts need of *)
(* a step.  The receiver must not judge a packet before the leader's own   *)
(* write has set its result, or that write would overwrite the error of a  *)
(* follower.  It does not because the signals in ackCh never exceed the    *)
(* packets of the list whose local write is over (Counted), and those come *)
(* before the one that is being written (Placed).  The steps of the        *)
(* followers, of the transports to them, of the goroutines that leave, and *)
(* those that read a packet, send it on and write it locally keep it.      *)
(***************************************************************************)
EXTENDS ReplProtocol, TLAPS

\* The provers' time for a step, in seconds
USE ZenonT(5), SMTT(60), ZenonT(60)

\* A packet that was read and is going to be written to an extent
Good(p) == p \in Packet /\ p <= nread /\ extent[p] \in Extent

Safe(r, p) == Good(p) /\ Stored(r, p)

\* Types of what the argument is about
Types ==
    /\ kind \in Seq({"normal", "tiny", "read"})
    /\ nread \in 0..Len(kind)
    /\ oper \in {Idle, Gone} \cup [p : Packet, i : 1..(NumFollowers + 1)]
    /\ receiver \in {Idle, Gone} \cup [p : Packet, i : Follower]
    /\ server \in {"read", "leave", "gone"} /\ writer \in {"run", "gone"}
    /\ exited \in Int /\ ackCh \in Nat
    /\ toBeProcessedCh \in Seq(Packet) /\ packetList \in Seq(Packet)
    /\ responseCh \in Seq(Packet)
    /\ result \in [Packet -> {"init", "ok", "err"}]
    /\ extent \in [Packet -> Extent \cup {NoExtent}]
    /\ offset = [p \in Packet |-> offset[p]]
    /\ replies \in Seq(Packet \X {"init", "ok", "err"})
    /\ sendCh \in [Follower -> Seq(Packet)]
    /\ wire \in [Follower -> Seq([p : Packet, bytes : Packet \cup {0}])]
    /\ back \in [Follower -> Seq([p : Packet, res : {"ok", "err"}])]
    /\ respCh \in [Packet -> [Follower -> {"none", "ok", "err", "deadline"}]]
    /\ file \in [Replica -> [Extent -> Seq(Packet \cup {0})]]

\* exited counts the goroutines that have left.
Left(gone) == IF gone THEN 1 ELSE 0
Exits ==
    \/ /\ exited = ReplRuning
       /\ server # "gone" /\ oper # Gone /\ receiver # Gone /\ writer # "gone"
    \/ exited = ReplExiting - Left(server = "gone") - Left(oper = Gone)
                            - Left(receiver = Gone) - Left(writer = "gone")

Sending == oper.i \in Follower
Writing == oper.i = NumFollowers + 1
Waiting == receiver.i \in Follower

\* The signals, the packet the receiver waits for and the one that is being written
\* locally are all in the list.
Counted == ackCh + Left(Waiting) + Left(Writing) <= Len(packetList)

\* Where a packet is: in one place on its way, at most once.
Queued(i) ==
    /\ toBeProcessedCh[i] <= nread
    /\ kind[toBeProcessedCh[i]] # "read" => Good(toBeProcessedCh[i])
    /\ \A j \in 1..Len(toBeProcessedCh) : toBeProcessedCh[i] = toBeProcessedCh[j] => i = j
    /\ Sending \/ Writing => oper.p # toBeProcessedCh[i]

Listed(i) ==
    /\ packetList[i] <= nread
    /\ \A j \in 1..Len(packetList) : packetList[i] = packetList[j] => i = j
    /\ \A j \in 1..Len(toBeProcessedCh) : packetList[i] # toBeProcessedCh[j]
    /\ Sending => oper.p # packetList[i]

Over(p) ==
    /\ p <= nread
    /\ \A j \in 1..Len(toBeProcessedCh) : p # toBeProcessedCh[j]
    /\ Sending \/ Writing => oper.p # p

Placed ==
    /\ \A i \in 1..Len(toBeProcessedCh) : Queued(i)
    /\ \A i \in 1..Len(packetList) : Listed(i)
    /\ \A i \in 1..Len(responseCh) : Over(responseCh[i])
    /\ Sending \/ Writing => Good(oper.p)
    /\ Writing => oper.p = packetList[Len(packetList)]
    /\ Waiting => receiver.p = packetList[1]

\* What each answer on its way says is true of the files.
Answers(f) ==
    /\ \A i \in 1..Len(sendCh[f]) : Good(sendCh[f][i])
    /\ \A i \in 1..Len(wire[f]) : Good(wire[f][i].p)
    /\ \A i \in 1..Len(back[f]) : back[f][i].res = "ok" => Safe(f, back[f][i].p)
    /\ \A p \in Packet : respCh[p][f] = "ok" => Safe(f, p)

Local(p) == result[p] = "ok" /\ kind[p] # "read" => Safe(0, p)

Heard ==
    Waiting /\ result[receiver.p] # "err" =>
        \A f \in Follower : f < receiver.i => Safe(f, receiver.p)

Judged(i) ==
    result[responseCh[i]] = "ok" /\ kind[responseCh[i]] # "read" =>
        \A r \in Replica : Safe(r, responseCh[i])

Replied(i) == replies[i][2] = "ok" => \A r \in Replica : Safe(r, replies[i][1])

Truthful ==
    /\ \A f \in Follower : Answers(f)
    /\ \A p \in Packet : Local(p)
    /\ Heard
    /\ \A i \in 1..Len(responseCh) : Judged(i)
    /\ \A i \in 1..Len(replies) : Replied(i)

IndInv == Types /\ Exits /\ Counted /\ Placed /\ Truthful

-----------------------------------------------------------------------------
(* Sequences *)

\* What Append does to a sequence
LEMMA AppendFacts ==
  ASSUME NEW S, NEW s \in Seq(S), NEW e \in S
  PROVE  /\ Append(s, e) \in Seq(S)
         /\ Len(Append(s, e)) = Len(s) + 1
         /\ Len(s) \in Nat
         /\ \A i \in 1..Len(s) : Append(s, e)[i] = s[i]
         /\ Append(s, e)[Len(s) + 1] = e
  OBVIOUS

\* What Tail does to a sequence
LEMMA TailFacts ==
  ASSUME NEW S, NEW s \in Seq(S), s # <<>>
  PROVE  /\ Tail(s) \in Seq(S)
         /\ Len(s) \in Nat /\ Len(s) > 0
         /\ Len(Tail(s)) = Len(s) - 1
         /\ \A i \in 1..(Len(s) - 1) : Tail(s)[i] = s[i + 1]
         /\ Head(s) = s[1] /\ s[1] \in S
  OBVIOUS

\* The packets are numbered from 1.
LEMMA PacketFacts ==
  ASSUME Types
  PROVE  Packet = 1..Len(kind) /\ Len(kind) \in Nat /\ nread \in Nat
  BY DEF Types, Packet

\* The channels and the list are sequences of packets.
LEMMA QueueFacts ==
  ASSUME Types
  PROVE  /\ toBeProcessedCh \in Seq(Packet) /\ Len(toBeProcessedCh) \in Nat
         /\ \A i \in 1..Len(toBeProcessedCh) : toBeProcessedCh[i] \in Packet
         /\ packetList \in Seq(Packet) /\ Len(packetList) \in Nat
         /\ \A i \in 1..Len(packetList) : packetList[i] \in Packet
         /\ responseCh \in Seq(Packet) /\ Len(responseCh) \in Nat
         /\ \A i \in 1..Len(responseCh) : responseCh[i] \in Packet
<1>1. /\ toBeProcessedCh \in Seq(Packet) /\ packetList \in Seq(Packet)
      /\ responseCh \in Seq(Packet)
  BY DEF Types
<1> QED BY <1>1

-----------------------------------------------------------------------------
(* Files only grow, and a packet keeps the place it was given when it was read. *)

FilesGrow ==
    \A r \in Replica, x \in Extent :
        /\ Len(file[r][x]) <= Len(file'[r][x])
        /\ \A i \in 1..Len(file[r][x]) : file'[r][x][i] = file[r][x][i]

Steady ==
    /\ kind' = kind
    /\ nread <= nread'
    /\ \A p \in Packet : p <= nread => extent'[p] = extent[p] /\ offset'[p] = offset[p]
    /\ FilesGrow

\* A packet that was read stays one.
LEMMA GoodStays ==
  ASSUME Types, Types', Steady, NEW p, Good(p)
  PROVE  Good(p)'
<1>1. Packet' = Packet /\ nread <= nread' /\ p \in Packet /\ p <= nread
  BY DEF Steady, Good, Packet
<1>2. extent'[p] \in Extent
  BY <1>1 DEF Steady, Good
<1>3. nread \in Nat /\ nread' \in Nat /\ Packet \subseteq Nat
  <2>1. nread \in 0..Len(kind) /\ nread' \in 0..Len(kind')
    BY DEF Types
  <2> QED BY <2>1 DEF Packet
<1>4. p <= nread'
  BY <1>1, <1>3
<1> QED BY <1>1, <1>2, <1>4 DEF Good

\* A packet in its place on a replica stays there.
LEMMA SafeStays ==
  ASSUME Types, Types', Steady, NEW r \in Replica, NEW p, Safe(r, p)
  PROVE  Safe(r, p)'
<1>1. Good(p) /\ Good(p)' /\ extent'[p] = extent[p] /\ offset'[p] = offset[p]
  BY GoodStays DEF Safe, Good, Steady
<1> DEFINE x == extent[p]
<1>2. x \in Extent
  BY <1>1 DEF Good
<1>3. file[r][x] \in Seq(Packet \cup {0}) /\ file'[r][x] \in Seq(Packet \cup {0})
  <2>1. Packet' = Packet
    BY DEF Steady, Packet
  <2>2. /\ file \in [Replica -> [Extent -> Seq(Packet \cup {0})]]
        /\ file' \in [Replica -> [Extent -> Seq(Packet \cup {0})]]
    BY <2>1 DEF Types
  <2> QED BY <1>2, <2>2
<1>4. offset[p] + 1 \in 1..Len(file[r][x]) /\ file[r][x][offset[p] + 1] = p
  BY <1>3 DEF Safe, Stored
<1>5. /\ offset[p] + 1 \in 1..Len(file'[r][x])
      /\ file'[r][x][offset[p] + 1] = p
  BY <1>2, <1>3, <1>4 DEF Steady, FilesGrow
<1> QED BY <1>1, <1>3, <1>5 DEF Safe, Stored

\* A step that leaves the files, the packets and their places alone is steady.
LEMMA SteadyStutter ==
  ASSUME Types, UNCHANGED <<kind, nread, extent, offset, file>>
  PROVE  Steady
  BY DEF Steady, FilesGrow, Types

\* A new connection satisfies the invariant.
LEMMA InitInv == Init => IndInv
<1> SUFFICES ASSUME Init PROVE IndInv
  OBVIOUS
<1>1. kind \in Seq({"normal", "tiny", "read"}) /\ Len(kind) \in Nat
  BY RpAssumption DEF Init
<1>2. Types
  BY <1>1 DEF Init, Types, ReplRuning
<1>3. Exits
  BY DEF Init, Exits, Idle, Gone
<1>4. oper.i = 0 /\ receiver.i = 0 /\ ~Waiting /\ ~Writing /\ ~Sending
  BY RpAssumption DEF Init, Idle, Waiting, Writing, Sending, Follower
<1>5. Counted
  BY <1>4 DEF Init, Counted, Left
<1>6. Placed
  BY <1>4 DEF Init, Placed
<1>7. Truthful
  BY <1>4 DEF Init, Truthful, Answers, Local, Heard
<1> QED BY <1>2, <1>3, <1>5, <1>6, <1>7 DEF IndInv

-----------------------------------------------------------------------------
(* What a steady step does not touch stays true. *)

\* The answers of a follower stay true.
LEMMA AnswersStay ==
  ASSUME Types, Types', Steady, NEW f \in Follower, Answers(f),
         UNCHANGED <<sendCh, wire, back, respCh>>
  PROVE  Answers(f)'
<1>1. f \in Replica /\ Packet' = Packet
  BY RpAssumption DEF Follower, Replica, Steady, Packet
<1> QED BY <1>1, GoodStays, SafeStays DEF Answers

\* So do the leader's results,
LEMMA LocalStays ==
  ASSUME Types, Types', Steady, \A p \in Packet : Local(p), UNCHANGED result
  PROVE  \A p \in Packet' : Local(p)'
<1>1. 0 \in Replica /\ Packet' = Packet /\ kind' = kind
  BY RpAssumption DEF Replica, Steady, Packet
<1> QED BY <1>1, SafeStays DEF Local

\* what the receiver has heard,
LEMMA HeardStays ==
  ASSUME Types, Types', Steady, Heard, UNCHANGED <<result, receiver>>
  PROVE  Heard'
<1>1. Follower \subseteq Replica
  BY RpAssumption DEF Follower, Replica
<1> QED BY <1>1, SafeStays DEF Heard, Waiting

\* what waits to be written to the client,
LEMMA JudgedStays ==
  ASSUME Types, Types', Steady, \A i \in 1..Len(responseCh) : Judged(i),
         UNCHANGED <<result, responseCh>>
  PROVE  \A i \in 1..Len(responseCh') : Judged(i)'
<1>1. kind' = kind
  BY DEF Steady
<1> QED BY <1>1, SafeStays DEF Judged

\* and what was written.
LEMMA RepliedStays ==
  ASSUME Types, Types', Steady, \A i \in 1..Len(replies) : Replied(i), UNCHANGED replies
  PROVE  \A i \in 1..Len(replies') : Replied(i)'
  BY SafeStays DEF Replied

\* The states of the goroutines
LEMMA OperFacts ==
  ASSUME Types
  PROVE  /\ Sending \/ Writing <=> oper \notin {Idle, Gone}
         /\ oper = Idle => ~Sending /\ ~Writing
         /\ oper = Gone => ~Sending /\ ~Writing
         /\ Sending \/ Writing => oper.p \in Packet /\ oper.i \in 1..(NumFollowers + 1)
         /\ ~(Sending /\ Writing)
<1>1. oper \in {Idle, Gone} \cup [p : Packet, i : 1..(NumFollowers + 1)]
  BY DEF Types
<1>2. CASE oper = Idle
  <2>1. oper.i = 0
    BY <1>2 DEF Idle
  <2> QED BY <1>2, <2>1, RpAssumption DEF Sending, Writing, Follower, Idle, Gone
<1>3. CASE oper = Gone
  <2>1. oper.i = -1
    BY <1>3 DEF Gone
  <2> QED BY <1>3, <2>1, RpAssumption DEF Sending, Writing, Follower, Idle, Gone
<1>4. CASE oper \in [p : Packet, i : 1..(NumFollowers + 1)]
  <2>1. oper.i \in 1..(NumFollowers + 1) /\ oper.p \in Packet
    BY <1>4
  <2>2. oper # Idle /\ oper # Gone
    BY <2>1 DEF Idle, Gone
  <2> QED BY <2>1, <2>2, RpAssumption DEF Sending, Writing, Follower
<1> QED BY <1>1, <1>2, <1>3, <1>4

\* The same of the receiver
LEMMA ReceiverFacts ==
  ASSUME Types
  PROVE  /\ Waiting <=> receiver \notin {Idle, Gone}
         /\ receiver = Idle => ~Waiting
         /\ receiver = Gone => ~Waiting
         /\ Waiting => receiver.p \in Packet /\ receiver.i \in Follower
<1>1. receiver \in {Idle, Gone} \cup [p : Packet, i : Follower]
  BY DEF Types
<1>2. CASE receiver = Idle
  <2>1. receiver.i = 0
    BY <1>2 DEF Idle
  <2> QED BY <1>2, <2>1, RpAssumption DEF Waiting, Follower
<1>3. CASE receiver = Gone
  <2>1. receiver.i = -1
    BY <1>3 DEF Gone
  <2> QED BY <1>3, <2>1, RpAssumption DEF Waiting, Follower
<1>4. CASE receiver \in [p : Packet, i : Follower]
  <2>1. receiver.i \in Follower /\ receiver.p \in Packet
    BY <1>4
  <2>2. receiver # Idle /\ receiver # Gone
    BY <2>1, RpAssumption DEF Idle, Gone, Follower
  <2> QED BY <2>1, <2>2 DEF Waiting
<1> QED BY <1>1, <1>2, <1>3, <1>4

coreVars == <<kind, nread, oper, receiver, writer, server, exited, toBeProcessedCh,
              packetList, ackCh, responseCh, result, extent, offset, replies>>

\* A step outside the goroutines of the connection has to keep the answers.
LEMMA CoreStays ==
  ASSUME IndInv, UNCHANGED coreVars, Types', FilesGrow,
         \A f \in Follower : Answers(f)'
  PROVE  IndInv'
<1>1. Steady
  BY DEF coreVars, Steady, IndInv, Types
<1>2. Exits' /\ Counted'
  BY DEF coreVars, IndInv, Exits, Counted, Waiting, Writing
<1>3. Packet' = Packet
  BY DEF coreVars, Packet
<1>4. Placed'
  BY <1>3 DEF coreVars, IndInv, Placed, Queued, Listed, Over, Good, Sending, Writing, Waiting
<1>5. Truthful'
  BY <1>1, LocalStays, HeardStays, JudgedStays, RepliedStays DEF coreVars, IndInv, Truthful
<1> QED BY <1>2, <1>4, <1>5 DEF IndInv

-----------------------------------------------------------------------------
(* What the steps of several goroutines share *)

\* What a transport and its follower hold
LEMMA TransportTypes ==
  ASSUME IndInv, NEW f \in Follower
  PROVE  /\ sendCh \in [Follower -> Seq(Packet)] /\ sendCh[f] \in Seq(Packet)
         /\ wire \in [Follower -> Seq([p : Packet, bytes : Packet \cup {0}])]
         /\ wire[f] \in Seq([p : Packet, bytes : Packet \cup {0}])
         /\ back \in [Follower -> Seq([p : Packet, res : {"ok", "err"}])]
         /\ back[f] \in Seq([p : Packet, res : {"ok", "err"}])
         /\ respCh \in [Packet -> [Follower -> {"none", "ok", "err", "deadline"}]]
         /\ Answers(f)
  BY DEF IndInv, Types, Truthful

\* An append that fits puts the packet in its place.
LEMMA WrittenFacts ==
  ASSUME Types, NEW r \in Replica, NEW p \in Packet, Good(p), Fits(r, p),
         file' = Written(r, p, p), UNCHANGED <<kind, nread, extent, offset>>
  PROVE  /\ file' \in [Replica -> [Extent -> Seq(Packet \cup {0})]]
         /\ FilesGrow
         /\ Safe(r, p)'
<1> DEFINE x == extent[p]
           s == file[r][x]
<1>1. x \in Extent /\ file \in [Replica -> [Extent -> Seq(Packet \cup {0})]]
  BY DEF Types, Good
<1>2. s \in Seq(Packet \cup {0}) /\ Len(s) = offset[p] /\ Len(s) \in Nat
  BY <1>1 DEF Fits
<1>3. file' = [file EXCEPT ![r][x] = Append(s, p)]
  BY DEF Written
<1> HIDE DEF x, s
<1>4. /\ Append(s, p) \in Seq(Packet \cup {0}) /\ Len(Append(s, p)) = Len(s) + 1
      /\ \A i \in 1..Len(s) : Append(s, p)[i] = s[i]
      /\ Append(s, p)[Len(s) + 1] = p
  BY <1>2, AppendFacts
<1> USE DEF s
<1>5. /\ file' \in [Replica -> [Extent -> Seq(Packet \cup {0})]]
      /\ file'[r][x] = Append(s, p)
      /\ \A q \in Replica, y \in Extent : q # r \/ y # x => file'[q][y] = file[q][y]
  BY <1>1, <1>3, <1>4
<1>6. FilesGrow
  <2> SUFFICES ASSUME NEW q \in Replica, NEW y \in Extent
               PROVE  /\ Len(file[q][y]) <= Len(file'[q][y])
                      /\ \A i \in 1..Len(file[q][y]) : file'[q][y][i] = file[q][y][i]
    BY DEF FilesGrow
  <2>1. CASE q = r /\ y = x
    <3>1. file[q][y] = s /\ file'[q][y] = Append(s, p)
      BY <1>5, <2>1
    <3> HIDE DEF s
    <3> QED BY <1>2, <1>4, <3>1
  <2>2. CASE q # r \/ y # x
    <3>1. file'[q][y] = file[q][y] /\ file[q][y] \in Seq(Packet \cup {0})
      BY <1>1, <1>5, <2>2
    <3> QED BY <3>1
  <2> QED BY <2>1, <2>2
<1>7. Stored(r, p)'
  <2>1. extent'[p] = x /\ offset'[p] + 1 = Len(s) + 1
    BY <1>2 DEF x
  <2>2. Len(s) + 1 \in DOMAIN file'[r][x]
    BY <1>2, <1>4, <1>5
  <2> QED BY <1>4, <1>5, <2>1, <2>2 DEF Stored
<1>8. Good(p)'
  BY DEF Good, Packet
<1> QED BY <1>5, <1>6, <1>7, <1>8 DEF Safe

\* putResponse adds at most the packet itself.
LEMMA PutFacts ==
  ASSUME responseCh \in Seq(Packet), NEW p \in Packet, PutResponse(p)
  PROVE  /\ responseCh' \in Seq(Packet)
         /\ \A i \in 1..Len(responseCh') :
              \/ i \in 1..Len(responseCh) /\ responseCh'[i] = responseCh[i]
              \/ responseCh'[i] = p
<1>1. CASE responseCh' = responseCh
  BY <1>1
<1>2. CASE responseCh' = Append(responseCh, p)
  <2>1. /\ Append(responseCh, p) \in Seq(Packet)
        /\ Len(Append(responseCh, p)) = Len(responseCh) + 1
        /\ Len(responseCh) \in Nat
        /\ \A i \in 1..Len(responseCh) : Append(responseCh, p)[i] = responseCh[i]
        /\ Append(responseCh, p)[Len(responseCh) + 1] = p
    BY AppendFacts
  <2> QED BY <1>2, <2>1
<1> QED BY <1>1, <1>2 DEF PutResponse

\* A packet that joins the responses is judged as its result says.
LEMMA JudgedPut ==
  ASSUME Types, Types', Steady, \A i \in 1..Len(responseCh) : Judged(i),
         NEW p \in Packet,
         \A i \in 1..Len(responseCh') :
           \/ /\ i \in 1..Len(responseCh) /\ responseCh'[i] = responseCh[i]
              /\ result'[responseCh[i]] = "ok" => result[responseCh[i]] = "ok"
           \/ responseCh'[i] = p,
         result'[p] = "ok" /\ kind[p] # "read" => \A r \in Replica : Safe(r, p)'
  PROVE  \A i \in 1..Len(responseCh') : Judged(i)'
<1>1. kind' = kind
  BY DEF Steady
<1>2. \A r \in Replica : \A q : Safe(r, q) => Safe(r, q)'
  BY SafeStays
<1> SUFFICES ASSUME NEW i \in 1..Len(responseCh') PROVE Judged(i)'
  OBVIOUS
<1>3. CASE /\ i \in 1..Len(responseCh) /\ responseCh'[i] = responseCh[i]
           /\ result'[responseCh[i]] = "ok" => result[responseCh[i]] = "ok"
  BY <1>1, <1>2, <1>3 DEF Judged
<1>4. CASE responseCh'[i] = p
  BY <1>1, <1>4 DEF Judged
<1> QED BY <1>3, <1>4

\* The packet the receiver waits for is at the front of the list.
LEMMA WaitingFacts ==
  ASSUME IndInv, Waiting
  PROVE  /\ 1 \in 1..Len(packetList) /\ receiver.p = packetList[1]
         /\ receiver.p \in Packet /\ receiver.p <= nread /\ Over(receiver.p)
         /\ packetList # <<>>
         /\ Len(packetList) >= ackCh + 1 + Left(Writing)
<1>1. /\ Len(packetList) \in Nat /\ packetList \in Seq(Packet) /\ ackCh \in Nat
      /\ \A i \in 1..Len(packetList) : packetList[i] \in Packet
  BY QueueFacts DEF IndInv, Types
<1>2. Len(packetList) >= ackCh + 1 + Left(Writing)
  BY <1>1 DEF IndInv, Counted, Left
<1>3. 1 \in 1..Len(packetList) /\ packetList # <<>>
  BY <1>1, <1>2 DEF Left
<1>4. receiver.p = packetList[1] /\ Listed(1)
  BY <1>3 DEF IndInv, Placed
<1>5. receiver.p \in Packet /\ receiver.p <= nread
  BY <1>1, <1>3, <1>4 DEF Listed
<1>6. Writing => oper.p # packetList[1]
  <2> SUFFICES ASSUME Writing PROVE oper.p # packetList[1]
    OBVIOUS
  <2>1. Len(packetList) >= 2
    BY <1>1, <1>2 DEF Left
  <2>2. oper.p = packetList[Len(packetList)]
    BY DEF IndInv, Placed
  <2> QED BY <1>1, <1>4, <2>1, <2>2 DEF Listed
<1>7. Over(receiver.p)
  BY <1>4, <1>5, <1>6 DEF Listed, Over
<1> QED BY <1>2, <1>3, <1>4, <1>5, <1>7

\* Results that change do not make a claim that was not made before.
LEMMA HeardKept ==
  ASSUME IndInv, Types', Steady, receiver' = receiver,
         Waiting /\ result'[receiver.p] # "err" => result[receiver.p] # "err"
  PROVE  Heard'
<1> SUFFICES ASSUME Waiting', result'[receiver'.p] # "err", NEW f \in Follower,
                    f < receiver'.i
             PROVE  (Safe(f, receiver.p))'
  BY DEF Heard
<1>1. Waiting /\ receiver.p \in Packet
  BY WaitingFacts DEF Waiting
<1>2. result[receiver.p] # "err"
  BY <1>1
<1>3. Safe(f, receiver.p) /\ f \in Replica
  BY <1>1, <1>2, RpAssumption DEF IndInv, Truthful, Heard, Follower, Replica
<1>4. PICK q : q = receiver.p
  OBVIOUS
<1>5. Safe(f, q)'
  BY <1>3, <1>4, SafeStays DEF IndInv
<1> QED BY <1>4, <1>5

\* A result "ok" is new only for a packet that was just stored.
LEMMA LocalKept ==
  ASSUME IndInv, Types', Steady,
         \A p \in Packet : result'[p] = "ok" /\ kind[p] # "read" =>
                             result[p] = "ok" \/ Safe(0, p)'
  PROVE  \A p \in Packet' : Local(p)'
<1>1. 0 \in Replica /\ Packet' = Packet /\ kind' = kind
  BY RpAssumption DEF Replica, Steady, Packet
<1>2. Types /\ \A p \in Packet : Local(p)
  BY DEF IndInv, Truthful
<1> QED BY <1>1, <1>2, SafeStays DEF Local

-----------------------------------------------------------------------------
(* The goroutines leave. *)

\* A goroutine leaves; the last one empties the channels.
LEMMA LeaveKeeps ==
  ASSUME IndInv, NEW n \in Int, Leave(n), Exits',
         server' \in {"read", "leave", "gone"}, writer' \in {"run", "gone"},
         oper' = oper \/ (oper = Idle /\ oper' = Gone),
         receiver' = receiver \/ (receiver = Idle /\ receiver' = Gone),
         n = ReplHasExited => oper' = Gone /\ receiver' = Gone
  PROVE  IndInv'
<1>1. /\ UNCHANGED <<kind, nread, extent, offset, file, result, replies, sendCh, wire, back,
                     respCh>>
      /\ exited' = n
      /\ \/ UNCHANGED <<toBeProcessedCh, packetList, ackCh, responseCh>>
         \/ /\ toBeProcessedCh' = <<>> /\ packetList' = <<>> /\ responseCh' = <<>>
            /\ ackCh' = 0 /\ oper' = Gone /\ receiver' = Gone
  BY DEF Leave, chVars, ftVars
<1>2. Packet' = Packet
  BY <1>1 DEF Packet
<1>3. Types'
  <2>1. /\ toBeProcessedCh' \in Seq(Packet) /\ packetList' \in Seq(Packet)
        /\ responseCh' \in Seq(Packet) /\ ackCh' \in Nat
    <3>1. /\ toBeProcessedCh \in Seq(Packet) /\ packetList \in Seq(Packet)
          /\ responseCh \in Seq(Packet) /\ ackCh \in Nat
      BY DEF IndInv, Types
    <3>2. CASE UNCHANGED <<toBeProcessedCh, packetList, ackCh, responseCh>>
      BY <3>1, <3>2
    <3>3. CASE /\ toBeProcessedCh' = <<>> /\ packetList' = <<>> /\ responseCh' = <<>>
               /\ ackCh' = 0
      BY <3>3
    <3> QED BY <1>1, <3>2, <3>3
  <2>2. /\ oper' \in {Idle, Gone} \cup [p : Packet, i : 1..(NumFollowers + 1)]
        /\ receiver' \in {Idle, Gone} \cup [p : Packet, i : Follower]
    BY DEF IndInv, Types
  <2> QED BY <1>1, <1>2, <2>1, <2>2 DEF IndInv, Types
<1>4. Steady
  BY <1>1, SteadyStutter DEF IndInv
<1>5. /\ oper' = oper \/ (~Sending /\ ~Writing /\ ~Sending' /\ ~Writing')
      /\ receiver' = receiver \/ (~Waiting /\ ~Waiting')
      /\ oper' = Gone => ~Sending' /\ ~Writing'
      /\ receiver' = Gone => ~Waiting'
  BY <1>3, OperFacts, ReceiverFacts, RpAssumption
     DEF IndInv, Gone, Sending, Writing, Waiting, Follower
<1>6. (Sending' => Sending /\ oper' = oper) /\ (Writing' => Writing /\ oper' = oper)
      /\ (Waiting' => Waiting /\ receiver' = receiver)
  BY <1>5 DEF Sending, Writing, Waiting
<1>7. Counted'
  <2>1. CASE UNCHANGED <<packetList, ackCh>>
    BY <1>6, <2>1 DEF IndInv, Counted, Left, Types
  <2>2. CASE packetList' = <<>> /\ ackCh' = 0 /\ oper' = Gone /\ receiver' = Gone
    BY <1>5, <2>2 DEF Counted, Left
  <2> QED BY <1>1, <2>1, <2>2
<1>8. Placed'
  <2>1. CASE UNCHANGED <<toBeProcessedCh, packetList, ackCh, responseCh>>
    BY <1>1, <1>2, <1>6, <2>1 DEF IndInv, Placed, Queued, Listed, Over, Good
  <2>2. CASE /\ toBeProcessedCh' = <<>> /\ packetList' = <<>> /\ responseCh' = <<>>
             /\ oper' = Gone /\ receiver' = Gone
    BY <1>5, <2>2 DEF Placed
  <2> QED BY <1>1, <2>1, <2>2
<1>9. Truthful'
  <2>1. \A f \in Follower : Answers(f)'
    BY <1>1, <1>3, <1>4, AnswersStay DEF IndInv, Truthful
  <2>2. \A p \in Packet' : Local(p)'
    BY <1>1, <1>3, <1>4, LocalStays DEF IndInv, Truthful
  <2>3. Heard'
    <3>1. CASE receiver' = receiver
      BY <1>1, <1>3, <1>4, <3>1, HeardStays DEF IndInv, Truthful
    <3>2. CASE ~Waiting'
      BY <3>2 DEF Heard
    <3> QED BY <1>5, <3>1, <3>2
  <2>4. \A i \in 1..Len(responseCh') : Judged(i)'
    <3>1. CASE responseCh' = responseCh
      BY <1>1, <1>3, <1>4, <3>1, JudgedStays DEF IndInv, Truthful
    <3>2. CASE responseCh' = <<>>
      BY <3>2
    <3> QED BY <1>1, <3>1, <3>2
  <2>5. \A i \in 1..Len(replies') : Replied(i)'
    BY <1>1, <1>3, <1>4, RepliedStays DEF IndInv, Truthful
  <2> QED BY <2>1, <2>2, <2>3, <2>4, <2>5 DEF Truthful
<1> QED BY <1>3, <1>7, <1>8, <1>9 DEF IndInv

\* The goroutines leave.
LEMMA LeaveActionsKeep ==
  ASSUME IndInv, ServerLeave \/ OperLeave \/ RecvLeave \/ WriterLeave
  PROVE  IndInv'
<1> USE DEF ReplRuning, ReplExiting, ReplHasExited
<1>1. /\ exited \in Int /\ Exits
      /\ server \in {"read", "leave", "gone"} /\ writer \in {"run", "gone"}
      /\ Idle # Gone
  BY DEF IndInv, Types, Idle, Gone
<1>2. CASE ServerLeave
  <2>1. /\ server = "leave" /\ server' = "gone" /\ Leave(Stopped - 1)
        /\ exited' = Stopped - 1 /\ UNCHANGED <<oper, receiver, writer>>
    BY <1>2 DEF ServerLeave, Leave
  <2>2. Exits' /\ (Stopped - 1 = ReplHasExited => oper' = Gone /\ receiver' = Gone)
        /\ Stopped - 1 \in Int
    BY <1>1, <2>1 DEF Exits, Stopped, Left
  <2> QED BY <1>1, <2>1, <2>2, LeaveKeeps
<1>3. CASE OperLeave
  <2>1. /\ oper = Idle /\ exited # 2 /\ oper' = Gone /\ Leave(exited - 1)
        /\ exited' = exited - 1 /\ UNCHANGED <<server, receiver, writer>>
    BY <1>3 DEF OperLeave, Leave, ExitC
  <2>2. Exits' /\ (exited - 1 = ReplHasExited => oper' = Gone /\ receiver' = Gone)
        /\ exited - 1 \in Int
    BY <1>1, <2>1 DEF Exits, Left
  <2> QED BY <1>1, <2>1, <2>2, LeaveKeeps
<1>4. CASE RecvLeave
  <2>1. /\ receiver = Idle /\ exited # 2 /\ receiver' = Gone /\ Leave(exited - 1)
        /\ exited' = exited - 1 /\ UNCHANGED <<server, oper, writer>>
    BY <1>4 DEF RecvLeave, Leave, ExitC
  <2>2. Exits' /\ (exited - 1 = ReplHasExited => oper' = Gone /\ receiver' = Gone)
        /\ exited - 1 \in Int
    BY <1>1, <2>1 DEF Exits, Left
  <2> QED BY <1>1, <2>1, <2>2, LeaveKeeps
<1>5. CASE WriterLeave
  <2>1. /\ writer = "run" /\ exited # 2 /\ writer' = "gone" /\ Leave(exited - 1)
        /\ exited' = exited - 1 /\ UNCHANGED <<server, oper, receiver>>
    BY <1>5 DEF WriterLeave, Leave, ExitC
  <2>2. Exits' /\ (exited - 1 = ReplHasExited => oper' = Gone /\ receiver' = Gone)
        /\ exited - 1 \in Int
    BY <1>1, <2>1 DEF Exits, Left
  <2> QED BY <1>1, <2>1, <2>2, LeaveKeeps
<1> QED BY <1>2, <1>3, <1>4, <1>5

\* The client closes the connection.
LEMMA ReadEOFKeeps ==
  ASSUME IndInv, ReadEOF
  PROVE  IndInv'
<1>1. /\ server = "read" /\ server' = "leave"
      /\ UNCHANGED <<kind, nread, oper, receiver, writer, exited, toBeProcessedCh,
                     packetList, ackCh, responseCh, result, extent, offset, replies,
                     sendCh, wire, back, respCh, file>>
  BY DEF ReadEOF, chVars, pkVars, ftVars, stVars
<1>2. Packet' = Packet
  BY <1>1 DEF Packet
<1>3. Types'
  BY <1>1, <1>2 DEF IndInv, Types
<1>4. Steady
  BY <1>1, SteadyStutter DEF IndInv
<1>5. Exits' /\ Counted'
  BY <1>1 DEF IndInv, Exits, Counted, Waiting, Writing
<1>6. Placed'
  BY <1>1, <1>2 DEF IndInv, Placed, Queued, Listed, Over, Good, Sending, Writing, Waiting
<1>7. Truthful'
  BY <1>1, <1>3, <1>4, AnswersStay, LocalStays, HeardStays, JudgedStays, RepliedStays
     DEF IndInv, Truthful
<1> QED BY <1>3, <1>5, <1>6, <1>7 DEF IndInv

-----------------------------------------------------------------------------
(* The transports and the followers *)

\* ... when the files do not change either, and one transport does
LEMMA TransportKeeps ==
  ASSUME IndInv, UNCHANGED coreVars, file' = file, NEW f \in Follower,
         sendCh' \in [Follower -> Seq(Packet)],
         wire' \in [Follower -> Seq([p : Packet, bytes : Packet \cup {0}])],
         back' \in [Follower -> Seq([p : Packet, res : {"ok", "err"}])],
         respCh' \in [Packet -> [Follower -> {"none", "ok", "err", "deadline"}]],
         \A g \in Follower \ {f} :
           /\ sendCh'[g] = sendCh[g] /\ wire'[g] = wire[g] /\ back'[g] = back[g]
           /\ \A p \in Packet : respCh'[p][g] = respCh[p][g],
         \A i \in 1..Len(sendCh'[f]) : Good(sendCh'[f][i]),
         \A i \in 1..Len(wire'[f]) : Good(wire'[f][i].p),
         \A i \in 1..Len(back'[f]) : back'[f][i].res = "ok" => Safe(f, back'[f][i].p),
         \A p \in Packet : respCh'[p][f] = "ok" => Safe(f, p)
  PROVE  IndInv'
<1>1. Packet' = Packet
  BY DEF coreVars, Packet
<1>2. Types'
  BY <1>1 DEF IndInv, Types, coreVars
<1>3. FilesGrow
  BY DEF IndInv, Types, FilesGrow
<1>4. \A p : Good(p)' <=> Good(p)
  BY <1>1 DEF Good, coreVars
<1>5. \A r, p : Safe(r, p)' <=> Safe(r, p)
  BY <1>4 DEF Safe, Stored, coreVars
<1>6. ASSUME NEW g \in Follower PROVE Answers(g)'
  <2>1. CASE g = f
    BY <1>1, <1>4, <1>5, <2>1 DEF Answers
  <2>2. CASE g # f
    <3>1. Answers(g)
      BY DEF IndInv, Truthful
    <3> QED BY <1>1, <1>4, <1>5, <2>2, <3>1 DEF Answers
  <2> QED BY <2>1, <2>2
<1> QED BY <1>2, <1>3, <1>6, CoreStays

\* The transport takes a packet from sendCh.
LEMMA SendTail ==
  ASSUME IndInv, NEW f \in Follower, sendCh[f] # <<>>
  PROVE  /\ Head(sendCh[f]) \in Packet /\ Good(Head(sendCh[f]))
         /\ Tail(sendCh[f]) \in Seq(Packet)
         /\ \A i \in 1..Len(Tail(sendCh[f])) : Good(Tail(sendCh[f])[i])
<1>1. \A i \in 1..Len(sendCh[f]) : Good(sendCh[f][i])
  BY TransportTypes DEF Answers
<1> DEFINE s == sendCh[f]
<1>2. s \in Seq(Packet) /\ s # <<>>
  BY TransportTypes
<1> HIDE DEF s
<1>3. /\ Tail(s) \in Seq(Packet)
      /\ Len(s) \in Nat /\ Len(s) > 0
      /\ Len(Tail(s)) = Len(s) - 1
      /\ \A i \in 1..(Len(s) - 1) : Tail(s)[i] = s[i + 1]
      /\ Head(s) = s[1] /\ s[1] \in Packet
  BY <1>2, TailFacts
<1>4. 1 \in 1..Len(s) /\ \A i \in 1..Len(Tail(s)) : i + 1 \in 1..Len(s) /\ Tail(s)[i] = s[i + 1]
  BY <1>3
<1> QED BY <1>1, <1>3, <1>4 DEF s

\* serverWriteToFollower sends it.
LEMMA FtWriteKeeps ==
  ASSUME IndInv, NEW f \in Follower, FtWrite(f)
  PROVE  IndInv'
<1> DEFINE p == Head(sendCh[f])
           m == [p |-> p, bytes |-> IF p \in reused THEN 0 ELSE p]
<1>1. /\ sendCh[f] # <<>>
      /\ wire' = [wire EXCEPT ![f] = Append(@, m)]
      /\ sendCh' = [sendCh EXCEPT ![f] = Tail(@)]
      /\ UNCHANGED coreVars /\ UNCHANGED <<back, respCh, file>>
  BY DEF FtWrite, coreVars, rpVars, chVars, pkVars, stVars
<1>2. p \in Packet /\ Good(p)
  BY <1>1, SendTail
<1>3. m \in [p : Packet, bytes : Packet \cup {0}] /\ m.p = p
  BY <1>2
<1> HIDE DEF m, p
<1>4. sendCh' \in [Follower -> Seq(Packet)] /\ sendCh'[f] = Tail(sendCh[f])
  BY <1>1, TransportTypes, SendTail
<1>5. /\ wire' \in [Follower -> Seq([p : Packet, bytes : Packet \cup {0}])]
      /\ wire'[f] = Append(wire[f], m)
  BY <1>1, <1>3, TransportTypes, AppendFacts
<1>6. \A i \in 1..Len(sendCh'[f]) : Good(sendCh'[f][i])
  BY <1>1, <1>4, SendTail
<1>7. \A i \in 1..Len(wire'[f]) : Good(wire'[f][i].p)
  <2> SUFFICES ASSUME NEW i \in 1..Len(wire'[f]) PROVE Good(wire'[f][i].p)
    OBVIOUS
  <2>1. CASE i \in 1..Len(wire[f])
    BY <1>3, <1>5, <2>1, TransportTypes, AppendFacts DEF Answers
  <2>2. CASE i = Len(wire[f]) + 1
    BY <1>2, <1>3, <1>5, <2>2, TransportTypes, AppendFacts
  <2> QED BY <1>3, <1>5, <2>1, <2>2, TransportTypes, AppendFacts
<1>8. \A g \in Follower \ {f} : sendCh'[g] = sendCh[g] /\ wire'[g] = wire[g]
  BY <1>1, TransportTypes
<1>9. /\ \A i \in 1..Len(back'[f]) : back'[f][i].res = "ok" => Safe(f, back'[f][i].p)
      /\ \A q \in Packet : respCh'[q][f] = "ok" => Safe(f, q)
  BY <1>1, TransportTypes DEF Answers
<1> QED BY <1>1, <1>4, <1>5, <1>6, <1>7, <1>8, <1>9, TransportTypes, TransportKeeps

\* serverWriteToFollower fails.
LEMMA FtWriteFailsKeeps ==
  ASSUME IndInv, NEW f \in Follower, FtWriteFails(f)
  PROVE  IndInv'
<1> DEFINE p == Head(sendCh[f])
<1>1. /\ sendCh[f] # <<>>
      /\ respCh' = [respCh EXCEPT ![p][f] = "err"]
      /\ sendCh' = [sendCh EXCEPT ![f] = Tail(@)]
      /\ UNCHANGED coreVars /\ UNCHANGED <<wire, back, file>>
  BY DEF FtWriteFails, coreVars, rpVars, chVars, pkVars, stVars
<1>2. p \in Packet
  BY <1>1, SendTail
<1> HIDE DEF p
<1>3. sendCh' \in [Follower -> Seq(Packet)] /\ sendCh'[f] = Tail(sendCh[f])
  BY <1>1, TransportTypes, SendTail
<1>4. /\ respCh' \in [Packet -> [Follower -> {"none", "ok", "err", "deadline"}]]
      /\ \A q \in Packet, g \in Follower : respCh'[q][g] = respCh[q][g] \/ (g = f /\ respCh'[q][g] = "err")
  BY <1>1, <1>2, TransportTypes
<1>5. \A i \in 1..Len(sendCh'[f]) : Good(sendCh'[f][i])
  BY <1>1, <1>3, SendTail
<1>6. \A g \in Follower \ {f} : sendCh'[g] = sendCh[g]
  BY <1>1, TransportTypes
<1>7. /\ \A i \in 1..Len(wire'[f]) : Good(wire'[f][i].p)
      /\ \A i \in 1..Len(back'[f]) : back'[f][i].res = "ok" => Safe(f, back'[f][i].p)
      /\ \A q \in Packet : respCh'[q][f] = "ok" => Safe(f, q)
  BY <1>1, <1>4, TransportTypes DEF Answers
<1> QED BY <1>1, <1>3, <1>4, <1>5, <1>6, <1>7, TransportTypes, TransportKeeps

\* An answer is taken from the connection.
LEMMA BackTail ==
  ASSUME IndInv, NEW f \in Follower, back[f] # <<>>
  PROVE  /\ Head(back[f]) \in [p : Packet, res : {"ok", "err"}]
         /\ Head(back[f]).res = "ok" => Safe(f, Head(back[f]).p)
         /\ Tail(back[f]) \in Seq([p : Packet, res : {"ok", "err"}])
         /\ \A i \in 1..Len(Tail(back[f])) :
              Tail(back[f])[i].res = "ok" => Safe(f, Tail(back[f])[i].p)
<1>1. \A i \in 1..Len(back[f]) : back[f][i].res = "ok" => Safe(f, back[f][i].p)
  BY TransportTypes DEF Answers
<1> DEFINE s == back[f]
           S == [p : Packet, res : {"ok", "err"}]
<1>2. s \in Seq(S) /\ s # <<>>
  BY TransportTypes
<1> HIDE DEF s, S
<1>3. /\ Tail(s) \in Seq(S)
      /\ Len(s) \in Nat /\ Len(s) > 0
      /\ Len(Tail(s)) = Len(s) - 1
      /\ \A i \in 1..(Len(s) - 1) : Tail(s)[i] = s[i + 1]
      /\ Head(s) = s[1] /\ s[1] \in S
  BY <1>2, TailFacts
<1>4. 1 \in 1..Len(s) /\ \A i \in 1..Len(Tail(s)) : i + 1 \in 1..Len(s) /\ Tail(s)[i] = s[i + 1]
  BY <1>3
<1> QED BY <1>1, <1>3, <1>4 DEF s, S

\* A request is taken from the connection.
LEMMA WireTail ==
  ASSUME IndInv, NEW f \in Follower, wire[f] # <<>>
  PROVE  /\ Head(wire[f]) \in [p : Packet, bytes : Packet \cup {0}]
         /\ Good(Head(wire[f]).p)
         /\ Tail(wire[f]) \in Seq([p : Packet, bytes : Packet \cup {0}])
         /\ \A i \in 1..Len(Tail(wire[f])) : Good(Tail(wire[f])[i].p)
<1>1. \A i \in 1..Len(wire[f]) : Good(wire[f][i].p)
  BY TransportTypes DEF Answers
<1> DEFINE s == wire[f]
           S == [p : Packet, bytes : Packet \cup {0}]
<1>2. s \in Seq(S) /\ s # <<>>
  BY TransportTypes
<1> HIDE DEF s, S
<1>3. /\ Tail(s) \in Seq(S)
      /\ Len(s) \in Nat /\ Len(s) > 0
      /\ Len(Tail(s)) = Len(s) - 1
      /\ \A i \in 1..(Len(s) - 1) : Tail(s)[i] = s[i + 1]
      /\ Head(s) = s[1] /\ s[1] \in S
  BY <1>2, TailFacts
<1>4. 1 \in 1..Len(s) /\ \A i \in 1..Len(Tail(s)) : i + 1 \in 1..Len(s) /\ Tail(s)[i] = s[i + 1]
  BY <1>3
<1> QED BY <1>1, <1>3, <1>4 DEF s, S

\* readFollowerResult: an answer, its loss or a timeout
LEMMA FtReadKeeps ==
  ASSUME IndInv, NEW f \in Follower, FtRead(f)
  PROVE  IndInv'
<1> DEFINE p == Head(recvCh[f])
<1>1. UNCHANGED coreVars /\ UNCHANGED <<sendCh, wire, file>>
  BY DEF FtRead, coreVars, rpVars, chVars, pkVars, stVars
<1>2. PICK err \in {"ok", "err", "deadline"} :
        /\ respCh' = [respCh EXCEPT ![p][f] = err]
        /\ err = "ok" => back[f] # <<>> /\ Head(back[f]) = [p |-> p, res |-> "ok"]
  <2>1. CASE /\ back[f] # <<>>
             /\ respCh' = [respCh EXCEPT ![p][f] =
                  IF Head(back[f]).p = p THEN Head(back[f]).res ELSE "err"]
    <3>1. Head(back[f]) \in [p : Packet, res : {"ok", "err"}]
      BY <2>1, BackTail
    <3>2. /\ Head(back[f]).res \in {"ok", "err"}
          /\ Head(back[f]) = [p |-> Head(back[f]).p, res |-> Head(back[f]).res]
      BY <3>1
    <3>3. CASE Head(back[f]).p = p
      BY <2>1, <3>2, <3>3
    <3>4. CASE Head(back[f]).p # p
      BY <2>1, <3>4
    <3> QED BY <3>3, <3>4
  <2>2. CASE respCh' = [respCh EXCEPT ![p][f] = "err"]
    BY <2>2
  <2>3. CASE respCh' = [respCh EXCEPT ![p][f] = "deadline"]
    BY <2>3
  <2> QED BY <2>1, <2>2, <2>3 DEF FtRead
<1>3. back' = back \/ (back[f] # <<>> /\ back' = [back EXCEPT ![f] = Tail(@)])
  BY DEF FtRead
<1>4. err = "ok" => Safe(f, p)
  <2> SUFFICES ASSUME err = "ok" PROVE Safe(f, p)
    OBVIOUS
  <2>1. back[f] # <<>> /\ Head(back[f]) = [p |-> p, res |-> "ok"]
    BY <1>2
  <2>2. Head(back[f]).res = "ok" /\ Head(back[f]).p = p
    BY <2>1
  <2> HIDE DEF p
  <2> QED BY <2>1, <2>2, BackTail
<1> HIDE DEF p
<1>5. /\ respCh' \in [Packet -> [Follower -> {"none", "ok", "err", "deadline"}]]
      /\ \A q \in Packet, g \in Follower :
           respCh'[q][g] = respCh[q][g] \/ (q = p /\ g = f /\ respCh'[q][g] = err)
  <2>1. CASE p \in Packet
    BY <1>2, <2>1, TransportTypes
  <2>2. CASE p \notin Packet
    BY <1>2, <2>2, TransportTypes
  <2> QED BY <2>1, <2>2
<1>6. /\ back' \in [Follower -> Seq([p : Packet, res : {"ok", "err"}])]
      /\ \A g \in Follower \ {f} : back'[g] = back[g]
      /\ \A i \in 1..Len(back'[f]) : back'[f][i].res = "ok" => Safe(f, back'[f][i].p)
  <2>1. CASE back' = back
    BY <2>1, TransportTypes DEF Answers
  <2>2. CASE back[f] # <<>> /\ back' = [back EXCEPT ![f] = Tail(@)]
    BY <2>2, TransportTypes, BackTail
  <2> QED BY <1>3, <2>1, <2>2
<1>7. /\ \A i \in 1..Len(sendCh'[f]) : Good(sendCh'[f][i])
      /\ \A i \in 1..Len(wire'[f]) : Good(wire'[f][i].p)
  BY <1>1, TransportTypes DEF Answers
<1>8. \A q \in Packet : respCh'[q][f] = "ok" => Safe(f, q)
  BY <1>4, <1>5, TransportTypes DEF Answers
<1> QED BY <1>1, <1>5, <1>6, <1>7, <1>8, TransportTypes, TransportKeeps

\* The follower answers "ok" only after its own append.
LEMMA FollowerHandleKeeps ==
  ASSUME IndInv, NEW f \in Follower, FollowerHandle(f)
  PROVE  IndInv'
<1> DEFINE m == Head(wire[f])
<1>1. /\ UNCHANGED coreVars /\ UNCHANGED <<sendCh, respCh>>
      /\ wire[f] # <<>> /\ wire' = [wire EXCEPT ![f] = Tail(@)]
  BY DEF FollowerHandle, coreVars, rpVars, chVars, pkVars
<1>2. PICK k \in Packet : m.p = k /\ Good(k)
  BY <1>1, WireTail
<1>3. /\ wire' \in [Follower -> Seq([p : Packet, bytes : Packet \cup {0}])]
      /\ \A i \in 1..Len(wire'[f]) : Good(wire'[f][i].p)
      /\ \A g \in Follower \ {f} : wire'[g] = wire[g]
  BY <1>1, WireTail, TransportTypes
<1>4. ASSUME NEW res \in {"ok", "err"},
             back' = [back EXCEPT ![f] = Append(@, [p |-> k, res |-> res])]
      PROVE  /\ back' \in [Follower -> Seq([p : Packet, res : {"ok", "err"}])]
             /\ \A g \in Follower \ {f} : back'[g] = back[g]
             /\ \A i \in 1..Len(back'[f]) :
                  \/ i \in 1..Len(back[f]) /\ back'[f][i] = back[f][i]
                  \/ back'[f][i] = [p |-> k, res |-> res]
  <2> DEFINE a == [p |-> k, res |-> res]
  <2>1. a \in [p : Packet, res : {"ok", "err"}]
    OBVIOUS
  <2> HIDE DEF a
  <2>2. back' = [back EXCEPT ![f] = Append(back[f], a)]
    BY <1>4 DEF a
  <2>3. /\ Append(back[f], a) \in Seq([p : Packet, res : {"ok", "err"}])
        /\ Len(Append(back[f], a)) = Len(back[f]) + 1 /\ Len(back[f]) \in Nat
        /\ \A i \in 1..Len(back[f]) : Append(back[f], a)[i] = back[f][i]
        /\ Append(back[f], a)[Len(back[f]) + 1] = a
    <3> DEFINE S == [p : Packet, res : {"ok", "err"}]
               s == back[f]
    <3>1. a \in S /\ s \in Seq(S)
      BY <2>1, TransportTypes
    <3> HIDE DEF S, s
    <3>2. /\ Append(s, a) \in Seq(S)
          /\ Len(Append(s, a)) = Len(s) + 1 /\ Len(s) \in Nat
          /\ \A i \in 1..Len(s) : Append(s, a)[i] = s[i]
          /\ Append(s, a)[Len(s) + 1] = a
      BY <3>1, AppendFacts
    <3> QED BY <3>2 DEF S, s
  <2>4. back'[f] = Append(back[f], a)
    BY <2>2, TransportTypes
  <2>5. \A i \in 1..Len(back'[f]) :
          (i \in 1..Len(back[f]) /\ back'[f][i] = back[f][i]) \/ back'[f][i] = a
    BY <2>3, <2>4
  <2> QED BY <2>2, <2>3, <2>5, TransportTypes DEF a
<1>5. CASE /\ Accepts(f, m) /\ file' = Written(f, m.p, m.bytes)
           /\ back' = [back EXCEPT ![f] = Append(@, [p |-> k, res |-> "ok"])]
  <2>1. f \in Replica
    BY RpAssumption DEF Follower, Replica
  <2>2. Fits(f, k) /\ file' = Written(f, k, k) /\ UNCHANGED <<kind, nread, extent, offset>>
    BY <1>1, <1>2, <1>5 DEF Accepts, coreVars
  <2>3. /\ file' \in [Replica -> [Extent -> Seq(Packet \cup {0})]]
        /\ FilesGrow /\ Safe(f, k)'
    BY <1>2, <2>1, <2>2, WrittenFacts DEF IndInv
  <2>4. Packet' = Packet
    BY <2>2 DEF Packet
  <2>5. /\ back' \in [Follower -> Seq([p : Packet, res : {"ok", "err"}])]
        /\ \A g \in Follower \ {f} : back'[g] = back[g]
        /\ \A i \in 1..Len(back'[f]) :
             \/ i \in 1..Len(back[f]) /\ back'[f][i] = back[f][i]
             \/ back'[f][i] = [p |-> k, res |-> "ok"]
    BY <1>4, <1>5
  <2>6. Types'
    BY <1>1, <1>3, <2>3, <2>4, <2>5 DEF IndInv, Types, coreVars
  <2>7. Steady
    BY <1>1, <2>3 DEF coreVars, Steady, IndInv, Types
  <2>8. Types /\ \A p : Good(p) => Good(p)'
    BY <2>6, <2>7, GoodStays DEF IndInv
  <2>9. \A r \in Replica : \A p : Safe(r, p) => Safe(r, p)'
    BY <2>6, <2>7, <2>8, SafeStays
  <2> HIDE DEF m
  <2>10. ASSUME NEW g \in Follower PROVE Answers(g)'
    <3>1. Answers(g) /\ g \in Replica
      BY RpAssumption DEF IndInv, Truthful, Follower, Replica
    <3>2. CASE g = f
      <4>1. (\A i \in 1..Len(back[f]) : back[f][i].res = "ok" => Safe(f, back[f][i].p))'
        <5> SUFFICES ASSUME NEW i \in 1..Len(back'[f]), back'[f][i].res = "ok"
                     PROVE  (Safe(f, back[f][i].p))'
          OBVIOUS
        <5>1. CASE i \in 1..Len(back[f]) /\ back'[f][i] = back[f][i]
          BY <2>1, <2>9, <3>1, <3>2, <5>1 DEF Answers
        <5>2. CASE back'[f][i] = [p |-> k, res |-> "ok"]
          BY <2>3, <5>2
        <5> QED BY <2>5, <5>1, <5>2
      <4>2. (\A i \in 1..Len(wire[f]) : Good(wire[f][i].p))'
        BY <1>3, <2>8
      <4>3. (\A i \in 1..Len(sendCh[f]) : Good(sendCh[f][i]))'
        BY <1>1, <2>8, <3>1, <3>2 DEF Answers
      <4>4. (\A p \in Packet : respCh[p][f] = "ok" => Safe(f, p))'
        BY <1>1, <2>4, <2>9, <3>1, <3>2 DEF Answers
      <4> QED BY <3>2, <4>1, <4>2, <4>3, <4>4 DEF Answers
    <3>3. CASE g # f
      <4>1. wire'[g] = wire[g] /\ back'[g] = back[g] /\ sendCh' = sendCh /\ respCh' = respCh
        BY <1>1, <1>3, <2>5, <3>3
      <4> QED BY <2>4, <2>8, <2>9, <3>1, <4>1 DEF Answers
    <3> QED BY <3>2, <3>3
  <2> QED BY <1>1, <2>3, <2>6, <2>10, CoreStays
<1>6. CASE /\ file' = file
           /\ back' = [back EXCEPT ![f] = Append(@, [p |-> k, res |-> "err"])]
  <2>1. /\ back' \in [Follower -> Seq([p : Packet, res : {"ok", "err"}])]
        /\ \A g \in Follower \ {f} : back'[g] = back[g]
        /\ \A i \in 1..Len(back'[f]) :
             \/ i \in 1..Len(back[f]) /\ back'[f][i] = back[f][i]
             \/ back'[f][i] = [p |-> k, res |-> "err"]
    BY <1>4, <1>6
  <2> HIDE DEF m
  <2>2. \A i \in 1..Len(back'[f]) : back'[f][i].res = "ok" => Safe(f, back'[f][i].p)
    <3>1. \A i \in 1..Len(back[f]) : back[f][i].res = "ok" => Safe(f, back[f][i].p)
      BY TransportTypes DEF Answers
    <3>2. ASSUME NEW i \in 1..Len(back'[f]), back'[f][i].res = "ok"
          PROVE  i \in 1..Len(back[f]) /\ back'[f][i] = back[f][i]
      <4>1. [p |-> k, res |-> "err"].res = "err"
        OBVIOUS
      <4> QED BY <2>1, <3>2, <4>1
    <3> QED BY <3>1, <3>2
  <2>3. /\ \A i \in 1..Len(sendCh'[f]) : Good(sendCh'[f][i])
        /\ \A q \in Packet : respCh'[q][f] = "ok" => Safe(f, q)
    BY <1>1, TransportTypes DEF Answers
  <2> QED BY <1>1, <1>3, <1>6, <2>1, <2>2, <2>3, TransportTypes, TransportKeeps
<1> QED BY <1>2, <1>5, <1>6 DEF FollowerHandle

\* A follower closes its side, and Destory
LEMMA OtherTransportKeeps ==
  ASSUME IndInv, NEW f \in Follower, FollowerClose(f) \/ Destory(f)
  PROVE  IndInv'
<1>1. /\ UNCHANGED coreVars /\ UNCHANGED <<back, respCh, file>>
      /\ sendCh' = sendCh \/ sendCh' = [sendCh EXCEPT ![f] = <<>>]
      /\ wire' = wire \/ wire' = [wire EXCEPT ![f] = <<>>]
  BY DEF FollowerClose, Destory, coreVars, rpVars, chVars, pkVars, stVars
<1>2. /\ sendCh' \in [Follower -> Seq(Packet)]
      /\ \A g \in Follower \ {f} : sendCh'[g] = sendCh[g]
      /\ sendCh'[f] = sendCh[f] \/ sendCh'[f] = <<>>
  <2>1. CASE sendCh' = sendCh
    BY <2>1, TransportTypes
  <2>2. CASE sendCh' = [sendCh EXCEPT ![f] = <<>>]
    BY <2>2, TransportTypes
  <2> QED BY <1>1, <2>1, <2>2
<1>3. /\ wire' \in [Follower -> Seq([p : Packet, bytes : Packet \cup {0}])]
      /\ \A g \in Follower \ {f} : wire'[g] = wire[g]
      /\ wire'[f] = wire[f] \/ wire'[f] = <<>>
  <2>1. CASE wire' = wire
    BY <2>1, TransportTypes
  <2>2. CASE wire' = [wire EXCEPT ![f] = <<>>]
    <3> DEFINE S == [p : Packet, bytes : Packet \cup {0}]
    <3>1. wire \in [Follower -> Seq(S)]
      BY TransportTypes
    <3> HIDE DEF S
    <3>2. wire' \in [Follower -> Seq(S)]
      BY <2>2, <3>1
    <3> QED BY <2>2, <3>1, <3>2 DEF S
  <2> QED BY <1>1, <2>1, <2>2
<1>4. /\ \A i \in 1..Len(sendCh'[f]) : Good(sendCh'[f][i])
      /\ \A i \in 1..Len(wire'[f]) : Good(wire'[f][i].p)
      /\ \A i \in 1..Len(back'[f]) : back'[f][i].res = "ok" => Safe(f, back'[f][i].p)
      /\ \A p \in Packet : respCh'[p][f] = "ok" => Safe(f, p)
  <2>1. Answers(f)
    BY TransportTypes
  <2>2. \A i \in 1..Len(sendCh'[f]) : Good(sendCh'[f][i])
    BY <1>2, <2>1 DEF Answers
  <2>3. \A i \in 1..Len(wire'[f]) : Good(wire'[f][i].p)
    BY <1>3, <2>1 DEF Answers
  <2>4. /\ \A i \in 1..Len(back'[f]) : back'[f][i].res = "ok" => Safe(f, back'[f][i].p)
        /\ \A p \in Packet : respCh'[p][f] = "ok" => Safe(f, p)
    BY <1>1, <2>1 DEF Answers
  <2> QED BY <2>2, <2>3, <2>4
<1> QED BY <1>1, <1>2, <1>3, <1>4, TransportTypes, TransportKeeps

allVars == <<coreVars, sendCh, wire, back, respCh, file>>

\* A step that changes nothing the invariant speaks of
LEMMA StutterKeeps ==
  ASSUME IndInv, UNCHANGED allVars
  PROVE  IndInv'
<1>1. UNCHANGED coreVars /\ UNCHANGED <<sendCh, wire, back, respCh, file>>
  BY DEF allVars
<1>2. Packet' = Packet
  BY <1>1 DEF Packet, coreVars
<1>3. Types'
  BY <1>1, <1>2 DEF IndInv, Types, coreVars
<1>4. FilesGrow
  BY <1>1 DEF IndInv, Types, FilesGrow
<1>5. Steady
  BY <1>1, SteadyStutter DEF coreVars, IndInv
<1>6. \A f \in Follower : Answers(f)'
  BY <1>1, <1>3, <1>5, AnswersStay DEF IndInv, Truthful
<1> QED BY <1>1, <1>3, <1>4, <1>6, CoreStays

-----------------------------------------------------------------------------
(* The server reads. *)

\* A packet is read and gets its place.
LEMMA ReadPkgKeeps ==
  ASSUME IndInv, ReadPkg
  PROVE  IndInv'
<1>0. /\ nread < Len(kind) /\ nread' = nread + 1
      /\ Packet = 1..Len(kind) /\ Len(kind) \in Nat /\ nread \in Nat
  BY PacketFacts DEF ReadPkg, ReadFromClient, IndInv
<1>1. PICK k \in Packet : k = nread + 1 /\ nread' = k
  BY <1>0
<1>2. PICK x \in Extent : Prepare(k, x)
  BY <1>1 DEF ReadPkg
<1>3. /\ server = "read" /\ server' \in {"read", "leave"}
      /\ toBeProcessedCh' = toBeProcessedCh \/ toBeProcessedCh' = Append(toBeProcessedCh, k)
      /\ UNCHANGED <<kind, oper, receiver, writer, exited, packetList, ackCh, responseCh,
                     result, replies, sendCh, wire, back, respCh>>
  BY <1>1 DEF ReadPkg, ServerSelect, ftVars
<1>4. /\ file' = file
      /\ \/ kind[k] = "read" /\ extent' = extent /\ offset' = offset
         \/ \E o : /\ extent' = [extent EXCEPT ![k] = x]
                   /\ offset' = [offset EXCEPT ![k] = o]
  <2>1. kind[k] \in {"normal", "tiny", "read"} /\ file' = file
    BY <1>2 DEF IndInv, Types, Packet, Prepare
  <2> QED BY <1>2, <2>1 DEF Prepare
<1>5. /\ extent' \in [Packet -> Extent \cup {NoExtent}]
      /\ offset' = [p \in Packet |-> offset'[p]]
      /\ \A p \in Packet : p # k => extent'[p] = extent[p] /\ offset'[p] = offset[p]
      /\ kind[k] # "read" => extent'[k] \in Extent
  <2>1. /\ extent \in [Packet -> Extent \cup {NoExtent}]
        /\ offset = [p \in Packet |-> offset[p]]
    BY DEF IndInv, Types
  <2>2. CASE kind[k] = "read" /\ extent' = extent /\ offset' = offset
    BY <2>1, <2>2
  <2>3. CASE \E o : /\ extent' = [extent EXCEPT ![k] = x]
                    /\ offset' = [offset EXCEPT ![k] = o]
    BY <2>1, <2>3
  <2> QED BY <1>4, <2>2, <2>3
<1>6. Packet' = Packet
  BY <1>3 DEF Packet
<1>7. /\ toBeProcessedCh' \in Seq(Packet)
      /\ \A i \in 1..Len(toBeProcessedCh') :
           \/ i \in 1..Len(toBeProcessedCh) /\ toBeProcessedCh'[i] = toBeProcessedCh[i]
           \/ i = Len(toBeProcessedCh) + 1 /\ toBeProcessedCh'[i] = k
  <2>1. toBeProcessedCh \in Seq(Packet)
    BY DEF IndInv, Types
  <2>2. /\ Append(toBeProcessedCh, k) \in Seq(Packet)
        /\ Len(Append(toBeProcessedCh, k)) = Len(toBeProcessedCh) + 1
        /\ Len(toBeProcessedCh) \in Nat
        /\ \A i \in 1..Len(toBeProcessedCh) :
             Append(toBeProcessedCh, k)[i] = toBeProcessedCh[i]
        /\ Append(toBeProcessedCh, k)[Len(toBeProcessedCh) + 1] = k
    BY <2>1, AppendFacts
  <2>3. CASE toBeProcessedCh' = toBeProcessedCh
    BY <2>1, <2>3
  <2>4. CASE toBeProcessedCh' = Append(toBeProcessedCh, k)
    BY <2>2, <2>4
  <2> QED BY <1>3, <2>3, <2>4
<1>8. nread \in Nat /\ k \in 1..Len(kind) /\ Packet = 1..Len(kind)
  BY PacketFacts DEF IndInv
<1>9. Types'
  <2>1. nread' \in 0..Len(kind') /\ server' \in {"read", "leave", "gone"}
    BY <1>0, <1>3
  <2> QED BY <1>3, <1>4, <1>5, <1>6, <1>7, <2>1 DEF IndInv, Types
<1>10. Steady
  <2>1. FilesGrow
    BY <1>4 DEF FilesGrow, IndInv, Types
  <2> QED BY <1>1, <1>3, <1>5, <1>8, <2>1 DEF Steady
<1>11. Exits' /\ Counted'
  BY <1>3 DEF IndInv, Exits, Counted, Waiting, Writing
<1>12. (Sending' <=> Sending) /\ (Writing' <=> Writing) /\ (Waiting' <=> Waiting)
  BY <1>3 DEF Sending, Writing, Waiting
<1>13. \A p : Good(p) => Good(p)' /\ p # k
  BY <1>1, <1>8, <1>9, <1>10, GoodStays DEF IndInv, Good
<1>14. Placed'
  <2>1. ASSUME NEW i \in 1..Len(toBeProcessedCh') PROVE Queued(i)'
    <3>1. CASE i \in 1..Len(toBeProcessedCh) /\ toBeProcessedCh'[i] = toBeProcessedCh[i]
      <4>1. Queued(i)
        BY <3>1 DEF IndInv, Placed
      <4>2. toBeProcessedCh[i] \in Nat /\ toBeProcessedCh[i] <= nread
        BY <1>8, <3>1, <4>1, QueueFacts DEF Queued, IndInv
      <4>3. \A j \in 1..Len(toBeProcessedCh') :
              toBeProcessedCh'[i] = toBeProcessedCh'[j] => i = j
        <5> SUFFICES ASSUME NEW j \in 1..Len(toBeProcessedCh'),
                            toBeProcessedCh'[i] = toBeProcessedCh'[j]
                     PROVE  i = j
          OBVIOUS
        <5>1. CASE j \in 1..Len(toBeProcessedCh) /\ toBeProcessedCh'[j] = toBeProcessedCh[j]
          BY <3>1, <4>1, <5>1 DEF Queued
        <5>2. CASE toBeProcessedCh'[j] = k
          <6>1. k = nread + 1 /\ nread \in Nat
            BY <1>0, <1>1
          <6>2. toBeProcessedCh[i] = k
            BY <3>1, <5>2
          <6> QED BY <4>2, <6>1, <6>2
        <5> QED BY <1>7, <5>1, <5>2
      <4> QED BY <1>1, <1>3, <1>8, <1>12, <1>13, <3>1, <4>1, <4>2, <4>3 DEF Queued
    <3>2. CASE i = Len(toBeProcessedCh) + 1 /\ toBeProcessedCh'[i] = k
      <4>1. \A j \in 1..Len(toBeProcessedCh') :
              toBeProcessedCh'[i] = toBeProcessedCh'[j] => i = j
        <5> SUFFICES ASSUME NEW j \in 1..Len(toBeProcessedCh'), toBeProcessedCh'[j] = k
                     PROVE  i = j
          BY <3>2
        <5>1. CASE j \in 1..Len(toBeProcessedCh) /\ toBeProcessedCh'[j] = toBeProcessedCh[j]
          <6>1. toBeProcessedCh[j] <= nread
            BY <5>1 DEF IndInv, Placed, Queued
          <6> QED BY <1>1, <1>8, <5>1, <6>1
        <5> QED BY <1>7, <3>2, <5>1
      <4>2. kind[k] # "read" => Good(k)'
        BY <1>1, <1>5, <1>6, <1>8 DEF Good
      <4>3. Sending \/ Writing => oper.p # k
        BY <1>13 DEF IndInv, Placed
      <4> QED BY <1>1, <1>3, <1>8, <1>12, <3>2, <4>1, <4>2, <4>3 DEF Queued
    <3> QED BY <1>7, <2>1, <3>1, <3>2
  <2>2. ASSUME NEW p \in Packet, p <= nread,
               \A j \in 1..Len(toBeProcessedCh) : p # toBeProcessedCh[j]
        PROVE  p <= nread' /\ \A j \in 1..Len(toBeProcessedCh') : p # toBeProcessedCh'[j]
    BY <1>1, <1>7, <1>8, <2>2
  <2>3. ASSUME NEW i \in 1..Len(packetList') PROVE Listed(i)'
    <3>1. Listed(i) /\ packetList[i] \in Packet /\ packetList' = packetList
      BY <1>3, <2>3 DEF IndInv, Placed, Types
    <3> QED BY <1>3, <1>12, <2>2, <3>1 DEF Listed
  <2>4. (\A i \in 1..Len(responseCh) : Over(responseCh[i]))'
    <3> SUFFICES ASSUME NEW i \in 1..Len(responseCh') PROVE (Over(responseCh[i]))'
      OBVIOUS
    <3>1. Over(responseCh[i]) /\ responseCh[i] \in Packet /\ responseCh' = responseCh
      BY <1>3 DEF IndInv, Placed, Types
    <3> QED BY <1>3, <1>12, <2>2, <3>1 DEF Over
  <2>5. /\ Sending' \/ Writing' => (Good(oper.p))'
        /\ Writing' => oper'.p = packetList'[Len(packetList')]
        /\ Waiting' => receiver'.p = packetList'[1]
    BY <1>3, <1>12, <1>13 DEF IndInv, Placed
  <2> QED BY <2>1, <2>3, <2>4, <2>5 DEF Placed
<1>15. Truthful'
  BY <1>3, <1>9, <1>10, AnswersStay, LocalStays, HeardStays, JudgedStays, RepliedStays
     DEF IndInv, Truthful
<1> QED BY <1>9, <1>11, <1>14, <1>15 DEF IndInv

\* A packet is refused before it is forwarded.
LEMMA ReadPkgFailsKeeps ==
  ASSUME IndInv, ReadPkgFails
  PROVE  IndInv'
<1>0. /\ nread < Len(kind) /\ nread' = nread + 1
      /\ Packet = 1..Len(kind) /\ Len(kind) \in Nat /\ nread \in Nat
  BY PacketFacts DEF ReadPkgFails, ReadFromClient, IndInv
<1>1. PICK k \in Packet : k = nread + 1 /\ nread' = k
  BY <1>0
<1>2. /\ server = "read" /\ server' \in {"read", "leave"}
      /\ result' = [result EXCEPT ![k] = "err"]
      /\ PutResponse(k)
      /\ UNCHANGED <<kind, oper, receiver, writer, exited, toBeProcessedCh, packetList, ackCh,
                     extent, offset, file, replies, sendCh, wire, back, respCh>>
  BY <1>1 DEF ReadPkgFails, ServerSelect, ftVars, stVars
<1>3. Packet' = Packet
  BY <1>2 DEF Packet
<1>4. /\ responseCh' \in Seq(Packet)
      /\ \A i \in 1..Len(responseCh') :
           \/ i \in 1..Len(responseCh) /\ responseCh'[i] = responseCh[i]
           \/ responseCh'[i] = k
  BY <1>2, PutFacts, QueueFacts DEF IndInv
<1>5. /\ result' \in [Packet -> {"init", "ok", "err"}]
      /\ \A p \in Packet : result'[p] = "ok" => result[p] = "ok"
      /\ \A p \in Packet : result'[p] # "err" => result[p] # "err"
      /\ result'[k] = "err"
  <2>1. result \in [Packet -> {"init", "ok", "err"}]
    BY DEF IndInv, Types
  <2> QED BY <1>2, <2>1
<1>6. Types'
  <2>1. nread' \in 0..Len(kind') /\ server' \in {"read", "leave", "gone"}
    BY <1>0, <1>2
  <2> QED BY <1>2, <1>3, <1>4, <1>5, <2>1 DEF IndInv, Types
<1>7. Steady
  <2>1. FilesGrow
    BY <1>2 DEF FilesGrow, IndInv, Types
  <2> QED BY <1>0, <1>2, <2>1 DEF Steady
<1>8. Exits' /\ Counted'
  BY <1>2 DEF IndInv, Exits, Counted, Waiting, Writing
<1>9. /\ Sending' <=> Sending
      /\ Writing' <=> Writing
      /\ Waiting' <=> Waiting
  BY <1>2 DEF Sending, Writing, Waiting
<1>10. \A p : Good(p) => Good(p)' /\ p # k
  BY <1>0, <1>1, <1>6, <1>7, GoodStays DEF IndInv, Good
<1>11. \A p \in Packet : p <= nread => p <= nread'
  BY <1>0
<1>12. Placed'
  <2>1. ASSUME NEW i \in 1..Len(toBeProcessedCh') PROVE Queued(i)'
    <3>1. Queued(i) /\ toBeProcessedCh[i] \in Packet
      BY <1>2, <2>1, QueueFacts DEF IndInv, Placed
    <3> QED BY <1>2, <1>9, <1>10, <1>11, <3>1 DEF Queued
  <2>2. ASSUME NEW i \in 1..Len(packetList') PROVE Listed(i)'
    <3>1. Listed(i) /\ packetList[i] \in Packet
      BY <1>2, <2>2, QueueFacts DEF IndInv, Placed
    <3> QED BY <1>2, <1>9, <1>11, <3>1 DEF Listed
  <2>3. (\A i \in 1..Len(responseCh) : Over(responseCh[i]))'
    <3> SUFFICES ASSUME NEW i \in 1..Len(responseCh') PROVE (Over(responseCh[i]))'
      OBVIOUS
    <3>1. CASE i \in 1..Len(responseCh) /\ responseCh'[i] = responseCh[i]
      <4>1. Over(responseCh[i]) /\ responseCh[i] \in Packet
        BY <3>1, QueueFacts DEF IndInv, Placed
      <4> QED BY <1>2, <1>9, <1>11, <3>1, <4>1 DEF Over
    <3>2. CASE responseCh'[i] = k
      <4>1. \A j \in 1..Len(toBeProcessedCh) : k # toBeProcessedCh[j]
        <5> SUFFICES ASSUME NEW j \in 1..Len(toBeProcessedCh) PROVE k # toBeProcessedCh[j]
          OBVIOUS
        <5>1. toBeProcessedCh[j] <= nread
          BY DEF IndInv, Placed, Queued
        <5> QED BY <1>0, <1>1, <5>1
      <4>2. Sending \/ Writing => oper.p # k
        BY <1>10 DEF IndInv, Placed
      <4>3. k <= nread'
        BY <1>0, <1>1
      <4> QED BY <1>2, <1>9, <3>2, <4>1, <4>2, <4>3 DEF Over
    <3> QED BY <1>4, <3>1, <3>2
  <2>4. /\ Sending' \/ Writing' => (Good(oper.p))'
        /\ Writing' => oper'.p = packetList'[Len(packetList')]
        /\ Waiting' => receiver'.p = packetList'[1]
    BY <1>2, <1>9, <1>10 DEF IndInv, Placed
  <2> QED BY <2>1, <2>2, <2>3, <2>4 DEF Placed
<1>13. Truthful'
  <2>1. \A f \in Follower : Answers(f)'
    BY <1>2, <1>6, <1>7, AnswersStay DEF IndInv, Truthful
  <2>2. \A p \in Packet' : Local(p)'
    BY <1>5, <1>6, <1>7, LocalKept
  <2>3. Heard'
    BY <1>2, <1>5, <1>6, <1>7, WaitingFacts, HeardKept
  <2>4. \A i \in 1..Len(responseCh') : Judged(i)'
    <3>1. \A i \in 1..Len(responseCh') :
            \/ /\ i \in 1..Len(responseCh) /\ responseCh'[i] = responseCh[i]
               /\ result'[responseCh[i]] = "ok" => result[responseCh[i]] = "ok"
            \/ responseCh'[i] = k
      BY <1>4, <1>5, QueueFacts DEF IndInv
    <3> QED BY <1>5, <1>6, <1>7, <3>1, JudgedPut DEF IndInv, Truthful
  <2>5. \A i \in 1..Len(replies') : Replied(i)'
    BY <1>2, <1>6, <1>7, RepliedStays DEF IndInv, Truthful
  <2> QED BY <2>1, <2>2, <2>3, <2>4, <2>5 DEF Truthful
<1> QED BY <1>6, <1>8, <1>12, <1>13 DEF IndInv

-----------------------------------------------------------------------------
(* The operator *)

\* The operator takes the next packet; a read is answered at once.
LEMMA OperTakeKeeps ==
  ASSUME IndInv, OperTake
  PROVE  IndInv'
<1>0. /\ oper = Idle /\ toBeProcessedCh # <<>>
      /\ toBeProcessedCh' = Tail(toBeProcessedCh)
      /\ UNCHANGED <<kind, nread, server, receiver, writer, exited, packetList, ackCh, extent,
                     offset, file, replies, sendCh, wire, back, respCh>>
  BY DEF OperTake, ftVars, stVars
<1>1. /\ toBeProcessedCh' \in Seq(Packet)
      /\ Len(toBeProcessedCh) \in Nat /\ Len(toBeProcessedCh) > 0
      /\ Len(toBeProcessedCh') = Len(toBeProcessedCh) - 1
      /\ \A i \in 1..(Len(toBeProcessedCh) - 1) : toBeProcessedCh'[i] = toBeProcessedCh[i + 1]
      /\ Head(toBeProcessedCh) = toBeProcessedCh[1] /\ toBeProcessedCh[1] \in Packet
  BY <1>0, TailFacts, QueueFacts DEF IndInv
<1>2. PICK k \in Packet : k = Head(toBeProcessedCh) /\ k = toBeProcessedCh[1]
  BY <1>1
<1>3. \/ /\ kind[k] = "read" /\ result' = [result EXCEPT ![k] = "ok"]
         /\ PutResponse(k) /\ oper' = oper
      \/ /\ kind[k] # "read" /\ result' = result /\ responseCh' = responseCh
         /\ oper' = [p |-> k, i |-> 1]
  BY <1>2 DEF OperTake
<1>4. /\ Queued(1) /\ k <= nread /\ (kind[k] # "read" => Good(k))
      /\ \A i \in 1..Len(toBeProcessedCh') : /\ i + 1 \in 1..Len(toBeProcessedCh)
                                             /\ toBeProcessedCh'[i] = toBeProcessedCh[i + 1]
                                             /\ toBeProcessedCh'[i] # k
  <2>1. 1 \in 1..Len(toBeProcessedCh)
    BY <1>1
  <2>2. Queued(1)
    BY <2>1 DEF IndInv, Placed
  <2>3. \A i \in 1..Len(toBeProcessedCh') : /\ i + 1 \in 1..Len(toBeProcessedCh) /\ 1 # i + 1
                                            /\ toBeProcessedCh'[i] = toBeProcessedCh[i + 1]
    BY <1>1
  <2> QED BY <1>2, <2>2, <2>3 DEF Queued
<1>5. Packet' = Packet
  BY <1>0 DEF Packet
<1>6. /\ ~Sending /\ ~Writing /\ ~Writing'
      /\ Sending' => oper'.p = k /\ kind[k] # "read"
      /\ oper' \in {Idle, Gone} \cup [p : Packet, i : 1..(NumFollowers + 1)]
      /\ oper # Gone /\ oper' # Gone
  <2>1. oper.i = 0 /\ oper # Gone
    BY <1>0 DEF Idle, Gone
  <2>2. CASE oper' = oper
    BY <1>0, <2>1, <2>2, RpAssumption DEF Sending, Writing, Follower
  <2>3. CASE oper' = [p |-> k, i |-> 1] /\ kind[k] # "read"
    <3>1. oper'.i = 1 /\ oper'.p = k
      BY <2>3
    <3>2. oper' # Gone
      BY <3>1 DEF Gone
    <3>3. oper' \in [p : Packet, i : 1..(NumFollowers + 1)]
      BY <2>3, RpAssumption
    <3> QED BY <2>1, <2>3, <3>1, <3>2, <3>3, RpAssumption DEF Sending, Writing, Follower
  <2> QED BY <1>3, <2>2, <2>3
<1>7. /\ responseCh' \in Seq(Packet)
      /\ \A i \in 1..Len(responseCh') :
           \/ i \in 1..Len(responseCh) /\ responseCh'[i] = responseCh[i]
           \/ responseCh'[i] = k /\ kind[k] = "read"
  <2>1. responseCh \in Seq(Packet)
    BY QueueFacts DEF IndInv
  <2> QED BY <1>3, <2>1, PutFacts
<1>8. /\ result' \in [Packet -> {"init", "ok", "err"}]
      /\ \A p \in Packet : p # k => result'[p] = result[p]
      /\ kind[k] # "read" => result' = result
  <2>1. result \in [Packet -> {"init", "ok", "err"}]
    BY DEF IndInv, Types
  <2>2. CASE kind[k] = "read" /\ result' = [result EXCEPT ![k] = "ok"]
    BY <2>1, <2>2
  <2>3. CASE kind[k] # "read" /\ result' = result
    BY <2>1, <2>3
  <2> QED BY <1>3, <2>2, <2>3
<1>9. Types'
  BY <1>0, <1>1, <1>5, <1>6, <1>7, <1>8 DEF IndInv, Types
<1>10. Steady
  BY <1>0, SteadyStutter DEF IndInv
<1>11. Exits' /\ Counted'
  BY <1>0, <1>6 DEF IndInv, Exits, Counted, Left, Waiting
<1>12. \A p : Good(p) => Good(p)'
  BY <1>9, <1>10, GoodStays DEF IndInv
<1>13. Placed'
  <2>1. ASSUME NEW i \in 1..Len(toBeProcessedCh') PROVE Queued(i)'
    <3>1. i + 1 \in 1..Len(toBeProcessedCh) /\ toBeProcessedCh'[i] = toBeProcessedCh[i + 1]
      BY <1>4, <2>1
    <3>2. Queued(i + 1)
      BY <3>1 DEF IndInv, Placed
    <3>3. \A j \in 1..Len(toBeProcessedCh') :
            toBeProcessedCh'[i] = toBeProcessedCh'[j] => i + 1 = j + 1
      BY <1>4, <3>1, <3>2 DEF Queued
    <3>4. \A j \in 1..Len(toBeProcessedCh') : i + 1 = j + 1 => i = j
      BY <1>1
    <3>5. toBeProcessedCh'[i] # k
      BY <1>4, <2>1
    <3> QED BY <1>0, <1>6, <1>12, <3>1, <3>2, <3>3, <3>4, <3>5 DEF Queued
  <2>2. ASSUME NEW i \in 1..Len(packetList') PROVE Listed(i)'
    <3>1. Listed(i)
      BY <1>0, <2>2 DEF IndInv, Placed
    <3>2. packetList[i] # k
      BY <1>1, <1>2, <3>1 DEF Listed
    <3> QED BY <1>0, <1>4, <1>6, <3>1, <3>2 DEF Listed
  <2>3. (\A i \in 1..Len(responseCh) : Over(responseCh[i]))'
    <3> SUFFICES ASSUME NEW i \in 1..Len(responseCh') PROVE (Over(responseCh[i]))'
      OBVIOUS
    <3>1. CASE i \in 1..Len(responseCh) /\ responseCh'[i] = responseCh[i]
      <4>1. Over(responseCh[i])
        BY <3>1 DEF IndInv, Placed
      <4>2. responseCh[i] # k
        BY <1>1, <1>2, <4>1 DEF Over
      <4> QED BY <1>0, <1>4, <1>6, <3>1, <4>1, <4>2 DEF Over
    <3>2. CASE responseCh'[i] = k /\ kind[k] = "read"
      BY <1>0, <1>4, <1>6, <3>2 DEF Over
    <3> QED BY <1>7, <3>1, <3>2
  <2>4. Sending' \/ Writing' => (Good(oper.p))'
    BY <1>4, <1>6, <1>12
  <2>5. Waiting' => receiver'.p = packetList'[1]
    BY <1>0 DEF IndInv, Placed, Waiting
  <2> QED BY <1>6, <2>1, <2>2, <2>3, <2>4, <2>5 DEF Placed
<1>14. Truthful'
  <2>1. \A f \in Follower : Answers(f)'
    BY <1>0, <1>9, <1>10, AnswersStay DEF IndInv, Truthful
  <2>2. \A p \in Packet' : Local(p)'
    BY <1>8, <1>9, <1>10, LocalKept
  <2>3. Heard'
    <3>1. Waiting => receiver.p \in Packet /\ receiver.p # k
      BY <1>1, <1>2, WaitingFacts DEF Over
    <3> QED BY <1>0, <1>8, <1>9, <1>10, <3>1, HeardKept
  <2>4. \A i \in 1..Len(responseCh') : Judged(i)'
    <3>1. \A i \in 1..Len(responseCh) : responseCh[i] \in Packet /\ responseCh[i] # k
      BY <1>1, <1>2, QueueFacts DEF IndInv, Placed, Over
    <3>2. CASE kind[k] = "read"
      <4>1. \A i \in 1..Len(responseCh') :
              \/ /\ i \in 1..Len(responseCh) /\ responseCh'[i] = responseCh[i]
                 /\ result'[responseCh[i]] = "ok" => result[responseCh[i]] = "ok"
              \/ responseCh'[i] = k
        BY <1>7, <1>8, <3>1
      <4> QED BY <1>9, <1>10, <3>2, <4>1, JudgedPut DEF IndInv, Truthful
    <3>3. CASE kind[k] # "read"
      BY <1>3, <1>9, <1>10, <3>3, JudgedStays DEF IndInv, Truthful
    <3> QED BY <3>2, <3>3
  <2>5. \A i \in 1..Len(replies') : Replied(i)'
    BY <1>0, <1>9, <1>10, RepliedStays DEF IndInv, Truthful
  <2> QED BY <2>1, <2>2, <2>3, <2>4, <2>5 DEF Truthful
<1> QED BY <1>9, <1>11, <1>13, <1>14 DEF IndInv

\* The packet goes to one more follower, and after the last joins the list.
LEMMA OperSendKeeps ==
  ASSUME IndInv, OperSend
  PROVE  IndInv'
<1>0. Sending /\ oper.p \in Packet /\ oper.i \in Follower
  BY OperFacts DEF OperSend, Sending, IndInv
<1>1. PICK k \in Packet, f \in Follower : oper.p = k /\ oper.i = f /\ Good(k)
  BY <1>0 DEF IndInv, Placed
<1>2. oper = [p |-> k, i |-> f] /\ oper # Gone
  <2>1. oper \in [p : Packet, i : 1..(NumFollowers + 1)]
    BY <1>0, OperFacts DEF IndInv, Types
  <2> QED BY <1>0, <1>1, <2>1, OperFacts DEF IndInv
<1>3. /\ sendCh' = [sendCh EXCEPT ![f] = Append(@, k)]
      /\ oper' = [p |-> k, i |-> f + 1]
      /\ packetList' = IF f = NumFollowers THEN Append(packetList, k) ELSE packetList
      /\ UNCHANGED <<kind, nread, server, receiver, writer, exited, toBeProcessedCh, ackCh,
                     responseCh, result, extent, offset, file, replies, wire, back, respCh>>
  BY <1>1, <1>2 DEF OperSend, pkVars, stVars
<1>4. f \in Nat /\ f >= 1 /\ f <= NumFollowers /\ NumFollowers \in Nat
  BY RpAssumption DEF Follower
<1>5. /\ oper'.p = k /\ oper'.i = f + 1 /\ oper' # Gone
      /\ oper' \in [p : Packet, i : 1..(NumFollowers + 1)]
      /\ ~Writing
      /\ Sending' <=> f # NumFollowers
      /\ Writing' <=> f = NumFollowers
      /\ Waiting' <=> Waiting
  <2>1. oper'.p = k /\ oper'.i = f + 1
    BY <1>3
  <2>2. oper' # Gone
    BY <1>4, <2>1 DEF Gone
  <2>3. oper' \in [p : Packet, i : 1..(NumFollowers + 1)]
    BY <1>3, <1>4
  <2> QED BY <1>1, <1>3, <1>4, <2>1, <2>2, <2>3 DEF Sending, Writing, Waiting, Follower
<1>6. Packet' = Packet
  BY <1>3 DEF Packet
<1>7. /\ packetList' \in Seq(Packet)
      /\ Len(packetList) \in Nat
      /\ f # NumFollowers => packetList' = packetList
      /\ f = NumFollowers =>
           /\ Len(packetList') = Len(packetList) + 1
           /\ \A i \in 1..Len(packetList) : packetList'[i] = packetList[i]
           /\ packetList'[Len(packetList')] = k
  <2>1. packetList \in Seq(Packet) /\ Len(packetList) \in Nat
    BY QueueFacts DEF IndInv
  <2>2. /\ Append(packetList, k) \in Seq(Packet)
        /\ Len(Append(packetList, k)) = Len(packetList) + 1
        /\ \A i \in 1..Len(packetList) : Append(packetList, k)[i] = packetList[i]
        /\ Append(packetList, k)[Len(packetList) + 1] = k
    BY <2>1, AppendFacts
  <2> QED BY <1>3, <2>1, <2>2
<1>8. /\ sendCh' \in [Follower -> Seq(Packet)]
      /\ \A g \in Follower : \A i \in 1..Len(sendCh'[g]) :
           (i \in 1..Len(sendCh[g]) /\ sendCh'[g][i] = sendCh[g][i]) \/ sendCh'[g][i] = k
  <2>1. sendCh \in [Follower -> Seq(Packet)] /\ sendCh[f] \in Seq(Packet)
    BY TransportTypes
  <2>2. /\ Append(sendCh[f], k) \in Seq(Packet)
        /\ Len(Append(sendCh[f], k)) = Len(sendCh[f]) + 1 /\ Len(sendCh[f]) \in Nat
        /\ \A i \in 1..Len(sendCh[f]) : Append(sendCh[f], k)[i] = sendCh[f][i]
        /\ Append(sendCh[f], k)[Len(sendCh[f]) + 1] = k
    BY <2>1, AppendFacts
  <2>3. /\ sendCh' \in [Follower -> Seq(Packet)]
        /\ sendCh'[f] = Append(sendCh[f], k)
        /\ \A g \in Follower : g # f => sendCh'[g] = sendCh[g]
    BY <1>3, <2>1, <2>2
  <2>4. ASSUME NEW g \in Follower, NEW i \in 1..Len(sendCh'[g])
        PROVE  (i \in 1..Len(sendCh[g]) /\ sendCh'[g][i] = sendCh[g][i]) \/ sendCh'[g][i] = k
    <3>1. CASE g = f
      BY <2>2, <2>3, <2>4, <3>1
    <3>2. CASE g # f
      BY <2>3, <2>4, <3>2
    <3> QED BY <3>1, <3>2
  <2> QED BY <2>3, <2>4
<1>9. Types'
  BY <1>3, <1>5, <1>6, <1>7, <1>8 DEF IndInv, Types
<1>10. Steady
  BY <1>3, SteadyStutter DEF IndInv
<1>11. Exits'
  BY <1>2, <1>3, <1>5 DEF IndInv, Exits
<1>12. Counted'
  <2>1. ackCh \in Nat
    BY DEF IndInv, Types
  <2> QED BY <1>3, <1>5, <1>7, <2>1 DEF IndInv, Counted, Left
<1>13. \A p : Good(p) => Good(p)'
  BY <1>9, <1>10, GoodStays DEF IndInv
<1>14. Placed'
  <2>1. ASSUME NEW i \in 1..Len(toBeProcessedCh') PROVE Queued(i)'
    <3>1. Queued(i)
      BY <1>3, <2>1 DEF IndInv, Placed
    <3> QED BY <1>0, <1>1, <1>3, <1>5, <1>13, <3>1 DEF Queued
  <2>2. k <= nread /\ \A j \in 1..Len(toBeProcessedCh) : k # toBeProcessedCh[j]
    BY <1>0, <1>1 DEF IndInv, Placed, Queued, Good
  <2>3. \A i \in 1..Len(packetList) : packetList[i] # k
    BY <1>0, <1>1 DEF IndInv, Placed, Listed
  <2>4. ASSUME NEW i \in 1..Len(packetList') PROVE Listed(i)'
    <3>1. CASE f # NumFollowers
      BY <1>3, <1>5, <1>7, <2>3, <2>4, <3>1 DEF IndInv, Placed, Listed
    <3>2. CASE f = NumFollowers /\ i \in 1..Len(packetList)
      <4>1. Listed(i) /\ packetList'[i] = packetList[i] /\ packetList[i] # k
        BY <1>7, <2>3, <3>2 DEF IndInv, Placed
      <4>2. \A j \in 1..Len(packetList') : packetList'[i] = packetList'[j] => i = j
        BY <1>7, <3>2, <4>1 DEF Listed
      <4> QED BY <1>3, <1>5, <3>2, <4>1, <4>2 DEF Listed
    <3>3. CASE f = NumFollowers /\ i = Len(packetList')
      <4>1. packetList'[i] = k
        BY <1>7, <3>3
      <4>2. \A j \in 1..Len(packetList') : packetList'[i] = packetList'[j] => i = j
        BY <1>7, <2>3, <3>3, <4>1
      <4> QED BY <1>3, <1>5, <2>2, <3>3, <4>1, <4>2 DEF Listed
    <3> QED BY <1>7, <2>4, <3>1, <3>2, <3>3
  <2>5. (\A i \in 1..Len(responseCh) : Over(responseCh[i]))'
    <3> SUFFICES ASSUME NEW i \in 1..Len(responseCh') PROVE (Over(responseCh[i]))'
      OBVIOUS
    <3>1. Over(responseCh[i])
      BY <1>3 DEF IndInv, Placed
    <3> QED BY <1>0, <1>1, <1>3, <1>5, <3>1 DEF Over
  <2>6. Sending' \/ Writing' => (Good(oper.p))'
    BY <1>1, <1>5, <1>13
  <2>7. Writing' => oper'.p = packetList'[Len(packetList')]
    BY <1>5, <1>7
  <2>8. Waiting' => receiver'.p = packetList'[1]
    BY <1>3, <1>5, <1>7, WaitingFacts
  <2> QED BY <2>1, <2>4, <2>5, <2>6, <2>7, <2>8 DEF Placed
<1>15. Truthful'
  <2>1. ASSUME NEW g \in Follower PROVE Answers(g)'
    <3>1. Answers(g) /\ g \in Replica
      BY RpAssumption DEF IndInv, Truthful, Follower, Replica
    <3>2. \A r \in Replica : \A p : Safe(r, p) => Safe(r, p)'
      BY <1>9, <1>10, SafeStays DEF IndInv
    <3>3. (\A i \in 1..Len(sendCh[g]) : Good(sendCh[g][i]))'
      BY <1>1, <1>8, <1>13, <3>1 DEF Answers
    <3> QED BY <1>3, <1>6, <1>13, <3>1, <3>2, <3>3 DEF Answers
  <2> QED BY <1>3, <1>9, <1>10, <2>1, LocalStays, HeardStays, JudgedStays, RepliedStays
          DEF IndInv, Truthful
<1> QED BY <1>9, <1>11, <1>12, <1>14, <1>15 DEF IndInv

\* The operator gives a packet up or has written it, and is idle again.
LEMMA OperIdleKeeps ==
  ASSUME IndInv, NEW k \in Packet, Sending \/ Writing, oper.p = k, oper' = Idle,
         FilesGrow, file' \in [Replica -> [Extent -> Seq(Packet \cup {0})]],
         result' \in [Packet -> {"init", "ok", "err"}],
         \A p \in Packet : p # k => result'[p] = result[p],
         result'[k] = "ok" => Safe(0, k)',
         responseCh' \in Seq(Packet),
         \A i \in 1..Len(responseCh') :
           \/ i \in 1..Len(responseCh) /\ responseCh'[i] = responseCh[i]
           \/ responseCh'[i] = k /\ result'[k] = "err",
         ackCh' \in Nat, ackCh' <= ackCh + Left(Writing),
         UNCHANGED <<kind, nread, server, receiver, writer, exited, toBeProcessedCh, packetList,
                     extent, offset, replies, sendCh, wire, back, respCh>>
  PROVE  IndInv'
<1>1. Packet' = Packet
  BY DEF Packet
<1>2. Types'
  BY <1>1 DEF IndInv, Types
<1>3. Steady
  BY DEF Steady, IndInv, Types
<1>4. ~Sending' /\ ~Writing' /\ oper # Gone /\ oper' # Gone /\ (Waiting' <=> Waiting)
  <2>1. oper # Gone /\ ~Sending' /\ ~Writing'
    BY <1>2, OperFacts, RpAssumption DEF IndInv, Idle, Sending, Writing, Follower
  <2> QED BY <2>1 DEF Waiting, Idle, Gone
<1>5. Exits'
  BY <1>4 DEF IndInv, Exits
<1>6. Counted'
  <2>1. ackCh \in Nat /\ Len(packetList) \in Nat
    BY QueueFacts DEF IndInv, Types
  <2> QED BY <1>4, <2>1 DEF IndInv, Counted, Left
<1>7. \A p : Good(p) => Good(p)'
  BY <1>2, <1>3, GoodStays DEF IndInv
<1>8. Placed'
  <2>1. ASSUME NEW i \in 1..Len(toBeProcessedCh') PROVE Queued(i)'
    BY <1>4, <1>7, <2>1 DEF IndInv, Placed, Queued
  <2>2. ASSUME NEW i \in 1..Len(packetList') PROVE Listed(i)'
    BY <1>4, <2>2 DEF IndInv, Placed, Listed
  <2>3. (\A i \in 1..Len(responseCh) : Over(responseCh[i]))'
    <3> SUFFICES ASSUME NEW i \in 1..Len(responseCh') PROVE (Over(responseCh[i]))'
      OBVIOUS
    <3>1. CASE i \in 1..Len(responseCh) /\ responseCh'[i] = responseCh[i]
      <4>1. Over(responseCh[i])
        BY <3>1 DEF IndInv, Placed
      <4> QED BY <1>4, <3>1, <4>1 DEF Over
    <3>2. CASE responseCh'[i] = k
      <4>1. k <= nread /\ \A j \in 1..Len(toBeProcessedCh) : k # toBeProcessedCh[j]
        BY DEF IndInv, Placed, Queued, Good
      <4> QED BY <1>4, <3>2, <4>1 DEF Over
    <3> QED BY <3>1, <3>2
  <2>4. Waiting' => receiver'.p = packetList'[1]
    BY <1>4 DEF IndInv, Placed
  <2> QED BY <1>4, <2>1, <2>2, <2>3, <2>4 DEF Placed
<1>9. Truthful'
  <2>1. \A f \in Follower : Answers(f)'
    BY <1>2, <1>3, AnswersStay DEF IndInv, Truthful
  <2>2. \A p \in Packet' : Local(p)'
    <3>1. \A p \in Packet : result'[p] = "ok" /\ kind[p] # "read" =>
                              result[p] = "ok" \/ Safe(0, p)'
      OBVIOUS
    <3> QED BY <1>2, <1>3, <3>1, LocalKept
  <2>3. Heard'
    <3>1. Waiting => receiver.p \in Packet /\ receiver.p # k
      BY WaitingFacts DEF Over
    <3> QED BY <1>2, <1>3, <3>1, HeardKept
  <2>4. \A i \in 1..Len(responseCh') : Judged(i)'
    <3>1. \A i \in 1..Len(responseCh) : responseCh[i] \in Packet /\ responseCh[i] # k
      BY QueueFacts DEF IndInv, Placed, Over
    <3>2. CASE result'[k] = "err"
      <4>1. \A i \in 1..Len(responseCh') :
              \/ /\ i \in 1..Len(responseCh) /\ responseCh'[i] = responseCh[i]
                 /\ result'[responseCh[i]] = "ok" => result[responseCh[i]] = "ok"
              \/ responseCh'[i] = k
        BY <3>1
      <4> QED BY <1>2, <1>3, <3>2, <4>1, JudgedPut DEF IndInv, Truthful
    <3>3. CASE result'[k] # "err"
      <4>1. \A i \in 1..Len(responseCh') :
              /\ i \in 1..Len(responseCh) /\ responseCh'[i] = responseCh[i]
              /\ result'[responseCh[i]] = result[responseCh[i]]
        BY <3>1, <3>3
      <4>2. kind' = kind /\ \A r \in Replica : \A p : Safe(r, p) => Safe(r, p)'
        BY <1>2, <1>3, SafeStays DEF IndInv
      <4> SUFFICES ASSUME NEW i \in 1..Len(responseCh') PROVE Judged(i)'
        OBVIOUS
      <4>3. Judged(i) /\ responseCh'[i] = responseCh[i]
            /\ result'[responseCh[i]] = result[responseCh[i]]
        BY <4>1 DEF IndInv, Truthful
      <4> QED BY <4>2, <4>3 DEF Judged
    <3> QED BY <3>2, <3>3
  <2>5. \A i \in 1..Len(replies') : Replied(i)'
    BY <1>2, <1>3, RepliedStays DEF IndInv, Truthful
  <2> QED BY <2>1, <2>2, <2>3, <2>4, <2>5 DEF Truthful
<1> QED BY <1>2, <1>5, <1>6, <1>8, <1>9 DEF IndInv

\* No connection to a follower: the packet is answered with an error.
LEMMA OperSendFailsKeeps ==
  ASSUME IndInv, OperSendFails
  PROVE  IndInv'
<1>0. Sending /\ oper.p \in Packet
  BY OperFacts DEF OperSendFails, Sending, IndInv
<1>1. PICK k \in Packet : oper.p = k
  BY <1>0
<1>2. /\ result' = [result EXCEPT ![k] = "err"]
      /\ PutResponse(k) /\ oper' = Idle /\ file' = file /\ ackCh' = ackCh
      /\ UNCHANGED <<kind, nread, server, receiver, writer, exited, toBeProcessedCh, packetList,
                     extent, offset, replies, sendCh, wire, back, respCh>>
  BY <1>1 DEF OperSendFails, ftVars, stVars
<1>3. /\ result' \in [Packet -> {"init", "ok", "err"}]
      /\ \A p \in Packet : p # k => result'[p] = result[p]
      /\ result'[k] = "err"
  <2>1. result \in [Packet -> {"init", "ok", "err"}]
    BY DEF IndInv, Types
  <2> QED BY <1>2, <2>1
<1>4. /\ responseCh' \in Seq(Packet)
      /\ \A i \in 1..Len(responseCh') :
           \/ i \in 1..Len(responseCh) /\ responseCh'[i] = responseCh[i]
           \/ responseCh'[i] = k
  BY <1>2, PutFacts, QueueFacts DEF IndInv
<1>5. /\ file' \in [Replica -> [Extent -> Seq(Packet \cup {0})]]
      /\ FilesGrow /\ ackCh' \in Nat /\ ackCh' <= ackCh + Left(Writing)
  BY <1>2 DEF IndInv, Types, FilesGrow, Left
<1> QED BY <1>0, <1>1, <1>2, <1>3, <1>4, <1>5, OperIdleKeeps

\* The leader's own write sets the result before the signal is given.
LEMMA OperLocalKeeps ==
  ASSUME IndInv, OperLocal
  PROVE  IndInv'
<1>0. Writing /\ oper.p \in Packet
  BY OperFacts DEF OperLocal, Writing, IndInv
<1>1. PICK k \in Packet : oper.p = k /\ Good(k)
  BY <1>0 DEF IndInv, Placed
<1>2. /\ \/ /\ Fits(0, k) /\ file' = Written(0, k, k)
            /\ result' = [result EXCEPT ![k] = "ok"]
         \/ result' = [result EXCEPT ![k] = "err"] /\ file' = file
      /\ ackCh' = ackCh + 1 \/ ackCh' = ackCh
      /\ oper' = Idle /\ responseCh' = responseCh
      /\ UNCHANGED <<kind, nread, server, receiver, writer, exited, toBeProcessedCh, packetList,
                     extent, offset, replies, sendCh, wire, back, respCh>>
  BY <1>1 DEF OperLocal, PutAck, ftVars
<1>3. result \in [Packet -> {"init", "ok", "err"}] /\ ackCh \in Nat /\ 0 \in Replica
  BY RpAssumption DEF IndInv, Types, Replica
<1>4. /\ result' \in [Packet -> {"init", "ok", "err"}]
      /\ \A p \in Packet : p # k => result'[p] = result[p]
  BY <1>2, <1>3
<1>5. /\ file' \in [Replica -> [Extent -> Seq(Packet \cup {0})]] /\ FilesGrow
      /\ result'[k] = "ok" => Safe(0, k)'
  <2>1. CASE /\ Fits(0, k) /\ file' = Written(0, k, k)
             /\ result' = [result EXCEPT ![k] = "ok"]
    BY <1>1, <1>2, <1>3, <2>1, WrittenFacts DEF IndInv
  <2>2. CASE result' = [result EXCEPT ![k] = "err"] /\ file' = file
    <3>1. result'[k] = "err"
      BY <1>3, <2>2
    <3> QED BY <2>2, <3>1 DEF IndInv, Types, FilesGrow
  <2> QED BY <1>2, <2>1, <2>2
<1>6. ackCh' \in Nat /\ ackCh' <= ackCh + Left(Writing)
  BY <1>0, <1>2, <1>3 DEF Left
<1>7. /\ responseCh' \in Seq(Packet)
      /\ \A i \in 1..Len(responseCh') :
           i \in 1..Len(responseCh) /\ responseCh'[i] = responseCh[i]
  BY <1>2, QueueFacts DEF IndInv
<1> QED BY <1>0, <1>1, <1>2, <1>4, <1>5, <1>6, <1>7, OperIdleKeeps
=============================================================================
