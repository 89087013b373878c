---------------------------- MODULE ReplProtocol ----------------------------
(***************************************************************************)
(* The replication of writes to a data partition: the four goroutines that *)
(* serve one client connection on the leader, and the transports that      *)
(* carry the packets to the followers.                                     *)
(*                                                                         *)
(*   src/datanode/repl/repl_protocol.go  the goroutines and transports     *)
(*   src/datanode/wrap_prepare.go        Prepare                           *)
(*   src/datanode/wrap_operator.go       handleWritePacket                 *)
(*   src/datanode/wrap_post.go           Post                              *)
(*   src/datanode/storage/extent.go      Write, WriteTiny                  *)
(*                                                                         *)
(* A packet is a number.  A "normal" packet appends to the extent the      *)
(* client chose, at the offset it gave; a "tiny" packet appends to a tiny  *)
(* extent the leader picks; a "read" is served by the leader alone.  One   *)
(* packet is one unit of an extent file.  The data of a packet live in a   *)
(* pooled buffer that the copies for the followers share; bytes taken from *)
(* a buffer that was given back and used again are the packet 0.           *)
(***************************************************************************)
EXTENDS Integers, Sequences

CONSTANTS
    NumFollowers,
    TinyExtents,
    NormalExtent,
    Kinds,        \* the sequences of packet kinds a client may send
    RequestChanSize,
    SendChanSize, \* capacity of sendCh and recvCh
    MaxFault      \* bound on the faults of a behaviour

\* No extent has been chosen yet
NoExtent == "none"

ASSUME RpAssumption ==
    /\ NumFollowers \in Nat \ {0}
    /\ RequestChanSize \in Nat \ {0} /\ SendChanSize \in Nat \ {0}
    /\ MaxFault \in Nat
    /\ NormalExtent \notin TinyExtents
    /\ NoExtent \notin TinyExtents \cup {NormalExtent}
    /\ Kinds \subseteq Seq({"normal", "tiny", "read"})

Follower == 1..NumFollowers
Replica == 0..NumFollowers      \* 0 is the leader
Extent == TinyExtents \cup {NormalExtent}

\* Faulty variant: the last goroutine is not counted.
ReplHasExitedLate == -4

ReplRuning == 2
ReplExiting == 1
ReplHasExited == -3

VARIABLES
    kind,          \* kind[p]: what packet p asks for
    server,        \* ServerConn: "read", "leave" or "gone"
    nread,         \* packets read from sourceConn
    sent,          \* normal packets the client has sent
    oper,          \* OperatorAndForwardPktGoRoutine: packet and next follower
    receiver,      \* ReceiveResponseFromFollowersGoRoutine: likewise
    writer,        \* writeResponseToClientGoRroutine: "run" or "gone"
    exited,        \* rp.exited; exitC is closed when it is not ReplRuning
    toBeProcessedCh, packetList, ackCh, responseCh,
    result,        \* result[p]: ResultCode
    extent,        \* extent[p], offset[p]: where p writes
    offset,
    released,      \* packets whose IsReleased is set
    dropped,       \* packets lost at a full channel
    lostAck,       \* putAck found ackCh full
    freed,         \* packets whose buffer went back to proto.Buffers
    reused,        \* packets whose buffer has other data by now
    replies,       \* answers written to the client
    sendCh, recvCh,\* FollowerTransport channels
    conn,          \* conn[f]: "none", "open", "closed" (leader side)
    peer,          \* peer[f]: the follower still serves the connection
    wire, back,    \* requests and answers under way
    respCh,        \* respCh[p][f]: content of FollowerPacket.respCh
    file,          \* file[r][x]: packets in the file of extent x at replica r
    available, broken, \* tiny extents in the two channels of the store
    faults

rpVars == <<server, nread, sent, oper, receiver, writer, exited>>
chVars == <<toBeProcessedCh, packetList, ackCh, responseCh>>
pkVars == <<result, extent, offset, released, dropped, lostAck, freed, replies>>
ftVars == <<sendCh, recvCh, conn, peer, wire, back, respCh, reused>>
stVars == <<file, available, broken>>
vars == <<kind, rpVars, chVars, pkVars, ftVars, stVars, faults>>

Packet == DOMAIN kind
Idle == [p |-> 0, i |-> 0]
Gone == [p |-> 0, i |-> -1]
Elems(s) == {s[i] : i \in DOMAIN s}
Fault == faults < MaxFault /\ faults' = faults + 1
NoFault == UNCHANGED faults

Init ==
    /\ kind \in Kinds
    /\ server = "read" /\ nread = 0 /\ sent = 0
    /\ oper = Idle /\ receiver = Idle /\ writer = "run"
    /\ exited = ReplRuning
    /\ toBeProcessedCh = <<>> /\ packetList = <<>> /\ responseCh = <<>>
    /\ ackCh = 0
    /\ result = [p \in Packet |-> "init"]
    /\ extent = [p \in Packet |-> NoExtent]
    /\ offset = [p \in Packet |-> 0]
    /\ released = {} /\ dropped = {} /\ freed = {} /\ reused = {}
    /\ lostAck = FALSE
    /\ replies = <<>>
    /\ sendCh = [f \in Follower |-> <<>>]
    /\ recvCh = [f \in Follower |-> <<>>]
    /\ conn = [f \in Follower |-> "none"]
    /\ peer = [f \in Follower |-> TRUE]
    /\ wire = [f \in Follower |-> <<>>]
    /\ back = [f \in Follower |-> <<>>]
    /\ respCh = [p \in Packet |-> [f \in Follower |-> "none"]]
    /\ file = [r \in Replica |-> [x \in Extent |-> <<>>]]
    /\ available = TinyExtents /\ broken = {}
    /\ faults = 0

-----------------------------------------------------------------------------
(* Parts of the handlers.                                                   *)

\* putResponse: a full channel loses the packet.
PutResponse(p) ==
    IF Len(responseCh) < RequestChanSize
    THEN responseCh' = Append(responseCh, p) /\ UNCHANGED dropped
    ELSE dropped' = dropped \cup {p} /\ UNCHANGED responseCh

\* Extent.Write and WriteTiny: an append must start at the end of the file.
Fits(r, p) == Len(file[r][extent[p]]) = offset[p]
Written(r, p, bytes) == [file EXCEPT ![r][extent[p]] = Append(@, bytes)]

\* Post of the packets ps: releaseExtent gives a tiny extent back.
Holds(p) == kind[p] = "tiny" /\ extent[p] # NoExtent /\ p \notin released
Post(ps) ==
    LET rel == {p \in ps : Holds(p)}
        bad == {p \in rel : result[p] = "err"}
    IN  /\ released' = released \cup rel
        /\ broken' = broken \cup {extent[p] : p \in bad}
        /\ available' = available \cup {extent[p] : p \in rel \ bad}

\* clean of the packets ps: a prepared write gives its buffer back.
Clean(ps) ==
    freed' = freed \cup {p \in ps : kind[p] # "read" /\ extent[p] # NoExtent}

\* Stop
Stopped == IF exited = ReplRuning THEN ReplExiting ELSE exited
ExitC == exited # ReplRuning

\* Faulty variant: the packets of the list are forgotten.
LeaveNoPost(n) ==
    /\ exited' = n
    /\ IF n = ReplHasExited
       THEN LET ps == Elems(toBeProcessedCh) \cup Elems(responseCh)
            IN  /\ Post(ps) /\ Clean(ps)
                /\ packetList' = <<>> /\ toBeProcessedCh' = <<>>
                /\ responseCh' = <<>> /\ ackCh' = 0
       ELSE UNCHANGED <<chVars, released, broken, available, freed>>
    /\ UNCHANGED <<kind, lostAck, nread, sent, result, extent, offset, dropped, replies,
                   ftVars, file, faults>>

\* A goroutine leaves when exited becomes n; the last one empties the channels
\* (cleanResource up to the transports).
Leave(n) ==
    /\ exited' = n
    /\ IF n = ReplHasExited
       THEN LET ps == Elems(packetList) \cup Elems(toBeProcessedCh)
                        \cup Elems(responseCh)
            IN  /\ Post(ps) /\ Clean(ps)
                /\ packetList' = <<>> /\ toBeProcessedCh' = <<>>
                /\ responseCh' = <<>> /\ ackCh' = 0
       ELSE UNCHANGED <<chVars, released, broken, available, freed>>
    /\ UNCHANGED <<kind, lostAck, nread, sent, result, extent, offset, dropped, replies,
                   ftVars, file, faults>>

-----------------------------------------------------------------------------
(* ServerConn                                                               *)

\* The select of the loop: leave once exitC is closed, else read.
ServerSelect == IF ExitC THEN "leave" ELSE "read"

\* The next packet comes from the client, which lets a normal packet write behind
\* its earlier ones, whatever became of them.
ReadFromClient ==
    /\ nread < Len(kind)
    /\ nread' = nread + 1
    /\ sent' = sent + (IF kind[nread'] = "normal" THEN 1 ELSE 0)

\* checkPacketAndPrepare: a tiny packet gets an extent of the available ones
\* and the end of its file.
Prepare(p, x) ==
    /\ CASE kind[p] = "tiny" ->
              /\ x \in available
              /\ available' = available \ {x}
              /\ extent' = [extent EXCEPT ![p] = x]
              /\ offset' = [offset EXCEPT ![p] = Len(file[0][x])]
         [] kind[p] = "normal" ->
              /\ x = NormalExtent
              /\ extent' = [extent EXCEPT ![p] = x]
              /\ offset' = [offset EXCEPT ![p] = sent]
              /\ UNCHANGED available
         [] kind[p] = "read" ->
              x = NormalExtent /\ UNCHANGED <<extent, offset, available>>
    /\ UNCHANGED <<file, broken>>

\* readPkgAndPrepare when Prepare succeeds.
ReadPkg ==
    /\ server = "read" /\ ReadFromClient
    /\ \E x \in Extent : Prepare(nread', x)
    /\ IF Len(toBeProcessedCh) < RequestChanSize
       THEN /\ toBeProcessedCh' = Append(toBeProcessedCh, nread')
            /\ server' = ServerSelect /\ UNCHANGED dropped
       ELSE /\ dropped' = dropped \cup {nread'}
            /\ server' = "leave" /\ UNCHANGED toBeProcessedCh
    /\ UNCHANGED <<kind, lostAck, oper, receiver, writer, exited, packetList, ackCh,
                   responseCh, result, released, freed, replies, ftVars, faults>>

\* readPkgAndPrepare when Prepare fails: a tiny packet finds no extent, or the
\* partition refuses the packet.
ReadPkgFails ==
    /\ server = "read" /\ ReadFromClient
    /\ \/ kind[nread'] = "tiny" /\ available = {} /\ NoFault
       \/ Fault
    /\ result' = [result EXCEPT ![nread'] = "err"]
    /\ PutResponse(nread')
    /\ server' = IF dropped' = dropped THEN ServerSelect ELSE "leave"
    /\ UNCHANGED <<kind, lostAck, oper, receiver, writer, exited, toBeProcessedCh,
                   packetList, ackCh, extent, offset, released, freed, replies,
                   ftVars, stVars>>

\* The client closes the connection, or the read fails.  (ServerConn also comes
\* here when exitC is closed between a packet and its select.)
ReadEOF ==
    /\ server = "read"
    /\ server' = "leave"
    /\ UNCHANGED <<kind, nread, sent, oper, receiver, writer, exited, chVars, pkVars,
                   ftVars, stVars, faults>>

\* The deferred function of ServerConn.
ServerLeave ==
    /\ server = "leave"
    /\ server' = "gone"
    /\ Leave(Stopped - 1)
    /\ UNCHANGED <<oper, receiver, writer>>

-----------------------------------------------------------------------------
(* OperatorAndForwardPktGoRoutine                                           *)

OperTake ==
    /\ oper = Idle /\ toBeProcessedCh # <<>>
    /\ toBeProcessedCh' = Tail(toBeProcessedCh)
    /\ LET p == Head(toBeProcessedCh)
       IN  IF kind[p] = "read"
           THEN /\ result' = [result EXCEPT ![p] = "ok"]
                /\ PutResponse(p)
                /\ UNCHANGED oper
           ELSE /\ oper' = [p |-> p, i |-> 1]
                /\ UNCHANGED <<result, responseCh, dropped>>
    /\ UNCHANGED <<kind, lostAck, server, nread, sent, receiver, writer, exited, packetList,
                   ackCh, extent, offset, released, freed, replies, ftVars,
                   stVars, faults>>

\* One round of sendRequestToAllFollowers; after the last the packet joins the
\* list.
OperSend ==
    /\ oper.i \in Follower
    /\ Len(sendCh[oper.i]) < SendChanSize
    /\ conn' = [conn EXCEPT ![oper.i] = IF @ = "none" THEN "open" ELSE @]
    /\ sendCh' = [sendCh EXCEPT ![oper.i] = Append(@, oper.p)]
    /\ oper' = [oper EXCEPT !.i = @ + 1]
    /\ packetList' = IF oper.i = NumFollowers THEN Append(packetList, oper.p)
                     ELSE packetList
    /\ UNCHANGED <<kind, server, nread, sent, receiver, writer, exited,
                   toBeProcessedCh, ackCh, responseCh, pkVars, recvCh, peer,
                   wire, back, respCh, reused, stVars, faults>>

\* allocateFollowersConns fails: the client gets the error at once.
OperSendFails ==
    /\ oper.i \in Follower /\ conn[oper.i] = "none"
    /\ Fault
    /\ result' = [result EXCEPT ![oper.p] = "err"]
    /\ PutResponse(oper.p)
    /\ oper' = Idle
    /\ UNCHANGED <<kind, lostAck, server, nread, sent, receiver, writer, exited,
                   toBeProcessedCh, packetList, ackCh, extent, offset,
                   released, freed, replies, ftVars, stVars>>

\* Faulty variant: the limit of the channel is not seen.
PutAckOver == ackCh' = ackCh + 1 /\ UNCHANGED lostAck

\* Faulty variant: the receiver is not woken.
PutAckNone == UNCHANGED <<ackCh, lostAck>>

\* putAck: a full channel loses the signal.
PutAck ==
    IF ackCh < RequestChanSize
    THEN ackCh' = ackCh + 1 /\ UNCHANGED lostAck
    ELSE lostAck' = TRUE /\ UNCHANGED ackCh

\* operatorFunc and putAck.
OperLocal ==
    /\ oper.i = NumFollowers + 1
    /\ LET p == oper.p
       IN  \/ /\ Fits(0, p)
              /\ file' = Written(0, p, p)
              /\ result' = [result EXCEPT ![p] = "ok"]
              /\ NoFault
           \/ /\ IF Fits(0, p) THEN Fault ELSE NoFault
              /\ result' = [result EXCEPT ![p] = "err"]
              /\ UNCHANGED file
    /\ PutAck
    /\ oper' = Idle
    /\ UNCHANGED <<kind, server, nread, sent, receiver, writer, exited,
                   toBeProcessedCh, packetList, responseCh, extent, offset,
                   released, dropped, freed, replies, ftVars, available, broken>>

OperLeave ==
    /\ oper = Idle /\ ExitC
    /\ oper' = Gone
    /\ Leave(exited - 1)
    /\ UNCHANGED <<server, receiver, writer>>

-----------------------------------------------------------------------------
(* ReceiveResponseFromFollowersGoRoutine                                    *)

\* deletePacket: the element is the front, others are only pushed behind it.
DeletePacket(p) ==
    /\ packetList' = Tail(packetList)
    /\ PutResponse(p)
    /\ receiver' = Idle

\* getNextPacket
GetNextPacket == Head(packetList)

\* checkLocalResultAndReciveAllFollowerResponse up to the first follower.
RecvTake ==
    /\ receiver = Idle /\ ackCh > 0
    /\ ackCh' = ackCh - 1
    /\ LET p == GetNextPacket
       IN  IF packetList = <<>>
           THEN UNCHANGED <<packetList, responseCh, dropped, receiver>>
           ELSE IF result[p] = "err"
           THEN DeletePacket(p)
           ELSE /\ receiver' = [p |-> p, i |-> 1]
                /\ UNCHANGED <<packetList, responseCh, dropped>>
    /\ UNCHANGED <<kind, lostAck, server, nread, sent, oper, writer, exited, toBeProcessedCh,
                   result, extent, offset, released, freed, replies, ftVars,
                   stVars, faults>>

\* Faulty variant: the answer of a follower is not looked at.
FollowerResultIgnored(p, err) == result

\* A follower's error becomes the result of the packet.
FollowerResult(p, err) ==
    IF err = "ok" THEN result ELSE [result EXCEPT ![p] = "err"]

\* The answer of one follower; a deadline ends the wait for the others.
RecvWait ==
    /\ receiver.i \in Follower
    /\ LET p == receiver.p
           err == respCh[p][receiver.i]
       IN  /\ err # "none"
           /\ result' = FollowerResult(p, err)
           /\ \/ /\ receiver.i = NumFollowers \/ err = "deadline"
                 /\ DeletePacket(p)
              \/ /\ receiver.i < NumFollowers /\ err # "deadline"
                 /\ receiver' = [receiver EXCEPT !.i = @ + 1]
                 /\ UNCHANGED <<packetList, responseCh, dropped>>
    /\ UNCHANGED <<kind, lostAck, server, nread, sent, oper, writer, exited, toBeProcessedCh,
                   ackCh, extent, offset, released, freed, replies, ftVars,
                   stVars, faults>>

RecvLeave ==
    /\ receiver = Idle /\ ExitC
    /\ receiver' = Gone
    /\ Leave(exited - 1)
    /\ UNCHANGED <<server, oper, writer>>

-----------------------------------------------------------------------------
(* writeResponseToClientGoRroutine                                          *)

\* writeResponse.  A read that was prepared has answered for itself.
WriteResponse ==
    /\ writer = "run" /\ responseCh # <<>>
    /\ LET p == Head(responseCh)
           needReply == kind[p] # "read" \/ result[p] = "err"
       IN  /\ Post({p}) /\ Clean({p})
           /\ \/ /\ replies' = IF needReply THEN Append(replies, <<p, result[p]>>)
                               ELSE replies
                 /\ exited' = IF result[p] = "err" THEN Stopped ELSE exited
                 /\ NoFault
              \/ /\ needReply /\ Fault
                 /\ exited' = Stopped /\ UNCHANGED replies
    /\ responseCh' = Tail(responseCh)
    /\ UNCHANGED <<kind, lostAck, server, nread, sent, oper, receiver, writer,
                   toBeProcessedCh, packetList, ackCh, result, extent, offset,
                   dropped, ftVars, file>>

WriterLeave ==
    /\ writer = "run" /\ ExitC
    /\ writer' = "gone"
    /\ Leave(exited - 1)
    /\ UNCHANGED <<server, oper, receiver>>

-----------------------------------------------------------------------------
(* The transports and the followers.                                        *)

\* serverWriteToFollower: the bytes are those the shared buffer has now.
FtWrite(f) ==
    /\ sendCh[f] # <<>> /\ conn[f] = "open" /\ Len(recvCh[f]) < SendChanSize
    /\ LET p == Head(sendCh[f])
       IN  wire' = [wire EXCEPT ![f] = Append(@,
               [p |-> p, bytes |-> IF p \in reused THEN 0 ELSE p])]
    /\ sendCh' = [sendCh EXCEPT ![f] = Tail(@)]
    /\ recvCh' = [recvCh EXCEPT ![f] = Append(@, Head(sendCh[f]))]
    /\ UNCHANGED <<kind, rpVars, chVars, pkVars, conn, peer, back, respCh,
                   reused, stVars, faults>>

\* The write fails: respCh gets the error and the connection is closed.
FtWriteFails(f) ==
    /\ sendCh[f] # <<>>
    /\ IF conn[f] = "closed" \/ ~peer[f] THEN NoFault ELSE Fault
    /\ respCh' = [respCh EXCEPT ![Head(sendCh[f])][f] = "err"]
    /\ sendCh' = [sendCh EXCEPT ![f] = Tail(@)]
    /\ conn' = [conn EXCEPT ![f] = "closed"]
    /\ UNCHANGED <<kind, rpVars, chVars, pkVars, recvCh, peer, wire, back,
                   reused, stVars>>

\* readFollowerResult
FtRead(f) ==
    /\ recvCh[f] # <<>>
    /\ LET p == Head(recvCh[f])
           Result(err) ==
               /\ respCh' = [respCh EXCEPT ![p][f] = err]
               /\ conn' = IF err = "ok" THEN conn
                          ELSE [conn EXCEPT ![f] = "closed"]
       IN  \/ /\ conn[f] = "open" /\ back[f] # <<>>
              /\ Result(IF Head(back[f]).p = p THEN Head(back[f]).res ELSE "err")
              /\ back' = [back EXCEPT ![f] = Tail(@)]
              /\ NoFault
           \/ /\ conn[f] = "closed" \/ (back[f] = <<>> /\ ~peer[f])
              /\ Result("err")
              /\ NoFault /\ UNCHANGED back
           \/ /\ conn[f] = "open" /\ Fault
              /\ \E err \in {"err", "deadline"} : Result(err)
              /\ UNCHANGED back
    /\ recvCh' = [recvCh EXCEPT ![f] = Tail(@)]
    /\ UNCHANGED <<kind, rpVars, chVars, pkVars, sendCh, peer, wire, reused,
                   stVars>>

\* Faulty variant: the bytes are not checked.
AcceptsAnyBytes(f, m) == Fits(f, m.p)

\* checkCrc of the follower's Prepare and the append check of its store.
Accepts(f, m) == m.bytes = m.p /\ Fits(f, m.p)

\* The follower prepares (checkCrc), writes and answers the next packet.
FollowerHandle(f) ==
    /\ peer[f] /\ wire[f] # <<>>
    /\ LET m == Head(wire[f])
           Answer(res) == back' = [back EXCEPT ![f] =
                              Append(@, [p |-> m.p, res |-> res])]
       IN  \/ /\ Accepts(f, m)
              /\ file' = Written(f, m.p, m.bytes)
              /\ Answer("ok") /\ NoFault
           \/ /\ IF Accepts(f, m) THEN Fault ELSE NoFault
              /\ Answer("err") /\ UNCHANGED file
    /\ wire' = [wire EXCEPT ![f] = Tail(@)]
    /\ UNCHANGED <<kind, rpVars, chVars, pkVars, sendCh, recvCh, conn, peer,
                   respCh, reused, available, broken>>

\* The follower drops the connection: after an error, or because it dies.
FollowerClose(f) ==
    /\ peer[f] /\ conn[f] = "open"
    /\ IF \E i \in DOMAIN back[f] : back[f][i].res = "err" THEN NoFault ELSE Fault
    /\ peer' = [peer EXCEPT ![f] = FALSE]
    /\ wire' = [wire EXCEPT ![f] = <<>>]
    /\ UNCHANGED <<kind, rpVars, chVars, pkVars, sendCh, recvCh, conn, back,
                   respCh, reused, stVars>>

\* Another packet is read into a buffer taken from the pool.
ReuseBuffer(p) ==
    /\ p \in freed \ reused
    /\ \E f \in Follower : p \in Elems(sendCh[f])
    /\ reused' = reused \cup {p}
    /\ UNCHANGED <<kind, rpVars, chVars, pkVars, sendCh, recvCh, conn, peer,
                   wire, back, respCh, stVars, faults>>

\* Destory, the second half of cleanResource.
Destory(f) ==
    /\ exited = ReplHasExited /\ conn[f] # "none"
    /\ sendCh[f] # <<>> \/ recvCh[f] # <<>> \/ conn[f] = "open"
    /\ sendCh' = [sendCh EXCEPT ![f] = <<>>]
    /\ recvCh' = [recvCh EXCEPT ![f] = <<>>]
    /\ conn' = [conn EXCEPT ![f] = "closed"]
    /\ UNCHANGED <<kind, rpVars, chVars, pkVars, peer, wire, back, respCh,
                   reused, stVars, faults>>

-----------------------------------------------------------------------------
ServerNext == (ExitC /\ ReadEOF) \/ ServerLeave
OperNext == OperTake \/ OperSend \/ OperSendFails \/ OperLocal \/ OperLeave
RecvNext == RecvTake \/ RecvWait \/ RecvLeave
WriterNext == WriteResponse \/ WriterLeave
FtNext(f) == FtWrite(f) \/ FtWriteFails(f) \/ FtRead(f)
FollowerNext(f) == FollowerHandle(f) \/ FollowerClose(f)

Progress ==
    \/ ServerNext \/ OperNext \/ RecvNext \/ WriterNext
    \/ \E f \in Follower : FtNext(f) \/ FollowerNext(f) \/ Destory(f)
    \/ \E p \in Packet : ReuseBuffer(p)

Next == Progress \/ ReadPkg \/ ReadPkgFails \/ ReadEOF

\* Every step brings the connection nearer to its end, so that it is enough
\* that the goroutines as a whole do not stop while one of them can run without
\* a fault.  A client need not send its packets nor close a connection that
\* works; it closes one that has given it an error.
Spec == Init /\ [][Next]_vars /\ WF_vars(Progress /\ UNCHANGED faults)

\* The connection is gone and so are its resources.
Finished ==
    /\ exited = ReplHasExited
    /\ \A f \in Follower : sendCh[f] = <<>> /\ recvCh[f] = <<>> /\ conn[f] # "open"

-----------------------------------------------------------------------------
(* Properties                                                               *)

TypeOK ==
    /\ kind \in Kinds
    /\ server \in {"read", "leave", "gone"}
    /\ nread \in 0..Len(kind) /\ sent \in 0..nread
    /\ oper \in {Idle, Gone} \cup [p : Packet, i : 1..(NumFollowers + 1)]
    /\ receiver \in {Idle, Gone} \cup [p : Packet, i : Follower]
    /\ writer \in {"run", "gone"}
    /\ exited \in ReplHasExited..ReplRuning
    /\ \A s \in {toBeProcessedCh, responseCh, packetList} : s \in Seq(Packet)
    /\ ackCh \in 0..RequestChanSize
    /\ result \in [Packet -> {"init", "ok", "err"}]
    /\ extent \in [Packet -> Extent \cup {NoExtent}]
    /\ offset \in [Packet -> Nat]
    /\ released \cup dropped \cup freed \cup reused \subseteq Packet
    /\ lostAck \in BOOLEAN
    /\ replies \in Seq(Packet \X {"ok", "err"})
    /\ \A f \in Follower : /\ sendCh[f] \in Seq(Packet) /\ recvCh[f] \in Seq(Packet)
                           /\ wire[f] \in Seq([p : Packet, bytes : Packet \cup {0}])
                           /\ back[f] \in Seq([p : Packet, res : {"ok", "err"}])
    /\ conn \in [Follower -> {"none", "open", "closed"}]
    /\ peer \in [Follower -> BOOLEAN]
    /\ respCh \in [Packet -> [Follower -> {"none", "ok", "err", "deadline"}]]
    /\ \A r \in Replica, x \in Extent : file[r][x] \in Seq(Packet \cup {0})
    /\ available \cup broken \subseteq TinyExtents
    /\ faults \in 0..MaxFault

\* p is in its place in the file of replica r.
Stored(r, p) ==
    /\ offset[p] + 1 \in DOMAIN file[r][extent[p]]
    /\ file[r][extent[p]][offset[p] + 1] = p

\* A write the client was told has succeeded is in its place on every replica,
\* whatever failed, timed out or was answered out of turn before.
AckedOnAll ==
    \A i \in DOMAIN replies :
        LET p == replies[i][1]
        IN  replies[i][2] = "ok" => \A r \in Replica : Stored(r, p)

\* The files of an extent differ between replicas in length alone: no replica
\* takes the bytes of a buffer that was reused before its copy was sent, and
\* none skips a packet.
ReplicasAgree ==
    \A r, s \in Replica, x \in Extent :
        \A i \in DOMAIN file[r][x] \cap DOMAIN file[s][x] :
            file[r][x][i] = file[s][x][i] /\ file[r][x][i] # 0

\* A tiny extent is held by one packet or is in one of the two channels, and the
\* end of a connection leaves none held that no full channel has lost.
TinyReturned ==
    /\ available \cap broken = {}
    /\ \A p, q \in Packet : Holds(p) =>
          /\ extent[p] \notin available \cup broken
          /\ Holds(q) /\ extent[p] = extent[q] => p = q
    /\ exited = ReplHasExited => \A p \in Packet : Holds(p) => p \in dropped

\* Once the connection is stopped, or the client has gone, its goroutines and
\* transports all end, no one waiting for another.
StopEnds == ExitC ~> Finished

\* A write that was read is answered unless the connection is stopped or a
\* channel was full.
Answered ==
    \A p \in 1..2 :
        nread >= p ~> \/ ExitC \/ dropped # {} \/ lostAck \/ kind[p] = "read"
                      \/ \E i \in DOMAIN replies : replies[i][1] = p
=============================================================================
