----------------------------- MODULE EhHandler ------------------------------
(***************************************************************************)
(* What each operation of an extent handler does to it, its packets and its *)
(* extent key: the lemmas for the proofs about ExtentHandler.              *)
(***************************************************************************)
EXTENDS ExtentHandler, TLAPS

USE ZenonT(5), SMTT(60), ZenonT(60)

-----------------------------------------------------------------------------
(* The packets of a handler follow one another in the file.                *)

Pkt == [off : Nat, len : Nat \ {0}, err : Nat]
Msg == [off : Nat, len : Nat \ {0}, ext : Nat, eoff : Int]
Ack == [ok : BOOLEAN, eoff : Nat]
Key == [off : Nat, ext : Nat \cup {NoExtent}, eoff : Nat, size : Nat]

\* Where the packets of q begin, when they end at e.
Start(q, e) == IF q = <<>> THEN e ELSE Head(q).off

\* The packets of q follow one another and end at e.
Chain(q, e) ==
    \A i \in 1..Len(q) :
        q[i].off + q[i].len = IF i = Len(q) THEN e ELSE q[i + 1].off

\* The extents st hold the data of len units at off of the file, at eoff of ext.
Placed(st, ext, eoff, off, len) ==
    /\ ext \in DOMAIN st
    /\ \A j \in 0..(len - 1) :
          eoff + j < Len(st[ext]) /\ st[ext][eoff + j + 1] = off + j

Extents(st) == DOMAIN st \subseteq Nat /\ \A e \in DOMAIN st : st[e] \in Seq(Int)

\* The data nodes only add to what they have.
Grows(st, new) ==
    /\ Extents(st) /\ Extents(new)
    /\ DOMAIN st \subseteq DOMAIN new
    /\ \A e \in DOMAIN st :
          /\ Len(st[e]) <= Len(new[e])
          /\ \A i \in 1..Len(st[e]) : new[e][i] = st[e][i]

-----------------------------------------------------------------------------
(* The invariant of one handler.                                           *)

HandlerSet ==
    [status : {"open", "closed", "recovery", "error"}, mode : {"tiny", "normal"},
     off : Nat, size : Nat, packet : Pkt \cup {NoPacket}, inflight : Int,
     key : Key, dirty : BOOLEAN, dp : BOOLEAN, ext : Nat \cup {NoExtent},
     recoverHandler : Nat, request : Seq(Pkt), reply : Seq(Pkt),
     recv : {"idle", "read", "put"}, wire : Seq(Msg), resp : Seq(Ack),
     done : BOOLEAN, end : Nat]

\* The handler sends its packets and takes their answers.
Live(h) == h.recv = "read" \/ h.status \in {"open", "closed"}

\* Where the packets begin that are not acknowledged.
First(h) == Start(h.reply, Start(h.request, h.end))

\* The packets follow one another, behind the units of the key.
Queued(h) ==
    /\ Chain(h.request, h.end)
    /\ Chain(h.reply, Start(h.request, h.end))
    /\ h.inflight = Len(h.request) + Len(h.reply)
    /\ h.packet # NoPacket => h.packet.off = h.end
    /\ h.status = "open" => h.end + h.packet.len = h.off + h.size
    /\ h.recv # "idle" => h.reply # <<>>
    /\ Live(h) => First(h) = h.off + h.key.size

\* The key names units that are in their place.
Keyed(h, st) ==
    /\ \/ h.key = NoKey
       \/ /\ h.key.off = h.off /\ h.key.size > 0
          /\ Placed(st, h.key.ext, h.key.eoff, h.key.off, h.key.size)
          /\ h.dp => h.key.ext = h.ext
          /\ h.mode = "normal" => h.key.ext # TinyExtent
    /\ h.mode = "tiny" /\ (Live(h) \/ ~h.dp) => h.key = NoKey

\* What is on the wire goes to the extent of the handler.
Wired(h, st) ==
    /\ h.dp => h.ext \in DOMAIN st /\ (h.ext = TinyExtent <=> h.mode = "tiny")
    /\ ~h.dp => h.wire = <<>> /\ h.resp = <<>>
    /\ \A i \in 1..Len(h.wire) : h.wire[i].ext = h.ext

\* The place of packet p in the extent of a normal handler.
Place(h, p) == p.off - h.off + h.key.eoff

\* The packets on the wire and the answers are those of the packets the receiver
\* has before it, in their order.
Aligned(h, st) ==
    /\ Len(h.resp) + Len(h.wire) <= Len(h.reply)
    /\ h.status \in {"open", "closed"} => Len(h.resp) + Len(h.wire) = Len(h.reply)
    /\ \A i \in 1..Len(h.wire) :
          /\ h.wire[i].off = h.reply[Len(h.resp) + i].off
          /\ h.wire[i].len = h.reply[Len(h.resp) + i].len
          /\ h.mode = "normal" => h.wire[i].eoff = Place(h, h.reply[Len(h.resp) + i])
    /\ \A i \in 1..Len(h.resp) : h.resp[i].ok =>
          /\ Placed(st, h.ext, h.resp[i].eoff, h.reply[i].off, h.reply[i].len)
          /\ h.mode = "normal" => h.resp[i].eoff = Place(h, h.reply[i])

\* A handler has no recovery handler while it is live.
Recovers(h) ==
    /\ Live(h) => h.recoverHandler = 0
    /\ h.recv = "put" => h.recoverHandler # 0

Good(h, st) ==
    /\ h \in HandlerSet
    /\ Queued(h) /\ Keyed(h, st) /\ Wired(h, st) /\ Recovers(h)
    /\ h.packet.err = 0
    /\ Live(h) => Aligned(h, st)

\* What the handler has is inside a file of size n.
Within(h, n) ==
    /\ h.off + h.size <= n /\ h.end <= n
    /\ h.packet.off + h.packet.len <= n
    /\ h.off + h.key.size <= n
    /\ \A i \in 1..Len(h.request) : h.request[i].off + h.request[i].len <= n
    /\ \A i \in 1..Len(h.reply) : h.reply[i].off + h.reply[i].len <= n

\* Where the recovery handler of h goes on.
Onward(h) == IF h.recv = "put" THEN Head(h.reply).off + Head(h.reply).len
                               ELSE First(h)

-----------------------------------------------------------------------------
(* The inductive invariant.                                                *)

\* A handler in recovery moves its packets to a handler of its own, that takes
\* no other ones.
Linked(hs) ==
    \A i \in 1..Len(hs) : hs[i].recoverHandler # 0 =>
        LET r == hs[i].recoverHandler
        IN  /\ r \in 1..Len(hs) /\ r # i
            /\ hs[r].status # "open" /\ hs[r].packet = NoPacket
            /\ hs[i].status = "recovery" => hs[r].end = Onward(hs[i])
            /\ \A j \in 1..Len(hs) : j # i => hs[j].recoverHandler # r

\* The handlers hs fit the extents st and a file of size n.
Fit(hs, st, n) ==
    /\ hs \in Seq(HandlerSet)
    /\ \A i \in 1..Len(hs) : Good(hs[i], st) /\ Within(hs[i], n)
    /\ Linked(hs)

Cached ==
    \A k \in cache :
        /\ k \in Key
        /\ k.ext # NoExtent =>
              k.size > 0 /\ Placed(store, k.ext, k.eoff, k.off, k.size)
        /\ k.off + k.size <= fsize

Published ==
    /\ \A o \in DOMAIN meta : o \in Nat /\ meta[o].eoff \in Nat
    /\ KeysBacked

Pcs == {"idle", "write", "close", "closeWait", "flush", "flushWait", "asyncWait",
        "asyncFail", "abort", "aborting", "traverse", "traverseWait"}

Serving ==
    /\ pc \in Pcs
    /\ pc = "closeWait" => handler # 0
    /\ pc \in {"flushWait", "traverseWait"} => dirtylist # <<>>
    /\ pc = "write" => call.op = "write"
    /\ pc \in {"traverse", "traverseWait"} => call.op = "tick"
    /\ call.op = "write" => call.n \in Sizes /\ fsize + call.n <= limit

Types ==
    /\ handler \in 0..Len(eh)
    /\ dirtylist \in Seq(Id)
    /\ fsize \in Nat /\ limit \in 0..MaxSize /\ fsize <= limit
    /\ synced \in 0..fsize
    /\ call = [op |-> call.op, n |-> call.n, wait |-> call.wait]
    /\ Extents(store) /\ TinyExtent \in DOMAIN store

IndInv == Types /\ Serving /\ Fit(eh, store, fsize) /\ Cached /\ Published

-----------------------------------------------------------------------------
(* Sequences.                                                              *)

\* The empty sequence is one over every set.
LEMMA EmptySeqs == \A S : <<>> \in Seq(S)
  OBVIOUS

\* A sequence is empty when its length is 0.
LEMMA EmptyLen ==
    ASSUME NEW S, NEW s \in Seq(S)
    PROVE  s = <<>> <=> Len(s) = 0
  OBVIOUS

\* What Append does to the length and to the members.
LEMMA AppendFacts ==
    ASSUME NEW S, NEW s \in Seq(S), NEW e \in S
    PROVE  /\ Append(s, e) \in Seq(S) /\ Append(s, e) # <<>>
           /\ Len(Append(s, e)) = Len(s) + 1
           /\ \A i \in 1..Len(s) : Append(s, e)[i] = s[i]
           /\ Append(s, e)[Len(s) + 1] = e
  OBVIOUS

\* To append is to concatenate a sequence of one.
LEMMA AppendSingle ==
    ASSUME NEW S, NEW s \in Seq(S), NEW e \in S
    PROVE  Append(s, e) = s \o <<e>>
  OBVIOUS

\* Only the first packet that is appended changes the head.
LEMMA HeadAppend ==
    ASSUME NEW S, NEW s \in Seq(S), NEW e \in S
    PROVE  Head(Append(s, e)) = IF s = <<>> THEN e ELSE Head(s)
  OBVIOUS

\* The length and the members of a concatenation.
LEMMA ConcatFacts ==
    ASSUME NEW S, NEW s \in Seq(S), NEW t \in Seq(S)
    PROVE  /\ s \o t \in Seq(S)
           /\ Len(s \o t) = Len(s) + Len(t)
           /\ \A i \in 1..(Len(s) + Len(t)) :
                (s \o t)[i] = IF i <= Len(s) THEN s[i] ELSE t[i - Len(s)]
  OBVIOUS

\* The length and the members of a tail.
LEMMA TailFacts ==
    ASSUME NEW S, NEW s \in Seq(S), s # <<>>
    PROVE  /\ Head(s) \in S /\ Tail(s) \in Seq(S)
           /\ Len(Tail(s)) = Len(s) - 1
           /\ \A i \in 1..Len(Tail(s)) : Tail(s)[i] = s[i + 1]
  OBVIOUS

\* The head is the first member.
LEMMA HeadFirst ==
    ASSUME NEW S, NEW s \in Seq(S), s # <<>>
    PROVE  Head(s) \in S /\ Head(s) = s[1] /\ 1 \in 1..Len(s)
<1>1. Head(s) \in S /\ Head(s) = s[1]
  OBVIOUS
<1>2. Len(s) \in Nat /\ Len(s) # 0
  BY EmptyLen
<1> QED
  BY <1>1, <1>2

\* A packet behind the others: pushToRequest, and a send.
LEMMA ChainAppend ==
    ASSUME NEW q \in Seq(Pkt), NEW p \in Pkt, Chain(q, p.off)
    PROVE  /\ Chain(Append(q, p), p.off + p.len)
           /\ \A e : Start(Append(q, p), e) = Start(q, p.off)
<1>1. Append(q, p) \in Seq(Pkt) /\ Len(Append(q, p)) = Len(q) + 1
  BY AppendFacts
<1>2. \A i \in 1..Len(q) : Append(q, p)[i] = q[i]
  BY AppendFacts
<1>3. Append(q, p)[Len(q) + 1] = p
  BY AppendFacts
<1>4. Chain(Append(q, p), p.off + p.len)
  <2> SUFFICES ASSUME NEW i \in 1..(Len(q) + 1)
               PROVE  Append(q, p)[i].off + Append(q, p)[i].len =
                        IF i = Len(q) + 1 THEN p.off + p.len
                                          ELSE Append(q, p)[i + 1].off
    BY <1>1 DEF Chain
  <2>1. CASE i = Len(q) + 1
    BY <2>1, <1>3
  <2>2. CASE i \in 1..Len(q)
    <3>1. q[i].off + q[i].len = IF i = Len(q) THEN p.off ELSE q[i + 1].off
      BY <2>2 DEF Chain
    <3>2. Append(q, p)[i + 1].off = IF i = Len(q) THEN p.off ELSE q[i + 1].off
      BY <2>2, <1>2, <1>3
    <3> QED
      BY <3>1, <3>2, <2>2, <1>2
  <2> QED
    BY <2>1, <2>2
<1>5. ASSUME NEW e
      PROVE  Start(Append(q, p), e) = Start(q, p.off)
  <2>1. Append(q, p) # <<>>
    BY AppendFacts
  <2>2. Head(Append(q, p)) = IF q = <<>> THEN p ELSE Head(q)
    BY HeadAppend
  <2> QED
    BY <2>1, <2>2 DEF Start
<1> QED
  BY <1>4, <1>5

\* The first packet leaves.
LEMMA ChainTail ==
    ASSUME NEW q \in Seq(Pkt), q # <<>>, NEW e \in Nat, Chain(q, e)
    PROVE  /\ Chain(Tail(q), e)
           /\ Start(Tail(q), e) = Head(q).off + Head(q).len
           /\ Head(q) \in Pkt
<1>1. Tail(q) \in Seq(Pkt) /\ Len(Tail(q)) = Len(q) - 1 /\ Len(q) > 0
  BY TailFacts
<1>2. \A i \in 1..(Len(q) - 1) : Tail(q)[i] = q[i + 1]
  BY TailFacts
<1>3. Chain(Tail(q), e)
  <2> SUFFICES ASSUME NEW i \in 1..(Len(q) - 1)
               PROVE  Tail(q)[i].off + Tail(q)[i].len =
                        IF i = Len(q) - 1 THEN e ELSE Tail(q)[i + 1].off
    BY <1>1 DEF Chain
  <2>1. q[i + 1].off + q[i + 1].len = IF i + 1 = Len(q) THEN e ELSE q[i + 1 + 1].off
    BY DEF Chain
  <2> QED
    BY <2>1, <1>2
<1>4. Head(q) = q[1] /\ Head(q) \in Pkt
  OBVIOUS
<1>5. q[1].off + q[1].len = IF 1 = Len(q) THEN e ELSE q[1 + 1].off
  <2>1. 1 \in 1..Len(q)
    BY <1>1
  <2> QED
    BY <2>1 DEF Chain
<1>6. CASE Len(q) = 1
  <2>1. Len(Tail(q)) = 0
    BY <1>1, <1>6
  <2>2. Tail(q) = <<>>
    BY <2>1, <1>1, EmptyLen
  <2> QED
    BY <2>2, <1>3, <1>4, <1>5, <1>6 DEF Start
<1>7. CASE Len(q) # 1
  <2>0. Len(Tail(q)) # 0
    BY <1>1, <1>7
  <2>1. Tail(q) # <<>>
    BY <2>0, <1>1, EmptyLen
  <2>2. Head(Tail(q)) = Tail(q)[1]
    BY <2>1, <1>1
  <2>3. Tail(q)[1] = q[2]
    BY <1>1, <1>2, <1>7
  <2> QED
    BY <2>1, <2>2, <2>3, <1>3, <1>4, <1>5, <1>7 DEF Start
<1> QED
  BY <1>6, <1>7

\* A chain of packets begins at an offset of the file.
LEMMA StartType ==
    ASSUME NEW q \in Seq(Pkt), NEW e \in Nat
    PROVE  Start(q, e) \in Nat
<1>1. q # <<>> => Head(q) \in Pkt
  OBVIOUS
<1> QED
  BY <1>1 DEF Start, Pkt

-----------------------------------------------------------------------------
(* The extents of the data nodes.                                          *)

\* Data that are in their place stay there, for data nodes only append.
LEMMA PlacedGrows ==
    ASSUME NEW st, NEW new, Grows(st, new), NEW ext, NEW eoff \in Nat, NEW off,
           NEW len, Placed(st, ext, eoff, off, len)
    PROVE  Placed(new, ext, eoff, off, len)
<1>1. ext \in DOMAIN new
  BY DEF Grows, Placed
<1>2. ASSUME NEW j \in 0..(len - 1)
      PROVE  eoff + j < Len(new[ext]) /\ new[ext][eoff + j + 1] = off + j
  <2>1. st[ext] \in Seq(Int) /\ new[ext] \in Seq(Int)
    BY <1>1 DEF Grows, Extents, Placed
  <2>2. eoff + j < Len(st[ext]) /\ st[ext][eoff + j + 1] = off + j
    BY <1>2 DEF Placed
  <2>3. Len(st[ext]) <= Len(new[ext])
    BY DEF Grows, Placed
  <2>4. eoff + j + 1 \in 1..Len(st[ext])
    BY <2>1, <2>2
  <2>5. new[ext][eoff + j + 1] = st[ext][eoff + j + 1]
    BY <2>4 DEF Grows, Placed
  <2> QED
    BY <2>1, <2>2, <2>3, <2>5
<1> QED
  BY <1>1, <1>2 DEF Placed

-----------------------------------------------------------------------------
(* What a handler does to itself.                                          *)

\* The types of the fields of a handler.
LEMMA Fields ==
    ASSUME NEW h \in HandlerSet
    PROVE  /\ h.status \in {"open", "closed", "recovery", "error"}
           /\ h.mode \in {"tiny", "normal"}
           /\ h.off \in Nat /\ h.size \in Nat
           /\ h.packet \in Pkt \cup {NoPacket} /\ h.inflight \in Int
           /\ h.key \in Key /\ h.dirty \in BOOLEAN /\ h.dp \in BOOLEAN
           /\ h.ext \in Nat \cup {NoExtent} /\ h.recoverHandler \in Nat
           /\ h.request \in Seq(Pkt) /\ h.reply \in Seq(Pkt)
           /\ h.recv \in {"idle", "read", "put"}
           /\ h.wire \in Seq(Msg) /\ h.resp \in Seq(Ack)
           /\ h.done \in BOOLEAN /\ h.end \in Nat
BY DEF HandlerSet

\* A handler that is right stays so when extents grow.
LEMMA GoodGrows ==
    ASSUME NEW h, NEW st, NEW new, Good(h, st), Grows(st, new)
    PROVE  Good(h, new)
<1>1. h \in HandlerSet
  BY DEF Good
<1>2. Keyed(h, new)
  <2>1. Keyed(h, st)
    BY DEF Good
  <2>2. h.key.eoff \in Nat
    BY <1>1, Fields DEF Key
  <2>3. ASSUME Placed(st, h.key.ext, h.key.eoff, h.key.off, h.key.size)
        PROVE  Placed(new, h.key.ext, h.key.eoff, h.key.off, h.key.size)
    BY <2>2, <2>3, PlacedGrows
  <2> QED
    BY <2>1, <2>3 DEF Keyed
<1>3. Wired(h, new)
  BY DEF Good, Wired, Grows
<1>4. ASSUME Live(h)
      PROVE  Aligned(h, new)
  <2>1. Aligned(h, st)
    BY <1>4 DEF Good
  <2>2. ASSUME NEW i \in 1..Len(h.resp),
               Placed(st, h.ext, h.resp[i].eoff, h.reply[i].off, h.reply[i].len)
        PROVE  Placed(new, h.ext, h.resp[i].eoff, h.reply[i].off, h.reply[i].len)
    <3>1. h.resp[i] \in Ack
      BY <1>1, Fields
    <3>2. h.resp[i].eoff \in Nat
      BY <3>1 DEF Ack
    <3> QED
      BY <2>2, <3>2, PlacedGrows
  <2> QED
    BY <2>1, <2>2 DEF Aligned
<1> QED
  BY <1>1, <1>2, <1>3, <1>4 DEF Good

\* Aligned depends on the packets, the answers and the place of the handler alone.
LEMMA AlignedSame ==
    ASSUME NEW h, NEW g, NEW st, Aligned(h, st),
           g.resp = h.resp /\ g.wire = h.wire /\ g.reply = h.reply
           /\ g.mode = h.mode /\ g.ext = h.ext,
           g.status \in {"open", "closed"} => h.status \in {"open", "closed"},
           \A p : Place(g, p) = Place(h, p)
    PROVE  Aligned(g, st)
<1>1. \A i \in 1..Len(g.wire) :
        /\ g.wire[i].off = g.reply[Len(g.resp) + i].off
        /\ g.wire[i].len = g.reply[Len(g.resp) + i].len
        /\ g.mode = "normal" => g.wire[i].eoff = Place(g, g.reply[Len(g.resp) + i])
  BY DEF Aligned
<1>2. \A i \in 1..Len(g.resp) : g.resp[i].ok =>
        /\ Placed(st, g.ext, g.resp[i].eoff, g.reply[i].off, g.reply[i].len)
        /\ g.mode = "normal" => g.resp[i].eoff = Place(g, g.reply[i])
  BY DEF Aligned
<1> QED
  BY <1>1, <1>2 DEF Aligned

\* The recovery handler of a handler goes on as before.
Kept(h, g) ==
    /\ g.recoverHandler = h.recoverHandler
    /\ h.status # "open" => g.status # "open"
    /\ h.status # "open" /\ h.packet = NoPacket => g.packet = NoPacket /\ g.end = h.end
    /\ h.recoverHandler # 0 /\ g.status = "recovery" =>
          h.status = "recovery" /\ Onward(g) = Onward(h)

\* A handler that only changes its status, and the flags done and dirty.
Turned(h, g) ==
    /\ g \in HandlerSet
    /\ g.mode = h.mode /\ g.off = h.off /\ g.size = h.size /\ g.packet = h.packet
    /\ g.inflight = h.inflight /\ g.key = h.key /\ g.dp = h.dp /\ g.ext = h.ext
    /\ g.recoverHandler = h.recoverHandler /\ g.request = h.request
    /\ g.reply = h.reply /\ g.recv = h.recv /\ g.wire = h.wire
    /\ g.resp = h.resp /\ g.end = h.end
    /\ \/ g.status = h.status
       \/ h.status = "open"
       \/ h.status = "closed" /\ g.status # "open"
       \/ h.status = "recovery" /\ g.status = "error"

\* A change of status and flags (setClosed, setError, cleanup) keeps a handler right.
LEMMA TurnedGood ==
    ASSUME NEW h, NEW g, NEW st, NEW n, Good(h, st), Within(h, n), Turned(h, g)
    PROVE  Good(g, st) /\ Within(g, n) /\ Kept(h, g)
<1>1. Live(g) => Live(h)
  BY Fields DEF Live, Turned, Good
<1>2. h.recoverHandler # 0 => ~Live(h)
  BY DEF Good, Recovers
<1>3. First(g) = First(h) /\ Onward(g) = Onward(h)
  BY DEF First, Onward, Turned
<1>4. Queued(g)
  <2>1. Queued(h)
    BY DEF Good
  <2>2. g.status = "open" => h.status = "open"
    BY DEF Turned
  <2> QED
    BY <2>1, <2>2, <1>1, <1>3 DEF Queued, Turned
<1>5. Keyed(g, st)
  BY <1>1 DEF Keyed, Good, Turned
<1>6. Wired(g, st)
  BY DEF Wired, Good, Turned
<1>7. Recovers(g)
  BY <1>1 DEF Recovers, Good, Turned
<1>8. ASSUME Live(g)
      PROVE  Aligned(g, st)
  <2>1. Aligned(h, st)
    BY <1>8, <1>1 DEF Good
  <2>2. g.status \in {"open", "closed"} => h.status \in {"open", "closed"}
    BY DEF Turned
  <2>3. \A p : Place(g, p) = Place(h, p)
    BY DEF Place, Turned
  <2>4. g.resp = h.resp /\ g.wire = h.wire /\ g.reply = h.reply
        /\ g.mode = h.mode /\ g.ext = h.ext
    BY DEF Turned
  <2> QED
    BY <2>1, <2>2, <2>3, <2>4, AlignedSame
<1>9. Kept(h, g)
  BY <1>2, <1>3, Fields DEF Kept, Turned, Live, Good
<1>10. Within(g, n)
  BY DEF Within, Turned
<1> QED
  BY <1>4, <1>5, <1>6, <1>7, <1>8, <1>9, <1>10 DEF Good, Turned

\* No change is such a change.
LEMMA TurnedSelf ==
    ASSUME NEW h \in HandlerSet
    PROVE  Turned(h, h)
BY DEF Turned

\* Two such changes are one.
LEMMA TurnedOn ==
    ASSUME NEW f \in HandlerSet, NEW g, NEW h, Turned(f, g), Turned(g, h)
    PROVE  Turned(f, h)
BY DEF Turned

\* A status changes from open to closed to recovery to error only.
LEMMA StatusTurned ==
    ASSUME NEW h \in HandlerSet, NEW s \in {"open", "closed", "recovery", "error"},
           \/ s = h.status
           \/ h.status = "open"
           \/ h.status = "closed" /\ s # "open"
           \/ h.status = "recovery" /\ s = "error"
    PROVE  Turned(h, [h EXCEPT !.status = s])
BY DEF Turned, HandlerSet

\* dirty and done say nothing of the packets.
LEMMA FlagsTurned ==
    ASSUME NEW h \in HandlerSet, NEW b \in BOOLEAN
    PROVE  Turned(h, [h EXCEPT !.done = b]) /\ Turned(h, [h EXCEPT !.dirty = b])
BY DEF Turned, HandlerSet

\* setClosed changes the status alone.
LEMMA SetClosedTurned ==
    ASSUME NEW h \in HandlerSet
    PROVE  Turned(h, SetClosed(h)) /\ SetClosed(h) \in HandlerSet
<1>1. (IF h.status = "open" THEN "closed" ELSE h.status) \in
        {"open", "closed", "recovery", "error"}
  BY Fields
<1>2. Turned(h, SetClosed(h))
  BY <1>1, StatusTurned DEF SetClosed
<1> QED
  BY <1>2 DEF Turned

\* A sender that gives up leaves a handler that is not open.
LEMMA GiveUpTurned ==
    ASSUME NEW h \in HandlerSet
    PROVE  /\ Turned(h, GiveUp(h)) /\ GiveUp(h) \in HandlerSet
           /\ GiveUp(h).status \in {"recovery", "error"}
<1> DEFINE g == SetClosed(h)
           s == IF g.status = "closed" THEN "recovery" ELSE g.status
<1>1. Turned(h, g) /\ g \in HandlerSet
  BY SetClosedTurned
<1>2. g.status = IF h.status = "open" THEN "closed" ELSE h.status
  BY DEF SetClosed, HandlerSet
<1>3. s \in {"recovery", "error"}
  BY <1>2, Fields
<1>4. GiveUp(h) = [g EXCEPT !.status = s]
  BY DEF GiveUp, SetRecovery
<1>5. Turned(g, GiveUp(h))
  <2> HIDE DEF s, g
  <2>1. \/ s = g.status
        \/ g.status = "closed" /\ s # "open"
    BY <1>3 DEF s
  <2> QED
    BY <2>1, <1>1, <1>3, <1>4, StatusTurned
<1>6. GiveUp(h).status = s
  <2> HIDE DEF s, g
  <2> QED
    BY <1>1, <1>4 DEF HandlerSet
<1> QED
  BY <1>1, <1>3, <1>5, <1>6, TurnedOn DEF Turned

\* setError changes the status alone.
LEMMA SetErrorTurned ==
    ASSUME NEW h \in HandlerSet
    PROVE  /\ Turned(h, SetError(h)) /\ SetError(h) \in HandlerSet
           /\ h.status # "open" => SetError(h).status # "open"
           /\ h.status \in {"recovery", "error"} => SetError(h).status = "error"
<1>1. (IF h.status = "recovery" THEN "error" ELSE h.status) \in
        {"open", "closed", "recovery", "error"}
  BY Fields
<1>2. Turned(h, SetError(h))
  BY <1>1, StatusTurned DEF SetError
<1>3. SetError(h).status = IF h.status = "recovery" THEN "error" ELSE h.status
  BY DEF SetError, HandlerSet
<1> QED
  BY <1>2, <1>3 DEF Turned

\* cleanup closes the handler and ends its goroutines.
LEMMA CleanupTurned ==
    ASSUME NEW h \in HandlerSet
    PROVE  Turned(h, Cleanup(h)) /\ Cleanup(h) \in HandlerSet
<1>1. Turned(h, SetClosed(h)) /\ SetClosed(h) \in HandlerSet
  BY SetClosedTurned
<1>2. Turned(SetClosed(h), Cleanup(h))
  BY <1>1, FlagsTurned DEF Cleanup
<1> QED
  BY <1>1, <1>2, TurnedOn DEF Turned

\* A chain that ends where another begins makes one chain with it.
LEMMA ChainConcat ==
    ASSUME NEW q \in Seq(Pkt), NEW r \in Seq(Pkt), NEW e \in Nat,
           Chain(q, Start(r, e)), Chain(r, e)
    PROVE  Chain(q \o r, e) /\ Start(q \o r, e) = Start(q, Start(r, e))
<1>1. q \o r \in Seq(Pkt) /\ Len(q \o r) = Len(q) + Len(r)
  BY ConcatFacts
<1>2. \A i \in 1..Len(q) : (q \o r)[i] = q[i]
  BY ConcatFacts
<1>3. \A i \in 1..Len(r) : (q \o r)[Len(q) + i] = r[i]
  BY ConcatFacts
<1>4. r # <<>> => Len(r) > 0 /\ Head(r) = r[1]
  BY EmptyLen
<1>5. q # <<>> => Len(q) > 0 /\ Head(q) = q[1]
  BY EmptyLen
<1>6. Chain(q \o r, e)
  <2> SUFFICES ASSUME NEW i \in 1..(Len(q) + Len(r))
               PROVE  (q \o r)[i].off + (q \o r)[i].len =
                        IF i = Len(q) + Len(r) THEN e ELSE (q \o r)[i + 1].off
    BY <1>1 DEF Chain
  <2>1. CASE i > Len(q)
    <3>1. PICK j \in 1..Len(r) : i = Len(q) + j
      <4>1. i - Len(q) \in 1..Len(r) /\ i = Len(q) + (i - Len(q))
        BY <2>1
      <4> QED
        BY <4>1
    <3>2. r[j].off + r[j].len = IF j = Len(r) THEN e ELSE r[j + 1].off
      BY DEF Chain
    <3>3. (q \o r)[i] = r[j]
      BY <3>1, <1>3
    <3>4. CASE j = Len(r)
      BY <3>1, <3>2, <3>3, <3>4
    <3>5. CASE j # Len(r)
      <4>1. j + 1 \in 1..Len(r) /\ i + 1 = Len(q) + (j + 1) /\ i # Len(q) + Len(r)
        BY <3>1, <3>5
      <4>2. (q \o r)[i + 1] = r[j + 1]
        BY <4>1, <1>3
      <4> QED
        BY <4>1, <4>2, <3>2, <3>3, <3>5
    <3> QED
      BY <3>4, <3>5
  <2>2. CASE i <= Len(q)
    <3>0. i \in 1..Len(q)
      BY <2>2
    <3>1. q[i].off + q[i].len = IF i = Len(q) THEN Start(r, e) ELSE q[i + 1].off
      BY <3>0 DEF Chain
    <3>2. (q \o r)[i] = q[i]
      BY <3>0, <1>2
    <3>3. CASE i # Len(q)
      <4>1. i + 1 \in 1..Len(q) /\ i # Len(q) + Len(r)
        BY <3>0, <3>3
      <4> QED
        BY <4>1, <3>1, <3>2, <3>3, <1>2
    <3>4. CASE i = Len(q) /\ r = <<>>
      BY <3>1, <3>2, <3>4 DEF Start
    <3>5. CASE i = Len(q) /\ r # <<>>
      <4>1. 1 \in 1..Len(r) /\ i # Len(q) + Len(r)
        BY <3>5, <1>4
      <4>2. (q \o r)[i + 1] = r[1]
        BY <4>1, <3>5, <1>3
      <4> QED
        BY <4>1, <4>2, <3>1, <3>2, <3>5, <1>4 DEF Start
    <3> QED
      BY <3>3, <3>4, <3>5
  <2> QED
    BY <2>1, <2>2
<1>7. Start(q \o r, e) = Start(q, Start(r, e))
  <2>1. CASE q = <<>>
    <3>1. q \o r = r
      BY <2>1
    <3> QED
      BY <2>1, <3>1 DEF Start
  <2>2. CASE q # <<>>
    <3>1. Len(q \o r) > 0 /\ 1 \in 1..Len(q)
      BY <2>2, <1>1, <1>5
    <3>2. q \o r # <<>>
      BY <3>1, <1>1, EmptyLen
    <3>3. Head(q \o r) = (q \o r)[1]
      BY <3>2, <1>1
    <3> QED
      BY <3>1, <3>2, <3>3, <2>2, <1>2, <1>5 DEF Start
  <2> QED
    BY <2>1, <2>2
<1> QED
  BY <1>6, <1>7

\* A handler that takes the packets q behind those it has.
Took(h, q, g) ==
    /\ g \in HandlerSet
    /\ g.status = h.status /\ g.mode = h.mode /\ g.off = h.off /\ g.key = h.key
    /\ g.dp = h.dp /\ g.ext = h.ext /\ g.recoverHandler = h.recoverHandler
    /\ g.reply = h.reply /\ g.recv = h.recv /\ g.wire = h.wire /\ g.resp = h.resp
    /\ g.request = h.request \o q /\ g.inflight = h.inflight + Len(q)

\* A handler that takes packets behind its last one is right.
LEMMA TookGood ==
    ASSUME NEW h, NEW g, NEW st, NEW q \in Seq(Pkt), Good(h, st), Took(h, q, g),
           Chain(q, g.end), Start(q, g.end) = h.end,
           g.packet # NoPacket => g.packet.off = g.end, g.packet.err = 0,
           g.status = "open" => g.end + g.packet.len = g.off + g.size
    PROVE  Good(g, st) /\ Onward(g) = Onward(h)
<1>1. h \in HandlerSet /\ g \in HandlerSet
  BY DEF Good, Took
<1>2. h.request \in Seq(Pkt) /\ g.end \in Nat /\ Len(h.request) \in Nat /\ Len(h.reply) \in Nat
  BY <1>1, Fields
<1>3. Chain(h.request, h.end) /\ Chain(h.reply, Start(h.request, h.end))
  BY DEF Good, Queued
<1>4. Chain(g.request, g.end) /\ Start(g.request, g.end) = Start(h.request, h.end)
  <2>1. Chain(h.request \o q, g.end)
        /\ Start(h.request \o q, g.end) = Start(h.request, Start(q, g.end))
    BY <1>2, <1>3, ChainConcat
  <2> QED
    BY <2>1 DEF Took
<1>5. First(g) = First(h) /\ Onward(g) = Onward(h)
  BY <1>4 DEF First, Onward, Took
<1>6. Live(g) <=> Live(h)
  BY DEF Live, Took
<1>7. g.inflight = Len(g.request) + Len(g.reply)
  <2>1. Len(h.request \o q) = Len(h.request) + Len(q)
    BY <1>2, ConcatFacts
  <2>2. h.inflight = Len(h.request) + Len(h.reply)
    BY DEF Good, Queued
  <2> QED
    <3>1. Len(g.request) = Len(h.request) + Len(q) /\ Len(g.reply) = Len(h.reply)
      BY <2>1 DEF Took
    <3>2. g.inflight = h.inflight + Len(q) /\ Len(q) \in Nat
      BY DEF Took
    <3>3. \A a, b, c \in Nat : (a + b) + c = (a + c) + b
      OBVIOUS
    <3>4. g.inflight = (Len(h.request) + Len(h.reply)) + Len(q)
      BY <3>2, <2>2
    <3>5. @ = (Len(h.request) + Len(q)) + Len(h.reply)
      BY <3>2, <3>3, <1>2
    <3> QED
      BY <3>1, <3>4, <3>5
<1>8. Queued(g)
  <2>1. h.recv # "idle" => h.reply # <<>>
    BY DEF Good, Queued
  <2>2. Live(h) => First(h) = h.off + h.key.size
    BY DEF Good, Queued
  <2>3. g.reply = h.reply /\ g.recv = h.recv /\ g.off = h.off /\ g.key = h.key
    BY DEF Took
  <2> QED
    BY <2>1, <2>2, <2>3, <1>3, <1>4, <1>5, <1>6, <1>7 DEF Queued
<1>9. Keyed(g, st) /\ Wired(g, st) /\ Recovers(g)
  BY <1>6 DEF Good, Keyed, Wired, Recovers, Took
<1>10. ASSUME Live(g)
       PROVE  Aligned(g, st)
  <2>1. Aligned(h, st)
    BY <1>10, <1>6 DEF Good
  <2>2. \A p : Place(g, p) = Place(h, p)
    BY DEF Place, Took
  <2>3. g.resp = h.resp /\ g.wire = h.wire /\ g.reply = h.reply
        /\ g.mode = h.mode /\ g.ext = h.ext /\ g.status = h.status
    BY DEF Took
  <2> QED
    BY <2>1, <2>2, <2>3, AlignedSame
<1> QED
  BY <1>1, <1>5, <1>8, <1>9, <1>10 DEF Good

\* One packet is pushed.
LEMMA PushToRequestGood ==
    ASSUME NEW h, NEW p \in Pkt, NEW st, NEW n \in Nat, Good(h, st), Within(h, n),
           p.off = h.end, p.off + p.len <= n,
           h.status = "open" => p.off + p.len = h.off + h.size,
           NEW g, g = [PushToRequest(h, p) EXCEPT !.packet = NoPacket]
    PROVE  Good(g, st) /\ Within(g, n) /\ Onward(g) = Onward(h)
<1>1. h \in HandlerSet
  BY DEF Good
<1>2. h.request \in Seq(Pkt) /\ p.off \in Nat /\ p.len \in Nat /\ h.inflight \in Int
  BY <1>1, Fields DEF Pkt
<1>3. Append(h.request, p) \in Seq(Pkt) /\ h.inflight + 1 \in Int /\ p.off + p.len \in Nat
  BY <1>2
<1>4. /\ g \in HandlerSet
      /\ g.status = h.status /\ g.mode = h.mode /\ g.off = h.off /\ g.key = h.key
      /\ g.dp = h.dp /\ g.ext = h.ext /\ g.recoverHandler = h.recoverHandler
      /\ g.reply = h.reply /\ g.recv = h.recv /\ g.wire = h.wire /\ g.resp = h.resp
      /\ g.request = Append(h.request, p) /\ g.inflight = h.inflight + 1
      /\ g.packet = NoPacket /\ g.end = p.off + p.len /\ g.size = h.size
  BY <1>1, <1>3 DEF PushToRequest, HandlerSet
<1>5. <<p>> \in Seq(Pkt) /\ Len(<<p>>) = 1 /\ Append(h.request, p) = h.request \o <<p>>
  BY <1>2, AppendSingle
<1>6. Took(h, <<p>>, g)
  BY <1>4, <1>5 DEF Took
<1>7. Chain(<<p>>, g.end) /\ Start(<<p>>, g.end) = h.end
  <2>1. \A i \in 1..Len(<<p>>) : i = Len(<<p>>) /\ <<p>>[i] = p
    BY <1>5
  <2>2. Chain(<<p>>, g.end)
    BY <2>1, <1>4 DEF Chain
  <2>3. <<p>> # <<>> /\ Head(<<p>>) = p
    BY <1>5
  <2> QED
    BY <2>2, <2>3 DEF Start
<1>8. g.status = "open" => g.end + g.packet.len = g.off + g.size
  <2>1. g.packet.len = 0
    BY <1>4 DEF NoPacket
  <2> QED
    BY <2>1, <1>2, <1>4
<1>9. Good(g, st) /\ Onward(g) = Onward(h)
  <2>1. g.packet.err = 0
    BY <1>4 DEF NoPacket
  <2> QED
    <3>1. g.packet # NoPacket => g.packet.off = g.end
      BY <1>4
    <3>2. <<p>> \in Seq(Pkt)
      BY <1>5
    <3> QED
      BY <2>1, <3>1, <3>2, <1>6, <1>7, <1>8, TookGood, Zenon
<1>10. Within(g, n)
  <2>1. ASSUME NEW i \in 1..Len(g.request)
        PROVE  g.request[i].off + g.request[i].len <= n
    <3>1. g.request[i] = p \/ (i \in 1..Len(h.request) /\ g.request[i] = h.request[i])
      BY <1>2, <1>4
    <3> QED
      BY <3>1 DEF Within
  <2>2. g.packet.off + g.packet.len <= n
    BY <1>4 DEF NoPacket
  <2> QED
    BY <2>1, <2>2, <1>4 DEF Within
<1> QED
  BY <1>9, <1>10

\* flushPacket pushes the packet being filled behind the others.
LEMMA FlushPacketGood ==
    ASSUME NEW h, NEW st, NEW n \in Nat, Good(h, st), Within(h, n)
    PROVE  Good(FlushPacket(h), st) /\ Within(FlushPacket(h), n) /\ Kept(h, FlushPacket(h))
<1>1. h \in HandlerSet
  BY DEF Good
<1>2. CASE h.packet = NoPacket
  <2>1. FlushPacket(h) = h
    BY <1>2 DEF FlushPacket
  <2> QED
    BY <2>1 DEF Kept
<1>3. CASE h.packet # NoPacket
  <2> DEFINE p == h.packet
             g == FlushPacket(h)
  <2>1. p \in Pkt /\ p.off = h.end /\ p.off + p.len <= n
    BY <1>1, <1>3, Fields DEF Good, Queued, Within
  <2>2. h.status = "open" => p.off + p.len = h.off + h.size
    BY <2>1 DEF Good, Queued
  <2>3. g = [PushToRequest(h, p) EXCEPT !.packet = NoPacket]
    BY <1>3 DEF FlushPacket
  <2>4. Good(g, st) /\ Within(g, n) /\ Onward(g) = Onward(h)
    <3> HIDE DEF p, g
    <3> QED
      BY <2>1, <2>2, <2>3, PushToRequestGood
  <2>5. g.status = h.status /\ g.recoverHandler = h.recoverHandler
    BY <2>3, <1>1 DEF PushToRequest, HandlerSet
  <2> QED
    BY <2>4, <2>5, <1>3 DEF Kept
<1> QED
  BY <1>2, <1>3

\* What the loop of write leaves: blocks that fill the packets, and the rest.
LEMMA Blocks ==
    ASSUME NEW b \in Nat \ {0}, NEW total \in Nat, NEW full, full = total \div b
    PROVE  /\ full \in Nat /\ total % b \in Nat /\ total % b < b
           /\ full * b \in Nat
           /\ full * b + (total % b) = total
<1>1. full \in Nat /\ total % b \in Nat /\ total % b < b
  OBVIOUS
<1>2. full * b + (total % b) = total
  OBVIOUS
<1> QED
  BY <1>1, <1>2

\* The multiples of the block size.
LEMMA Turns ==
    ASSUME NEW b \in Nat, NEW i \in Nat, NEW m \in Nat, i < m
    PROVE  /\ i * b \in Nat /\ m * b \in Nat
           /\ i * b + b = (i + 1) * b
           /\ i * b + b <= m * b
OBVIOUS

\* write cuts the units of a call into full packets and one being filled, in a chain.
LEMMA WriteGood ==
    ASSUME NEW h, NEW st, NEW o \in Nat, NEW n \in Nat, Good(h, st), Within(h, o),
           h.status = "open", h.off + h.size = o
    PROVE  /\ Good(Write(h, o, n), st) /\ Within(Write(h, o, n), o + n)
           /\ Kept(h, Write(h, o, n))
           /\ Write(h, o, n).off = h.off /\ Write(h, o, n).size = h.size + n
<1> DEFINE b == BlkSize(h)
           first == IF h.packet = NoPacket THEN o ELSE h.packet.off
           total == h.packet.len + n
           full == total \div b
           Filled(i, len) == [off |-> first + i * b, len |-> len, err |-> 0]
           q == [i \in 1..full |-> Filled(i - 1, b)]
           packet == IF total % b = 0 THEN NoPacket ELSE Filled(full, total % b)
           g == Write(h, o, n)
<1>1. h \in HandlerSet
  BY DEF Good
<1>2. b \in Nat \ {0}
  BY EhAssumption DEF BlkSize
<1>3. h.packet.len \in Nat /\ total \in Nat
  BY <1>1, Fields DEF Pkt, NoPacket
<1>4. first = h.end /\ first \in Nat /\ h.end + h.packet.len = o
  <2>1. h.end \in Nat /\ h.end + h.packet.len = o
    BY <1>1, Fields DEF Good, Queued
  <2>2. h.packet = NoPacket => h.packet.len = 0
    BY DEF NoPacket
  <2>3. h.packet # NoPacket => h.packet.off = h.end
    BY DEF Good, Queued
  <2> QED
    BY <2>1, <2>2, <2>3
<1>5. /\ full \in Nat /\ total % b \in Nat /\ total % b < b /\ full * b \in Nat
      /\ full * b + (total % b) = total
  <2> HIDE DEF b, total
  <2> QED
    BY <1>2, <1>3, Blocks
<1>6. g = [h EXCEPT !.inflight = @ + full, !.request = @ \o q, !.packet = packet,
                    !.size = @ + n, !.end = first + full * b]
  BY DEF Write
<1>7. \A i \in 1..full :
        /\ q[i].off = first + (i - 1) * b /\ q[i].len = b /\ q[i] \in Pkt
        /\ q[i].off + q[i].len = first + i * b
        /\ first + i * b <= first + full * b
  <2> SUFFICES ASSUME NEW i \in 1..full
               PROVE  /\ q[i].off = first + (i - 1) * b /\ q[i].len = b /\ q[i] \in Pkt
                      /\ q[i].off + q[i].len = first + i * b
                      /\ first + i * b <= first + full * b
    OBVIOUS
  <2> HIDE DEF b, first, full
  <2>1. q[i] = [off |-> first + (i - 1) * b, len |-> b, err |-> 0]
    OBVIOUS
  <2>2. i - 1 \in Nat /\ i - 1 < full /\ (i - 1) + 1 = i
    BY <1>5
  <2>3. (i - 1) * b \in Nat /\ (i - 1) * b + b = i * b /\ (i - 1) * b + b <= full * b
    BY <2>2, <1>2, <1>5, Turns
  <2>4. q[i].off = first + (i - 1) * b /\ q[i].len = b
    BY <2>1
  <2>5. q[i] \in Pkt
    BY <2>1, <2>3, <1>2, <1>4 DEF Pkt
  <2>6. first + (i - 1) * b + b = first + i * b
    BY <2>3, <1>2, <1>4
  <2>7. first + i * b <= first + full * b
    BY <2>3, <1>2, <1>4, <1>5
  <2> QED
    BY <2>4, <2>5, <2>6, <2>7
<1>8. q \in Seq(Pkt) /\ Len(q) = full
  <2>1. q \in [1..full -> Pkt]
    BY <1>7
  <2> HIDE DEF q, full
  <2> QED
    BY <2>1, <1>5
<1>9. packet \in Pkt \cup {NoPacket}
  <2> HIDE DEF b, first, full, total
  <2>1. CASE total % b # 0
    <3>1. packet = [off |-> first + full * b, len |-> total % b, err |-> 0]
      BY <2>1
    <3>2. first + full * b \in Nat /\ total % b \in Nat \ {0}
      BY <2>1, <1>4, <1>5
    <3> QED
      BY <3>1, <3>2 DEF Pkt
  <2> QED
    BY <2>1
<1>10. /\ packet.len = total % b /\ packet.err = 0
       /\ packet # NoPacket => packet.off = first + full * b
  BY DEF NoPacket
<1>11. first + full * b \in Nat /\ first + full * b + (total % b) = o + n
  <2> DEFINE x == full * b
             y == total % b
  <2>1. x \in Nat /\ y \in Nat /\ x + y = h.packet.len + n
    BY <1>5
  <2> HIDE DEF b, first, full, total, x, y
  <2>2. first + x \in Nat /\ first + x + y = o + n
    BY <2>1, <1>3, <1>4
  <2> QED
    BY <2>2 DEF x, y
<1> HIDE DEF b, first, full, total, q, packet, g
<1>12. /\ h.request \in Seq(Pkt) /\ h.inflight \in Int /\ h.size \in Nat /\ h.off \in Nat
       /\ h.request \o q \in Seq(Pkt) /\ h.inflight + full \in Int /\ h.size + n \in Nat
  BY <1>1, <1>5, <1>8, Fields
<1>13. /\ g \in HandlerSet
       /\ g.status = h.status /\ g.mode = h.mode /\ g.off = h.off /\ g.key = h.key
       /\ g.dp = h.dp /\ g.ext = h.ext /\ g.recoverHandler = h.recoverHandler
       /\ g.reply = h.reply /\ g.recv = h.recv /\ g.wire = h.wire /\ g.resp = h.resp
       /\ g.request = h.request \o q /\ g.inflight = h.inflight + full
       /\ g.packet = packet /\ g.end = first + full * b /\ g.size = h.size + n
  BY <1>1, <1>6, <1>9, <1>11, <1>12 DEF HandlerSet
<1>14. Took(h, q, g)
  BY <1>8, <1>13 DEF Took
<1>15. Chain(q, g.end) /\ Start(q, g.end) = h.end
  <2>1. ASSUME NEW i \in 1..full
        PROVE  q[i].off + q[i].len = IF i = full THEN g.end ELSE q[i + 1].off
    <3>1. CASE i = full
      BY <3>1, <1>7, <1>13
    <3>2. CASE i # full
      <4>1. i + 1 \in 1..full /\ (i + 1) - 1 = i
        BY <3>2, <1>5
      <4>2. q[i + 1].off = first + i * b
        BY <4>1, <1>7
      <4> QED
        BY <4>2, <3>2, <1>7
    <3> QED
      BY <3>1, <3>2
  <2>2. Chain(q, g.end)
    BY <2>1, <1>8 DEF Chain
  <2>3. CASE full = 0
    <3>1. q = <<>>
      BY <2>3, <1>8, EmptyLen
    <3>2. first + full * b = first
      BY <2>3, <1>2, <1>4
    <3> QED
      BY <2>2, <3>1, <3>2, <1>4, <1>13 DEF Start
  <2>4. CASE full # 0
    <3>1. q # <<>> /\ 1 \in 1..full
      BY <2>4, <1>5, <1>8, EmptyLen
    <3>2. Head(q) = q[1]
      BY <3>1, <1>8
    <3>3. q[1].off = first + (1 - 1) * b
      BY <3>1, <1>7
    <3>4. first + (1 - 1) * b = first
      BY <1>2, <1>4
    <3> QED
      BY <2>2, <3>1, <3>2, <3>3, <3>4, <1>4 DEF Start
  <2> QED
    BY <2>3, <2>4
<1>16. g.end + g.packet.len = g.off + g.size /\ g.off + g.size = o + n
  <2>1. g.end + g.packet.len = o + n
    BY <1>10, <1>11, <1>13
  <2>2. g.off + g.size = h.off + (h.size + n)
    BY <1>13
  <2>3. h.off + (h.size + n) = o + n
    BY <1>12
  <2> QED
    BY <2>1, <2>2, <2>3
<1>17. Good(g, st)
  BY <1>8, <1>10, <1>13, <1>14, <1>15, <1>16, TookGood
<1>18. Within(g, o + n)
  <2>1. ASSUME NEW i \in 1..Len(g.request)
        PROVE  g.request[i].off + g.request[i].len <= o + n
    <3>1. \/ i \in 1..Len(h.request) /\ g.request[i] = h.request[i]
          \/ \E j \in 1..full : g.request[i] = q[j]
      <4>1. Len(h.request \o q) = Len(h.request) + full
        BY <1>8, <1>12, ConcatFacts
      <4>2. CASE i <= Len(h.request)
        BY <4>1, <4>2, <1>8, <1>12, <1>13, ConcatFacts
      <4>3. CASE i > Len(h.request)
        <5>1. i - Len(h.request) \in 1..full
          BY <4>1, <4>3, <1>5, <1>12, <1>13
        <5>2. (h.request \o q)[i] = q[i - Len(h.request)]
          BY <5>1, <4>1, <4>3, <1>8, <1>12, <1>13, ConcatFacts
        <5> QED
          BY <5>1, <5>2, <1>13
      <4> QED
        BY <4>2, <4>3, <1>12
    <3>2. CASE i \in 1..Len(h.request) /\ g.request[i] = h.request[i]
      <4>1. h.request[i].off + h.request[i].len <= o /\ h.request[i] \in Pkt
        BY <3>2, <1>12 DEF Within
      <4>2. h.request[i].off + h.request[i].len \in Nat
        BY <4>1 DEF Pkt
      <4> QED
        BY <3>2, <4>1, <4>2
    <3>3. CASE \E j \in 1..full : g.request[i] = q[j]
      <4>1. PICK j \in 1..full : g.request[i] = q[j]
        BY <3>3
      <4>2. q[j] \in Pkt /\ q[j].off + q[j].len = first + j * b
            /\ first + j * b <= first + full * b
        BY <1>7
      <4>3. q[j].off + q[j].len \in Nat
        BY <4>2 DEF Pkt
      <4> QED
        BY <4>1, <4>2, <4>3, <1>5, <1>11
    <3> QED
      BY <3>1, <3>2, <3>3
  <2>2. ASSUME NEW i \in 1..Len(g.reply)
        PROVE  g.reply[i].off + g.reply[i].len <= o + n
    <3>0. i \in 1..Len(h.reply) /\ h.reply \in Seq(Pkt)
      BY <2>2, <1>1, <1>13, Fields
    <3>1. h.reply[i].off + h.reply[i].len <= o /\ h.reply[i] \in Pkt
      BY <3>0 DEF Within
    <3>2. h.reply[i].off + h.reply[i].len \in Nat
      BY <3>1 DEF Pkt
    <3> QED
      BY <3>1, <3>2, <1>13
  <2>3. g.off + g.size <= o + n /\ g.end <= o + n
    <3>1. g.off + g.size = o + n
      BY <1>16
    <3>2. g.end \in Nat /\ g.end + (total % b) = o + n
      BY <1>11, <1>13
    <3> QED
      BY <3>1, <3>2, <1>5
  <2>4. g.packet.off + g.packet.len <= o + n
    <3>1. CASE packet = NoPacket
      BY <3>1, <1>13 DEF NoPacket
    <3>2. CASE packet # NoPacket
      BY <3>2, <1>10, <1>11, <1>13
    <3> QED
      BY <3>1, <3>2
  <2>5. g.off + g.key.size <= o + n
    <3>1. h.off + h.key.size <= o /\ h.key.size \in Nat
      BY <1>1, Fields DEF Within, Key
    <3> QED
      BY <3>1, <1>12, <1>13
  <2> QED
    BY <2>1, <2>2, <2>3, <2>4, <2>5 DEF Within
<1>19. Kept(h, g)
  <2>1. h.recoverHandler = 0
    BY DEF Good, Recovers, Live
  <2> QED
    BY <2>1, <1>13 DEF Kept
<1> QED
  BY <1>13, <1>17, <1>18, <1>19 DEF g

-----------------------------------------------------------------------------
(* The sender.                                                             *)

\* The handler a is h with an extent, and the data nodes have the extents new.
Allotted(h, a, st, new, n) ==
    /\ Grows(st, new) /\ Good(a, new) /\ Within(a, n) /\ Kept(h, a)
    /\ a.dp /\ a.status = h.status /\ a.request = h.request

Allotment(st, id, ext) == IF ext = id THEN Over(st, [e \in {id} |-> <<>>]) ELSE st

\* allocateExtent gives the handler an extent of its own, or the tiny one.
LEMMA AllocateGood ==
    ASSUME NEW h, NEW st, NEW n, Good(h, st), Within(h, n), ~h.dp, NEW id \in Nat \ {0},
           NEW a, a = AllocateExtent(h, id), Extents(st), TinyExtent \in DOMAIN st,
           NEW new, new = IF a.ext = id THEN Over(st, [e \in {id} |-> <<>>]) ELSE st
    PROVE  Allotted(h, a, st, new, n)
<1>1. h \in HandlerSet
  BY DEF Good
<1> DEFINE x == IF h.key # NoKey THEN h.key.ext
                ELSE IF h.mode = "tiny" THEN TinyExtent ELSE id
<1>2. x \in Nat \cup {NoExtent}
  BY <1>1, Fields DEF Key, TinyExtent
<1>3. /\ a \in HandlerSet /\ a.dp = TRUE /\ a.ext = x
      /\ a.status = h.status /\ a.mode = h.mode /\ a.off = h.off /\ a.size = h.size
      /\ a.packet = h.packet /\ a.inflight = h.inflight /\ a.key = h.key
      /\ a.recoverHandler = h.recoverHandler /\ a.request = h.request
      /\ a.reply = h.reply /\ a.recv = h.recv /\ a.wire = h.wire /\ a.resp = h.resp
      /\ a.end = h.end
  <2>1. a = [h EXCEPT !.dp = TRUE, !.ext = x]
    BY DEF AllocateExtent
  <2> HIDE DEF x
  <2> QED
    BY <2>1, <1>1, <1>2 DEF HandlerSet
<1>4. Grows(st, new) /\ Extents(new) /\ (a.ext = id => id \in DOMAIN new)
  <2>1. CASE a.ext = id
    <3>1. new = Over(st, [e \in {id} |-> <<>>])
      BY <2>1
    <3>2. DOMAIN new = DOMAIN st \cup {id}
      BY <3>1 DEF Over
    <3>3. \A e \in DOMAIN st : new[e] = st[e]
      BY <3>1 DEF Over
    <3>4. id \notin DOMAIN st => new[id] = <<>>
      BY <3>1 DEF Over
    <3>5. ASSUME NEW e \in DOMAIN new
          PROVE  new[e] \in Seq(Int)
      <4>1. CASE e \in DOMAIN st
        BY <4>1, <3>3 DEF Extents
      <4>2. CASE e \notin DOMAIN st
        <5>1. new[e] = <<>>
          BY <4>2, <3>2, <3>4
        <5> QED
          BY <5>1, EmptySeqs
      <4> QED
        BY <4>1, <4>2
    <3>6. Extents(new)
      BY <3>2, <3>5 DEF Extents
    <3> QED
      BY <3>2, <3>3, <3>6 DEF Grows, Extents
  <2>2. CASE a.ext # id
    BY <2>2 DEF Grows, Extents
  <2> QED
    BY <2>1, <2>2
<1>5. Good(h, new)
  BY <1>4, GoodGrows
<1>6. h.wire = <<>> /\ h.resp = <<>>
  BY DEF Good, Wired
<1>7. h.mode = "tiny" => h.key = NoKey
  BY DEF Good, Keyed
<1>8. a.ext \in DOMAIN new /\ (a.ext = TinyExtent <=> h.mode = "tiny")
  <2>1. CASE h.key # NoKey
    <3>1. a.ext = h.key.ext
      BY <2>1, <1>3
    <3>2. h.key.ext \in DOMAIN new /\ (h.mode = "normal" => h.key.ext # TinyExtent)
      BY <2>1, <1>5 DEF Good, Keyed, Placed
    <3> QED
      BY <2>1, <3>1, <3>2, <1>1, <1>7, Fields
  <2>2. CASE h.key = NoKey /\ h.mode = "tiny"
    <3>1. a.ext = TinyExtent
      BY <2>2, <1>3
    <3> QED
      BY <3>1, <2>2, <1>4 DEF Grows
  <2>3. CASE h.key = NoKey /\ h.mode # "tiny"
    <3>1. a.ext = id
      BY <2>3, <1>3
    <3> QED
      BY <3>1, <2>3, <1>4 DEF TinyExtent
  <2> QED
    BY <2>1, <2>2, <2>3
<1>9. Live(a) <=> Live(h)
  BY <1>3 DEF Live
<1>10. First(a) = First(h) /\ Onward(a) = Onward(h)
  BY <1>3 DEF First, Onward
<1>11. Queued(a)
  <2>1. Queued(h)
    BY DEF Good
  <2> QED
    BY <2>1, <1>3, <1>9, <1>10 DEF Queued
<1>12. Keyed(a, new)
  <2>1. Keyed(h, new)
    BY <1>5 DEF Good
  <2>2. h.key # NoKey => a.ext = h.key.ext
    BY <1>3
  <2> QED
    BY <2>1, <2>2, <1>3, <1>7, <1>9 DEF Keyed
<1>13. Wired(a, new)
  <2>1. a.wire = <<>> /\ Len(<<>>) = 0
    BY <1>3, <1>6
  <2>2. \A i \in 1..Len(a.wire) : a.wire[i].ext = a.ext
    BY <2>1
  <2> QED
    BY <2>2, <1>3, <1>8 DEF Wired
<1>14. Recovers(a)
  BY <1>3, <1>9 DEF Good, Recovers
<1>15. ASSUME Live(a)
       PROVE  Aligned(a, new)
  <2>1. Aligned(h, new)
    BY <1>15, <1>5, <1>9 DEF Good
  <2>2. a.wire = <<>> /\ a.resp = <<>> /\ h.wire = <<>> /\ h.resp = <<>> /\ Len(<<>>) = 0
    BY <1>3, <1>6
  <2>3. \A i \in 1..Len(a.wire) : FALSE
    BY <2>2
  <2>4. \A i \in 1..Len(a.resp) : FALSE
    BY <2>2
  <2> QED
    BY <2>1, <2>2, <2>3, <2>4, <1>3 DEF Aligned
<1>16. Kept(h, a)
  BY <1>3, <1>10 DEF Kept
<1>17. Within(a, n)
  BY <1>3 DEF Within
<1>18. Good(a, new)
  BY <1>3, <1>4, <1>11, <1>12, <1>13, <1>14, <1>15, <1>16, <1>17 DEF Good
<1> QED
  BY <1>3, <1>4, <1>16, <1>17, <1>18 DEF Allotted

\* The first packet of request goes to the receiver, and perhaps to the wire.
Moved(h, g) ==
    /\ g \in HandlerSet
    /\ g.status = h.status /\ g.mode = h.mode /\ g.off = h.off /\ g.size = h.size
    /\ g.packet = h.packet /\ g.inflight = h.inflight /\ g.key = h.key
    /\ g.dp = h.dp /\ g.ext = h.ext /\ g.recoverHandler = h.recoverHandler
    /\ g.request = Tail(h.request) /\ g.reply = Append(h.reply, Head(h.request))
    /\ g.recv = h.recv /\ g.resp = h.resp /\ g.end = h.end

\* The sender moves the first packet from request to reply, and the chain stays.
LEMMA MovedQueue ==
    ASSUME NEW h, NEW g, NEW st, NEW n, Good(h, st), Within(h, n), h.request # <<>>,
           Moved(h, g)
    PROVE  Queued(g) /\ Within(g, n) /\ Kept(h, g) /\ Recovers(g) /\ Keyed(g, st)
           /\ (Live(g) <=> Live(h))
<1> DEFINE p == Head(h.request)
<1>1. h \in HandlerSet
  BY DEF Good
<1>2. h.request \in Seq(Pkt) /\ h.reply \in Seq(Pkt) /\ h.end \in Nat
  BY <1>1, Fields
<1>3. Chain(h.request, h.end) /\ Chain(h.reply, Start(h.request, h.end))
  BY DEF Good, Queued
<1>4. /\ Chain(Tail(h.request), h.end)
      /\ Start(Tail(h.request), h.end) = p.off + p.len
      /\ p \in Pkt
  BY <1>2, <1>3, ChainTail
<1>5. Start(h.request, h.end) = p.off
  BY DEF Start
<1>6. /\ Chain(Append(h.reply, p), p.off + p.len)
      /\ \A e : Start(Append(h.reply, p), e) = Start(h.reply, p.off)
  BY <1>2, <1>3, <1>4, <1>5, ChainAppend
<1> HIDE DEF p
<1>7. Chain(g.request, g.end) /\ Chain(g.reply, Start(g.request, g.end))
  BY <1>4, <1>6 DEF Moved, p
<1>8. First(g) = First(h)
  BY <1>4, <1>5, <1>6 DEF First, Moved, p
<1>9. Live(g) <=> Live(h)
  BY DEF Live, Moved
<1>10. h.recv # "idle" => h.reply # <<>> /\ Head(g.reply) = Head(h.reply)
  <2>1. h.recv # "idle" => h.reply # <<>>
    BY DEF Good, Queued
  <2>2. h.reply # <<>> => Head(Append(h.reply, p)) = Head(h.reply)
    BY <1>2, HeadAppend
  <2> QED
    BY <2>1, <2>2 DEF Moved, p
<1>11. Onward(g) = Onward(h)
  BY <1>8, <1>10 DEF Onward, Moved
<1>12. Append(h.reply, p) # <<>>
  BY <1>2, <1>4, AppendFacts
<1>13. g.inflight = Len(g.request) + Len(g.reply)
  <2>1. h.inflight = Len(h.request) + Len(h.reply)
    BY DEF Good, Queued
  <2>2. Len(Tail(h.request)) = Len(h.request) - 1 /\ Len(h.request) \in Nat
    BY <1>2
  <2>3. Len(Append(h.reply, p)) = Len(h.reply) + 1 /\ Len(h.reply) \in Nat
    BY <1>2, <1>4, AppendFacts
  <2>4. \A a, b \in Nat : (a - 1) + (b + 1) = a + b
    OBVIOUS
  <2>5. Len(Tail(h.request)) + Len(Append(h.reply, p)) = h.inflight
    BY <2>1, <2>2, <2>3, <2>4
  <2> QED
    BY <2>5 DEF Moved, p
<1>14. Queued(g)
  <2>1. h.packet # NoPacket => h.packet.off = h.end
    BY DEF Good, Queued
  <2>2. h.status = "open" => h.end + h.packet.len = h.off + h.size
    BY DEF Good, Queued
  <2>3. Live(h) => First(h) = h.off + h.key.size
    BY DEF Good, Queued
  <2>4. g.reply # <<>>
    BY <1>12 DEF Moved, p
  <2>5. g.packet = h.packet /\ g.end = h.end /\ g.off = h.off /\ g.size = h.size
        /\ g.key = h.key /\ g.status = h.status
    BY DEF Moved
  <2> QED
    BY <2>1, <2>2, <2>3, <2>4, <2>5, <1>7, <1>8, <1>9, <1>13 DEF Queued
<1>15. Kept(h, g)
  BY <1>11 DEF Kept, Moved
<1>16. Recovers(g)
  BY <1>9 DEF Good, Recovers, Moved
<1>17. Keyed(g, st)
  BY <1>9 DEF Good, Keyed, Moved
<1>18. Within(g, n)
  <2>1. \A i \in 1..Len(h.request) : h.request[i].off + h.request[i].len <= n
    BY DEF Within
  <2>2. ASSUME NEW i \in 1..Len(g.request)
        PROVE  g.request[i].off + g.request[i].len <= n
    <3>1. i + 1 \in 1..Len(h.request) /\ Tail(h.request)[i] = h.request[i + 1]
      BY <2>2, <1>2, TailFacts DEF Moved
    <3> QED
      BY <3>1, <2>1 DEF Moved
  <2>3. p.off + p.len <= n
    <3>1. 1 \in 1..Len(h.request) /\ p = h.request[1]
      BY <1>2, EmptyLen DEF p
    <3> QED
      BY <3>1, <2>1
  <2>4. ASSUME NEW i \in 1..Len(g.reply)
        PROVE  g.reply[i].off + g.reply[i].len <= n
    <3>1. g.reply[i] = p \/ (i \in 1..Len(h.reply) /\ g.reply[i] = h.reply[i])
      BY <2>4, <1>2, <1>4, AppendFacts DEF Moved, p
    <3> QED
      BY <3>1, <2>3 DEF Within
  <2>5. g.packet = h.packet /\ g.end = h.end /\ g.off = h.off /\ g.size = h.size
        /\ g.key = h.key
    BY DEF Moved
  <2> QED
    BY <2>2, <2>4, <2>5 DEF Within
<1> QED
  BY <1>9, <1>14, <1>15, <1>16, <1>17, <1>18

\* More packets behind those that are aligned.
LEMMA AlignedPrefix ==
    ASSUME NEW h \in HandlerSet, NEW g, NEW st, Aligned(h, st),
           g.resp = h.resp, g.mode = h.mode, g.ext = h.ext,
           \A p : Place(g, p) = Place(h, p),
           \A i \in 1..Len(h.reply) : g.reply[i] = h.reply[i],
           \A i \in 1..Len(h.wire) : g.wire[i] = h.wire[i]
    PROVE  /\ \A i \in 1..Len(h.wire) :
                /\ g.wire[i].off = g.reply[Len(g.resp) + i].off
                /\ g.wire[i].len = g.reply[Len(g.resp) + i].len
                /\ g.mode = "normal" =>
                      g.wire[i].eoff = Place(g, g.reply[Len(g.resp) + i])
           /\ \A i \in 1..Len(g.resp) : g.resp[i].ok =>
                /\ Placed(st, g.ext, g.resp[i].eoff, g.reply[i].off, g.reply[i].len)
                /\ g.mode = "normal" => g.resp[i].eoff = Place(g, g.reply[i])
<1> DEFINE a == Len(h.resp)
           b == Len(h.wire)
           c == Len(h.reply)
<1>1. a \in Nat /\ b \in Nat /\ c \in Nat
  BY Fields
<1>2. a + b <= c
  BY DEF Aligned
<1> HIDE DEF a, b, c
<1>3. \A i \in 1..b : a + i \in 1..c
  BY <1>1, <1>2
<1>4. \A i \in 1..a : i \in 1..c
  BY <1>1, <1>2
<1>5. ASSUME NEW i \in 1..b
      PROVE  /\ g.wire[i].off = g.reply[a + i].off
             /\ g.wire[i].len = g.reply[a + i].len
             /\ g.mode = "normal" => g.wire[i].eoff = Place(g, g.reply[a + i])
  <2>1. g.reply[a + i] = h.reply[a + i] /\ g.wire[i] = h.wire[i]
    BY <1>3 DEF b, c
  <2>2. /\ h.wire[i].off = h.reply[a + i].off
        /\ h.wire[i].len = h.reply[a + i].len
        /\ h.mode = "normal" => h.wire[i].eoff = Place(h, h.reply[a + i])
    BY DEF Aligned, a, b
  <2> QED
    BY <2>1, <2>2
<1>6. ASSUME NEW i \in 1..a, g.resp[i].ok
      PROVE  /\ Placed(st, g.ext, g.resp[i].eoff, g.reply[i].off, g.reply[i].len)
             /\ g.mode = "normal" => g.resp[i].eoff = Place(g, g.reply[i])
  <2>1. g.reply[i] = h.reply[i]
    BY <1>4 DEF c
  <2>2. /\ Placed(st, h.ext, h.resp[i].eoff, h.reply[i].off, h.reply[i].len)
        /\ h.mode = "normal" => h.resp[i].eoff = Place(h, h.reply[i])
    BY <1>6 DEF Aligned, a
  <2> QED
    BY <2>1, <2>2
<1> QED
  BY <1>5, <1>6 DEF a, b

\* A packet of a handler that has given up is not sent.
LEMMA MovedGood ==
    ASSUME NEW h, NEW g, NEW st, NEW n, Good(h, st), Within(h, n), h.request # <<>>,
           Moved(h, g), g.wire = h.wire, h.status \in {"recovery", "error"}
    PROVE  Good(g, st) /\ Within(g, n) /\ Kept(h, g)
<1>1. Queued(g) /\ Within(g, n) /\ Kept(h, g) /\ Recovers(g) /\ Keyed(g, st)
      /\ (Live(g) <=> Live(h))
  BY MovedQueue
<1>2. Wired(g, st)
  BY DEF Good, Wired, Moved
<1>3. ASSUME Live(g)
      PROVE  Aligned(g, st)
  <2>1. Aligned(h, st)
    BY <1>1, <1>3 DEF Good
  <2>2. h \in HandlerSet
    BY DEF Good
  <2>3. h.reply \in Seq(Pkt) /\ Head(h.request) \in Pkt
        /\ Len(h.resp) \in Nat /\ Len(h.wire) \in Nat /\ Len(h.reply) \in Nat
    BY <2>2, Fields
  <2>4. Len(g.reply) = Len(h.reply) + 1 /\ \A i \in 1..Len(h.reply) : g.reply[i] = h.reply[i]
    BY <2>3, AppendFacts DEF Moved
  <2>5. g.resp = h.resp /\ g.wire = h.wire /\ g.mode = h.mode /\ g.ext = h.ext
        /\ g.status = h.status /\ \A p : Place(g, p) = Place(h, p)
    BY DEF Moved, Place
  <2>6. Len(g.resp) + Len(g.wire) <= Len(g.reply)
    <3> DEFINE a == Len(h.resp)
               b == Len(h.wire)
               c == Len(h.reply)
    <3>1. a \in Nat /\ b \in Nat /\ c \in Nat /\ a + b <= c
      BY <2>1, <2>3 DEF Aligned
    <3>2. Len(g.resp) = a /\ Len(g.wire) = b /\ Len(g.reply) = c + 1
      BY <2>4, <2>5
    <3> HIDE DEF a, b, c
    <3>3. a + b <= c + 1
      BY <3>1
    <3> QED
      BY <3>2, <3>3
  <2>7. /\ \A i \in 1..Len(h.wire) :
              /\ g.wire[i].off = g.reply[Len(g.resp) + i].off
              /\ g.wire[i].len = g.reply[Len(g.resp) + i].len
              /\ g.mode = "normal" =>
                    g.wire[i].eoff = Place(g, g.reply[Len(g.resp) + i])
        /\ \A i \in 1..Len(g.resp) : g.resp[i].ok =>
              /\ Placed(st, g.ext, g.resp[i].eoff, g.reply[i].off, g.reply[i].len)
              /\ g.mode = "normal" => g.resp[i].eoff = Place(g, g.reply[i])
    BY <2>1, <2>2, <2>4, <2>5, AlignedPrefix
  <2> QED
    BY <2>5, <2>6, <2>7 DEF Aligned
<1> QED
  BY <1>1, <1>2, <1>3 DEF Good, Moved

\* A packet is sent, to its place in the extent of the handler.
LEMMA SentGood ==
    ASSUME NEW h, NEW g, NEW st, NEW n, Good(h, st), Within(h, n), h.request # <<>>,
           Moved(h, g), h.dp, h.status \in {"open", "closed"}, NEW w, w \in Msg,
           g.wire = Append(h.wire, w), w.off = Head(h.request).off,
           w.len = Head(h.request).len, w.ext = h.ext, w.eoff = Place(h, Head(h.request))
    PROVE  Good(g, st) /\ Within(g, n) /\ Kept(h, g)
<1> DEFINE p == Head(h.request)
<1>1. Queued(g) /\ Within(g, n) /\ Kept(h, g) /\ Recovers(g) /\ Keyed(g, st)
      /\ (Live(g) <=> Live(h))
  BY MovedQueue
<1>2. h \in HandlerSet
  BY DEF Good
<1>3. h.reply \in Seq(Pkt) /\ h.wire \in Seq(Msg) /\ p \in Pkt
      /\ Len(h.resp) \in Nat /\ Len(h.wire) \in Nat /\ Len(h.reply) \in Nat
  BY <1>2, Fields
<1>4. Len(g.reply) = Len(h.reply) + 1 /\ g.reply[Len(h.reply) + 1] = p
      /\ \A i \in 1..Len(h.reply) : g.reply[i] = h.reply[i]
  BY <1>3, AppendFacts DEF Moved
<1>5. Len(g.wire) = Len(h.wire) + 1 /\ g.wire[Len(h.wire) + 1] = w
      /\ \A i \in 1..Len(h.wire) : g.wire[i] = h.wire[i]
  BY <1>3, AppendFacts
<1>6. g.resp = h.resp /\ g.mode = h.mode /\ g.ext = h.ext /\ g.dp = h.dp
      /\ g.status = h.status /\ \A x : Place(g, x) = Place(h, x)
  BY DEF Moved, Place
<1> HIDE DEF p
<1>7. Wired(g, st)
  <2>1. ASSUME NEW i \in 1..Len(g.wire)
        PROVE  g.wire[i].ext = g.ext
    <3>1. g.wire[i] = w \/ (i \in 1..Len(h.wire) /\ g.wire[i] = h.wire[i])
      BY <1>3, <1>5
    <3> QED
      BY <3>1, <1>6 DEF Good, Wired
  <2>2. h.ext \in DOMAIN st /\ (h.ext = TinyExtent <=> h.mode = "tiny")
    BY DEF Good, Wired
  <2> QED
    BY <2>1, <2>2, <1>6 DEF Wired
<1>8. Aligned(g, st)
  <2>1. Aligned(h, st)
    BY DEF Good, Live
  <2>2. Len(h.resp) + Len(h.wire) = Len(h.reply)
    BY <2>1 DEF Aligned
  <2> DEFINE a == Len(h.resp)
             b == Len(h.wire)
             c == Len(h.reply)
  <2>3. a \in Nat /\ b \in Nat /\ c \in Nat /\ a + b = c
    BY <2>2, <1>3
  <2>4. Len(g.resp) = a /\ Len(g.wire) = b + 1 /\ Len(g.reply) = c + 1
    BY <1>4, <1>5, <1>6
  <2>5. g.wire[b + 1] = w /\ g.reply[c + 1] = p
    BY <1>4, <1>5
  <2>6. /\ \A i \in 1..b :
              /\ g.wire[i].off = g.reply[Len(g.resp) + i].off
              /\ g.wire[i].len = g.reply[Len(g.resp) + i].len
              /\ g.mode = "normal" =>
                    g.wire[i].eoff = Place(g, g.reply[Len(g.resp) + i])
        /\ \A i \in 1..Len(g.resp) : g.resp[i].ok =>
              /\ Placed(st, g.ext, g.resp[i].eoff, g.reply[i].off, g.reply[i].len)
              /\ g.mode = "normal" => g.resp[i].eoff = Place(g, g.reply[i])
    <3>1. \A i \in 1..Len(h.reply) : g.reply[i] = h.reply[i]
      BY <1>4
    <3>2. \A i \in 1..Len(h.wire) : g.wire[i] = h.wire[i]
      BY <1>5
    <3> QED
      BY <2>1, <3>1, <3>2, <1>2, <1>6, AlignedPrefix, ZenonT(200)
  <2> HIDE DEF a, b, c
  <2>7. a + (b + 1) = c + 1 /\ a + (b + 1) <= c + 1
    BY <2>3
  <2>8. ASSUME NEW i \in 1..(b + 1)
        PROVE  /\ g.wire[i].off = g.reply[Len(g.resp) + i].off
               /\ g.wire[i].len = g.reply[Len(g.resp) + i].len
               /\ g.mode = "normal" => g.wire[i].eoff = Place(g, g.reply[Len(g.resp) + i])
    <3>1. CASE i = b + 1
      <4>1. g.reply[Len(g.resp) + i] = p
        BY <3>1, <2>4, <2>5, <2>7
      <4>2. g.wire[i] = w
        BY <3>1, <2>5
      <4> QED
        BY <4>1, <4>2, <1>6 DEF p
    <3>2. CASE i \in 1..b
      BY <3>2, <2>6
    <3>3. i = b + 1 \/ i \in 1..b
      BY <2>3
    <3> QED
      BY <3>1, <3>2, <3>3
  <2> QED
    BY <2>4, <2>6, <2>7, <2>8 DEF Aligned
<1> QED
  BY <1>1, <1>7, <1>8 DEF Good, Moved

-----------------------------------------------------------------------------
(* The data node.                                                          *)

\* Arithmetic for the data of a packet.
LEMMA Successor ==
    ASSUME NEW m \in Nat, NEW off \in Nat, NEW len \in Nat, NEW j \in 0..(len - 1)
    PROVE  j + 1 \in 1..len /\ m + (j + 1) = m + j + 1 /\ off + (j + 1) - 1 = off + j
OBVIOUS

\* The data of a packet, as a sequence.
LEMMA DataSeq ==
    ASSUME NEW off \in Nat, NEW len \in Nat,
           NEW data, data = [j \in 1..len |-> off + j - 1]
    PROVE  /\ data \in Seq(Int) /\ Len(data) = len
           /\ \A j \in 1..len : data[j] = off + j - 1
<1>1. data \in [1..len -> Int] /\ \A j \in 1..len : data[j] = off + j - 1
  OBVIOUS
<1>2. data \in Seq(Int) /\ Len(data) = len
  BY <1>1
<1> QED
  BY <1>1, <1>2

\* What the data node appends is where it says.
LEMMA StoredPlaced ==
    ASSUME NEW st, Extents(st), NEW ext \in DOMAIN st, NEW off \in Nat, NEW len \in Nat,
           NEW data, data = [j \in 1..len |-> off + j - 1],
           NEW new, new = [st EXCEPT ![ext] = @ \o data]
    PROVE  Grows(st, new) /\ Placed(new, ext, Len(st[ext]), off, len)
<1> DEFINE s == st[ext]
<1>1. s \in Seq(Int) /\ Len(s) \in Nat
  BY DEF Extents
<1>2. data \in Seq(Int) /\ Len(data) = len
  BY DataSeq
<1>3. \A j \in 1..len : data[j] = off + j - 1
  BY DataSeq
<1>4. s \o data \in Seq(Int) /\ Len(s \o data) = Len(s) + len
  BY <1>1, <1>2, ConcatFacts
<1>5. \A i \in 1..Len(s) : (s \o data)[i] = s[i]
  BY <1>1, <1>2, ConcatFacts
<1>6. \A j \in 1..len : (s \o data)[Len(s) + j] = data[j]
  BY <1>1, <1>2, ConcatFacts
<1>7. DOMAIN new = DOMAIN st /\ new[ext] = s \o data
      /\ \A e \in DOMAIN st : e # ext => new[e] = st[e]
  OBVIOUS
<1>8. Extents(new)
  BY <1>4, <1>7 DEF Extents
<1>9. Grows(st, new)
  <2> SUFFICES ASSUME NEW e \in DOMAIN st
               PROVE  /\ Len(st[e]) <= Len(new[e])
                      /\ \A i \in 1..Len(st[e]) : new[e][i] = st[e][i]
    BY <1>7, <1>8 DEF Grows
  <2>1. CASE e = ext
    <3>1. Len(s) <= Len(s \o data)
      BY <1>1, <1>4
    <3> QED
      BY <2>1, <3>1, <1>5, <1>7
  <2>2. CASE e # ext
    <3>1. Len(st[e]) \in Nat
      BY DEF Extents
    <3> QED
      BY <2>2, <3>1, <1>7
  <2> QED
    BY <2>1, <2>2
<1>10. ASSUME NEW j \in 0..(len - 1)
       PROVE  Len(s) + j < Len(new[ext]) /\ new[ext][Len(s) + j + 1] = off + j
  <2>1. j + 1 \in 1..len /\ Len(s) + (j + 1) = Len(s) + j + 1 /\ off + (j + 1) - 1 = off + j
    BY <1>1, Successor
  <2>2. (s \o data)[Len(s) + (j + 1)] = off + (j + 1) - 1
    BY <2>1, <1>3, <1>6
  <2>3. Len(s) + j < Len(s) + len
    BY <1>1
  <2> QED
    BY <2>1, <2>2, <2>3, <1>4, <1>7
<1> QED
  BY <1>7, <1>9, <1>10 DEF Placed

\* An answer leaves the data node.
Answered(h, r, g) ==
    /\ g \in HandlerSet
    /\ g.status = h.status /\ g.mode = h.mode /\ g.off = h.off /\ g.size = h.size
    /\ g.packet = h.packet /\ g.inflight = h.inflight /\ g.key = h.key
    /\ g.dp = h.dp /\ g.ext = h.ext /\ g.recoverHandler = h.recoverHandler
    /\ g.request = h.request /\ g.reply = h.reply /\ g.recv = h.recv /\ g.end = h.end
    /\ g.wire = Tail(h.wire) /\ g.resp = Append(h.resp, r)

\* The data node answers the first packet on the wire, with the place it gave it.
LEMMA AnsweredGood ==
    ASSUME NEW h, NEW g, NEW st, NEW new, NEW n, NEW r \in Ack, Good(h, st), Within(h, n),
           Grows(st, new), h.wire # <<>>, Answered(h, r, g),
           r.ok => /\ Placed(new, h.ext, r.eoff, Head(h.wire).off, Head(h.wire).len)
                   /\ h.mode = "normal" => r.eoff = Head(h.wire).eoff
    PROVE  Good(g, new) /\ Within(g, n) /\ Kept(h, g)
<1>1. h \in HandlerSet /\ Good(h, new)
  BY GoodGrows DEF Good
<1>2. h.wire \in Seq(Msg) /\ h.resp \in Seq(Ack) /\ Len(h.reply) \in Nat
  BY <1>1, Fields
<1> DEFINE a == Len(h.resp)
           b == Len(h.wire)
           c == Len(h.reply)
<1>3. a \in Nat /\ b \in Nat \ {0} /\ c \in Nat
  BY <1>2, EmptyLen
<1>4. Len(g.wire) = b - 1 /\ Head(h.wire) = h.wire[1]
      /\ \A i \in 1..(b - 1) : g.wire[i] = h.wire[i + 1]
  BY <1>2, TailFacts DEF Answered
<1>5. Len(g.resp) = a + 1 /\ g.resp[a + 1] = r
      /\ \A i \in 1..a : g.resp[i] = h.resp[i]
  BY <1>2, AppendFacts DEF Answered
<1>6. (Live(g) <=> Live(h)) /\ First(g) = First(h) /\ Onward(g) = Onward(h)
  BY DEF Live, First, Onward, Answered
<1>7. Queued(g)
  <2>1. Queued(h)
    BY DEF Good
  <2> QED
    BY <2>1, <1>6 DEF Queued, Answered
<1>8. Keyed(g, new)
  BY <1>1, <1>6 DEF Good, Keyed, Answered
<1>9. Recovers(g)
  BY <1>6 DEF Good, Recovers, Answered
<1>10. Wired(g, new)
  <2>1. Wired(h, new)
    BY <1>1 DEF Good
  <2>2. h.dp
    BY <2>1 DEF Wired
  <2>3. \A i \in 1..b : h.wire[i].ext = h.ext
    BY <2>1 DEF Wired
  <2> HIDE DEF a, b, c
  <2>4. ASSUME NEW i \in 1..(b - 1)
        PROVE  g.wire[i].ext = g.ext
    <3>1. i + 1 \in 1..b
      BY <1>3
    <3> QED
      BY <3>1, <2>3, <1>4 DEF Answered
  <2> QED
    BY <2>1, <2>2, <2>4, <1>4 DEF Wired, Answered
<1>11. ASSUME Live(g)
       PROVE  Aligned(g, new)
  <2>1. Aligned(h, new)
    BY <1>1, <1>6, <1>11 DEF Good
  <2>2. a + b <= c /\ (h.status \in {"open", "closed"} => a + b = c)
    BY <2>1 DEF Aligned
  <2>3. \A i \in 1..b :
          /\ h.wire[i].off = h.reply[a + i].off
          /\ h.wire[i].len = h.reply[a + i].len
          /\ h.mode = "normal" => h.wire[i].eoff = Place(h, h.reply[a + i])
    BY <2>1 DEF Aligned
  <2>4. \A i \in 1..a : h.resp[i].ok =>
          /\ Placed(new, h.ext, h.resp[i].eoff, h.reply[i].off, h.reply[i].len)
          /\ h.mode = "normal" => h.resp[i].eoff = Place(h, h.reply[i])
    BY <2>1 DEF Aligned
  <2>5. g.mode = h.mode /\ g.ext = h.ext /\ g.status = h.status /\ g.reply = h.reply
        /\ \A x : Place(g, x) = Place(h, x)
    BY DEF Answered, Place
  <2>6. Len(g.reply) = c
    BY <2>5
  <2> HIDE DEF a, b, c
  <2>7. (a + 1) + (b - 1) <= c /\ (h.status \in {"open", "closed"} => (a + 1) + (b - 1) = c)
    BY <2>2, <1>3
  <2>8. ASSUME NEW i \in 1..(b - 1)
        PROVE  /\ g.wire[i].off = g.reply[(a + 1) + i].off
               /\ g.wire[i].len = g.reply[(a + 1) + i].len
               /\ g.mode = "normal" => g.wire[i].eoff = Place(g, g.reply[(a + 1) + i])
    <3>1. i + 1 \in 1..b /\ a + (i + 1) = (a + 1) + i
      BY <1>3
    <3>2. g.wire[i] = h.wire[i + 1] /\ g.reply[(a + 1) + i] = h.reply[a + (i + 1)]
      BY <3>1, <2>5, <1>4
    <3> QED
      BY <3>1, <3>2, <2>3, <2>5
  <2>9. ASSUME NEW i \in 1..(a + 1), g.resp[i].ok
        PROVE  /\ Placed(new, g.ext, g.resp[i].eoff, g.reply[i].off, g.reply[i].len)
               /\ g.mode = "normal" => g.resp[i].eoff = Place(g, g.reply[i])
    <3>1. CASE i = a + 1
      <4>1. 1 \in 1..b
        BY <1>3
      <4>2. /\ h.wire[1].off = h.reply[i].off /\ h.wire[1].len = h.reply[i].len
            /\ h.mode = "normal" => h.wire[1].eoff = Place(h, h.reply[i])
        BY <4>1, <3>1, <2>3
      <4> QED
        BY <4>2, <3>1, <2>5, <2>9, <1>4, <1>5
    <3>2. CASE i \in 1..a
      BY <3>2, <2>4, <2>5, <2>9, <1>5
    <3>3. i = a + 1 \/ i \in 1..a
      BY <1>3
    <3> QED
      BY <3>1, <3>2, <3>3
  <2> QED
    BY <2>5, <2>6, <2>7, <2>8, <2>9, <1>4, <1>5 DEF Aligned
<1>12. Kept(h, g)
  BY <1>6 DEF Kept, Answered
<1>13. Within(g, n)
  BY DEF Within, Answered
<1> QED
  BY <1>7, <1>8, <1>9, <1>10, <1>11, <1>12, <1>13 DEF Good, Answered

-----------------------------------------------------------------------------
(* The receiver.                                                           *)

\* The first packet is acknowledged: the key grows by it.
Acked(h, g) ==
    /\ g \in HandlerSet
    /\ g.mode = h.mode /\ g.off = h.off /\ g.size = h.size /\ g.packet = h.packet
    /\ g.dp = h.dp /\ g.ext = h.ext /\ g.recoverHandler = h.recoverHandler
    /\ g.request = h.request /\ g.wire = h.wire /\ g.end = h.end
    /\ g.reply = Tail(h.reply) /\ g.resp = Tail(h.resp) /\ g.recv = "idle"
    /\ g.inflight = h.inflight - 1
    /\ g.key = Extended(h, Head(h.reply), Head(h.resp).eoff)
    /\ h.mode = "normal" => g.status = h.status
    /\ h.mode = "tiny" => g.status \in {"recovery", "error"}

\* The key that processReply makes longer names data in their place: the packet that
\* was acknowledged begins where the key ended.
LEMMA AckedKey ==
    ASSUME NEW h, NEW st, Good(h, st), h.recv = "read", h.resp # <<>>, Head(h.resp).ok,
           NEW k, k = Extended(h, Head(h.reply), Head(h.resp).eoff)
    PROVE  /\ k \in Key /\ k # NoKey /\ k.off = h.off /\ k.size > 0 /\ k.ext = h.ext
           /\ Placed(st, k.ext, k.eoff, k.off, k.size)
           /\ k.size = h.key.size + Head(h.reply).len
           /\ Head(h.reply).off = h.off + h.key.size
           /\ h.mode = "normal" => k.eoff = h.key.eoff
           /\ h.dp
<1> DEFINE p == Head(h.reply)
           r == Head(h.resp)
           e == r.eoff
<1>1. h \in HandlerSet /\ Live(h)
  BY DEF Good, Live
<1>2. h.reply # <<>> /\ h.reply \in Seq(Pkt) /\ h.resp \in Seq(Ack)
  BY <1>1, Fields DEF Good, Queued
<1>3. p \in Pkt /\ p.off \in Nat /\ p.len \in Nat \ {0} /\ p = h.reply[1]
  <2>1. p \in Pkt /\ p = h.reply[1]
    BY <1>2, HeadFirst
  <2> HIDE DEF p
  <2> QED
    BY <2>1 DEF Pkt
<1>4. r \in Ack /\ e \in Nat /\ r = h.resp[1] /\ 1 \in 1..Len(h.resp)
  <2>1. r \in Ack /\ r = h.resp[1] /\ 1 \in 1..Len(h.resp)
    BY <1>2, HeadFirst
  <2> HIDE DEF r
  <2> QED
    BY <2>1 DEF Ack
<1>5. p.off = h.off + h.key.size
  BY <1>1, <1>2 DEF Good, Queued, First, Start
<1>6. Aligned(h, st)
  BY <1>1 DEF Good
<1>7. Placed(st, h.ext, e, p.off, p.len) /\ (h.mode = "normal" => e = Place(h, p))
  BY <1>3, <1>4, <1>6 DEF Aligned
<1>8. h.dp /\ h.ext \in DOMAIN st /\ (h.ext = TinyExtent <=> h.mode = "tiny")
  BY DEF Good, Wired
<1>9. h.key \in Key /\ h.off \in Nat /\ h.mode \in {"tiny", "normal"} /\ h.ext \in Nat \cup {NoExtent}
  BY <1>1, Fields
<1> HIDE DEF p, r, e
<1>11. CASE h.key = NoKey
  <2>1. h.key.size = 0 /\ h.key.eoff = 0
    BY <1>11 DEF NoKey
  <2>2. p.off = h.off
    BY <2>1, <1>5, <1>9
  <2>3. h.mode = "normal" => e = 0 /\ p.off - h.off = 0
    BY <2>1, <2>2, <1>7, <1>9 DEF Place
  <2>4. k = [off |-> h.off, ext |-> h.ext, size |-> p.len,
             eoff |-> IF h.mode = "tiny" THEN e ELSE p.off - h.off]
    BY <1>11 DEF Extended, p, r, e
  <2>5. k.eoff = e /\ k.off = h.off /\ k.ext = h.ext /\ k.size = p.len
    BY <2>3, <2>4, <1>9
  <2>6. k \in Key
    BY <2>3, <2>4, <1>3, <1>4, <1>9 DEF Key
  <2>7. k.size = h.key.size + p.len /\ k.size > 0
    BY <2>1, <2>5, <1>3
  <2>8. k # NoKey
    BY <2>7, <2>6 DEF NoKey
  <2>9. Placed(st, k.ext, k.eoff, k.off, k.size)
    BY <2>2, <2>5, <1>7
  <2>10. h.mode = "normal" => k.eoff = h.key.eoff
    BY <2>1, <2>3, <2>5
  <2> QED
    BY <2>5, <2>6, <2>7, <2>8, <2>9, <2>10, <1>5, <1>8 DEF p
<1>12. CASE h.key # NoKey
  <2>1. /\ h.key.off = h.off /\ h.key.size > 0 /\ h.key.ext = h.ext
        /\ Placed(st, h.key.ext, h.key.eoff, h.key.off, h.key.size)
    BY <1>8, <1>12 DEF Good, Keyed
  <2>2. h.mode = "normal"
    BY <1>1, <1>9, <1>12 DEF Good, Keyed
  <2>3. h.key.size \in Nat /\ h.key.eoff \in Nat
    BY <1>9 DEF Key
  <2>4. e = h.key.size + h.key.eoff
    <3>1. e = p.off - h.off + h.key.eoff
      BY <2>2, <1>7 DEF Place
    <3> QED
      BY <3>1, <2>3, <1>5, <1>9
  <2>5. k = [h.key EXCEPT !.size = @ + p.len]
    BY <1>12 DEF Extended, p, r, e
  <2>6. k \in Key /\ k.off = h.key.off /\ k.ext = h.key.ext /\ k.eoff = h.key.eoff
        /\ k.size = h.key.size + p.len
    BY <2>5, <2>3, <1>3, <1>9 DEF Key
  <2>7. k.size > 0 /\ k # NoKey
    <3>1. k.size > 0
      BY <2>3, <2>6, <1>3
    <3> QED
      BY <3>1 DEF NoKey
  <2>8. ASSUME NEW j \in 0..(k.size - 1)
        PROVE  h.key.eoff + j < Len(st[h.ext])
               /\ st[h.ext][h.key.eoff + j + 1] = h.off + j
    <3>1. CASE j < h.key.size
      <4>1. j \in 0..(h.key.size - 1)
        BY <3>1, <2>3
      <4> QED
        BY <4>1, <2>1 DEF Placed
    <3>2. CASE j >= h.key.size
      <4> DEFINE i == j - h.key.size
      <4>1. i \in 0..(p.len - 1) /\ j = h.key.size + i
        BY <3>2, <2>3, <2>6, <1>3
      <4> HIDE DEF i
      <4>2. e + i < Len(st[h.ext]) /\ st[h.ext][e + i + 1] = p.off + i
        BY <4>1, <1>7 DEF Placed
      <4>3. e + i = h.key.eoff + j /\ p.off + i = h.off + j
        BY <4>1, <2>3, <2>4, <1>5, <1>9
      <4>4. e + i + 1 = h.key.eoff + j + 1
        BY <4>3
      <4> QED
        BY <4>2, <4>3, <4>4
    <3> QED
      BY <3>1, <3>2, <2>3
  <2>9. Placed(st, k.ext, k.eoff, k.off, k.size)
    <3>1. k.ext = h.ext /\ k.eoff = h.key.eoff /\ k.off = h.off /\ h.ext \in DOMAIN st
      BY <2>1, <2>6, <1>8
    <3> QED
      BY <3>1, <2>8 DEF Placed
  <2> QED
    BY <2>1, <2>2, <2>6, <2>7, <2>9, <1>5, <1>8 DEF p
<1> QED
  BY <1>11, <1>12

\* After an acknowledged packet (processReply) the handler is right.
LEMMA AckedGood ==
    ASSUME NEW h, NEW g, NEW st, NEW n \in Nat, Good(h, st), Within(h, n), h.recv = "read",
           h.resp # <<>>, Head(h.resp).ok, Acked(h, g)
    PROVE  Good(g, st) /\ Within(g, n) /\ Kept(h, g)
<1> DEFINE p == Head(h.reply)
           k == g.key
<1>0. h \in HandlerSet /\ Live(h) /\ h.recoverHandler = 0
  BY DEF Good, Live, Recovers
<1>1. /\ k \in Key /\ k # NoKey /\ k.off = h.off /\ k.size > 0 /\ k.ext = h.ext
      /\ Placed(st, k.ext, k.eoff, k.off, k.size)
      /\ k.size = h.key.size + p.len
      /\ p.off = h.off + h.key.size
      /\ h.mode = "normal" => k.eoff = h.key.eoff
      /\ h.dp
  BY AckedKey DEF Acked
<1>2. h.reply # <<>> /\ h.reply \in Seq(Pkt) /\ h.resp \in Seq(Ack)
      /\ h.request \in Seq(Pkt) /\ h.end \in Nat /\ h.off \in Nat
      /\ h.mode \in {"tiny", "normal"} /\ h.key \in Key
  BY <1>0, Fields DEF Good, Queued
<1>3. p \in Pkt /\ p = h.reply[1] /\ 1 \in 1..Len(h.reply)
  BY <1>2, HeadFirst
<1>4. Chain(h.request, h.end) /\ Chain(h.reply, Start(h.request, h.end))
  BY DEF Good, Queued
<1>5. /\ Chain(g.reply, Start(g.request, g.end))
      /\ Start(g.reply, Start(g.request, g.end)) = p.off + p.len
  <2>1. Start(h.request, h.end) \in Nat
    BY <1>2, StartType
  <2>2. /\ Chain(Tail(h.reply), Start(h.request, h.end))
        /\ Start(Tail(h.reply), Start(h.request, h.end)) = p.off + p.len
    BY <2>1, <1>2, <1>4, ChainTail
  <2> QED
    BY <2>2 DEF Acked
<1> HIDE DEF p, k
<1>6. p.off \in Nat /\ p.len \in Nat /\ h.key.size \in Nat
  BY <1>2, <1>3 DEF Pkt, Key
<1>7. First(g) = g.off + g.key.size
  <2>1. p.off + p.len = h.off + k.size
    <3>1. k.size = h.key.size + p.len /\ p.off = h.off + h.key.size /\ h.off \in Nat
      BY <1>1, <1>2
    <3>2. \A x, y, z \in Nat : (x + y) + z = x + (y + z)
      OBVIOUS
    <3>3. p.off + p.len = (h.off + h.key.size) + p.len
      BY <3>1
    <3>4. (h.off + h.key.size) + p.len = h.off + (h.key.size + p.len)
      BY <3>1, <3>2, <1>6
    <3> QED
      BY <3>1, <3>3, <3>4
  <2> QED
    BY <2>1, <1>5 DEF First, Acked, k
<1>8. Live(g) => h.mode = "normal" /\ g.status = h.status /\ g.status \in {"open", "closed"}
  BY <1>2 DEF Live, Acked
<1> DEFINE a == Len(h.resp)
           b == Len(h.wire)
           c == Len(h.reply)
<1>9. /\ a \in Nat \ {0} /\ b \in Nat /\ c \in Nat \ {0}
      /\ Len(g.resp) = a - 1 /\ Len(g.reply) = c - 1 /\ Len(g.wire) = b
  <2>1. b \in Nat /\ Len(g.wire) = b
    BY <1>0, Fields DEF Acked
  <2>2. a \in Nat \ {0} /\ Len(g.resp) = a - 1
    BY <1>2, EmptyLen, TailFacts DEF Acked
  <2>3. c \in Nat \ {0} /\ Len(g.reply) = c - 1
    BY <1>2, EmptyLen, TailFacts DEF Acked
  <2> QED
    BY <2>1, <2>2, <2>3
<1>10. /\ \A i \in 1..(a - 1) : g.resp[i] = h.resp[i + 1]
       /\ \A i \in 1..(c - 1) : g.reply[i] = h.reply[i + 1]
  <2>1. \A i \in 1..(a - 1) : g.resp[i] = h.resp[i + 1]
    BY <1>2, TailFacts DEF Acked
  <2>2. \A i \in 1..(c - 1) : g.reply[i] = h.reply[i + 1]
    BY <1>2, TailFacts DEF Acked
  <2> QED
    BY <2>1, <2>2
<1>11. Queued(g)
  <2>1. h.inflight = Len(h.request) + c /\ Len(h.request) \in Nat
    BY <1>2 DEF Good, Queued
  <2>2. g.inflight = h.inflight - 1 /\ g.request = h.request
    BY DEF Acked
  <2>3. g.inflight = Len(g.request) + Len(g.reply)
    <3> DEFINE m == Len(h.request)
    <3>1. m \in Nat /\ h.inflight = m + c /\ Len(g.request) = m
      BY <2>1, <2>2
    <3> HIDE DEF a, b, c, m
    <3>2. g.inflight = m + (c - 1)
      BY <3>1, <2>2, <1>9
    <3> QED
      BY <3>1, <3>2, <1>9
  <2>4. h.packet # NoPacket => h.packet.off = h.end
    BY DEF Good, Queued
  <2>5. h.status = "open" => h.end + h.packet.len = h.off + h.size
    BY DEF Good, Queued
  <2>6. g.status = "open" => h.status = "open"
    BY <1>2 DEF Acked
  <2>7. g.packet = h.packet /\ g.end = h.end /\ g.off = h.off /\ g.size = h.size
        /\ g.request = h.request /\ g.recv = "idle"
    BY DEF Acked
  <2> QED
    BY <2>3, <2>4, <2>5, <2>6, <2>7, <1>4, <1>5, <1>7 DEF Queued
<1>12. Keyed(g, st)
  <2>1. h.mode = "normal" => h.ext # TinyExtent
    BY <1>1 DEF Good, Wired
  <2>2. g.mode = "tiny" => ~Live(g) /\ g.dp
    BY <1>1, <1>8 DEF Acked
  <2>3. g.off = h.off /\ g.ext = h.ext /\ g.mode = h.mode /\ g.key = k
    BY DEF Acked, k
  <2> QED
    BY <2>1, <2>2, <2>3, <1>1 DEF Keyed
<1>13. Wired(g, st)
  <2>1. Wired(h, st)
    BY DEF Good
  <2> QED
    BY <2>1, <1>1 DEF Wired, Acked
<1>14. Recovers(g)
  BY <1>0 DEF Recovers, Acked
<1>15. ASSUME Live(g)
       PROVE  Aligned(g, st)
  <2>1. Aligned(h, st)
    BY <1>0 DEF Good
  <2>2. a + b = c
    BY <2>1, <1>8, <1>15 DEF Aligned
  <2>3. \A i \in 1..b :
          /\ h.wire[i].off = h.reply[a + i].off
          /\ h.wire[i].len = h.reply[a + i].len
          /\ h.wire[i].eoff = Place(h, h.reply[a + i])
    BY <2>1, <1>8, <1>15 DEF Aligned
  <2>4. \A i \in 1..a : h.resp[i].ok =>
          /\ Placed(st, h.ext, h.resp[i].eoff, h.reply[i].off, h.reply[i].len)
          /\ h.resp[i].eoff = Place(h, h.reply[i])
    BY <2>1, <1>8, <1>15 DEF Aligned
  <2>5. g.wire = h.wire /\ g.ext = h.ext /\ \A x : Place(g, x) = Place(h, x)
    BY <1>1, <1>8, <1>15 DEF Acked, Place, k
  <2> HIDE DEF a, b, c
  <2>6. (a - 1) + b = c - 1 /\ (a - 1) + b <= c - 1
    BY <2>2, <1>9
  <2>7. ASSUME NEW i \in 1..b
        PROVE  /\ g.wire[i].off = g.reply[(a - 1) + i].off
               /\ g.wire[i].len = g.reply[(a - 1) + i].len
               /\ g.wire[i].eoff = Place(g, g.reply[(a - 1) + i])
    <3>1. (a - 1) + i \in 1..(c - 1) /\ ((a - 1) + i) + 1 = a + i
      BY <2>2, <1>9
    <3>2. g.reply[(a - 1) + i] = h.reply[a + i]
      BY <3>1, <1>10
    <3> QED
      BY <3>2, <2>3, <2>5
  <2>8. ASSUME NEW i \in 1..(a - 1), g.resp[i].ok
        PROVE  /\ Placed(st, g.ext, g.resp[i].eoff, g.reply[i].off, g.reply[i].len)
               /\ g.resp[i].eoff = Place(g, g.reply[i])
    <3>1. i + 1 \in 1..a /\ i \in 1..(c - 1)
      BY <2>2, <1>9
    <3>2. g.resp[i] = h.resp[i + 1] /\ g.reply[i] = h.reply[i + 1]
      BY <3>1, <1>10
    <3> QED
      BY <3>1, <3>2, <2>4, <2>5, <2>8
  <2> QED
    BY <2>6, <2>7, <2>8, <1>9 DEF Aligned
<1>16. Kept(h, g)
  <2>1. h.status # "open" => g.status # "open"
    BY <1>2 DEF Acked
  <2> QED
    BY <2>1, <1>0 DEF Kept, Acked
<1>17. Within(g, n)
  <2>1. \A i \in 1..c : h.reply[i].off + h.reply[i].len <= n
    BY DEF Within
  <2>2. p.off + p.len <= n
    BY <2>1, <1>3
  <2>3. g.off + g.key.size <= n
    BY <2>2, <1>5, <1>7 DEF First
  <2> HIDE DEF a, b, c
  <2>4. ASSUME NEW i \in 1..(c - 1)
        PROVE  g.reply[i].off + g.reply[i].len <= n
    <3>1. i + 1 \in 1..c
      BY <1>9
    <3> QED
      BY <3>1, <2>1, <1>10
  <2>5. g.off = h.off /\ g.size = h.size /\ g.end = h.end /\ g.packet = h.packet
        /\ g.request = h.request
    BY DEF Acked
  <2> QED
    BY <2>3, <2>4, <2>5, <1>9 DEF Within
<1> QED
  BY <1>11, <1>12, <1>13, <1>14, <1>15, <1>16, <1>17 DEF Good, Acked

\* The receiver has taken a packet that is not acknowledged: it keeps it while its
\* recovery handler is put on the dirty list, or is done with it.
Away(h, g) ==
    /\ g \in HandlerSet
    /\ g.mode = h.mode /\ g.off = h.off /\ g.size = h.size /\ g.packet = h.packet
    /\ g.key = h.key /\ g.dp = h.dp /\ g.ext = h.ext /\ g.request = h.request
    /\ g.wire = h.wire /\ g.end = h.end
    /\ g.status \in {"recovery", "error"} /\ (~h.dp => g.resp = <<>>)
    /\ \/ /\ g.recv = "put" /\ g.reply = h.reply /\ g.inflight = h.inflight
          /\ g.recoverHandler # 0
       \/ /\ g.recv = "idle" /\ g.reply = Tail(h.reply)
          /\ g.inflight = h.inflight - 1

\* After a packet that was given away or discarded the handler is right.
LEMMA AwayGood ==
    ASSUME NEW h, NEW g, NEW st, NEW n \in Nat, Good(h, st), Within(h, n), h.reply # <<>>,
           Away(h, g)
    PROVE  /\ Good(g, st) /\ Within(g, n) /\ ~Live(g)
           /\ Onward(g) = Head(h.reply).off + Head(h.reply).len
<1>1. h \in HandlerSet /\ ~Live(g)
  BY DEF Good, Live, Away
<1>2. h.reply \in Seq(Pkt) /\ h.request \in Seq(Pkt) /\ h.end \in Nat
  BY <1>1, Fields
<1>3. Chain(h.request, h.end) /\ Chain(h.reply, Start(h.request, h.end))
  BY DEF Good, Queued
<1>4. Start(h.request, h.end) \in Nat
  BY <1>2, StartType
<1>5. /\ Chain(Tail(h.reply), Start(h.request, h.end))
      /\ Start(Tail(h.reply), Start(h.request, h.end)) =
           Head(h.reply).off + Head(h.reply).len
  BY <1>2, <1>3, <1>4, ChainTail
<1>6. h.inflight = Len(h.request) + Len(h.reply)
  BY DEF Good, Queued
<1>7. /\ Chain(g.reply, Start(g.request, g.end))
      /\ g.inflight = Len(g.request) + Len(g.reply)
      /\ Onward(g) = Head(h.reply).off + Head(h.reply).len
      /\ g.recv # "idle" => g.reply # <<>>
  <2>1. CASE g.recv = "put" /\ g.reply = h.reply /\ g.inflight = h.inflight
    BY <2>1, <1>3, <1>6 DEF Away, Onward
  <2>2. CASE g.recv = "idle" /\ g.reply = Tail(h.reply) /\ g.inflight = h.inflight - 1
    <3> DEFINE m == Len(h.request)
               c == Len(h.reply)
    <3>1. m \in Nat /\ c \in Nat /\ h.inflight = m + c
      BY <1>2, <1>6
    <3>2. Len(g.reply) = c - 1 /\ Len(g.request) = m
      BY <2>2, <1>2, TailFacts DEF Away
    <3> HIDE DEF m, c
    <3>3. g.inflight = m + (c - 1)
      BY <3>1, <2>2
    <3>4. Onward(g) = Head(h.reply).off + Head(h.reply).len
      BY <2>2, <1>5 DEF Away, Onward, First
    <3> QED
      BY <3>2, <3>3, <3>4, <2>2, <1>5 DEF Away
  <2> QED
    BY <2>1, <2>2 DEF Away
<1>8. Queued(g)
  <2>1. h.packet # NoPacket => h.packet.off = h.end
    BY DEF Good, Queued
  <2> QED
    BY <2>1, <1>1, <1>3, <1>7 DEF Queued, Away
<1>9. Keyed(g, st)
  BY <1>1 DEF Good, Keyed, Away
<1>10. Wired(g, st)
  BY DEF Good, Wired, Away
<1>11. Recovers(g)
  BY <1>1 DEF Recovers, Away
<1>12. Within(g, n)
  <2>1. \A i \in 1..Len(h.reply) : h.reply[i].off + h.reply[i].len <= n
    BY DEF Within
  <2>2. ASSUME NEW i \in 1..Len(g.reply)
        PROVE  g.reply[i].off + g.reply[i].len <= n
    <3>1. CASE g.reply = h.reply
      BY <2>1, <2>2, <3>1
    <3>2. CASE g.reply = Tail(h.reply)
      <4>1. i + 1 \in 1..Len(h.reply) /\ g.reply[i] = h.reply[i + 1]
        BY <2>2, <3>2, <1>2, TailFacts
      <4> QED
        BY <4>1, <2>1
    <3> QED
      BY <3>1, <3>2 DEF Away
  <2>3. g.off = h.off /\ g.size = h.size /\ g.end = h.end /\ g.packet = h.packet
        /\ g.request = h.request /\ g.key = h.key
    BY DEF Away
  <2> QED
    BY <2>2, <2>3 DEF Within
<1> QED
  BY <1>1, <1>7, <1>8, <1>9, <1>10, <1>11, <1>12 DEF Good, Away
=============================================================================
