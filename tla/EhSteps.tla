------------------------------ MODULE EhSteps -------------------------------
(***************************************************************************)
(* The steps of the senders, the receivers and the data nodes, and what they *)
(* do to the handlers of a file: lemmas for the proofs about ExtentHandler. *)
(***************************************************************************)
EXTENDS EhHandler

USE ZenonT(5), SMTT(60), ZenonT(60)

-----------------------------------------------------------------------------
(* One handler among the others.                                           *)

\* What is inside a file is inside a longer one.
LEMMA WithinMore ==
    ASSUME NEW h \in HandlerSet, NEW n \in Nat, NEW m \in Nat, n <= m, Within(h, n)
    PROVE  Within(h, m)
<1>1. /\ h.off \in Nat /\ h.size \in Nat /\ h.end \in Nat
      /\ h.packet.off \in Nat /\ h.packet.len \in Nat /\ h.key.size \in Nat
  BY Fields DEF Pkt, NoPacket, Key
<1>2. \A p \in Pkt : p.off + p.len <= n => p.off + p.len <= m
  BY DEF Pkt
<1>3. \A i \in 1..Len(h.request) : h.request[i] \in Pkt
  BY Fields
<1>4. \A i \in 1..Len(h.reply) : h.reply[i] \in Pkt
  BY Fields
<1>5. h.off + h.size <= m /\ h.end <= m
      /\ h.packet.off + h.packet.len <= m /\ h.off + h.key.size <= m
  <2>1. h.off + h.size <= n /\ h.end <= n
        /\ h.packet.off + h.packet.len <= n /\ h.off + h.key.size <= n
    BY DEF Within
  <2> QED
    BY <2>1, <1>1
<1> QED
  BY <1>2, <1>3, <1>4, <1>5 DEF Within

\* A handler keeps its part in a recovery when nothing changes.
LEMMA KeptSelf ==
    ASSUME NEW h
    PROVE  Kept(h, h)
BY DEF Kept

\* And when two steps keep it.
LEMMA KeptOn ==
    ASSUME NEW f, NEW g, NEW h, Kept(f, g), Kept(g, h)
    PROVE  Kept(f, h)
BY DEF Kept

\* The handlers fit extents and a file that have grown.
LEMMA SameFit ==
    ASSUME NEW hs, NEW st, NEW new, NEW n \in Nat, NEW m \in Nat, n <= m,
           Fit(hs, st, n), Grows(st, new)
    PROVE  Fit(hs, new, m)
<1>1. ASSUME NEW i \in 1..Len(hs)
      PROVE  Good(hs[i], new) /\ Within(hs[i], m)
  <2>1. Good(hs[i], st) /\ Within(hs[i], n)
    BY DEF Fit
  <2>2. hs[i] \in HandlerSet
    BY <2>1 DEF Good
  <2> QED
    BY <2>1, <2>2, GoodGrows, WithinMore
<1> QED
  BY <1>1 DEF Fit

\* A handler changes in a way that the handler whose packets it takes, and the one
\* that takes its packets, may rely on.
LEMMA StepFit ==
    ASSUME NEW hs, NEW st, NEW new, NEW n \in Nat, NEW m \in Nat, n <= m,
           Fit(hs, st, n), Grows(st, new), NEW id \in 1..Len(hs),
           NEW g, Good(g, new), Within(g, m), Kept(hs[id], g)
    PROVE  Fit([hs EXCEPT ![id] = g], new, m) /\ Len([hs EXCEPT ![id] = g]) = Len(hs)
<1> DEFINE s == [hs EXCEPT ![id] = g]
<1>1. hs \in Seq(HandlerSet) /\ g \in HandlerSet
  BY DEF Fit, Good
<1>2. s \in Seq(HandlerSet) /\ Len(s) = Len(hs)
  BY <1>1
<1>3. \A i \in 1..Len(hs) : s[i] = IF i = id THEN g ELSE hs[i]
  BY <1>1
<1> HIDE DEF s
<1>4. Fit(hs, new, m)
  BY SameFit
<1>5. ASSUME NEW i \in 1..Len(hs)
      PROVE  Good(s[i], new) /\ Within(s[i], m)
  BY <1>3, <1>4 DEF Fit
<1>6. Linked(s)
  <2>1. Linked(hs)
    BY DEF Fit
  <2>2. \A i \in 1..Len(hs) : s[i].recoverHandler = hs[i].recoverHandler
    BY <1>3 DEF Kept
  <2>3. \A i \in 1..Len(hs) : hs[i].status # "open" /\ hs[i].packet = NoPacket =>
          s[i].status # "open" /\ s[i].packet = NoPacket /\ s[i].end = hs[i].end
    BY <1>3 DEF Kept
  <2>4. \A i \in 1..Len(hs) : hs[i].recoverHandler # 0 /\ s[i].status = "recovery" =>
          hs[i].status = "recovery" /\ Onward(s[i]) = Onward(hs[i])
    BY <1>3 DEF Kept
  <2>5. ASSUME NEW i \in 1..Len(hs), s[i].recoverHandler # 0, NEW r, r = s[i].recoverHandler
        PROVE  /\ r \in 1..Len(hs) /\ r # i
               /\ s[r].status # "open" /\ s[r].packet = NoPacket
               /\ s[i].status = "recovery" => s[r].end = Onward(s[i])
               /\ \A j \in 1..Len(hs) : j # i => s[j].recoverHandler # r
    <3>1. r = hs[i].recoverHandler /\ r # 0
      BY <2>2, <2>5
    <3>2. /\ r \in 1..Len(hs) /\ r # i
          /\ hs[r].status # "open" /\ hs[r].packet = NoPacket
          /\ hs[i].status = "recovery" => hs[r].end = Onward(hs[i])
          /\ \A j \in 1..Len(hs) : j # i => hs[j].recoverHandler # r
      BY <3>1, <2>1 DEF Linked
    <3>3. s[r].status # "open" /\ s[r].packet = NoPacket /\ s[r].end = hs[r].end
      BY <3>2, <2>3
    <3>4. s[i].status = "recovery" => s[r].end = Onward(s[i])
      BY <3>1, <3>2, <3>3, <2>4
    <3> QED
      BY <3>2, <3>3, <3>4, <2>2
  <2> QED
    BY <2>5, <1>2 DEF Linked
<1>7. Fit(s, new, m)
  BY <1>2, <1>5, <1>6 DEF Fit
<1> QED
  BY <1>2, <1>7 DEF s

\* No growth is growth.
LEMMA GrowsSelf ==
    ASSUME NEW st, Extents(st)
    PROVE  Grows(st, st)
BY DEF Grows, Extents

\* The same, when neither the extents nor the file change.
LEMMA TurnFit ==
    ASSUME NEW hs, NEW st, NEW n \in Nat, Fit(hs, st, n), Extents(st), NEW id \in 1..Len(hs),
           NEW g, Good(g, st), Within(g, n), Kept(hs[id], g)
    PROVE  Fit([hs EXCEPT ![id] = g], st, n) /\ Len([hs EXCEPT ![id] = g]) = Len(hs)
<1>1. Grows(st, st) /\ n <= n
  BY GrowsSelf
<1> QED
  BY <1>1, StepFit

\* A new handler that nobody recovers to fits with the others.
LEMMA NewFit ==
    ASSUME NEW hs, NEW st, NEW n \in Nat, Fit(hs, st, n),
           NEW g, Good(g, st), Within(g, n), g.recoverHandler = 0
    PROVE  Fit(Append(hs, g), st, n) /\ Len(Append(hs, g)) = Len(hs) + 1
<1> DEFINE s == Append(hs, g)
<1>1. hs \in Seq(HandlerSet) /\ g \in HandlerSet
  BY DEF Fit, Good
<1>2. s \in Seq(HandlerSet) /\ Len(s) = Len(hs) + 1 /\ Len(hs) \in Nat
      /\ s[Len(hs) + 1] = g /\ \A i \in 1..Len(hs) : s[i] = hs[i]
  BY <1>1, AppendFacts
<1> HIDE DEF s
<1>3. \A i \in 1..Len(s) : i \in 1..Len(hs) \/ s[i] = g
  BY <1>2
<1>4. \A i \in 1..Len(hs) : i \in 1..Len(s)
  BY <1>2
<1>5. Linked(s)
  <2>1. Linked(hs)
    BY DEF Fit
  <2>2. ASSUME NEW i \in 1..Len(s), s[i].recoverHandler # 0, NEW r, r = s[i].recoverHandler
        PROVE  /\ r \in 1..Len(s) /\ r # i
               /\ s[r].status # "open" /\ s[r].packet = NoPacket
               /\ s[i].status = "recovery" => s[r].end = Onward(s[i])
               /\ \A j \in 1..Len(s) : j # i => s[j].recoverHandler # r
    <3>1. i \in 1..Len(hs) /\ s[i] = hs[i]
      BY <2>2, <1>2, <1>3
    <3>2. /\ r \in 1..Len(hs) /\ r # i
          /\ hs[r].status # "open" /\ hs[r].packet = NoPacket
          /\ hs[i].status = "recovery" => hs[r].end = Onward(hs[i])
          /\ \A j \in 1..Len(hs) : j # i => hs[j].recoverHandler # r
      BY <3>1, <2>1, <2>2 DEF Linked
    <3>3. s[r] = hs[r]
      BY <3>2, <1>2
    <3>4. ASSUME NEW j \in 1..Len(s), j # i
          PROVE  s[j].recoverHandler # r
      BY <3>2, <3>4, <2>2, <1>2, <1>3
    <3> QED
      BY <3>1, <3>2, <3>3, <3>4, <1>4
  <2> QED
    BY <2>2 DEF Linked
<1>6. ASSUME NEW i \in 1..Len(s)
      PROVE  Good(s[i], st) /\ Within(s[i], n)
  BY <1>2, <1>3 DEF Fit
<1>7. Fit(s, st, n)
  BY <1>2, <1>5, <1>6 DEF Fit
<1> QED
  BY <1>2, <1>7 DEF s

\* A handler changes, and gets a recovery handler m.
LEMMA RecoverNewFit ==
    ASSUME NEW hs, NEW st, NEW n \in Nat, Fit(hs, st, n), NEW id \in 1..Len(hs),
           NEW g, Good(g, st), Within(g, n), g.status # "open",
           g.packet = hs[id].packet, g.end = hs[id].end,
           g.recoverHandler = Len(hs) + 1,
           NEW m, Good(m, st), Within(m, n), m.recoverHandler = 0,
           m.status # "open", m.packet = NoPacket, m.end = Onward(g)
    PROVE  /\ Fit(Append([hs EXCEPT ![id] = g], m), st, n)
           /\ Len(Append([hs EXCEPT ![id] = g], m)) = Len(hs) + 1
<1> DEFINE s == Append([hs EXCEPT ![id] = g], m)
           new == Len(hs) + 1
<1>1. hs \in Seq(HandlerSet) /\ g \in HandlerSet /\ m \in HandlerSet /\ Len(hs) \in Nat
  BY DEF Fit, Good
<1>2. s \in Seq(HandlerSet) /\ Len(s) = new /\ new \in 1..Len(s)
      /\ s[new] = m /\ s[id] = g /\ \A i \in 1..Len(hs) : i # id => s[i] = hs[i]
  <2>1. [hs EXCEPT ![id] = g] \in Seq(HandlerSet) /\ Len([hs EXCEPT ![id] = g]) = Len(hs)
        /\ \A i \in 1..Len(hs) : [hs EXCEPT ![id] = g][i] = IF i = id THEN g ELSE hs[i]
    BY <1>1
  <2> DEFINE t == [hs EXCEPT ![id] = g]
  <2>2. t \in Seq(HandlerSet) /\ Len(t) = Len(hs)
        /\ \A i \in 1..Len(hs) : t[i] = IF i = id THEN g ELSE hs[i]
    BY <2>1
  <2> HIDE DEF t
  <2>3. Append(t, m) \in Seq(HandlerSet) /\ Len(Append(t, m)) = new
        /\ Append(t, m)[new] = m /\ \A i \in 1..Len(hs) : Append(t, m)[i] = t[i]
    BY <2>2, <1>1, AppendFacts
  <2>4. new \in 1..new
    BY <1>1
  <2> HIDE DEF new
  <2> QED
    BY <2>2, <2>3, <2>4 DEF t
<1>3. \A i \in 1..Len(s) : i \in 1..Len(hs) \/ i = new
  BY <1>1, <1>2
<1>4. /\ \A i \in 1..Len(hs) : i \in 1..Len(s) /\ i # new
      /\ new # 0
  BY <1>1, <1>2
<1> HIDE DEF s, new
<1>5. Linked(hs)
  BY DEF Fit
<1>6. \A i \in 1..Len(hs) : hs[i].recoverHandler # new
  BY <1>4, <1>5 DEF Linked
<1>7. ASSUME NEW i \in 1..Len(s), s[i].recoverHandler # 0, NEW r, r = s[i].recoverHandler
      PROVE  /\ r \in 1..Len(s) /\ r # i
             /\ s[r].status # "open" /\ s[r].packet = NoPacket
             /\ s[i].status = "recovery" => s[r].end = Onward(s[i])
             /\ \A j \in 1..Len(s) : j # i => s[j].recoverHandler # r
  <2>1. CASE i = id
    <3>1. r = new /\ s[i] = g
      BY <2>1, <1>2, <1>7 DEF new
    <3>2. ASSUME NEW j \in 1..Len(s), j # i
          PROVE  s[j].recoverHandler # r
      BY <2>1, <3>1, <3>2, <1>2, <1>3, <1>4, <1>6
    <3> QED
      BY <2>1, <3>1, <3>2, <1>2, <1>4
  <2>2. CASE i # id
    <3>1. i \in 1..Len(hs) /\ s[i] = hs[i]
      BY <2>2, <1>2, <1>3, <1>7
    <3>2. /\ r \in 1..Len(hs) /\ r # i
          /\ hs[r].status # "open" /\ hs[r].packet = NoPacket
          /\ hs[i].status = "recovery" => hs[r].end = Onward(hs[i])
          /\ \A j \in 1..Len(hs) : j # i => hs[j].recoverHandler # r
      BY <3>1, <1>5, <1>7 DEF Linked
    <3>3. s[r].status # "open" /\ s[r].packet = NoPacket /\ s[r].end = hs[r].end
      BY <3>2, <1>2
    <3>4. ASSUME NEW j \in 1..Len(s), j # i
          PROVE  s[j].recoverHandler # r
      <4>1. CASE j = new
        BY <4>1, <1>2, <1>7
      <4>2. CASE j = id
        BY <4>2, <3>2, <1>2, <1>4 DEF new
      <4>3. CASE j \in 1..Len(hs) /\ j # id
        BY <4>3, <3>2, <3>4, <1>2
      <4> QED
        BY <4>1, <4>2, <4>3, <1>3
    <3> QED
      BY <3>1, <3>2, <3>3, <3>4, <1>4
  <2> QED
    BY <2>1, <2>2
<1>8. Linked(s)
  BY <1>7 DEF Linked
<1>9. ASSUME NEW i \in 1..Len(s)
      PROVE  Good(s[i], st) /\ Within(s[i], n)
  BY <1>2, <1>3 DEF Fit
<1>10. Fit(s, st, n)
  BY <1>2, <1>8, <1>9 DEF Fit
<1> QED
  BY <1>2, <1>10 DEF s, new

\* A handler changes, and its recovery handler takes a packet more.
LEMMA RecoverOldFit ==
    ASSUME NEW hs, NEW st, NEW n \in Nat, Fit(hs, st, n), NEW id \in 1..Len(hs),
           NEW r, r = hs[id].recoverHandler, r # 0,
           NEW g, Good(g, st), Within(g, n), g.status # "open",
           g.packet = hs[id].packet, g.end = hs[id].end, g.recoverHandler = r,
           NEW m, Good(m, st), Within(m, n), m.recoverHandler = hs[r].recoverHandler,
           m.status = hs[r].status, m.packet = NoPacket, m.end = Onward(g),
           Onward(m) = Onward(hs[r])
    PROVE  /\ Fit([hs EXCEPT ![id] = g, ![r] = m], st, n)
           /\ Len([hs EXCEPT ![id] = g, ![r] = m]) = Len(hs)
<1> DEFINE s == [hs EXCEPT ![id] = g, ![r] = m]
<1>1. hs \in Seq(HandlerSet) /\ g \in HandlerSet /\ m \in HandlerSet
  BY DEF Fit, Good
<1>2. Linked(hs)
  BY DEF Fit
<1>3. r \in 1..Len(hs) /\ r # id
  BY <1>2 DEF Linked
<1>4. s \in Seq(HandlerSet) /\ Len(s) = Len(hs)
  BY <1>1, <1>3
<1>5. s[id] = g /\ s[r] = m /\ \A i \in 1..Len(hs) : i # id /\ i # r => s[i] = hs[i]
  BY <1>1, <1>3
<1> HIDE DEF s
<1>6. ASSUME NEW i \in 1..Len(hs)
      PROVE  /\ s[i].recoverHandler = hs[i].recoverHandler
             /\ Good(s[i], st) /\ Within(s[i], n)
  BY <1>5 DEF Fit
<1>7. ASSUME NEW i \in 1..Len(hs), hs[i].status # "open", hs[i].packet = NoPacket
      PROVE  s[i].status # "open" /\ s[i].packet = NoPacket
  BY <1>5, <1>7
<1>8. ASSUME NEW i \in 1..Len(hs), i # id, s[i].status = "recovery"
      PROVE  hs[i].status = "recovery" /\ Onward(s[i]) = Onward(hs[i])
  BY <1>5, <1>8
<1>9. ASSUME NEW i \in 1..Len(hs), i # r
      PROVE  s[i].end = hs[i].end
  BY <1>5, <1>9
<1>10. ASSUME NEW i \in 1..Len(hs), s[i].recoverHandler # 0, NEW q, q = s[i].recoverHandler
       PROVE  /\ q \in 1..Len(hs) /\ q # i
              /\ s[q].status # "open" /\ s[q].packet = NoPacket
              /\ s[i].status = "recovery" => s[q].end = Onward(s[i])
              /\ \A j \in 1..Len(hs) : j # i => s[j].recoverHandler # q
  <2>1. q = hs[i].recoverHandler /\ q # 0
    BY <1>6, <1>10
  <2>2. /\ q \in 1..Len(hs) /\ q # i
        /\ hs[q].status # "open" /\ hs[q].packet = NoPacket
        /\ hs[i].status = "recovery" => hs[q].end = Onward(hs[i])
        /\ \A j \in 1..Len(hs) : j # i => hs[j].recoverHandler # q
    BY <2>1, <1>2 DEF Linked
  <2>3. s[q].status # "open" /\ s[q].packet = NoPacket
    BY <2>2, <1>7
  <2>4. s[i].status = "recovery" => s[q].end = Onward(s[i])
    <3>1. CASE i = id
      BY <3>1, <2>1, <1>5
    <3>2. CASE i # id
      <4>1. q # r
        BY <3>2, <2>1, <2>2
      <4>2. s[q].end = hs[q].end
        BY <4>1, <2>2, <1>9
      <4> QED
        BY <3>2, <4>2, <2>2, <1>8
    <3> QED
      BY <3>1, <3>2
  <2> QED
    BY <2>2, <2>3, <2>4, <1>6
<1>11. Linked(s)
  BY <1>10, <1>4 DEF Linked
<1>12. Fit(s, st, n)
  BY <1>4, <1>6, <1>11 DEF Fit
<1> QED
  BY <1>4, <1>12 DEF s

-----------------------------------------------------------------------------
(* New handlers.                                                           *)

\* A new handler at off may go on from the key.
Extends(st, key, mode, off) ==
    \/ key = NoKey
    \/ /\ mode = "normal" /\ key.off = off /\ key.size > 0 /\ key.ext # TinyExtent
       /\ Placed(st, key.ext, key.eoff, key.off, key.size)

Fresh(g, st, n, off, mode, size) ==
    /\ Good(g, st) /\ Within(g, n) /\ g.recoverHandler = 0 /\ g.status = "open"
    /\ g.packet = NoPacket /\ g.off = off /\ g.size = size /\ g.mode = mode
    /\ g.end = off + size

\* NewExtentHandler makes a handler that is right.
LEMMA NewGood ==
    ASSUME NEW st, NEW off \in Nat, NEW mode \in {"tiny", "normal"}, NEW size \in Nat,
           NEW key \in Key, NEW n \in Nat, off + size <= n, key.size = size,
           Extends(st, key, mode, off)
    PROVE  Fresh(NewExtentHandler(off, mode, size, key), st, n, off, mode, size)
<1> DEFINE g == NewExtentHandler(off, mode, size, key)
<1>1. off + size \in Nat /\ NoExtent \in Nat \cup {NoExtent}
  OBVIOUS
<1>2. <<>> \in Seq(Pkt) /\ <<>> \in Seq(Msg) /\ <<>> \in Seq(Ack)
  BY EmptySeqs
<1>3. /\ g.mode = mode /\ g.off = off /\ g.size = size /\ g.packet = NoPacket
      /\ g.inflight = 0 /\ g.key = key /\ g.dp = FALSE /\ g.recoverHandler = 0
      /\ g.request = <<>> /\ g.reply = <<>> /\ g.recv = "idle" /\ g.wire = <<>>
      /\ g.resp = <<>> /\ g.end = off + size /\ g.status = "open"
  BY DEF NewExtentHandler
<1>4. g \in HandlerSet
  BY <1>1, <1>2 DEF NewExtentHandler, HandlerSet
<1> HIDE DEF g
<1>5. Len(g.request) = 0 /\ Len(g.reply) = 0 /\ Len(g.wire) = 0 /\ Len(g.resp) = 0
  BY <1>2, <1>3, EmptyLen
<1>6. g.packet.off = 0 /\ g.packet.len = 0 /\ g.packet.err = 0
  BY <1>3 DEF NoPacket
<1>7. First(g) = off + size
  BY <1>3 DEF First, Start
<1>8. Queued(g)
  <2>1. Chain(g.request, g.end) /\ Chain(g.reply, Start(g.request, g.end))
    BY <1>5 DEF Chain
  <2>2. g.inflight = Len(g.request) + Len(g.reply)
    BY <1>3, <1>5
  <2>3. g.end + g.packet.len = g.off + g.size
    BY <1>3, <1>6
  <2>4. First(g) = g.off + g.key.size
    BY <1>3, <1>7
  <2> QED
    BY <2>1, <2>2, <2>3, <2>4, <1>3 DEF Queued
<1>9. Keyed(g, st)
  BY <1>3 DEF Keyed, Extends
<1>10. Wired(g, st)
  BY <1>3, <1>5 DEF Wired
<1>11. Recovers(g)
  BY <1>3 DEF Recovers
<1>12. Aligned(g, st)
  BY <1>5 DEF Aligned
<1>13. Within(g, n)
  <2>1. g.off + g.size <= n /\ g.end <= n /\ g.packet.off + g.packet.len <= n
        /\ g.off + g.key.size <= n
    BY <1>3, <1>6
  <2> QED
    BY <2>1, <1>5 DEF Within
<1> QED
  <2>1. Good(g, st)
    BY <1>4, <1>6, <1>8, <1>9, <1>10, <1>11, <1>12 DEF Good
  <2> QED
    BY <2>1, <1>3, <1>13 DEF Fresh, g

\* A handler without a key has one of size 0.
LEMMA NoKeyKey == NoKey \in Key /\ NoKey.size = 0
BY DEF NoKey, Key, NoExtent

\* The handler h with one packet more.
Taken(h, p, g, st, n) ==
    /\ Good(g, st) /\ Within(g, n) /\ Onward(g) = Onward(h)
    /\ g.recoverHandler = h.recoverHandler /\ g.status = h.status
    /\ g.packet = NoPacket /\ g.end = p.off + p.len

\* pushToRequest, for a handler without an open packet.
LEMMA PushGood ==
    ASSUME NEW h, NEW p \in Pkt, NEW st, NEW n \in Nat, Good(h, st), Within(h, n),
           p.off = h.end, p.off + p.len <= n, h.status # "open", h.packet = NoPacket
    PROVE  Taken(h, p, PushToRequest(h, p), st, n)
<1> DEFINE g == PushToRequest(h, p)
<1>1. h \in HandlerSet
  BY DEF Good
<1>2. g = [g EXCEPT !.packet = NoPacket]
  BY <1>1 DEF PushToRequest, HandlerSet
<1>3. Good(g, st) /\ Within(g, n) /\ Onward(g) = Onward(h)
  BY <1>2, PushToRequestGood
<1>4. g.recoverHandler = h.recoverHandler /\ g.status = h.status /\ g.packet = NoPacket
      /\ g.end = p.off + p.len
  BY <1>1 DEF PushToRequest, HandlerSet
<1> HIDE DEF g
<1>5. Taken(h, p, g, st, n)
  BY <1>3, <1>4 DEF Taken
<1> QED
  BY <1>5 DEF g

\* The recovery handler that recoverPacket makes for the packet p.
LEMMA RecoveryGood ==
    ASSUME NEW p \in Pkt, NEW mode \in {"tiny", "normal"}, NEW st, NEW n \in Nat,
           p.off + p.len <= n,
           NEW g, g = PushToRequest(SetClosed(NewExtentHandler(p.off, mode, 0, NoKey)), p)
    PROVE  /\ Good(g, st) /\ Within(g, n) /\ g.recoverHandler = 0
           /\ g.status # "open" /\ g.packet = NoPacket /\ g.end = p.off + p.len
<1> DEFINE f == NewExtentHandler(p.off, mode, 0, NoKey)
           c == SetClosed(f)
<1>1. p.off \in Nat /\ p.len \in Nat /\ p.off + 0 = p.off
  BY DEF Pkt
<1>2. p.off + 0 <= n
  BY <1>1
<1>3. Good(f, st) /\ Within(f, n) /\ f.status = "open" /\ f.packet = NoPacket
      /\ f.recoverHandler = 0 /\ f.end = p.off + 0
  <2>1. p.off \in Nat /\ 0 \in Nat
    BY <1>1
  <2>2. Extends(st, NoKey, mode, p.off) /\ NoKey \in Key /\ NoKey.size = 0
    BY NoKeyKey DEF Extends
  <2>3. Fresh(NewExtentHandler(p.off, mode, 0, NoKey), st, n, p.off, mode, 0)
    BY <2>1, <2>2, <1>2, NewGood
  <2> QED
    BY <2>3 DEF Fresh
<1>4. f \in HandlerSet
  BY <1>3 DEF Good
<1> HIDE DEF f
<1>5. Turned(f, c)
  BY <1>4, SetClosedTurned
<1>6. c.status = "closed" /\ c.packet = NoPacket /\ c.end = p.off /\ c.recoverHandler = 0
  <2>1. c.status = "closed"
    BY <1>3, <1>4 DEF SetClosed, HandlerSet
  <2> QED
    BY <2>1, <1>1, <1>3, <1>5 DEF Turned
<1>7. Good(c, st) /\ Within(c, n)
  BY <1>3, <1>5, TurnedGood
<1>8. g = PushToRequest(c, p)
  BY DEF f
<1> HIDE DEF c
<1>9. c.status # "open" /\ p.off = c.end
  BY <1>6
<1>10. Taken(c, p, PushToRequest(c, p), st, n)
  BY <1>6, <1>7, <1>9, PushGood
<1> QED
  BY <1>6, <1>8, <1>10 DEF Taken

-----------------------------------------------------------------------------
(* recoverPacket.                                                          *)

\* The handler h as recoverPacket gets it: given up, the answer taken.
Ready(h, f) ==
    /\ f \in HandlerSet
    /\ f.mode = h.mode /\ f.off = h.off /\ f.size = h.size /\ f.packet = h.packet
    /\ f.inflight = h.inflight /\ f.key = h.key /\ f.dp = h.dp /\ f.ext = h.ext
    /\ f.recoverHandler = h.recoverHandler /\ f.request = h.request
    /\ f.reply = h.reply /\ f.wire = h.wire /\ f.end = h.end
    /\ f.status \in {"recovery", "error"} /\ (~h.dp => f.resp = <<>>)

\* setError does not touch the packet that is to be dealt with.
LEMMA SetErrorReady ==
    ASSUME NEW h, NEW f, Ready(h, f)
    PROVE  Ready(h, SetError(f)) /\ SetError(f).status = "error"
<1>1. Turned(f, SetError(f)) /\ SetError(f) \in HandlerSet /\ SetError(f).status = "error"
  BY SetErrorTurned DEF Ready
<1> QED
  BY <1>1 DEF Turned, Ready

\* The handler f when processReply is over.
Done(f, g) ==
    /\ g \in HandlerSet
    /\ g.mode = f.mode /\ g.off = f.off /\ g.size = f.size /\ g.packet = f.packet
    /\ g.key = f.key /\ g.dp = f.dp /\ g.ext = f.ext /\ g.request = f.request
    /\ g.wire = f.wire /\ g.end = f.end /\ g.status = f.status /\ g.resp = f.resp
    /\ g.recv = "idle" /\ g.reply = Tail(f.reply) /\ g.inflight = f.inflight - 1
    /\ g.recoverHandler = f.recoverHandler

\* The receiver takes the packet it has dealt with off the queue.
LEMMA ProcessedDone ==
    ASSUME NEW f \in HandlerSet, f.reply # <<>>
    PROVE  Done(f, Processed(f))
<1>1. f.reply \in Seq(Pkt) /\ f.inflight \in Int
  BY Fields
<1>2. Tail(f.reply) \in Seq(Pkt) /\ f.inflight - 1 \in Int
  BY <1>1, TailFacts
<1> QED
  BY <1>1, <1>2 DEF Done, Processed, HandlerSet

\* A packet that is discarded has gone from the chain.
LEMMA ProcessedAway ==
    ASSUME NEW h, NEW f, Ready(h, f), h.reply # <<>>
    PROVE  /\ Away(h, Processed(f)) /\ Processed(f).status = f.status
           /\ Processed(f).recoverHandler = h.recoverHandler
<1>1. Done(f, Processed(f))
  BY ProcessedDone DEF Ready
<1> QED
  BY <1>1 DEF Done, Away, Ready

\* The handler f when it has made its recovery handler.
Putting(f, new) == [f EXCEPT !.recoverHandler = new, !.recv = "put"]

\* A packet that is on its way to the recovery handler has gone from the chain.
LEMMA PutAway ==
    ASSUME NEW h, NEW f, Ready(h, f), NEW new \in Nat \ {0}
    PROVE  Away(h, Putting(f, new)) /\ Putting(f, new).recoverHandler = new
<1> DEFINE g == Putting(f, new)
<1>1. f \in HandlerSet
  BY DEF Ready
<1>2. /\ g \in HandlerSet
      /\ g.mode = f.mode /\ g.off = f.off /\ g.size = f.size /\ g.packet = f.packet
      /\ g.key = f.key /\ g.dp = f.dp /\ g.ext = f.ext /\ g.request = f.request
      /\ g.wire = f.wire /\ g.end = f.end /\ g.status = f.status /\ g.resp = f.resp
      /\ g.recv = "put" /\ g.reply = f.reply /\ g.inflight = f.inflight
      /\ g.recoverHandler = new
  BY <1>1 DEF Putting, HandlerSet
<1> HIDE DEF g
<1>3. Away(h, g)
  BY <1>2 DEF Away, Ready
<1> QED
  BY <1>2, <1>3 DEF g

\* discardPacket, for the packet the receiver works on.
LEMMA DiscardFit ==
    ASSUME Fit(eh, store, fsize), fsize \in Nat, Extents(store), NEW id \in Id, NEW f,
           Ready(eh[id], f), eh[id].reply # <<>>, DiscardPacket(id, f)
    PROVE  Fit(eh', store, fsize) /\ Len(eh') = Len(eh)
<1> DEFINE h == eh[id]
           g == Processed(SetError(f))
<1>1. Good(h, store) /\ Within(h, fsize)
  BY DEF Fit, Id
<1>2. eh' = [eh EXCEPT ![id] = g]
  BY DEF DiscardPacket
<1>3. Away(h, g) /\ g.status = "error" /\ g.recoverHandler = h.recoverHandler
  <2>1. Ready(h, SetError(f)) /\ SetError(f).status = "error"
    BY SetErrorReady
  <2> QED
    BY <2>1, ProcessedAway
<1> HIDE DEF g
<1>4. Good(g, store) /\ Within(g, fsize)
  BY <1>1, <1>3, AwayGood
<1>5. Kept(h, g)
  BY <1>3 DEF Away, Kept
<1>6. id \in 1..Len(eh)
  BY DEF Id
<1>7. Fit([eh EXCEPT ![id] = g], store, fsize) /\ Len([eh EXCEPT ![id] = g]) = Len(eh)
  BY <1>4, <1>5, <1>6, TurnFit
<1> QED
  BY <1>2, <1>7

\* recoverPacket: the recovery handler takes the packets of the failed one in order,
\* behind those it took before.
LEMMA RecoverFit ==
    ASSUME Fit(eh, store, fsize), fsize \in Nat, Extents(store), NEW id \in Id, NEW f, Ready(eh[id], f),
           eh[id].reply # <<>>,
           \/ eh[id].recoverHandler = 0
           \/ eh[id].status = "recovery" /\ eh[id].recv = "idle",
           NEW mode \in {"tiny", "normal"}, RecoverPacket(id, f, mode)
    PROVE  Fit(eh', store, fsize) /\ Len(eh') \in Nat /\ Len(eh) <= Len(eh')
<1> DEFINE h == eh[id]
           q == Head(h.reply)
           p == [q EXCEPT !.err = @ + 1]
           r == h.recoverHandler
<1>1. h \in HandlerSet /\ Good(h, store) /\ Within(h, fsize) /\ Len(eh) \in Nat
      /\ eh \in Seq(HandlerSet)
  BY DEF Fit, Id, Good
<1>2. h.reply \in Seq(Pkt) /\ q \in Pkt /\ q = h.reply[1] /\ 1 \in 1..Len(h.reply)
  <2>1. h.reply \in Seq(Pkt)
    BY <1>1, Fields
  <2> QED
    BY <2>1, HeadFirst
<1>3. q.off + q.len <= fsize
  BY <1>1, <1>2 DEF Within
<1>4. p \in Pkt /\ p.off = q.off /\ p.len = q.len
  <2>1. q \in Pkt
    BY <1>2
  <2> HIDE DEF h, q
  <2> QED
    BY <2>1 DEF Pkt
<1>5. f.reply = h.reply /\ f.recoverHandler = r
  BY DEF Ready
<1>7. \A g : Away(h, g) => /\ Good(g, store) /\ Within(g, fsize) /\ g.status # "open"
                           /\ g.packet = h.packet /\ g.end = h.end
                           /\ Onward(g) = q.off + q.len
  <2> SUFFICES ASSUME NEW g, Away(h, g)
               PROVE  /\ Good(g, store) /\ Within(g, fsize) /\ g.status # "open"
                      /\ g.packet = h.packet /\ g.end = h.end
                      /\ Onward(g) = q.off + q.len
    OBVIOUS
  <2>1. Good(g, store) /\ Within(g, fsize) /\ Onward(g) = q.off + q.len
    BY <1>1, AwayGood
  <2> QED
    BY <2>1 DEF Away
<1>8. CASE p.err >= MaxPacketErrorCount
  <2>1. DiscardPacket(id, f)
    BY <1>5, <1>8 DEF RecoverPacket
  <2>2. Fit(eh', store, fsize) /\ Len(eh') = Len(eh)
    BY <2>1, DiscardFit
  <2> QED
    BY <2>2, <1>1
<1>9. CASE ~(p.err >= MaxPacketErrorCount) /\ r = 0
  <2> DEFINE new == Len(eh) + 1
             g == Putting(f, new)
             n == PushToRequest(SetClosed(NewExtentHandler(p.off, mode, 0, NoKey)), p)
  <2>1. eh' = Append([eh EXCEPT ![id] = g], n)
    BY <1>5, <1>9 DEF RecoverPacket, Putting
  <2>2. new \in Nat \ {0}
    BY <1>1
  <2>3. Away(h, g) /\ g.recoverHandler = new
    <3>1. Ready(h, f)
      OBVIOUS
    <3> HIDE DEF h, new
    <3> QED
      BY <3>1, <2>2, PutAway
  <2>4. /\ Good(n, store) /\ Within(n, fsize) /\ n.recoverHandler = 0
        /\ n.status # "open" /\ n.packet = NoPacket /\ n.end = p.off + p.len
    BY <1>3, <1>4, RecoveryGood
  <2> HIDE DEF g, n
  <2>5. /\ Good(g, store) /\ Within(g, fsize) /\ g.status # "open"
        /\ g.packet = h.packet /\ g.end = h.end /\ Onward(g) = n.end
    BY <2>3, <2>4, <1>4, <1>7
  <2>6. Fit(eh', store, fsize) /\ Len(eh') = Len(eh) + 1
    BY <2>1, <2>3, <2>4, <2>5, RecoverNewFit DEF Id
  <2> QED
    BY <2>6, <1>1
<1>10. CASE ~(p.err >= MaxPacketErrorCount) /\ r # 0
  <2> DEFINE g == Processed(f)
             m == PushToRequest(eh[r], p)
  <2>1. eh' = [eh EXCEPT ![id] = g, ![r] = PushToRequest(@, p)]
    BY <1>5, <1>10 DEF RecoverPacket
  <2>2. /\ r \in 1..Len(eh) /\ r # id /\ eh[r].status # "open" /\ eh[r].packet = NoPacket
        /\ eh[r].end = Onward(h)
    BY <1>10 DEF Fit, Linked, Id
  <2>3. eh' = [eh EXCEPT ![id] = g, ![r] = m]
    BY <2>1, <2>2, <1>1
  <2>4. Onward(h) = p.off
    BY <1>4, <1>10 DEF Onward, First, Start
  <2>5. Away(h, g) /\ g.recoverHandler = r
    BY ProcessedAway
  <2>6. Good(eh[r], store) /\ Within(eh[r], fsize)
    BY <2>2 DEF Fit
  <2>7. /\ Good(m, store) /\ Within(m, fsize) /\ Onward(m) = Onward(eh[r])
        /\ m.recoverHandler = eh[r].recoverHandler /\ m.status = eh[r].status
        /\ m.packet = NoPacket /\ m.end = p.off + p.len
    <3>1. p.off = eh[r].end /\ p.off + p.len <= fsize
      BY <2>2, <2>4, <1>3, <1>4
    <3>2. p \in Pkt /\ eh[r].status # "open" /\ eh[r].packet = NoPacket
      BY <2>2, <1>4
    <3> HIDE DEF p, r
    <3>3. Taken(eh[r], p, m, store, fsize)
      BY <3>1, <3>2, <2>6, PushGood
    <3> QED
      BY <3>3 DEF Taken
  <2> HIDE DEF g, m
  <2>8. /\ Good(g, store) /\ Within(g, fsize) /\ g.status # "open"
        /\ g.packet = h.packet /\ g.end = h.end /\ Onward(g) = m.end
    BY <2>5, <2>7, <1>4, <1>7
  <2>9. Fit(eh', store, fsize) /\ Len(eh') = Len(eh)
    <3>1. id \in 1..Len(eh) /\ r # 0 /\ r = eh[id].recoverHandler
      BY <1>10 DEF Id
    <3> HIDE DEF p, r
    <3>2. /\ Fit([eh EXCEPT ![id] = g, ![r] = m], store, fsize)
          /\ Len([eh EXCEPT ![id] = g, ![r] = m]) = Len(eh)
      BY <3>1, <2>5, <2>7, <2>8, RecoverOldFit
    <3> QED
      BY <2>3, <3>2
  <2> QED
    BY <2>9, <1>1
<1> QED
  BY <1>8, <1>9, <1>10

-----------------------------------------------------------------------------
(* The receiver.                                                           *)

\* What the steps of the goroutines of a handler keep.
Advances ==
    /\ Fit(eh', store', fsize') /\ fsize' = fsize
    /\ Len(eh') \in Nat /\ Len(eh) <= Len(eh') /\ Grows(store, store')

\* A handler that is not live is ready for recoverPacket as it is.
LEMMA ReadySelf ==
    ASSUME NEW h, NEW st, Good(h, st), h.status \in {"recovery", "error"}
    PROVE  Ready(h, h)
BY DEF Good, Wired, Ready

\* The receiver that begins to read an answer keeps the handler right.
LEMMA ReadGood ==
    ASSUME NEW h, NEW st, NEW n, Good(h, st), Within(h, n), h.recv = "idle", h.reply # <<>>,
           h.status \in {"open", "closed"}, NEW g, g = [h EXCEPT !.recv = "read"]
    PROVE  Good(g, st) /\ Within(g, n) /\ Kept(h, g)
<1>1. h \in HandlerSet
  BY DEF Good
<1>2. /\ g \in HandlerSet /\ g.recv = "read"
      /\ g.status = h.status /\ g.mode = h.mode /\ g.off = h.off /\ g.size = h.size
      /\ g.packet = h.packet /\ g.inflight = h.inflight /\ g.key = h.key
      /\ g.dp = h.dp /\ g.ext = h.ext /\ g.recoverHandler = h.recoverHandler
      /\ g.request = h.request /\ g.reply = h.reply /\ g.end = h.end
      /\ g.wire = h.wire /\ g.resp = h.resp
  BY <1>1 DEF HandlerSet
<1>3. Live(h) /\ Live(g) /\ First(g) = First(h) /\ Onward(g) = Onward(h)
      /\ \A x : Place(g, x) = Place(h, x)
  BY <1>2 DEF Live, First, Onward, Place
<1>4. Queued(g)
  BY <1>2, <1>3 DEF Good, Queued
<1>5. Keyed(g, st) /\ Wired(g, st) /\ Recovers(g)
  BY <1>2, <1>3 DEF Good, Keyed, Wired, Recovers
<1>6. Aligned(g, st)
  <2>1. Aligned(h, st)
    BY <1>3 DEF Good
  <2>2. g.resp = h.resp /\ g.wire = h.wire /\ g.reply = h.reply
        /\ g.mode = h.mode /\ g.ext = h.ext /\ g.status = h.status
    BY <1>2
  <2> QED
    BY <2>1, <2>2, <1>3, AlignedSame
<1>7. Within(g, n)
  BY <1>2 DEF Within
<1>8. Kept(h, g)
  BY <1>2, <1>3 DEF Kept
<1> QED
  BY <1>2, <1>4, <1>5, <1>6, <1>7, <1>8 DEF Good

\* processReply, up to reading the answer, keeps all handlers right.
LEMMA ProcessReplyAdvances ==
    ASSUME IndInv, NEW id \in Id, ProcessReply(id)
    PROVE  Advances
<1> DEFINE h == eh[id]
<1>1. Fit(eh, store, fsize) /\ fsize \in Nat /\ Extents(store) /\ id \in 1..Len(eh)
  BY DEF IndInv, Types, Id
<1>2. Good(h, store) /\ Within(h, fsize) /\ Len(eh) \in Nat
  BY <1>1 DEF Fit
<1>3. h.recv = "idle" /\ h.reply # <<>> /\ UNCHANGED <<fsize, store>>
  BY DEF ProcessReply, file
<1>4. Grows(store, store)
  BY <1>1, GrowsSelf
<1>5. CASE h.status = "error" /\ DiscardPacket(id, h)
  <2>1. Ready(h, h)
    BY <1>2, <1>5, ReadySelf
  <2>2. Fit(eh', store, fsize) /\ Len(eh') = Len(eh)
    BY <2>1, <1>1, <1>3, <1>5, DiscardFit
  <2> QED
    BY <2>2, <1>2, <1>3, <1>4 DEF Advances
<1>6. CASE h.status = "recovery" /\ RecoverPacket(id, h, "normal")
  <2>1. Ready(h, h)
    BY <1>2, <1>6, ReadySelf
  <2>2. Fit(eh', store, fsize) /\ Len(eh') \in Nat /\ Len(eh) <= Len(eh')
    BY <2>1, <1>1, <1>3, <1>6, RecoverFit
  <2> QED
    BY <2>2, <1>3, <1>4 DEF Advances
<1>7. CASE h.status \in {"open", "closed"} /\ eh' = [eh EXCEPT ![id].recv = "read"]
  <2> DEFINE g == [h EXCEPT !.recv = "read"]
  <2>1. eh' = [eh EXCEPT ![id] = g]
    BY <1>7
  <2>2. Good(g, store) /\ Within(g, fsize) /\ Kept(h, g)
    BY <1>2, <1>3, <1>7, ReadGood
  <2> HIDE DEF g
  <2>3. Fit([eh EXCEPT ![id] = g], store, fsize) /\ Len([eh EXCEPT ![id] = g]) = Len(eh)
    BY <2>2, <1>1, TurnFit
  <2> QED
    BY <2>1, <2>3, <1>2, <1>3, <1>4 DEF Advances
<1> QED
  BY <1>5, <1>6, <1>7 DEF ProcessReply

\* So does an answer that is an error or does not come (processReplyError).
LEMMA ReadFailsAdvances ==
    ASSUME IndInv, NEW id \in Id, ReadFails(id)
    PROVE  Advances
<1> DEFINE h == eh[id]
           f == GiveUp(h)
<1>1. Fit(eh, store, fsize) /\ fsize \in Nat /\ Extents(store) /\ id \in 1..Len(eh)
  BY DEF IndInv, Types, Id
<1>2. Good(h, store) /\ h \in HandlerSet
  BY <1>1 DEF Fit, Good
<1>3. h.recv = "read" /\ UNCHANGED <<fsize, store>> /\ RecoverPacket(id, f, "normal")
  BY DEF ReadFails, file
<1>4. Grows(store, store)
  BY <1>1, GrowsSelf
<1>5. h.reply # <<>> /\ h.recoverHandler = 0 /\ (~h.dp => h.resp = <<>>)
  BY <1>2, <1>3 DEF Good, Queued, Recovers, Live, Wired
<1>6. Turned(h, f) /\ f \in HandlerSet /\ f.status \in {"recovery", "error"}
  BY <1>2, GiveUpTurned
<1> HIDE DEF f
<1>7. Ready(h, f)
  BY <1>5, <1>6 DEF Turned, Ready
<1>8. Fit(eh', store, fsize) /\ Len(eh') \in Nat /\ Len(eh) <= Len(eh')
  BY <1>1, <1>3, <1>5, <1>7, RecoverFit
<1> QED
  BY <1>3, <1>4, <1>8 DEF Advances

\* So does putting the recovery handler on the dirty list.
LEMMA PutRecoverHandlerAdvances ==
    ASSUME IndInv, NEW id \in Id, PutRecoverHandler(id)
    PROVE  Advances
<1> DEFINE h == eh[id]
           g == Processed(h)
<1>1. Fit(eh, store, fsize) /\ fsize \in Nat /\ Extents(store) /\ id \in 1..Len(eh)
  BY DEF IndInv, Types, Id
<1>2. Good(h, store) /\ Within(h, fsize) /\ h \in HandlerSet /\ Len(eh) \in Nat
  BY <1>1 DEF Fit, Good
<1>3. h.recv = "put" /\ UNCHANGED <<fsize, store>> /\ eh' = [eh EXCEPT ![id] = g]
  BY <1>1 DEF PutRecoverHandler, file
<1>4. h.reply # <<>> /\ h.status \in {"recovery", "error"}
  BY <1>2, <1>3, Fields DEF Good, Queued, Recovers, Live
<1>5. Away(h, g) /\ g.status = h.status /\ g.recoverHandler = h.recoverHandler
  BY <1>2, <1>4, ReadySelf, ProcessedAway
<1> HIDE DEF g
<1>6. Good(g, store) /\ Within(g, fsize)
      /\ Onward(g) = Head(h.reply).off + Head(h.reply).len
  BY <1>1, <1>2, <1>4, <1>5, AwayGood
<1>7. Kept(h, g)
  BY <1>3, <1>4, <1>5, <1>6 DEF Kept, Away, Onward
<1>8. Fit([eh EXCEPT ![id] = g], store, fsize) /\ Len([eh EXCEPT ![id] = g]) = Len(eh)
  BY <1>1, <1>6, <1>7, TurnFit
<1>9. Grows(store, store)
  BY <1>1, GrowsSelf
<1> QED
  BY <1>2, <1>3, <1>8, <1>9 DEF Advances

\* An acknowledged packet.
LEMMA ReadAcked ==
    ASSUME NEW h, NEW st, Good(h, st), h.recv = "read", h.resp # <<>>, Head(h.resp).ok,
           NEW k, k = [[h EXCEPT !.resp = Tail(@)] EXCEPT
                           !.key = Extended(h, Head(h.reply), Head(h.resp).eoff),
                           !.dirty = TRUE],
           NEW g, g = Processed(IF h.mode = "tiny" THEN GiveUp(k) ELSE k)
    PROVE  Acked(h, g)
<1> DEFINE x == Extended(h, Head(h.reply), Head(h.resp).eoff)
<1>1. h \in HandlerSet /\ h.reply # <<>> /\ h.mode \in {"tiny", "normal"}
  BY Fields DEF Good, Queued
<1>2. x \in Key
  BY AckedKey
<1> HIDE DEF x
<1>3. h.resp \in Seq(Ack) /\ h.reply \in Seq(Pkt) /\ h.inflight \in Int
  BY <1>1, Fields
<1>4. Tail(h.resp) \in Seq(Ack) /\ Tail(h.reply) \in Seq(Pkt) /\ h.inflight - 1 \in Int
  BY <1>1, <1>3, TailFacts
<1>5. /\ k \in HandlerSet
      /\ k.mode = h.mode /\ k.off = h.off /\ k.size = h.size /\ k.packet = h.packet
      /\ k.dp = h.dp /\ k.ext = h.ext /\ k.recoverHandler = h.recoverHandler
      /\ k.request = h.request /\ k.wire = h.wire /\ k.end = h.end
      /\ k.reply = h.reply /\ k.resp = Tail(h.resp) /\ k.inflight = h.inflight
      /\ k.key = x /\ k.status = h.status
  BY <1>1, <1>2, <1>4 DEF x, HandlerSet
<1> DEFINE f == IF h.mode = "tiny" THEN GiveUp(k) ELSE k
<1>6. /\ f \in HandlerSet
      /\ f.mode = h.mode /\ f.off = h.off /\ f.size = h.size /\ f.packet = h.packet
      /\ f.dp = h.dp /\ f.ext = h.ext /\ f.recoverHandler = h.recoverHandler
      /\ f.request = h.request /\ f.wire = h.wire /\ f.end = h.end
      /\ f.reply = h.reply /\ f.resp = Tail(h.resp) /\ f.inflight = h.inflight
      /\ f.key = x
      /\ h.mode = "normal" => f.status = h.status
      /\ h.mode = "tiny" => f.status \in {"recovery", "error"}
  <2>1. CASE h.mode = "tiny"
    <3>1. Turned(k, GiveUp(k)) /\ GiveUp(k) \in HandlerSet
          /\ GiveUp(k).status \in {"recovery", "error"}
      BY <1>5, GiveUpTurned
    <3>2. f = GiveUp(k)
      BY <2>1
    <3> HIDE DEF f
    <3> QED
      BY <2>1, <3>1, <3>2, <1>5 DEF Turned
  <2>2. CASE h.mode = "normal"
    BY <2>2, <1>5
  <2> QED
    BY <2>1, <2>2, <1>1
<1>7. g = Processed(f)
  OBVIOUS
<1> HIDE DEF f
<1>8. Done(f, g)
  BY <1>1, <1>6, <1>7, ProcessedDone
<1> QED
  BY <1>6, <1>8 DEF Acked, Done, x

\* So does reading an answer.
LEMMA ReadReplyAdvances ==
    ASSUME IndInv, NEW id \in Id, ReadReply(id)
    PROVE  Advances
<1> DEFINE h == eh[id]
           f == [h EXCEPT !.resp = Tail(@)]
           k == [f EXCEPT !.key = Extended(h, Head(h.reply), Head(h.resp).eoff),
                          !.dirty = TRUE]
<1>1. Fit(eh, store, fsize) /\ fsize \in Nat /\ Extents(store) /\ id \in 1..Len(eh)
  BY DEF IndInv, Types, Id
<1>2. Good(h, store) /\ Within(h, fsize) /\ h \in HandlerSet /\ Len(eh) \in Nat
  BY <1>1 DEF Fit, Good
<1>3. h.recv = "read" /\ h.resp # <<>> /\ UNCHANGED <<fsize, store>>
  BY DEF ReadReply, file
<1>4. Grows(store, store)
  BY <1>1, GrowsSelf
<1>5. h.reply # <<>> /\ h.recoverHandler = 0 /\ h.dp
  BY <1>2, <1>3 DEF Good, Queued, Recovers, Live, Wired
<1>6. CASE /\ Head(h.resp).ok
           /\ eh' = [eh EXCEPT ![id] =
                       Processed(IF h.mode = "tiny" THEN GiveUp(k) ELSE k)]
  <2> DEFINE g == Processed(IF h.mode = "tiny" THEN GiveUp(k) ELSE k)
  <2>1. Acked(h, g)
    BY <1>2, <1>3, <1>6, ReadAcked
  <2>2. eh' = [eh EXCEPT ![id] = g]
    BY <1>6
  <2> HIDE DEF g
  <2>3. Good(g, store) /\ Within(g, fsize) /\ Kept(h, g)
    BY <2>1, <1>1, <1>2, <1>3, <1>6, AckedGood
  <2>4. Fit([eh EXCEPT ![id] = g], store, fsize) /\ Len([eh EXCEPT ![id] = g]) = Len(eh)
    BY <2>3, <1>1, TurnFit
  <2> QED
    BY <2>2, <2>4, <1>2, <1>3, <1>4 DEF Advances
<1>7. CASE \E mode \in {"normal", h.mode} : RecoverPacket(id, GiveUp(f), mode)
  <2>1. PICK mode \in {"normal", h.mode} : RecoverPacket(id, GiveUp(f), mode)
    BY <1>7
  <2>2. mode \in {"tiny", "normal"}
    BY <1>2, Fields
  <2>3. /\ f \in HandlerSet
        /\ f.mode = h.mode /\ f.off = h.off /\ f.size = h.size /\ f.packet = h.packet
        /\ f.inflight = h.inflight /\ f.key = h.key /\ f.dp = h.dp /\ f.ext = h.ext
        /\ f.recoverHandler = h.recoverHandler /\ f.request = h.request
        /\ f.reply = h.reply /\ f.wire = h.wire /\ f.end = h.end
    <3>1. Tail(h.resp) \in Seq(Ack)
      BY <1>2, <1>3, Fields, TailFacts
    <3> HIDE DEF h
    <3> QED
      BY <3>1, <1>2 DEF HandlerSet
  <2> HIDE DEF f
  <2>4. Turned(f, GiveUp(f)) /\ GiveUp(f) \in HandlerSet
        /\ GiveUp(f).status \in {"recovery", "error"}
    BY <2>3, GiveUpTurned
  <2>5. Ready(h, GiveUp(f))
    BY <2>3, <2>4, <1>5 DEF Turned, Ready
  <2>6. Fit(eh', store, fsize) /\ Len(eh') \in Nat /\ Len(eh) <= Len(eh')
    BY <2>1, <2>2, <2>5, <1>1, <1>5, RecoverFit
  <2> QED
    BY <2>6, <1>3, <1>4 DEF Advances
<1> QED
  BY <1>6, <1>7 DEF ReadReply

-----------------------------------------------------------------------------
(* The data node and the sender.                                           *)

\* What an answer of a data node changes in the handler.
LEMMA AnswerFields ==
    ASSUME NEW h \in HandlerSet, h.wire # <<>>, NEW r \in Ack,
           NEW g, g = [h EXCEPT !.wire = Tail(@), !.resp = Append(@, r)]
    PROVE  Answered(h, r, g)
<1>1. Tail(h.wire) \in Seq(Msg) /\ Append(h.resp, r) \in Seq(Ack)
  BY Fields, TailFacts, AppendFacts
<1> QED
  BY <1>1 DEF Answered, HandlerSet

\* A data node that handles a packet keeps all handlers right.
LEMMA DataNodeAdvances ==
    ASSUME IndInv, NEW id \in Id, DataNode(id)
    PROVE  Advances
<1> DEFINE h == eh[id]
           w == Head(h.wire)
           data == [j \in 1..w.len |-> w.off + j - 1]
           end == Len(store[w.ext])
           accepts == w.ext = TinyExtent \/ w.eoff = end
           stored == [store EXCEPT ![w.ext] = @ \o data]
           R(ok) == [ok |-> ok, eoff |-> end]
           G(ok) == [h EXCEPT !.wire = Tail(@), !.resp = Append(@, R(ok))]
<1>1. Fit(eh, store, fsize) /\ fsize \in Nat /\ Extents(store) /\ id \in 1..Len(eh)
  BY DEF IndInv, Types, Id
<1>2. Good(h, store) /\ Within(h, fsize) /\ h \in HandlerSet /\ Len(eh) \in Nat
      /\ eh \in Seq(HandlerSet)
  BY <1>1 DEF Fit, Good
<1>3. h.wire # <<>> /\ fsize' = fsize
  BY DEF DataNode, file
<1>4. w \in Msg /\ w = h.wire[1] /\ 1 \in 1..Len(h.wire)
  <2>1. h.wire \in Seq(Msg)
    BY <1>2, Fields
  <2> QED
    BY <2>1, <1>3, HeadFirst
<1>5. w.off \in Nat /\ w.len \in Nat
  BY <1>4 DEF Msg
<1>6. /\ w.ext = h.ext /\ w.ext \in DOMAIN store
      /\ (w.ext = TinyExtent <=> h.mode = "tiny")
  BY <1>2, <1>3, <1>4 DEF Good, Wired
<1>7. store[w.ext] \in Seq(Int) /\ end \in Nat
  BY <1>1, <1>6 DEF Extents
<1>8. /\ Grows(store, store) /\ Grows(store, stored)
      /\ Placed(stored, w.ext, end, w.off, w.len)
  BY <1>1, <1>5, <1>6, GrowsSelf, StoredPlaced
<1>9. \A ok \in BOOLEAN : R(ok) \in Ack /\ R(ok).ok = ok /\ R(ok).eoff = end
  BY <1>7 DEF Ack
<1>10. \E ok \in BOOLEAN :
          /\ eh' = [eh EXCEPT ![id].wire = Tail(@), ![id].resp = Append(@, R(ok))]
          /\ store' \in {store, stored}
          /\ ok => accepts /\ store' = stored
  <2>1. CASE eh' = [eh EXCEPT ![id].wire = Tail(@), ![id].resp = Append(@, R(accepts))]
             /\ store' = IF accepts THEN stored ELSE store
    <3>1. accepts \in BOOLEAN
      OBVIOUS
    <3> HIDE DEF stored, accepts, R
    <3> QED
      BY <2>1, <3>1
  <2>2. CASE eh' = [eh EXCEPT ![id].wire = Tail(@), ![id].resp = Append(@, R(FALSE))]
             /\ store' \in IF accepts THEN {store, stored} ELSE {store}
    <3> HIDE DEF stored, accepts, R
    <3> QED
      BY <2>2
  <2> QED
    BY <2>1, <2>2 DEF DataNode
<1>11. PICK ok \in BOOLEAN :
          /\ eh' = [eh EXCEPT ![id].wire = Tail(@), ![id].resp = Append(@, R(ok))]
          /\ store' \in {store, stored}
          /\ ok => accepts /\ store' = stored
  BY <1>10
<1> DEFINE r == R(ok)
           g == [h EXCEPT !.wire = Tail(@), !.resp = Append(@, r)]
<1>12. eh' = [eh EXCEPT ![id] = g]
  BY <1>1, <1>2, <1>11
<1>13. Grows(store, store') /\ r \in Ack /\ r.ok = ok /\ r.eoff = end
  BY <1>8, <1>9, <1>11
<1> HIDE DEF r, R
<1>14. Answered(h, r, g)
  BY <1>2, <1>3, <1>13, AnswerFields
<1>15. r.ok => /\ Placed(store', h.ext, r.eoff, w.off, w.len)
               /\ h.mode = "normal" => r.eoff = w.eoff
  <2> HIDE DEF w, data, stored, end
  <2> QED
    BY <1>6, <1>8, <1>11, <1>13
<1> HIDE DEF g, stored, data
<1>16. Good(g, store') /\ Within(g, fsize) /\ Kept(h, g)
  BY <1>2, <1>3, <1>13, <1>14, <1>15, AnsweredGood
<1>17. Fit([eh EXCEPT ![id] = g], store', fsize) /\ Len([eh EXCEPT ![id] = g]) = Len(eh)
  <2>1. fsize <= fsize
    BY <1>1
  <2> QED
    BY <2>1, <1>1, <1>13, <1>16, StepFit
<1> QED
  BY <1>2, <1>3, <1>12, <1>13, <1>17 DEF Advances

\* The handler x when the sender has handed its first packet to the receiver.
Passed(x, p) == [x EXCEPT !.request = Tail(@), !.reply = Append(@, p)]

\* The sender that passes a packet on without sending it moves it to reply.
LEMMA PassedMoved ==
    ASSUME NEW x \in HandlerSet, x.request # <<>>
    PROVE  Moved(x, Passed(x, Head(x.request))) /\ Passed(x, Head(x.request)).wire = x.wire
<1> DEFINE p == Head(x.request)
<1>1. x.request \in Seq(Pkt) /\ x.reply \in Seq(Pkt)
  BY Fields
<1>2. p \in Pkt /\ Tail(x.request) \in Seq(Pkt)
  BY <1>1, TailFacts
<1>3. Append(x.reply, p) \in Seq(Pkt)
  BY <1>1, <1>2, AppendFacts
<1> HIDE DEF p
<1>4. Moved(x, Passed(x, p)) /\ Passed(x, p).wire = x.wire
  BY <1>2, <1>3 DEF Moved, Passed, HandlerSet, p
<1> QED
  BY <1>4 DEF p

\* It gives up, and passes the packet on.
LEMMA PassedUpGood ==
    ASSUME NEW h, NEW x, NEW st, NEW n, Good(h, st), Within(h, n), h.request # <<>>,
           Turned(h, x), x.status \in {"recovery", "error"},
           NEW g, g = Passed(x, Head(h.request))
    PROVE  Good(g, st) /\ Within(g, n) /\ Kept(h, g)
<1>1. Good(x, st) /\ Within(x, n) /\ Kept(h, x)
  BY TurnedGood
<1>2. x \in HandlerSet /\ x.request = h.request
  BY DEF Turned
<1>3. Moved(x, g) /\ g.wire = x.wire
  BY <1>2, PassedMoved
<1>4. Good(g, st) /\ Within(g, n) /\ Kept(x, g)
  BY <1>1, <1>2, <1>3, MovedGood
<1> QED
  BY <1>1, <1>4, KeptOn

\* It sends the packet, and passes it on.
LEMMA PassedSentGood ==
    ASSUME NEW h, NEW st, NEW n, Good(h, st), Within(h, n), h.request # <<>>, Extents(st),
           h.dp, h.status \in {"open", "closed"},
           NEW x, x = Sent(h, Head(h.request)), NEW g, g = Passed(x, Head(h.request))
    PROVE  Good(g, st) /\ Within(g, n) /\ Kept(h, g) /\ x \in HandlerSet /\ x.request = h.request
<1> DEFINE p == Head(h.request)
           w == [off |-> p.off, len |-> p.len, ext |-> h.ext,
                 eoff |-> p.off - h.off + h.key.eoff]
<1>1. h \in HandlerSet
  BY DEF Good
<1>2. h.request \in Seq(Pkt) /\ h.wire \in Seq(Msg) /\ h.off \in Nat /\ h.key \in Key
  BY <1>1, Fields
<1>3. p \in Pkt
  BY <1>2, TailFacts
<1>4. h.ext \in Nat
  BY DEF Good, Wired, Extents
<1>5. w \in Msg /\ w.off = p.off /\ w.len = p.len /\ w.ext = h.ext /\ w.eoff = Place(h, p)
  <2>1. p.off - h.off + h.key.eoff \in Int
    BY <1>2, <1>3 DEF Pkt, Key
  <2>2. p.off \in Nat /\ p.len \in Nat \ {0}
    BY <1>3 DEF Pkt
  <2> HIDE DEF p
  <2> QED
    BY <2>1, <2>2, <1>4 DEF Msg, Place
<1>6. x = [h EXCEPT !.wire = Append(@, w)]
  BY DEF Sent
<1> HIDE DEF w, p
<1>7. Append(h.wire, w) \in Seq(Msg)
  BY <1>2, <1>5, AppendFacts
<1>8. /\ x \in HandlerSet /\ x.wire = Append(h.wire, w)
      /\ x.status = h.status /\ x.mode = h.mode /\ x.off = h.off /\ x.size = h.size
      /\ x.packet = h.packet /\ x.inflight = h.inflight /\ x.key = h.key
      /\ x.dp = h.dp /\ x.ext = h.ext /\ x.recoverHandler = h.recoverHandler
      /\ x.request = h.request /\ x.reply = h.reply /\ x.recv = h.recv
      /\ x.resp = h.resp /\ x.end = h.end
  BY <1>1, <1>6, <1>7 DEF HandlerSet
<1>9. Moved(x, g) /\ g.wire = x.wire
  BY <1>8, PassedMoved
<1>10. Moved(h, g) /\ g.wire = Append(h.wire, w)
  BY <1>8, <1>9 DEF Moved
<1>11. Good(g, st) /\ Within(g, n) /\ Kept(h, g)
  BY <1>5, <1>10, SentGood DEF p
<1> QED
  BY <1>8, <1>11

\* A change of status and the move of a packet can be exchanged.
LEMMA MovedTurned ==
    ASSUME NEW s, NEW x, NEW f, NEW g, Turned(s, x), Moved(s, f), Moved(x, g),
           f.wire = s.wire, g.wire = x.wire
    PROVE  Turned(f, g)
<1>1. x.request = s.request /\ x.reply = s.reply /\ x.wire = s.wire
  BY DEF Turned
<1>2. g.request = f.request /\ g.reply = f.reply /\ g.wire = f.wire
  BY <1>1 DEF Moved
<1>3. /\ g \in HandlerSet
      /\ g.mode = f.mode /\ g.off = f.off /\ g.size = f.size /\ g.packet = f.packet
      /\ g.inflight = f.inflight /\ g.key = f.key /\ g.dp = f.dp /\ g.ext = f.ext
      /\ g.recoverHandler = f.recoverHandler /\ g.recv = f.recv
      /\ g.resp = f.resp /\ g.end = f.end
      /\ f.status = s.status /\ g.status = x.status
  BY DEF Turned, Moved
<1> QED
  BY <1>2, <1>3 DEF Turned

\* The same, and it gives up afterwards.
LEMMA PassedLateGood ==
    ASSUME NEW h, NEW st, NEW n, Good(h, st), Within(h, n), h.request # <<>>, Extents(st),
           h.dp, h.status \in {"open", "closed"},
           NEW x, x = GiveUp(Sent(h, Head(h.request))), NEW g, g = Passed(x, Head(h.request))
    PROVE  Good(g, st) /\ Within(g, n) /\ Kept(h, g)
<1> DEFINE s == Sent(h, Head(h.request))
           f == Passed(s, Head(h.request))
<1>1. Good(f, st) /\ Within(f, n) /\ Kept(h, f) /\ s \in HandlerSet /\ s.request = h.request
  BY PassedSentGood
<1> HIDE DEF s
<1>2. Turned(s, x) /\ x \in HandlerSet
  BY <1>1, GiveUpTurned DEF s
<1>3. x.request = h.request
  BY <1>1, <1>2 DEF Turned
<1>4. Moved(s, f) /\ f.wire = s.wire
  BY <1>1, PassedMoved
<1>5. Moved(x, g) /\ g.wire = x.wire
  BY <1>2, <1>3, PassedMoved
<1> HIDE DEF f
<1>6. Turned(f, g)
  BY <1>2, <1>4, <1>5, MovedTurned
<1>7. Good(g, st) /\ Within(g, n) /\ Kept(f, g)
  BY <1>1, <1>6, TurnedGood
<1> QED
  BY <1>1, <1>7, KeptOn

\* allocateExtent in terms of the extents it leaves.
LEMMA AllottedExtent ==
    ASSUME NEW h, NEW st, NEW n, Good(h, st), Within(h, n), ~h.dp, NEW id \in Nat \ {0},
           Extents(st), TinyExtent \in DOMAIN st
    PROVE  Allotted(h, AllocateExtent(h, id), st,
                    Allotment(st, id, AllocateExtent(h, id).ext), n)
<1> DEFINE a == AllocateExtent(h, id)
           new == IF a.ext = id THEN Over(st, [e \in {id} |-> <<>>]) ELSE st
<1>1. a = AllocateExtent(h, id) /\ new = Allotment(st, id, a.ext)
      /\ new = IF a.ext = id THEN Over(st, [e \in {id} |-> <<>>]) ELSE st
  BY DEF Allotment
<1> HIDE DEF new, a
<1>2. Allotted(h, a, st, new, n)
  BY <1>1, AllocateGood
<1> QED
  BY <1>1, <1>2

\* A step of one handler.
LEMMA StepAdvances ==
    ASSUME IndInv, NEW id \in Id, NEW g, Good(g, store'), Within(g, fsize),
           Kept(eh[id], g), Grows(store, store'), fsize' = fsize
    PROVE  eh' = [eh EXCEPT ![id] = g] => Advances
<1>1. /\ Fit(eh, store, fsize) /\ fsize \in Nat /\ id \in 1..Len(eh) /\ fsize <= fsize
      /\ Len(eh) \in Nat /\ Len(eh) <= Len(eh)
  BY DEF IndInv, Types, Id, Fit
<1>2. Fit([eh EXCEPT ![id] = g], store', fsize) /\ Len([eh EXCEPT ![id] = g]) = Len(eh)
  BY <1>1, StepFit
<1> QED
  BY <1>1, <1>2 DEF Advances

\* The sender keeps all handlers right.
LEMMA SenderAdvances ==
    ASSUME IndInv, NEW id \in Id, Sender(id)
    PROVE  Advances
<1> DEFINE h == eh[id]
           p == Head(h.request)
           a == IF h.dp THEN h ELSE AllocateExtent(h, id)
           allocated == IF a.ext = id /\ ~h.dp THEN Over(store, [e \in {id} |-> <<>>])
                        ELSE store
<1>1. /\ Fit(eh, store, fsize) /\ fsize \in Nat /\ Extents(store)
      /\ TinyExtent \in DOMAIN store /\ id \in 1..Len(eh) /\ Len(eh) \in Nat
  BY DEF IndInv, Types, Id, Fit
<1>2. Good(h, store) /\ Within(h, fsize) /\ h \in HandlerSet
  BY <1>1 DEF Fit, Good
<1>3. h.request # <<>> /\ fsize' = fsize /\ id \in Nat \ {0} /\ h.dp \in BOOLEAN
  BY <1>1, <1>2, Fields DEF Sender, file
<1>4. \/ /\ h.status \in {"recovery", "error"}
         /\ eh' = [eh EXCEPT ![id] = Passed(h, p)] /\ store' = store
      \/ /\ eh' = [eh EXCEPT ![id] = Passed(IF h.key = NoKey THEN SetError(GiveUp(h))
                                            ELSE GiveUp(h), p)]
         /\ store' = store
      \/ /\ h.status \in {"open", "closed"} /\ store' = allocated
         /\ \/ eh' = [eh EXCEPT ![id] = Passed(Sent(a, p), p)]
            \/ eh' = [eh EXCEPT ![id] = Passed(GiveUp(a), p)]
            \/ eh' = [eh EXCEPT ![id] = Passed(GiveUp(Sent(a, p)), p)]
  BY DEF Sender, Passed
<1>5. ASSUME NEW g, Good(g, store'), Within(g, fsize), Kept(h, g), Grows(store, store'),
             eh' = [eh EXCEPT ![id] = g]
      PROVE  Advances
  BY <1>3, <1>5, StepAdvances
<1>6. Grows(store, store)
  BY <1>1, GrowsSelf
<1>7. /\ Grows(store, allocated) /\ Good(a, allocated) /\ Within(a, fsize) /\ Kept(h, a)
      /\ a.dp /\ a.status = h.status /\ a.request = h.request
  <2>1. CASE h.dp
    BY <2>1, <1>2, <1>6, KeptSelf
  <2>2. CASE ~h.dp
    <3>1. a = AllocateExtent(h, id)
      BY <2>2
    <3>2. allocated = Allotment(store, id, a.ext)
      BY <2>2 DEF Allotment
    <3>3. id \in Nat \ {0}
      BY <1>3
    <3> HIDE DEF a, allocated, h
    <3>4. Allotted(h, AllocateExtent(h, id), store,
                   Allotment(store, id, AllocateExtent(h, id).ext), fsize)
      BY <3>3, <2>2, <1>1, <1>2, AllottedExtent
    <3>5. Allotted(h, a, store, allocated, fsize)
      BY <3>1, <3>2, <3>4
    <3> QED
      BY <3>5 DEF Allotted
  <2> QED
    BY <2>1, <2>2, <1>3
<1>8. p = Head(a.request) /\ a.request # <<>> /\ Extents(allocated)
  BY <1>3, <1>7 DEF Grows
<1>9. a \in HandlerSet
  BY <1>7 DEF Good
<1> DEFINE u == IF h.key = NoKey THEN SetError(GiveUp(h)) ELSE GiveUp(h)
<1> HIDE DEF h, a, allocated
<1>10. Turned(h, u) /\ u.status \in {"recovery", "error"}
  <2>1. Turned(h, GiveUp(h)) /\ GiveUp(h) \in HandlerSet
        /\ GiveUp(h).status \in {"recovery", "error"}
    BY <1>2, GiveUpTurned
  <2>2. Turned(GiveUp(h), SetError(GiveUp(h)))
        /\ SetError(GiveUp(h)).status = "error"
    BY <2>1, SetErrorTurned
  <2>3. Turned(h, SetError(GiveUp(h)))
    BY <1>2, <2>1, <2>2, TurnedOn
  <2> QED
    BY <2>1, <2>2, <2>3
<1>11. h.status \in {"recovery", "error"} =>
         Good(Passed(h, p), store) /\ Within(Passed(h, p), fsize) /\ Kept(h, Passed(h, p))
  BY <1>2, <1>3, TurnedSelf, PassedUpGood
<1> HIDE DEF u
<1>12. Good(Passed(u, p), store) /\ Within(Passed(u, p), fsize) /\ Kept(h, Passed(u, p))
  BY <1>2, <1>3, <1>10, PassedUpGood
<1> HIDE DEF p
<1>13. ASSUME h.status \in {"open", "closed"}
       PROVE  LET g == Passed(Sent(a, p), p)
              IN  Good(g, allocated) /\ Within(g, fsize) /\ Kept(a, g)
  BY <1>7, <1>8, <1>13, PassedSentGood
<1>14. ASSUME h.status \in {"open", "closed"}
       PROVE  LET g == Passed(GiveUp(Sent(a, p)), p)
              IN  Good(g, allocated) /\ Within(g, fsize) /\ Kept(a, g)
  BY <1>7, <1>8, <1>14, PassedLateGood
<1>15. LET g == Passed(GiveUp(a), p)
       IN  Good(g, allocated) /\ Within(g, fsize) /\ Kept(a, g)
  <2>1. Turned(a, GiveUp(a)) /\ GiveUp(a).status \in {"recovery", "error"}
    BY <1>9, GiveUpTurned
  <2> QED
    BY <1>7, <1>8, <2>1, PassedUpGood
<1>16. CASE h.status \in {"recovery", "error"}
            /\ eh' = [eh EXCEPT ![id] = Passed(h, p)] /\ store' = store
  BY <1>16, <1>11, <1>6, <1>5
<1>17. CASE eh' = [eh EXCEPT ![id] = Passed(u, p)] /\ store' = store
  BY <1>17, <1>12, <1>6, <1>5
<1>18. CASE h.status \in {"open", "closed"} /\ store' = allocated
            /\ eh' = [eh EXCEPT ![id] = Passed(Sent(a, p), p)]
  <2>1. Kept(h, Passed(Sent(a, p), p))
    BY <1>18, <1>7, <1>13, KeptOn
  <2> QED
    BY <2>1, <1>18, <1>13, <1>7, <1>5
<1>19. CASE store' = allocated /\ eh' = [eh EXCEPT ![id] = Passed(GiveUp(a), p)]
  <2>1. Kept(h, Passed(GiveUp(a), p))
    BY <1>7, <1>15, KeptOn
  <2> QED
    BY <2>1, <1>19, <1>15, <1>7, <1>5
<1>20. CASE h.status \in {"open", "closed"} /\ store' = allocated
            /\ eh' = [eh EXCEPT ![id] = Passed(GiveUp(Sent(a, p)), p)]
  <2>1. Kept(h, Passed(GiveUp(Sent(a, p)), p))
    BY <1>20, <1>7, <1>14, KeptOn
  <2> QED
    BY <2>1, <1>20, <1>14, <1>7, <1>5
<1> QED
  BY <1>4, <1>16, <1>17, <1>18, <1>19, <1>20 DEF u
=============================================================================
