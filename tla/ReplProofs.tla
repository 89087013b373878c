----------------------------- MODULE ReplProofs -----------------------------
(***************************************************************************)
(* That a write the client was told has succeeded is stored on all of the  *)
(* replicas, that the copies of an extent agree, and that a tiny extent is *)
(* never lost, for any number of followers, packets, extents and faults and *)
(* any capacity of the channels.                                           *)
(*                                                                         *)
(* A replica stores a packet only at the offset the packet was given       *)
(* (Entries), so that two replicas can differ at an offset only if two     *)
(* packets were given the same one.  The offsets of normal packets are the *)
(* client's.  The offset of a tiny packet is the end of the leader's file  *)
(* when the packet was read, and it is new because the earlier packets of  *)
(* that extent are all in that file, or the extent is broken (Behind):     *)
(* an extent goes back to the available ones only with a packet whose      *)
(* result is "ok", so nobody may post a packet that has no result yet      *)
(* (Settled) while the server still reads.                                 *)
(***************************************************************************)
EXTENDS ReplInv

\* The provers' time for a step, in seconds
USE ZenonT(5), SMTT(60), ZenonT(60)

Placing(p) == extent[p] # NoExtent

\* A packet has a place once it was read, as its kind wants it.
Kinded(p) ==
    /\ p \in released => Placing(p)
    /\ Placing(p) =>
          /\ p <= nread /\ offset[p] \in Nat
          /\ \/ kind[p] = "tiny" /\ extent[p] \in TinyExtents
             \/ kind[p] = "normal" /\ extent[p] = NormalExtent /\ offset[p] < sent

Unique ==
    \A p, q \in Packet :
        Placing(p) /\ extent[p] = extent[q] /\ offset[p] = offset[q] => p = q

Entry(r, x, i) ==
    \E p \in Packet : file[r][x][i] = p /\ extent[p] = x /\ offset[p] = i - 1

Entries ==
    \A r \in Replica, x \in Extent : \A i \in 1..Len(file[r][x]) : Entry(r, x, i)

\* While the server reads, what nobody holds is behind the end of the leader's file.
Behind(p) ==
    server = "read" /\ kind[p] = "tiny" /\ Placing(p) =>
        \/ Holds(p)
        \/ extent[p] \in broken
        \/ offset[p] < Len(file[0][extent[p]])

OneHolder ==
    /\ available \cup broken \subseteq TinyExtents
    /\ available \cap broken = {}
    /\ \A p, q \in Packet : Holds(p) =>
          /\ extent[p] \notin available \cup broken
          /\ Holds(q) /\ extent[p] = extent[q] => p = q

Places ==
    /\ sent \in Nat
    /\ \A p \in Packet : Kinded(p) /\ Behind(p)
    /\ Unique /\ Entries /\ OneHolder

\* A packet has its result before the receiver looks at it and before it is answered.
Settled ==
    /\ \A p \in Elems(packetList) : result[p] = "init" => Writing /\ oper.p = p
    /\ \A p \in Elems(responseCh) : result[p] # "init"

\* A packet that holds an extent is somewhere the connection will find it.
Found(p) ==
    Holds(p) => \/ p \in dropped \cup Elems(toBeProcessedCh) \cup Elems(packetList)
                         \cup Elems(responseCh)
                \/ (Sending \/ Writing) /\ oper.p = p

Emptied ==
    exited = ReplHasExited =>
        toBeProcessedCh = <<>> /\ packetList = <<>> /\ responseCh = <<>>

Flow == Settled /\ (\A p \in Packet : Found(p)) /\ Emptied

AgreeInv == Places /\ Flow

-----------------------------------------------------------------------------
(* Helpers *)

\* The elements of a sequence to which one is appended
LEMMA ElemsAppend ==
  ASSUME NEW S, NEW s \in Seq(S), NEW e \in S
  PROVE  Elems(Append(s, e)) = Elems(s) \cup {e}
<1> DEFINE t == Append(s, e)
<1>1. /\ t \in Seq(S) /\ Len(t) = Len(s) + 1 /\ Len(s) \in Nat
      /\ \A i \in 1..Len(s) : t[i] = s[i]
      /\ t[Len(s) + 1] = e
  BY AppendFacts
<1> HIDE DEF t
<1>2. DOMAIN s = 1..Len(s) /\ DOMAIN t = 1..(Len(s) + 1)
  BY <1>1
<1>3. ASSUME NEW x \in Elems(t) PROVE x \in Elems(s) \cup {e}
  BY <1>1, <1>2 DEF Elems
<1>4. ASSUME NEW x \in Elems(s) PROVE x \in Elems(t)
  BY <1>1, <1>2 DEF Elems
<1>5. e \in Elems(t)
  BY <1>1, <1>2 DEF Elems
<1> QED BY <1>3, <1>4, <1>5 DEF t

\* The elements of a sequence are its head and those of its tail.
LEMMA ElemsTail ==
  ASSUME NEW S, NEW s \in Seq(S), s # <<>>
  PROVE  Elems(s) = Elems(Tail(s)) \cup {Head(s)}
<1> DEFINE t == Tail(s)
<1>1. /\ t \in Seq(S) /\ Len(t) = Len(s) - 1 /\ Len(s) \in Nat /\ Len(s) > 0
      /\ \A i \in 1..(Len(s) - 1) : t[i] = s[i + 1]
      /\ Head(s) = s[1]
  BY TailFacts
<1> HIDE DEF t
<1>2. DOMAIN s = 1..Len(s) /\ DOMAIN t = 1..(Len(s) - 1)
  BY <1>1
<1>3. ASSUME NEW x \in Elems(s) PROVE x \in Elems(t) \cup {Head(s)}
  <2>1. PICK i \in 1..Len(s) : x = s[i]
    BY <1>2 DEF Elems
  <2>2. CASE i = 1
    BY <1>1, <2>1, <2>2
  <2>3. CASE i # 1
    <3>1. i - 1 \in 1..(Len(s) - 1) /\ t[i - 1] = s[(i - 1) + 1] /\ (i - 1) + 1 = i
      BY <1>1, <2>3
    <3> QED BY <1>2, <2>1, <3>1 DEF Elems
  <2> QED BY <2>2, <2>3
<1>4. ASSUME NEW x \in Elems(t) PROVE x \in Elems(s)
  BY <1>1, <1>2 DEF Elems
<1>5. Head(s) \in Elems(s)
  BY <1>1, <1>2 DEF Elems
<1> QED BY <1>3, <1>4, <1>5 DEF t

\* The channels and the list hold packets.
LEMMA ElemsType ==
  ASSUME Types
  PROVE  Elems(toBeProcessedCh) \cup Elems(packetList) \cup Elems(responseCh) \subseteq Packet
  BY QueueFacts DEF Elems

\* An empty sequence has no elements.
LEMMA ElemsEmpty == Elems(<<>>) = {}
  BY DEF Elems

\* When the last goroutine has left, all have.
LEMMA AllGone ==
  ASSUME Exits, exited = ReplHasExited
  PROVE  /\ server = "gone" /\ oper = Gone /\ receiver = Gone /\ writer = "gone"
         /\ oper # Idle /\ receiver # Idle
<1>1. server = "gone" /\ oper = Gone /\ receiver = Gone /\ writer = "gone"
  BY DEF Exits, Left, ReplHasExited, ReplRuning, ReplExiting
<1>2. Idle # Gone
  <2>1. Idle.i = 0 /\ Gone.i = -1
    BY DEF Idle, Gone
  <2> QED BY <2>1
<1> QED BY <1>1, <1>2

-----------------------------------------------------------------------------
(* The places of the packets *)

\* A step that neither writes, prepares nor releases keeps the places.
LEMMA PlacesSame ==
  ASSUME Types, Types', Places, nread <= nread', server' = "read" => server = "read",
         sent' \in Nat, sent <= sent',
         UNCHANGED <<kind, extent, offset, file, released, available, broken>>
  PROVE  Places'
<1>1. Packet' = Packet /\ Packet \subseteq Nat /\ nread \in Nat /\ nread' \in Nat
  <2>1. nread' \in 0..Len(kind')
    BY DEF Types
  <2> QED BY <2>1, PacketFacts DEF Packet
<1>2. \A p \in Packet : Holds(p)' <=> Holds(p)
  BY DEF Holds
<1>3. \A p \in Packet : Kinded(p)'
  <2>1. \A p \in Packet : Placing(p)' <=> Placing(p)
    BY DEF Placing
  <2>2. sent \in Nat /\ \A p \in Packet : Kinded(p)
    BY DEF Places
  <2> QED BY <1>1, <2>1, <2>2 DEF Kinded
<1>4. \A p \in Packet : Behind(p)'
  BY <1>2 DEF Places, Behind, Placing
<1>5. Unique' /\ Entries'
  BY <1>1 DEF Places, Unique, Entries, Entry, Placing
<1>6. OneHolder'
  BY <1>1, <1>2 DEF Places, OneHolder
<1> QED BY <1>1, <1>3, <1>4, <1>5, <1>6 DEF Places

\* A packet that is appended to a file is in its place.
LEMMA PlacesWritten ==
  ASSUME Types, Types', Places, NEW r \in Replica, NEW p \in Packet, Good(p), Fits(r, p),
         file' = Written(r, p, p),
         UNCHANGED <<kind, nread, sent, extent, offset, released, available, broken, server>>
  PROVE  Places'
<1>1. Packet' = Packet
  BY DEF Packet
<1>2. \A q \in Packet : Holds(q)' <=> Holds(q)
  BY DEF Holds
<1>3. \A q \in Packet : Kinded(q)'
  BY <1>1 DEF Places, Kinded, Placing
<1>4. Unique' /\ OneHolder'
  BY <1>1, <1>2 DEF Places, Unique, OneHolder, Placing
<1> DEFINE x == extent[p]
           s == file[r][x]
<1>5. /\ x \in Extent /\ file \in [Replica -> [Extent -> Seq(Packet \cup {0})]]
      /\ s \in Seq(Packet \cup {0}) /\ Len(s) = offset[p]
  <2>1. x \in Extent /\ file \in [Replica -> [Extent -> Seq(Packet \cup {0})]]
    BY DEF Types, Good
  <2> QED BY <2>1 DEF Fits
<1>6. /\ Len(Append(s, p)) = Len(s) + 1 /\ Len(s) \in Nat
      /\ \A i \in 1..Len(s) : Append(s, p)[i] = s[i]
      /\ Append(s, p)[Len(s) + 1] = p
  BY <1>5, AppendFacts
<1>7. /\ file'[r][x] = Append(s, p)
      /\ \A k \in Replica, y \in Extent : k # r \/ y # x => file'[k][y] = file[k][y]
  BY <1>5 DEF Written
<1>0. x = extent[p] /\ s = file[r][x]
  OBVIOUS
<1> HIDE DEF x, s
<1>8. Entries'
  <2> SUFFICES ASSUME NEW k \in Replica, NEW y \in Extent, NEW i \in 1..Len(file'[k][y])
               PROVE  \E q \in Packet : file'[k][y][i] = q /\ extent[q] = y /\ offset[q] = i - 1
    BY <1>1 DEF Entries, Entry
  <2>1. \A j \in 1..Len(file[k][y]) :
           \E q \in Packet : file[k][y][j] = q /\ extent[q] = y /\ offset[q] = j - 1
    BY DEF Places, Entries, Entry
  <2>2. CASE k # r \/ y # x
    BY <1>7, <2>1, <2>2
  <2>3. CASE k = r /\ y = x /\ i # Len(s) + 1
    <3>1. file'[k][y] = Append(s, p) /\ file[k][y] = s
      BY <1>0, <1>7, <2>3
    <3>2. i \in 1..Len(s)
      BY <1>6, <2>3, <3>1
    <3>3. file'[k][y][i] = file[k][y][i]
      BY <1>6, <3>1, <3>2
    <3> QED BY <2>1, <3>1, <3>2, <3>3
  <2>4. CASE k = r /\ y = x /\ i = Len(s) + 1
    <3>1. file'[k][y] = Append(s, p) /\ extent[p] = y
      BY <1>0, <1>7, <2>4
    <3>2. file'[k][y][i] = p
      BY <1>6, <2>4, <3>1
    <3>3. offset[p] = i - 1
      BY <1>5, <1>6, <2>4
    <3> QED BY <3>1, <3>2, <3>3
  <2> QED BY <2>2, <2>3, <2>4
<1>9. \A q \in Packet : Behind(q)'
  <2> SUFFICES ASSUME NEW q \in Packet, server = "read", kind[q] = "tiny", Placing(q),
                      offset[q] < Len(file[0][extent[q]])
               PROVE  offset[q] < Len(file'[0][extent[q]])
    BY <1>2 DEF Places, Behind, Placing
  <2>1. extent[q] \in Extent /\ 0 \in Replica /\ FilesGrow
    <3>1. FilesGrow
      BY WrittenFacts
    <3> QED BY <3>1, RpAssumption DEF Types, Placing, Replica
  <2>2. Len(file[0][extent[q]]) <= Len(file'[0][extent[q]])
    BY <2>1 DEF FilesGrow
  <2>3. Len(file[0][extent[q]]) \in Nat /\ Len(file'[0][extent[q]]) \in Nat
    <3>1. file' \in [Replica -> [Extent -> Seq(Packet \cup {0})]]
      BY <1>1 DEF Types
    <3> QED BY <1>5, <2>1, <3>1
  <2>4. offset[q] \in Nat
    BY DEF Places, Kinded
  <2> QED BY <2>2, <2>3, <2>4
<1> QED BY <1>1, <1>3, <1>4, <1>8, <1>9 DEF Places

\* Releasing packets: an extent becomes available only behind what it holds.
LEMMA PlacesPost ==
  ASSUME Types, Places, NEW ps \in SUBSET Packet, Post(ps),
         server' = "read" => server = "read",
         \A p \in ps : server' = "read" /\ Holds(p) /\ result[p] # "err" =>
                         offset[p] < Len(file[0][extent[p]]),
         UNCHANGED <<kind, nread, sent, extent, offset, file>>
  PROVE  Places'
<1>1. Packet' = Packet
  BY DEF Packet
<1> DEFINE rel == {p \in ps : Holds(p)}
           bad == {p \in rel : result[p] = "err"}
<1>2. /\ released' = released \cup rel
      /\ broken' = broken \cup {extent[p] : p \in bad}
      /\ available' = available \cup {extent[p] : p \in rel \ bad}
  BY DEF Post
<1>3. \A q \in Packet : Holds(q)' <=> Holds(q) /\ q \notin ps
  BY <1>2 DEF Holds
<1>4. \A q \in Packet : Kinded(q)'
  <2>1. \A q \in rel : Placing(q)
    BY DEF Holds, Placing
  <2> QED BY <1>1, <1>2, <2>1 DEF Places, Kinded, Placing
<1>5. Unique' /\ Entries'
  BY <1>1 DEF Places, Unique, Entries, Entry, Placing
<1>6. \A q \in Packet : Behind(q)'
  <2> SUFFICES ASSUME NEW q \in Packet, server' = "read", kind[q] = "tiny", Placing(q)
               PROVE  \/ Holds(q)'
                      \/ extent[q] \in broken'
                      \/ offset[q] < Len(file[0][extent[q]])
    BY DEF Behind, Placing
  <2>1. Holds(q) \/ extent[q] \in broken \/ offset[q] < Len(file[0][extent[q]])
    BY DEF Places, Behind
  <2>2. CASE Holds(q) /\ q \in ps /\ result[q] = "err"
    BY <1>2, <2>2
  <2>3. CASE Holds(q) /\ q \in ps /\ result[q] # "err"
    BY <2>3
  <2> QED BY <1>2, <1>3, <2>1, <2>2, <2>3
<1>7. OneHolder'
  <2>1. \A q \in Packet : Holds(q) => extent[q] \in TinyExtents
    BY DEF Places, Kinded, Placing, Holds
  <2>2. OneHolder
    BY DEF Places
  <2>3. (available \cup broken \subseteq TinyExtents)'
    BY <1>2, <2>1, <2>2 DEF OneHolder
  <2>4. (available \cap broken = {})'
    BY <1>2, <2>2 DEF OneHolder
  <2>5. ASSUME NEW q \in Packet, Holds(q)'
        PROVE  extent[q] \notin available' \cup broken'
    BY <1>2, <1>3, <2>2, <2>5 DEF OneHolder
  <2>6. ASSUME NEW q \in Packet, NEW k \in Packet, Holds(q)', Holds(k)', extent[q] = extent[k]
        PROVE  q = k
    BY <1>3, <2>2, <2>6 DEF OneHolder
  <2> QED BY <1>1, <2>3, <2>4, <2>5, <2>6 DEF OneHolder
<1> QED BY <1>1, <1>4, <1>5, <1>6, <1>7 DEF Places

\* A packet that is read gets a place no other packet has.
LEMMA PlacesReadPkg ==
  ASSUME IndInv, IndInv', Places, ReadPkg
  PROVE  Places'
<1>1. PICK p \in Packet, x \in Extent : p = nread + 1 /\ nread' = p /\ Prepare(p, x)
  <2>1. nread + 1 \in Packet /\ nread' = nread + 1
    BY PacketFacts DEF ReadPkg, ReadFromClient, IndInv
  <2> QED BY <2>1 DEF ReadPkg
<1>2. /\ UNCHANGED <<kind, file, broken, released>> /\ server = "read" /\ Packet' = Packet
      /\ sent \in Nat /\ sent' \in Nat /\ sent <= sent' /\ (kind[p] = "normal" => sent < sent')
  BY <1>1 DEF ReadPkg, ReadFromClient, Prepare, Packet, Places
<1>3. Packet \subseteq Nat \ {0} /\ nread \in Nat /\ p \in Nat \ {0}
  BY PacketFacts, <1>1 DEF IndInv
<1>4. /\ \A q \in Packet : Kinded(q) /\ Behind(q)
      /\ Unique /\ Entries /\ OneHolder
  BY DEF Places
<1>5. /\ extent[p] = NoExtent
      /\ \A q \in Packet : Placing(q) => q < p
  BY <1>1, <1>3, <1>4 DEF Kinded, Placing
<1>6. /\ extent \in [Packet -> Extent \cup {NoExtent}] /\ offset = [q \in Packet |-> offset[q]]
      /\ NoExtent \notin Extent /\ 0 \in Replica
      /\ file \in [Replica -> [Extent -> Seq(Packet \cup {0})]]
      /\ kind[p] \in {"normal", "tiny", "read"}
  <2>1. /\ extent \in [Packet -> Extent \cup {NoExtent}] /\ offset = [q \in Packet |-> offset[q]]
        /\ file \in [Replica -> [Extent -> Seq(Packet \cup {0})]]
        /\ kind \in Seq({"normal", "tiny", "read"})
    BY DEF IndInv, Types
  <2>2. NoExtent \notin Extent /\ 0 \in Replica
    BY RpAssumption DEF Replica, Extent
  <2> QED BY <2>1, <2>2 DEF Packet
<1>7. CASE kind[p] = "read"
  <2>1. UNCHANGED <<extent, offset, available>>
    BY <1>1, <1>7 DEF Prepare
  <2> QED BY <1>1, <1>2, <1>3, <2>1, PlacesSame DEF IndInv
<1>8. CASE kind[p] # "read"
  <2>1. PICK o \in Nat : /\ extent' = [extent EXCEPT ![p] = x] /\ offset' = [offset EXCEPT ![p] = o]
                         /\ \/ /\ kind[p] = "normal" /\ x = NormalExtent
                               /\ o = sent /\ available' = available
                            \/ /\ kind[p] = "tiny" /\ x \in available /\ o = Len(file[0][x])
                               /\ available' = available \ {x}
    <3>1. CASE kind[p] = "normal"
      BY <1>1, <1>2, <3>1 DEF Prepare
    <3>2. CASE kind[p] = "tiny"
      <4>1. Len(file[0][x]) \in Nat
        BY <1>6
      <4> QED BY <1>1, <3>2, <4>1 DEF Prepare
    <3> QED BY <1>6, <1>8, <3>1, <3>2
  <2>2. /\ extent'[p] = x /\ offset'[p] = o /\ x # NoExtent
        /\ \A q \in Packet : q # p => extent'[q] = extent[q] /\ offset'[q] = offset[q]
    BY <1>1, <1>6, <2>1
  <2>4. /\ \A q \in Packet : q # p => (Placing(q)' <=> Placing(q)) /\ (Holds(q)' <=> Holds(q))
        /\ Placing(p)' /\ (Holds(p)' <=> kind[p] = "tiny")
        /\ ~Placing(p) /\ ~Holds(p)
    <3>1. p \notin released
      BY <1>4, <1>5 DEF Kinded, Placing
    <3> QED BY <1>2, <1>5, <2>2, <3>1 DEF Placing, Holds
  <2>5. available \subseteq TinyExtents
    BY <1>4 DEF OneHolder
  <2>6. ASSUME NEW q \in Packet PROVE Kinded(q)'
    <3>1. CASE q = p
      BY <1>1, <1>2, <1>3, <2>1, <2>2, <2>4, <2>5, <3>1 DEF Kinded
    <3>2. CASE q # p
      <4>1. Placing(q) => q <= nread /\ q <= nread'
        BY <1>1, <1>3, <1>4 DEF Kinded
      <4> QED BY <1>2, <1>4, <2>2, <2>4, <3>2, <4>1 DEF Kinded
    <3> QED BY <3>1, <3>2
  <2>7. ASSUME NEW q \in Packet, q # p, Placing(q), extent[q] = x
        PROVE  offset[q] # o
    <3>1. Kinded(q) /\ Behind(q) /\ q < p
      BY <1>4, <1>5, <2>7
    <3>2. CASE x = NormalExtent
      <4>1. offset[q] < sent /\ offset[q] \in Nat
        BY <2>7, <3>1, <3>2, RpAssumption DEF Kinded
      <4>2. o = sent
        BY <2>1, <2>5, <3>2, RpAssumption
      <4> QED BY <1>2, <4>1, <4>2
    <3>3. CASE x \in available /\ o = Len(file[0][x])
      <4>1. kind[q] = "tiny" /\ x \notin broken /\ ~Holds(q)
        BY <1>4, <2>5, <2>7, <3>1, <3>3, RpAssumption DEF Kinded, OneHolder
      <4>2. offset[q] < Len(file[0][x])
        BY <1>2, <2>7, <3>1, <4>1 DEF Behind
      <4> QED BY <2>1, <3>1, <3>3, <4>2, <2>7 DEF Kinded
    <3> QED BY <2>1, <3>2, <3>3
  <2>8. Unique'
    BY <1>2, <1>4, <2>2, <2>4, <2>7 DEF Unique, Placing
  <2>9. Entries'
    <3> SUFFICES ASSUME NEW r \in Replica, NEW y \in Extent, NEW i \in 1..Len(file[r][y])
                 PROVE  \E q \in Packet : file[r][y][i] = q /\ extent'[q] = y /\ offset'[q] = i - 1
      BY <1>2 DEF Entries, Entry
    <3>1. PICK q \in Packet : file[r][y][i] = q /\ extent[q] = y /\ offset[q] = i - 1
      BY <1>4 DEF Entries, Entry
    <3>2. q # p
      BY <1>5, <1>6, <3>1
    <3> QED BY <2>2, <3>1, <3>2
  <2>10. ASSUME NEW q \in Packet PROVE Behind(q)'
    <3>1. CASE q = p
      BY <1>2, <2>4, <3>1 DEF Behind
    <3>2. CASE q # p
      BY <1>2, <1>4, <2>2, <2>4, <3>2 DEF Behind
    <3> QED BY <3>1, <3>2
  <2>11. OneHolder'
    <3>1. available' \subseteq available /\ broken' = broken
      BY <1>2, <2>1
    <3>2. kind[p] = "tiny" => x \in available /\ x \notin available' \cup broken'
      BY <1>4, <2>1, <3>1 DEF OneHolder
    <3>3. ASSUME NEW q \in Packet, Holds(q)'
          PROVE  extent'[q] \notin available' \cup broken'
      BY <1>4, <2>2, <2>4, <3>1, <3>2, <3>3 DEF OneHolder
    <3>4. ASSUME NEW q \in Packet, NEW k \in Packet, Holds(q)', Holds(k)',
                 extent'[q] = extent'[k]
          PROVE  q = k
      <4>1. CASE q # p /\ k # p
        BY <1>4, <2>2, <2>4, <3>4, <4>1 DEF OneHolder
      <4>2. CASE q = p /\ k # p
        BY <1>4, <2>2, <2>4, <3>2, <3>4, <4>2 DEF OneHolder
      <4>3. CASE q # p /\ k = p
        BY <1>4, <2>2, <2>4, <3>2, <3>4, <4>3 DEF OneHolder
      <4> QED BY <4>1, <4>2, <4>3
    <3> QED BY <1>2, <1>4, <3>1, <3>3, <3>4 DEF OneHolder
  <2> QED BY <1>2, <2>6, <2>8, <2>9, <2>10, <2>11 DEF Places
<1> QED BY <1>7, <1>8

-----------------------------------------------------------------------------
(* The way of a packet through the goroutines *)

flowVars == <<kind, exited, oper, toBeProcessedCh, packetList, responseCh, result, extent,
              released, dropped>>

\* A step of the transports, or of the server that stops reading, moves no packet.
LEMMA FlowSame == ASSUME Flow, UNCHANGED flowVars PROVE Flow'
<1>1. Packet' = Packet /\ \A p \in Packet : Holds(p)' <=> Holds(p)
  BY DEF flowVars, Packet, Holds
<1>2. Settled' /\ Emptied'
  BY DEF flowVars, Flow, Settled, Emptied, Writing
<1>3. \A p \in Packet : Found(p)'
  BY <1>1 DEF flowVars, Flow, Found, Sending, Writing
<1> QED BY <1>1, <1>2, <1>3 DEF Flow

\* putResponse keeps the packets it finds, and the one it is given.
LEMMA PutElems ==
  ASSUME responseCh \in Seq(Packet), NEW p \in Packet, PutResponse(p)
  PROVE  /\ p \in dropped' \cup Elems(responseCh')
         /\ dropped \subseteq dropped' /\ Elems(responseCh) \subseteq Elems(responseCh')
         /\ Elems(responseCh') \subseteq Elems(responseCh) \cup {p}
<1>1. Elems(Append(responseCh, p)) = Elems(responseCh) \cup {p}
  BY ElemsAppend
<1>2. \/ responseCh' = Append(responseCh, p) /\ dropped' = dropped
      \/ responseCh' = responseCh /\ dropped' = dropped \cup {p}
  BY DEF PutResponse
<1> QED BY <1>1, <1>2

\* A packet that was read joins toBeProcessedCh, or is lost at the full channel.
LEMMA FlowReadPkg ==
  ASSUME IndInv, IndInv', Flow, Places, ReadPkg
  PROVE  Flow'
<1>1. PICK p \in Packet, x \in Extent : p = nread + 1 /\ nread' = p /\ Prepare(p, x)
  <2>1. nread + 1 \in Packet /\ nread' = nread + 1
    BY PacketFacts DEF ReadPkg, ReadFromClient, IndInv
  <2> QED BY <2>1 DEF ReadPkg
<1>2. /\ UNCHANGED <<kind, oper, exited, packetList, responseCh, result, released>>
      /\ Packet' = Packet /\ server = "read"
      /\ \/ toBeProcessedCh' = Append(toBeProcessedCh, p) /\ dropped' = dropped
         \/ toBeProcessedCh' = toBeProcessedCh /\ dropped' = dropped \cup {p}
  BY <1>1 DEF ReadPkg, Packet
<1>3. extent \in [Packet -> Extent \cup {NoExtent}] /\ toBeProcessedCh \in Seq(Packet)
  BY DEF IndInv, Types
<1>4. /\ p \in dropped' \cup Elems(toBeProcessedCh') /\ dropped \subseteq dropped'
      /\ Elems(toBeProcessedCh) \subseteq Elems(toBeProcessedCh')
  <2>1. Elems(Append(toBeProcessedCh, p)) = Elems(toBeProcessedCh) \cup {p}
    BY <1>3, ElemsAppend
  <2> QED BY <1>2, <2>1
<1>5. \A q \in Packet : q # p => extent'[q] = extent[q]
  <2>1. extent' = extent \/ extent' = [extent EXCEPT ![p] = x]
    <3>1. kind[p] \in {"normal", "tiny", "read"}
      BY DEF IndInv, Types, Packet
    <3> QED BY <1>1, <3>1 DEF Prepare
  <2> QED BY <1>3, <2>1
<1>6. \A q \in Packet : Found(q)'
  BY <1>2, <1>4, <1>5 DEF Flow, Found, Holds, Sending, Writing
<1>7. Settled'
  BY <1>2 DEF Flow, Settled, Writing
<1>8. Emptied'
  BY <1>2, AllGone DEF IndInv, Emptied
<1> QED BY <1>2, <1>6, <1>7, <1>8 DEF Flow

\* A packet whose Prepare failed is answered with the error.
LEMMA FlowReadPkgFails ==
  ASSUME IndInv, IndInv', Flow, ReadPkgFails
  PROVE  Flow'
<1>1. PICK p \in Packet : p = nread'
  <2>1. nread + 1 \in Packet /\ nread' = nread + 1
    BY PacketFacts DEF ReadPkgFails, ReadFromClient, IndInv
  <2> QED BY <2>1
<1>2. /\ UNCHANGED <<kind, oper, exited, toBeProcessedCh, packetList, extent, released>>
      /\ Packet' = Packet /\ server = "read"
      /\ result' = [result EXCEPT ![p] = "err"] /\ PutResponse(p)
  BY <1>1 DEF ReadPkgFails, Packet
<1>3. result \in [Packet -> {"init", "ok", "err"}] /\ responseCh \in Seq(Packet)
  BY DEF IndInv, Types
<1>4. /\ dropped \subseteq dropped' /\ Elems(responseCh) \subseteq Elems(responseCh')
      /\ Elems(responseCh') \subseteq Elems(responseCh) \cup {p}
  BY <1>2, <1>3, PutElems
<1>5. \A q \in Packet : result'[q] = "init" => result[q] = "init" /\ q # p
  BY <1>2, <1>3
<1>6. \A q \in Packet : Found(q)'
  BY <1>2, <1>4 DEF Flow, Found, Holds, Sending, Writing
<1>7. Settled'
  BY <1>2, <1>4, <1>5, ElemsType DEF IndInv, Flow, Settled, Writing
<1>8. Emptied'
  BY <1>2, AllGone DEF IndInv, Emptied
<1> QED BY <1>2, <1>6, <1>7, <1>8 DEF Flow

\* The operator takes a packet; a read is answered at once.
LEMMA FlowOperTake ==
  ASSUME IndInv, IndInv', Flow, OperTake
  PROVE  Flow'
<1>1. /\ toBeProcessedCh \in Seq(Packet) /\ responseCh \in Seq(Packet)
      /\ result \in [Packet -> {"init", "ok", "err"}]
      /\ NumFollowers \in Nat \ {0}
  BY RpAssumption DEF IndInv, Types
<1>2. PICK p \in Packet : p = Head(toBeProcessedCh)
  BY <1>1, TailFacts DEF OperTake
<1>3. /\ UNCHANGED <<kind, exited, packetList, extent, released>> /\ Packet' = Packet
      /\ oper = Idle /\ toBeProcessedCh # <<>> /\ toBeProcessedCh' = Tail(toBeProcessedCh)
      /\ \/ /\ kind[p] = "read" /\ result' = [result EXCEPT ![p] = "ok"]
            /\ PutResponse(p) /\ oper' = oper
         \/ /\ oper' = [p |-> p, i |-> 1] /\ UNCHANGED <<result, responseCh, dropped>>
  BY <1>2 DEF OperTake, Packet
<1>4. Elems(toBeProcessedCh) = Elems(toBeProcessedCh') \cup {p}
  BY <1>1, <1>2, <1>3, ElemsTail
<1>5. ~Sending /\ ~Writing
  BY <1>3, OperFacts DEF IndInv
<1>6. /\ dropped \subseteq dropped' /\ Elems(responseCh) \subseteq Elems(responseCh')
      /\ \A q \in Elems(responseCh') : q \in Elems(responseCh) \/ (q = p /\ result'[q] # "init")
      /\ \A q \in Packet : result'[q] = "init" => result[q] = "init"
      /\ kind[p] = "read" \/ (Sending' /\ oper'.p = p)
  <2>1. CASE kind[p] = "read" /\ result' = [result EXCEPT ![p] = "ok"] /\ PutResponse(p)
    BY <1>1, <2>1, PutElems
  <2>2. CASE oper' = [p |-> p, i |-> 1] /\ UNCHANGED <<result, responseCh, dropped>>
    BY <1>1, <2>2 DEF Sending, Follower
  <2> QED BY <1>3, <2>1, <2>2
<1>7. \A q \in Packet : Found(q)'
  BY <1>3, <1>4, <1>5, <1>6 DEF Flow, Found, Holds
<1>8. Settled'
  BY <1>3, <1>5, <1>6, ElemsType DEF IndInv, Flow, Settled
<1>9. Emptied'
  <2>1. exited # ReplHasExited
    BY <1>3, AllGone DEF IndInv
  <2> QED BY <1>3, <2>1 DEF Emptied
<1> QED BY <1>3, <1>7, <1>8, <1>9 DEF Flow

\* A packet is sent to one follower more; after the last it joins the list.
LEMMA FlowOperSend ==
  ASSUME IndInv, IndInv', Flow, OperSend
  PROVE  Flow'
<1>1. packetList \in Seq(Packet) /\ NumFollowers \in Nat \ {0} /\ oper # Gone
  BY RpAssumption, OperFacts DEF IndInv, Types, OperSend, Sending
<1>2. Sending /\ ~Writing /\ oper \in [p : Packet, i : 1..(NumFollowers + 1)]
  BY OperFacts DEF OperSend, Sending, IndInv, Types
<1>3. PICK p \in Packet, i \in Follower : oper.p = p /\ oper.i = i
  BY <1>2 DEF Sending
<1>4. /\ UNCHANGED <<kind, exited, toBeProcessedCh, responseCh, result, extent, released, dropped>>
      /\ Packet' = Packet /\ oper'.p = p /\ oper'.i = i + 1
      /\ packetList' = IF i = NumFollowers THEN Append(packetList, p) ELSE packetList
  BY <1>2, <1>3 DEF OperSend, Packet, pkVars
<1>5. (Sending' \/ Writing') /\ (i = NumFollowers => Writing')
  BY <1>1, <1>4 DEF Sending, Writing, Follower
<1>6. /\ Elems(packetList) \subseteq Elems(packetList')
      /\ \A q \in Elems(packetList') : q \in Elems(packetList) \/ (q = p /\ Writing')
  <2>1. Elems(Append(packetList, p)) = Elems(packetList) \cup {p}
    BY <1>1, ElemsAppend
  <2> QED BY <1>4, <1>5, <2>1
<1>7. \A q \in Packet : Found(q)'
  BY <1>3, <1>4, <1>5, <1>6 DEF Flow, Found, Holds
<1>8. Settled'
  BY <1>2, <1>4, <1>6 DEF Flow, Settled
<1>9. Emptied'
  BY <1>1, <1>4, AllGone DEF IndInv, Emptied
<1> QED BY <1>4, <1>7, <1>8, <1>9 DEF Flow

\* No connection to a follower: the packet is answered with the error.
LEMMA FlowOperSendFails ==
  ASSUME IndInv, IndInv', Flow, OperSendFails
  PROVE  Flow'
<1>1. /\ responseCh \in Seq(Packet) /\ oper # Gone
      /\ result \in [Packet -> {"init", "ok", "err"}]
  BY OperFacts DEF IndInv, Types, OperSendFails, Sending
<1>2. Sending /\ ~Writing
  BY OperFacts DEF OperSendFails, Sending, IndInv
<1>3. PICK p \in Packet : oper.p = p
  BY <1>2, OperFacts DEF IndInv
<1>4. /\ UNCHANGED <<kind, exited, toBeProcessedCh, packetList, extent, released>>
      /\ Packet' = Packet /\ oper' = Idle
      /\ result' = [result EXCEPT ![p] = "err"] /\ PutResponse(p)
  BY <1>3 DEF OperSendFails, Packet
<1>5. /\ p \in dropped' \cup Elems(responseCh')
      /\ dropped \subseteq dropped' /\ Elems(responseCh) \subseteq Elems(responseCh')
      /\ Elems(responseCh') \subseteq Elems(responseCh) \cup {p}
  BY <1>1, <1>4, PutElems
<1>6. result'[p] # "init" /\ \A q \in Packet : result'[q] = "init" => result[q] = "init"
  BY <1>1, <1>4
<1>7. \A q \in Packet : Found(q)'
  BY <1>3, <1>4, <1>5 DEF Flow, Found, Holds
<1>8. Settled'
  BY <1>2, <1>4, <1>5, <1>6, ElemsType DEF IndInv, Flow, Settled
<1>9. Emptied'
  BY <1>1, <1>4, AllGone DEF IndInv, Emptied
<1> QED BY <1>4, <1>7, <1>8, <1>9 DEF Flow

\* The local write gives the packet its result; it stays in the list.
LEMMA FlowOperLocal ==
  ASSUME IndInv, IndInv', Flow, OperLocal
  PROVE  Flow'
<1>1. /\ packetList \in Seq(Packet) /\ Len(packetList) \in Nat /\ ackCh \in Nat /\ oper # Gone
      /\ result \in [Packet -> {"init", "ok", "err"}]
  <2>1. oper # Gone
    BY OperFacts DEF IndInv, OperLocal, Writing
  <2>2. packetList \in Seq(Packet) /\ ackCh \in Nat /\ result \in [Packet -> {"init", "ok", "err"}]
    BY DEF IndInv, Types
  <2> QED BY <2>1, <2>2
<1>2. Writing
  BY DEF OperLocal, Writing
<1>3. PICK p \in Packet : oper.p = p
  BY <1>2, OperFacts DEF IndInv
<1>4. /\ UNCHANGED <<kind, exited, toBeProcessedCh, packetList, responseCh, extent, released, dropped>>
      /\ Packet' = Packet /\ oper' = Idle
      /\ result' = [result EXCEPT ![p] = "ok"] \/ result' = [result EXCEPT ![p] = "err"]
  BY <1>3 DEF OperLocal, Packet
<1>5. p \in Elems(packetList)
  <2>1. Len(packetList) > 0
    BY <1>1, <1>2 DEF IndInv, Counted, Left
  <2>2. p = packetList[Len(packetList)]
    BY <1>2, <1>3 DEF IndInv, Placed
  <2> QED BY <1>1, <2>1, <2>2 DEF Elems
<1>6. \A q \in Packet : result'[q] = "init" => result[q] = "init" /\ q # p
  BY <1>1, <1>4
<1>7. \A q \in Packet : Found(q)'
  BY <1>3, <1>4, <1>5 DEF Flow, Found, Holds
<1>8. Settled'
  BY <1>3, <1>4, <1>6, ElemsType DEF IndInv, Flow, Settled
<1>9. Emptied'
  BY <1>1, <1>4, AllGone DEF IndInv, Emptied
<1> QED BY <1>4, <1>7, <1>8, <1>9 DEF Flow

\* deletePacket: the packet at the front of the list goes to the responses.
LEMMA DeleteElems ==
  ASSUME IndInv, packetList # <<>>, NEW p, p = Head(packetList), DeletePacket(p)
  PROVE  /\ p \in Packet
         /\ Elems(packetList) = Elems(packetList') \cup {p}
         /\ p \in dropped' \cup Elems(responseCh')
         /\ dropped \subseteq dropped' /\ Elems(responseCh) \subseteq Elems(responseCh')
         /\ Elems(responseCh') \subseteq Elems(responseCh) \cup {p}
<1>1. packetList \in Seq(Packet) /\ responseCh \in Seq(Packet)
  BY DEF IndInv, Types
<1>2. p \in Packet
  BY <1>1, TailFacts
<1>3. Elems(packetList) = Elems(Tail(packetList)) \cup {Head(packetList)}
  BY <1>1, ElemsTail
<1>4. packetList' = Tail(packetList) /\ PutResponse(p)
  BY DEF DeletePacket
<1> QED BY <1>1, <1>2, <1>3, <1>4, PutElems

\* The receiver takes the front of the list; an error of the leader is answered.
LEMMA FlowRecvTake ==
  ASSUME IndInv, IndInv', Flow, RecvTake
  PROVE  Flow'
<1>1. /\ UNCHANGED <<kind, exited, oper, toBeProcessedCh, result, extent, released>>
      /\ Packet' = Packet /\ receiver = Idle
      /\ \/ UNCHANGED <<packetList, responseCh, dropped>>
         \/ /\ packetList # <<>> /\ result[Head(packetList)] = "err"
            /\ DeletePacket(Head(packetList))
  BY DEF RecvTake, GetNextPacket, Packet
<1>2. CASE UNCHANGED <<packetList, responseCh, dropped>>
  BY <1>1, <1>2, FlowSame DEF flowVars
<1>3. CASE /\ packetList # <<>> /\ result[Head(packetList)] = "err"
           /\ DeletePacket(Head(packetList))
  <2>1. PICK p : p = Head(packetList)
    OBVIOUS
  <2>2. /\ Elems(packetList) = Elems(packetList') \cup {p}
        /\ p \in dropped' \cup Elems(responseCh')
        /\ dropped \subseteq dropped' /\ Elems(responseCh) \subseteq Elems(responseCh')
        /\ Elems(responseCh') \subseteq Elems(responseCh) \cup {p}
    BY <1>3, <2>1, DeleteElems
  <2>3. \A q \in Packet : Found(q)'
    BY <1>1, <2>2 DEF Flow, Found, Holds, Sending, Writing
  <2>4. Settled'
    BY <1>1, <1>3, <2>1, <2>2 DEF Flow, Settled, Writing
  <2>5. exited # ReplHasExited
    BY <1>1, AllGone DEF IndInv
  <2> QED BY <1>1, <2>3, <2>4, <2>5 DEF Flow, Emptied
<1> QED BY <1>1, <1>2, <1>3

\* The receiver hears of a follower; after the last the packet is answered.
LEMMA FlowRecvWait ==
  ASSUME IndInv, IndInv', Flow, RecvWait
  PROVE  Flow'
<1>1. Waiting
  BY DEF RecvWait, Waiting
<1>2. PICK p \in Packet : receiver.p = p /\ packetList # <<>> /\ p = Head(packetList) /\ Over(p)
  <2>1. /\ receiver.p \in Packet /\ packetList # <<>> /\ receiver.p = packetList[1]
        /\ Over(receiver.p)
    BY <1>1, WaitingFacts
  <2>2. Head(packetList) = packetList[1]
    BY <2>1, QueueFacts, TailFacts DEF IndInv
  <2> QED BY <2>1, <2>2
<1>3. /\ UNCHANGED <<kind, exited, oper, toBeProcessedCh, extent, released>>
      /\ Packet' = Packet
      /\ result' = result \/ result' = [result EXCEPT ![p] = "err"]
      /\ \/ UNCHANGED <<packetList, responseCh, dropped>>
         \/ DeletePacket(p)
  BY <1>2 DEF RecvWait, Packet, FollowerResult
<1>4. result \in [Packet -> {"init", "ok", "err"}]
  BY DEF IndInv, Types
<1>5. \A q \in Packet : result'[q] = "init" => result[q] = "init"
  BY <1>3, <1>4
<1>6. p \in Elems(packetList) /\ result[p] # "init"
  <2>1. p \in Elems(packetList)
    <3>1. packetList \in Seq(Packet)
      BY DEF IndInv, Types
    <3> QED BY <1>2, <3>1, ElemsTail
  <2> QED BY <1>2, <2>1 DEF Flow, Settled, Over
<1>7. /\ Elems(packetList') \subseteq Elems(packetList)
      /\ Elems(packetList) \subseteq Elems(packetList') \cup dropped' \cup Elems(responseCh')
      /\ dropped \subseteq dropped' /\ Elems(responseCh) \subseteq Elems(responseCh')
      /\ Elems(responseCh') \subseteq Elems(responseCh) \cup {p}
  <2>1. CASE UNCHANGED <<packetList, responseCh, dropped>>
    BY <2>1
  <2>2. CASE DeletePacket(p)
    BY <1>2, <2>2, DeleteElems
  <2> QED BY <1>3, <2>1, <2>2
<1>8. \A q \in Packet : Found(q)'
  BY <1>3, <1>7 DEF Flow, Found, Holds, Sending, Writing
<1>9. Settled'
  BY <1>3, <1>5, <1>6, <1>7, ElemsType DEF IndInv, Flow, Settled, Writing
<1>10. exited # ReplHasExited
  BY <1>1, AllGone, ReceiverFacts DEF IndInv
<1> QED BY <1>3, <1>8, <1>9, <1>10 DEF Flow, Emptied

\* An answer is written and the packet released.
LEMMA FlowWriteResponse ==
  ASSUME IndInv, IndInv', Flow, WriteResponse
  PROVE  Flow'
<1>1. responseCh \in Seq(Packet) /\ responseCh # <<>>
  BY DEF IndInv, Types, WriteResponse
<1>2. PICK p \in Packet : p = Head(responseCh)
  BY <1>1, TailFacts
<1>3. /\ UNCHANGED <<kind, oper, toBeProcessedCh, packetList, result, extent, dropped>>
      /\ Packet' = Packet /\ writer = "run" /\ responseCh' = Tail(responseCh)
      /\ Post({p})
      /\ exited' = Stopped \/ exited' = exited
  BY <1>2 DEF WriteResponse, Packet
<1>4. Elems(responseCh) = Elems(responseCh') \cup {p}
  BY <1>1, <1>2, <1>3, ElemsTail
<1>5. released' = released \cup {q \in {p} : Holds(q)}
  BY <1>3 DEF Post
<1>6. \A q \in Packet : Found(q)'
  <2>1. \A q \in Packet : Holds(q)' => Holds(q) /\ q # p
    BY <1>3, <1>5 DEF Holds
  <2> QED BY <1>3, <1>4, <2>1 DEF Flow, Found, Sending, Writing
<1>7. Settled'
  BY <1>3, <1>4 DEF Flow, Settled, Writing
<1>8. exited' # ReplHasExited
  BY <1>3, AllGone DEF IndInv, Stopped, ReplExiting, ReplHasExited
<1> QED BY <1>3, <1>6, <1>7, <1>8 DEF Flow, Emptied

\* A goroutine leaves; the last one releases every packet it finds.
LEMMA FlowLeave ==
  ASSUME IndInv, IndInv', Flow, NEW n, Leave(n), oper' = oper \/ oper = Idle,
         exited = ReplHasExited => n = ReplHasExited
  PROVE  Flow'
<1>1. /\ UNCHANGED <<kind, result, extent, dropped>> /\ Packet' = Packet /\ exited' = n
  BY DEF Leave, Packet
<1>2. (Sending \/ Writing => oper' = oper) /\ (Writing' => oper' = oper \/ ~Writing)
  BY OperFacts DEF IndInv
<1>3. CASE n # ReplHasExited
  <2>1. UNCHANGED <<toBeProcessedCh, packetList, responseCh, released>>
    BY <1>3 DEF Leave, chVars
  <2>2. \A q \in Packet : Found(q)'
    BY <1>1, <1>2, <2>1 DEF Flow, Found, Holds, Sending, Writing
  <2>3. Settled'
    BY <1>1, <1>2, <2>1 DEF Flow, Settled, Writing
  <2> QED BY <1>1, <1>3, <2>2, <2>3 DEF Flow, Emptied
<1>4. CASE n = ReplHasExited
  <2> DEFINE ps == Elems(packetList) \cup Elems(toBeProcessedCh) \cup Elems(responseCh)
  <2>1. Post(ps) /\ packetList' = <<>> /\ toBeProcessedCh' = <<>> /\ responseCh' = <<>>
    BY <1>4 DEF Leave
  <2>2. released' = released \cup {q \in ps : Holds(q)}
    BY <2>1 DEF Post
  <2>3. ~Sending /\ ~Writing /\ ~Sending' /\ ~Writing'
    <3>1. oper' = Gone
      BY <1>1, <1>4 DEF IndInv, Exits, Left, ReplHasExited, ReplRuning, ReplExiting
    <3>2. ~Sending' /\ ~Writing'
      BY <3>1, RpAssumption DEF Gone, Sending, Writing, Follower
    <3> QED BY <1>2, <3>2 DEF Sending, Writing
  <2>4. \A q \in Packet : Found(q)'
    BY <1>1, <2>2, <2>3 DEF Flow, Found, Holds
  <2>5. Settled'
    BY <2>1, ElemsEmpty DEF Settled
  <2> QED BY <1>1, <2>1, <2>4, <2>5 DEF Flow, Emptied
<1> QED BY <1>3, <1>4

-----------------------------------------------------------------------------
(* The steps *)

\* A goroutine leaves.
LEMMA AgreeLeave ==
  ASSUME IndInv, IndInv', AgreeInv, ServerLeave \/ OperLeave \/ RecvLeave \/ WriterLeave
  PROVE  AgreeInv'
<1> USE DEF ReplRuning, ReplExiting, ReplHasExited
<1>1. PICK n : /\ Leave(n)
               /\ oper' = oper \/ oper = Idle
               /\ server' = server \/ server' = "gone"
               /\ exited = ReplHasExited => n = ReplHasExited
  <2>1. exited # ReplHasExited
    BY AllGone DEF IndInv, ServerLeave, OperLeave, RecvLeave, WriterLeave
  <2> QED BY <2>1 DEF ServerLeave, OperLeave, RecvLeave, WriterLeave
<1>2. Flow'
  BY <1>1, FlowLeave DEF AgreeInv
<1>3. UNCHANGED <<kind, nread, sent, extent, offset, file>> /\ exited' = n
  BY <1>1 DEF Leave
<1>4. CASE n # ReplHasExited
  <2>1. UNCHANGED <<released, available, broken>>
    BY <1>1, <1>4 DEF Leave
  <2>2. nread <= nread' /\ sent' \in Nat /\ sent <= sent'
    BY <1>3, PacketFacts DEF IndInv, AgreeInv, Places
  <2> QED BY <1>1, <1>2, <1>3, <2>1, <2>2, PlacesSame DEF AgreeInv, IndInv
<1>5. CASE n = ReplHasExited
  <2>1. PICK ps \in SUBSET Packet : Post(ps)
    <3>1. Post(Elems(packetList) \cup Elems(toBeProcessedCh) \cup Elems(responseCh))
      BY <1>1, <1>5 DEF Leave
    <3> QED BY <3>1, ElemsType DEF IndInv
  <2>2. server' = "gone"
    BY <1>3, <1>5 DEF IndInv, Exits, Left
  <2>3. Places'
    BY <1>3, <2>1, <2>2, PlacesPost DEF AgreeInv, IndInv
  <2> QED BY <1>2, <2>3 DEF AgreeInv
<1> QED BY <1>4, <1>5

\* An answer is written.  Its packet has a result, and when that is "ok" it is in
\* the leader's file.
LEMMA AgreeWriteResponse ==
  ASSUME IndInv, IndInv', AgreeInv, WriteResponse
  PROVE  AgreeInv'
<1>1. responseCh \in Seq(Packet) /\ responseCh # <<>>
  BY DEF IndInv, Types, WriteResponse
<1>2. PICK p \in Packet : p = Head(responseCh)
  BY <1>1, TailFacts
<1>3. /\ UNCHANGED <<kind, nread, sent, extent, offset, file, server>>
      /\ Post({p})
  BY <1>2 DEF WriteResponse
<1>4. p \in Elems(responseCh)
  BY <1>1, <1>2, ElemsTail
<1>5. ASSUME Holds(p), result[p] # "err"
      PROVE  offset[p] < Len(file[0][extent[p]])
  <2>1. result[p] \in {"init", "ok", "err"} /\ result[p] # "init" /\ kind[p] # "read"
    BY <1>4, <1>5 DEF AgreeInv, Flow, Settled, IndInv, Types, Holds
  <2>2. Safe(0, p)
    BY <1>5, <2>1 DEF IndInv, Truthful, Local
  <2>3. file[0][extent[p]] \in Seq(Packet \cup {0}) /\ offset[p] \in Nat
    <3>1. file \in [Replica -> [Extent -> Seq(Packet \cup {0})]]
      BY DEF IndInv, Types
    <3>2. offset[p] \in Nat
      BY <1>5 DEF AgreeInv, Places, Kinded, Placing, Holds
    <3>3. 0 \in Replica
      BY RpAssumption DEF Replica
    <3> QED BY <2>2, <3>1, <3>2, <3>3 DEF Safe, Good
  <2> QED BY <2>2, <2>3 DEF Safe, Stored
<1>6. Places'
  BY <1>3, <1>5, PlacesPost DEF AgreeInv, IndInv
<1> QED BY <1>6, FlowWriteResponse DEF AgreeInv

\* The leader writes a packet to its file.
LEMMA AgreeOperLocal ==
  ASSUME IndInv, IndInv', AgreeInv, OperLocal
  PROVE  AgreeInv'
<1>1. PICK p \in Packet : oper.p = p /\ Good(p)
  BY OperFacts DEF OperLocal, IndInv, Placed, Writing
<1>2. /\ UNCHANGED <<kind, nread, sent, extent, offset, released, available, broken, server>>
      /\ file' = file \/ (Fits(0, p) /\ file' = Written(0, p, p))
  BY <1>1 DEF OperLocal
<1>3. Places'
  <2>1. 0 \in Replica /\ Types /\ Types' /\ Places /\ nread \in Nat /\ sent \in Nat
    BY RpAssumption, PacketFacts DEF Replica, IndInv, AgreeInv, Places
  <2>2. CASE file' = file
    BY <1>2, <2>1, <2>2, PlacesSame
  <2>3. CASE Fits(0, p) /\ file' = Written(0, p, p)
    BY <1>1, <1>2, <2>1, <2>3, PlacesWritten
  <2> QED BY <1>2, <2>2, <2>3
<1> QED BY <1>3, FlowOperLocal DEF AgreeInv

\* A follower takes a packet only with its own bytes.
LEMMA AgreeFollowerHandle ==
  ASSUME IndInv, IndInv', AgreeInv, NEW f \in Follower, FollowerHandle(f)
  PROVE  AgreeInv'
<1>1. wire[f] \in Seq([p : Packet, bytes : Packet \cup {0}]) /\ wire[f] # <<>> /\ f \in Replica
  <2>1. f \in Replica
    BY RpAssumption DEF Follower, Replica
  <2> QED BY <2>1, TransportTypes DEF FollowerHandle
<1>2. PICK p \in Packet : Head(wire[f]).p = p /\ Good(p)
  <2> DEFINE s == wire[f]
             M == [p : Packet, bytes : Packet \cup {0}]
  <2>3. s \in Seq(M) /\ s # <<>>
    BY <1>1
  <2> HIDE DEF s, M
  <2>4. Head(s) = s[1] /\ 1 \in 1..Len(s) /\ s[1] \in M
    BY <2>3, TailFacts
  <2>1. Head(wire[f]) = wire[f][1] /\ 1 \in 1..Len(wire[f]) /\ wire[f][1].p \in Packet
    BY <2>4 DEF s, M
  <2>2. Good(wire[f][1].p)
    BY <2>1, TransportTypes DEF Answers
  <2> QED BY <2>1, <2>2
<1>3. /\ UNCHANGED <<kind, nread, sent, extent, offset, released, available, broken, server>>
      /\ UNCHANGED flowVars
      /\ file' = file \/ (Fits(f, p) /\ file' = Written(f, p, p))
  BY <1>2 DEF FollowerHandle, Accepts, rpVars, chVars, pkVars, flowVars
<1>4. Places'
  <2>1. Types /\ Types' /\ Places /\ nread \in Nat /\ sent \in Nat
    BY PacketFacts DEF IndInv, AgreeInv, Places
  <2>2. CASE file' = file
    BY <1>3, <2>1, <2>2, PlacesSame
  <2>3. CASE Fits(f, p) /\ file' = Written(f, p, p)
    BY <1>1, <1>2, <1>3, <2>1, <2>3, PlacesWritten
  <2> QED BY <1>3, <2>2, <2>3
<1> QED BY <1>3, <1>4, FlowSame DEF AgreeInv

\* The steps that neither write, prepare nor release
LEMMA AgreeOthers ==
  ASSUME IndInv, IndInv', AgreeInv, Flow', nread <= nread', server' = "read" => server = "read",
         sent' \in Nat, sent <= sent',
         UNCHANGED <<kind, extent, offset, file, released, available, broken>>
  PROVE  AgreeInv'
  BY PlacesSame DEF IndInv, AgreeInv

\* Every step keeps the two invariants together.
LEMMA AgreeNext ==
  ASSUME IndInv, IndInv', AgreeInv, [Next]_vars
  PROVE  AgreeInv'
<1>1. nread \in Nat /\ Flow /\ Places /\ sent \in Nat
  BY PacketFacts DEF IndInv, AgreeInv, Places
<1>2. CASE ReadEOF \/ UNCHANGED vars
  <2>1. /\ UNCHANGED <<kind, nread, sent, extent, offset, file, released, available, broken>>
        /\ UNCHANGED flowVars
        /\ server' = server \/ server' = "leave"
    BY <1>2 DEF ReadEOF, vars, rpVars, chVars, pkVars, ftVars, stVars, flowVars
  <2> QED BY <1>1, <2>1, FlowSame, AgreeOthers
<1>3. CASE ReadPkg
  BY <1>1, <1>3, PlacesReadPkg, FlowReadPkg DEF AgreeInv
<1>4. CASE ReadPkgFails
  <2>1. /\ UNCHANGED <<kind, extent, offset, file, released, available, broken>>
        /\ nread' = nread + 1 /\ server = "read" /\ sent' \in Nat /\ sent <= sent'
    BY <1>1, <1>4 DEF ReadPkgFails, ReadFromClient, stVars
  <2> QED BY <1>1, <1>4, <2>1, FlowReadPkgFails, AgreeOthers
<1>5. CASE OperTake \/ OperSend \/ OperSendFails \/ RecvTake \/ RecvWait
  <2>1. UNCHANGED <<kind, nread, sent, extent, offset, file, released, available, broken, server>>
    BY <1>5 DEF OperTake, OperSend, OperSendFails, RecvTake, RecvWait, pkVars, stVars
  <2>2. Flow'
    BY <1>1, <1>5, FlowOperTake, FlowOperSend, FlowOperSendFails, FlowRecvTake, FlowRecvWait
  <2> QED BY <1>1, <2>1, <2>2, AgreeOthers
<1>6. CASE OperLocal \/ WriteResponse \/ ServerLeave \/ OperLeave \/ RecvLeave \/ WriterLeave
  BY <1>6, AgreeOperLocal, AgreeWriteResponse, AgreeLeave
<1>7. ASSUME NEW f \in Follower, FtNext(f) \/ FollowerClose(f) \/ Destory(f)
      PROVE  AgreeInv'
  <2>1. /\ UNCHANGED <<kind, nread, sent, extent, offset, file, released, available, broken, server>>
        /\ UNCHANGED flowVars
    BY <1>7 DEF FtNext, FtWrite, FtWriteFails, FtRead, FollowerClose, Destory, rpVars, chVars,
       pkVars, stVars, flowVars
  <2> QED BY <1>1, <2>1, FlowSame, AgreeOthers
<1>8. ASSUME NEW p \in Packet, ReuseBuffer(p)
      PROVE  AgreeInv'
  <2>1. /\ UNCHANGED <<kind, nread, sent, extent, offset, file, released, available, broken, server>>
        /\ UNCHANGED flowVars
    BY <1>8 DEF ReuseBuffer, rpVars, chVars, pkVars, stVars, flowVars
  <2> QED BY <1>1, <2>1, FlowSame, AgreeOthers
<1> QED BY <1>2, <1>3, <1>4, <1>5, <1>6, <1>7, <1>8, AgreeFollowerHandle
        DEF Next, Progress, ServerNext, OperNext, RecvNext, WriterNext, FollowerNext

\* A new connection satisfies the invariant.
LEMMA AgreeInit == Init => AgreeInv
<1> SUFFICES ASSUME Init PROVE AgreeInv
  OBVIOUS
<1>1. /\ \A p \in Packet : ~Placing(p) /\ ~Holds(p)
      /\ released = {} /\ available = TinyExtents /\ broken = {}
      /\ \A r \in Replica, x \in Extent : file[r][x] = <<>>
      /\ toBeProcessedCh = <<>> /\ packetList = <<>> /\ responseCh = <<>>
  BY DEF Init, Placing, Holds
<1>2. Places
  BY <1>1 DEF Init, Places, Kinded, Behind, Unique, Entries, OneHolder
<1>3. Flow
  BY <1>1, ElemsEmpty DEF Flow, Settled, Found, Emptied
<1> QED BY <1>2, <1>3 DEF AgreeInv

\* The copies of an extent agree.
LEMMA AgreeReplicas == IndInv /\ AgreeInv => ReplicasAgree
<1> SUFFICES ASSUME IndInv, AgreeInv, NEW r \in Replica, NEW s \in Replica, NEW x \in Extent,
                    NEW i \in DOMAIN file[r][x] \cap DOMAIN file[s][x]
             PROVE  file[r][x][i] = file[s][x][i] /\ file[r][x][i] # 0
  BY DEF ReplicasAgree
<1>1. i \in 1..Len(file[r][x]) /\ i \in 1..Len(file[s][x])
  <2>1. file \in [Replica -> [Extent -> Seq(Packet \cup {0})]]
    BY DEF IndInv, Types
  <2>2. file[r][x] \in Seq(Packet \cup {0}) /\ file[s][x] \in Seq(Packet \cup {0})
    BY <2>1
  <2> QED BY <2>2
<1>2. PICK p \in Packet : file[r][x][i] = p /\ extent[p] = x /\ offset[p] = i - 1
  BY <1>1 DEF AgreeInv, Places, Entries, Entry
<1>3. PICK q \in Packet : file[s][x][i] = q /\ extent[q] = x /\ offset[q] = i - 1
  BY <1>1 DEF AgreeInv, Places, Entries, Entry
<1>4. x # NoExtent /\ 0 \notin Packet
  BY RpAssumption, PacketFacts DEF Extent, IndInv
<1> QED BY <1>2, <1>3, <1>4 DEF AgreeInv, Places, Unique, Placing

\* No tiny extent is held twice, and the end of a connection leaves none held that
\* no full channel has lost.
LEMMA AgreeTiny == IndInv /\ AgreeInv => TinyReturned
<1> SUFFICES ASSUME IndInv, AgreeInv PROVE TinyReturned
  OBVIOUS
<1>1. ASSUME exited = ReplHasExited, NEW p \in Packet, Holds(p)
      PROVE  p \in dropped
  <2>1. ~Sending /\ ~Writing
    BY <1>1, AllGone, OperFacts DEF IndInv
  <2> QED BY <1>1, <2>1, ElemsEmpty DEF AgreeInv, Flow, Found, Emptied
<1> QED BY <1>1 DEF AgreeInv, Places, OneHolder, TinyReturned

-----------------------------------------------------------------------------
(* The receiver *)

\* The front of the list is not being written any more when there is a signal.
LEMMA FrontFacts ==
  ASSUME IndInv, ackCh > 0, ~Waiting
  PROVE  /\ 1 \in 1..Len(packetList) /\ packetList # <<>>
         /\ packetList[1] \in Packet /\ Over(packetList[1])
         /\ Len(packetList) >= ackCh + Left(Writing)
<1>1. /\ Len(packetList) \in Nat /\ packetList \in Seq(Packet) /\ ackCh \in Nat
      /\ \A i \in 1..Len(packetList) : packetList[i] \in Packet
  BY QueueFacts DEF IndInv, Types
<1>2. Len(packetList) >= ackCh + Left(Writing)
  BY <1>1 DEF IndInv, Counted, Left
<1>3. 1 \in 1..Len(packetList) /\ packetList # <<>>
  BY <1>1, <1>2 DEF Left
<1>4. Listed(1) /\ packetList[1] \in Packet
  BY <1>1, <1>3 DEF IndInv, Placed
<1>5. Writing => oper.p # packetList[1]
  <2> SUFFICES ASSUME Writing PROVE oper.p # packetList[1]
    OBVIOUS
  <2>1. Len(packetList) >= 2
    BY <1>1, <1>2 DEF Left
  <2>2. oper.p = packetList[Len(packetList)]
    BY DEF IndInv, Placed
  <2> QED BY <1>1, <1>4, <2>1, <2>2 DEF Listed
<1> QED BY <1>2, <1>3, <1>4, <1>5 DEF Listed, Over

\* deletePacket takes the front of the list away, with its result.
LEMMA DeleteKeeps ==
  ASSUME IndInv, NEW k \in Packet, packetList # <<>>, k = packetList[1], Over(k),
         receiver # Gone, DeletePacket(k),
         ackCh' \in Nat, ackCh' + Left(Writing) <= Len(packetList) - 1,
         result' \in [Packet -> {"init", "ok", "err"}],
         \A p \in Packet : result'[p] = "ok" => result[p] = "ok",
         result'[k] = "ok" /\ kind[k] # "read" => \A r \in Replica : Safe(r, k),
         UNCHANGED <<kind, nread, server, oper, writer, exited, toBeProcessedCh, extent, offset,
                     file, replies, sendCh, wire, back, respCh>>
  PROVE  IndInv'
<1>1. packetList' = Tail(packetList) /\ PutResponse(k) /\ receiver' = Idle
  BY DEF DeletePacket
<1>2. Packet' = Packet
  BY DEF Packet
<1>3. /\ packetList' \in Seq(Packet)
      /\ Len(packetList) \in Nat /\ Len(packetList) > 0
      /\ Len(packetList') = Len(packetList) - 1
      /\ \A i \in 1..(Len(packetList) - 1) : packetList'[i] = packetList[i + 1]
  BY <1>1, TailFacts, QueueFacts DEF IndInv
<1>4. /\ responseCh' \in Seq(Packet)
      /\ \A i \in 1..Len(responseCh') :
           \/ i \in 1..Len(responseCh) /\ responseCh'[i] = responseCh[i]
           \/ responseCh'[i] = k
  BY <1>1, PutFacts, QueueFacts DEF IndInv
<1>5. Types'
  BY <1>1, <1>2, <1>3, <1>4 DEF IndInv, Types
<1>6. Steady
  BY SteadyStutter DEF IndInv
<1>7. /\ Sending' <=> Sending
      /\ Writing' <=> Writing
      /\ ~Waiting' /\ receiver' # Gone
  BY <1>1, RpAssumption DEF Sending, Writing, Waiting, Follower, Idle, Gone
<1>8. Exits'
  BY <1>7 DEF IndInv, Exits
<1>9. Counted'
  BY <1>3, <1>7 DEF Counted, Left
<1>10. \A p : Good(p) => Good(p)'
  BY <1>5, <1>6, GoodStays DEF IndInv
<1>11. Placed'
  <2>1. ASSUME NEW i \in 1..Len(toBeProcessedCh') PROVE Queued(i)'
    BY <1>7, <1>10, <2>1 DEF IndInv, Placed, Queued
  <2>2. ASSUME NEW i \in 1..Len(packetList') PROVE Listed(i)'
    <3>1. /\ i + 1 \in 1..Len(packetList) /\ packetList'[i] = packetList[i + 1]
          /\ \A j \in 1..Len(packetList') : /\ j + 1 \in 1..Len(packetList)
                                            /\ packetList'[j] = packetList[j + 1]
                                            /\ i + 1 = j + 1 => i = j
      BY <1>3, <2>2
    <3>2. Listed(i + 1)
      BY <3>1 DEF IndInv, Placed
    <3>3. \A j \in 1..Len(packetList') : packetList'[i] = packetList'[j] => i = j
      BY <3>1, <3>2 DEF Listed
    <3> QED BY <1>7, <3>1, <3>2, <3>3 DEF Listed
  <2>3. (\A i \in 1..Len(responseCh) : Over(responseCh[i]))'
    <3> SUFFICES ASSUME NEW i \in 1..Len(responseCh') PROVE (Over(responseCh[i]))'
      OBVIOUS
    <3>1. CASE i \in 1..Len(responseCh) /\ responseCh'[i] = responseCh[i]
      <4>1. Over(responseCh[i])
        BY <3>1 DEF IndInv, Placed
      <4> QED BY <1>7, <3>1, <4>1 DEF Over
    <3>2. CASE responseCh'[i] = k
      BY <1>7, <3>2 DEF Over
    <3> QED BY <1>4, <3>1, <3>2
  <2>4. Sending' \/ Writing' => (Good(oper.p))'
    BY <1>7, <1>10 DEF IndInv, Placed
  <2>5. Writing' => oper'.p = packetList'[Len(packetList')]
    <3> SUFFICES ASSUME Writing PROVE oper.p = packetList'[Len(packetList')]
      BY <1>7
    <3>1. Len(packetList') \in 1..(Len(packetList) - 1) /\ Len(packetList') + 1 = Len(packetList)
      BY <1>3 DEF Left
    <3>2. packetList'[Len(packetList')] = packetList[Len(packetList)]
      BY <1>3, <3>1
    <3> QED BY <3>2 DEF IndInv, Placed
  <2> QED BY <1>7, <2>1, <2>2, <2>3, <2>4, <2>5 DEF Placed
<1>12. Truthful'
  <2>1. \A f \in Follower : Answers(f)'
    BY <1>5, <1>6, AnswersStay DEF IndInv, Truthful
  <2>2. \A p \in Packet' : Local(p)'
    BY <1>5, <1>6, LocalKept
  <2>3. Heard'
    BY <1>7 DEF Heard
  <2>4. \A i \in 1..Len(responseCh') : Judged(i)'
    <3>1. \A i \in 1..Len(responseCh') :
            \/ /\ i \in 1..Len(responseCh) /\ responseCh'[i] = responseCh[i]
               /\ result'[responseCh[i]] = "ok" => result[responseCh[i]] = "ok"
            \/ responseCh'[i] = k
      BY <1>4, QueueFacts DEF IndInv
    <3>2. result'[k] = "ok" /\ kind[k] # "read" => \A r \in Replica : Safe(r, k)'
      BY <1>5, <1>6, SafeStays DEF IndInv
    <3> QED BY <1>5, <1>6, <3>1, <3>2, JudgedPut DEF IndInv, Truthful
  <2>5. \A i \in 1..Len(replies') : Replied(i)'
    BY <1>5, <1>6, RepliedStays DEF IndInv, Truthful
  <2> QED BY <2>1, <2>2, <2>3, <2>4, <2>5 DEF Truthful
<1> QED BY <1>5, <1>8, <1>9, <1>11, <1>12 DEF IndInv

\* The receiver begins with the front of the list, or goes on to the next follower.
LEMMA AdvanceKeeps ==
  ASSUME IndInv, NEW k \in Packet, NEW n \in Follower, k = packetList[1],
         receiver # Gone, receiver' = [p |-> k, i |-> n],
         ackCh' \in Nat, ackCh' + 1 + Left(Writing) <= Len(packetList),
         result' \in [Packet -> {"init", "ok", "err"}],
         \A p \in Packet : result'[p] = "ok" => result[p] = "ok",
         result'[k] # "err" => \A f \in Follower : f < n => Safe(f, k),
         UNCHANGED <<kind, nread, server, oper, writer, exited, toBeProcessedCh, packetList,
                     responseCh, extent, offset, file, replies, sendCh, wire, back, respCh>>
  PROVE  IndInv'
<1>1. Packet' = Packet
  BY DEF Packet
<1>2. /\ receiver' \in [p : Packet, i : Follower] /\ receiver'.p = k /\ receiver'.i = n
      /\ Waiting' /\ receiver' # Gone
  BY RpAssumption DEF Waiting, Follower, Gone
<1>3. Types'
  BY <1>1, <1>2 DEF IndInv, Types
<1>4. Steady
  BY SteadyStutter DEF IndInv
<1>5. (Sending' <=> Sending) /\ (Writing' <=> Writing)
  BY DEF Sending, Writing
<1>6. Exits'
  BY <1>2 DEF IndInv, Exits
<1>7. Counted'
  BY <1>2, <1>5 DEF Counted, Left
<1>8. Placed'
  <2>1. \A p : Good(p)' <=> Good(p)
    BY <1>1 DEF Good
  <2>2. \A i \in 1..Len(toBeProcessedCh') : Queued(i)'
    BY <1>5, <2>1 DEF IndInv, Placed, Queued
  <2>3. \A i \in 1..Len(packetList') : Listed(i)'
    BY <1>5 DEF IndInv, Placed, Listed
  <2>4. (\A i \in 1..Len(responseCh) : Over(responseCh[i]))'
    BY <1>5 DEF IndInv, Placed, Over
  <2> QED BY <1>2, <1>5, <2>1, <2>2, <2>3, <2>4 DEF IndInv, Placed
<1>9. Truthful'
  <2>1. \A f \in Follower : Answers(f)'
    BY <1>3, <1>4, AnswersStay DEF IndInv, Truthful
  <2>2. \A p \in Packet' : Local(p)'
    BY <1>3, <1>4, LocalKept
  <2>3. Heard'
    <3> SUFFICES ASSUME result'[receiver'.p] # "err", NEW f \in Follower, f < receiver'.i
                 PROVE  (Safe(f, receiver.p))'
      BY DEF Heard
    <3>1. Safe(f, k) /\ f \in Replica
      BY <1>2, RpAssumption DEF Follower, Replica
    <3>2. Safe(f, k)'
      BY <1>3, <1>4, <3>1, SafeStays DEF IndInv
    <3> QED BY <1>2, <3>2
  <2>4. \A i \in 1..Len(responseCh') : Judged(i)'
    <3> SUFFICES ASSUME NEW i \in 1..Len(responseCh') PROVE Judged(i)'
      OBVIOUS
    <3>1. Judged(i) /\ responseCh[i] \in Packet
      BY QueueFacts DEF IndInv, Truthful
    <3>2. \A r \in Replica : \A p : Safe(r, p) => Safe(r, p)'
      BY <1>3, <1>4, SafeStays DEF IndInv
    <3> QED BY <3>1, <3>2 DEF Judged
  <2>5. \A i \in 1..Len(replies') : Replied(i)'
    BY <1>3, <1>4, RepliedStays DEF IndInv, Truthful
  <2> QED BY <2>1, <2>2, <2>3, <2>4, <2>5 DEF Truthful
<1> QED BY <1>3, <1>6, <1>7, <1>8, <1>9 DEF IndInv

\* The receiver takes a signal.
LEMMA RecvTakeKeeps ==
  ASSUME IndInv, RecvTake
  PROVE  IndInv'
<1>1. /\ receiver = Idle /\ ackCh > 0 /\ ackCh' = ackCh - 1 /\ ackCh \in Nat
      /\ ~Waiting /\ receiver # Gone
  <2>1. receiver = Idle /\ ackCh > 0 /\ ackCh' = ackCh - 1
    BY DEF RecvTake
  <2>2. Types /\ ackCh \in Nat
    BY DEF IndInv, Types
  <2>3. Idle # Gone
    BY DEF Idle, Gone
  <2> QED BY <2>1, <2>2, <2>3, ReceiverFacts
<1>2. /\ packetList # <<>> /\ packetList[1] \in Packet /\ Over(packetList[1])
      /\ Len(packetList) >= ackCh + Left(Writing) /\ Len(packetList) \in Nat
      /\ Left(Writing) \in {0, 1}
  BY <1>1, FrontFacts, QueueFacts DEF IndInv, Left
<1>3. PICK k \in Packet : k = packetList[1] /\ k = GetNextPacket
  <2>1. Head(packetList) = packetList[1]
    BY <1>2, QueueFacts, TailFacts DEF IndInv
  <2> QED BY <1>2, <2>1 DEF GetNextPacket
<1>4. /\ \/ result[k] = "err" /\ DeletePacket(k)
         \/ receiver' = [p |-> k, i |-> 1] /\ UNCHANGED <<packetList, responseCh>>
      /\ UNCHANGED <<kind, nread, server, oper, writer, exited, toBeProcessedCh, result, extent,
                     offset, file, replies, sendCh, wire, back, respCh>>
  BY <1>2, <1>3 DEF RecvTake, ftVars, stVars
<1>5. result' \in [Packet -> {"init", "ok", "err"}] /\ 1 \in Follower
  <2>1. result \in [Packet -> {"init", "ok", "err"}]
    BY DEF IndInv, Types
  <2>2. 1 \in Follower
    BY RpAssumption DEF Follower
  <2> QED BY <1>4, <2>1, <2>2
<1>6. ackCh' \in Nat /\ ackCh' + 1 + Left(Writing) <= Len(packetList)
  BY <1>1, <1>2
<1>7. CASE result[k] = "err" /\ DeletePacket(k)
  <2>1. ackCh' + Left(Writing) <= Len(packetList) - 1
    BY <1>2, <1>6
  <2> QED BY <1>1, <1>2, <1>3, <1>4, <1>5, <1>6, <1>7, <2>1, DeleteKeeps
<1>8. CASE receiver' = [p |-> k, i |-> 1] /\ UNCHANGED <<packetList, responseCh>>
  <2>1. \A f \in Follower : ~(f < 1)
    BY DEF Follower
  <2> QED BY <1>1, <1>2, <1>3, <1>4, <1>5, <1>6, <1>8, <2>1, AdvanceKeeps
<1> QED BY <1>4, <1>7, <1>8

\* The receiver takes a follower's answer.
LEMMA RecvWaitKeeps ==
  ASSUME IndInv, RecvWait
  PROVE  IndInv'
<1>1. Waiting /\ receiver # Gone /\ receiver \in [p : Packet, i : Follower]
  BY ReceiverFacts DEF RecvWait, Waiting, IndInv, Types
<1>2. PICK k \in Packet, n \in Follower : receiver = [p |-> k, i |-> n]
  BY <1>1
<1>3. /\ packetList # <<>> /\ k = packetList[1] /\ Over(k)
      /\ Len(packetList) >= ackCh + 1 + Left(Writing) /\ Len(packetList) \in Nat
      /\ ackCh \in Nat /\ Left(Writing) \in {0, 1} /\ n \in Nat
  <2>0. Types /\ n \in Nat
    BY RpAssumption DEF IndInv, Follower
  <2>1. ackCh \in Nat
    BY <2>0 DEF Types
  <2>2. receiver.p = k
    BY <1>2
  <2>3. Left(Writing) \in {0, 1}
    BY DEF Left
  <2> QED BY <1>1, <2>0, <2>1, <2>2, <2>3, WaitingFacts, QueueFacts
<1>4. PICK err : err = respCh[k][n]
  OBVIOUS
<1>5. /\ result' = FollowerResult(k, err)
      /\ \/ (n = NumFollowers \/ err = "deadline") /\ DeletePacket(k)
         \/ /\ n < NumFollowers /\ receiver' = [p |-> k, i |-> n + 1]
            /\ UNCHANGED <<packetList, responseCh>>
      /\ UNCHANGED <<kind, nread, server, oper, writer, exited, toBeProcessedCh, ackCh, extent,
                     offset, file, replies, sendCh, wire, back, respCh>>
  BY <1>2, <1>4 DEF RecvWait, ftVars, stVars
<1>6. result \in [Packet -> {"init", "ok", "err"}]
  BY DEF IndInv, Types
<1>7. /\ result' \in [Packet -> {"init", "ok", "err"}]
      /\ \A p \in Packet : result'[p] = "ok" => result[p] = "ok"
      /\ result'[k] # "err" => result[k] # "err" /\ err = "ok"
  BY <1>5, <1>6 DEF FollowerResult
<1>8. result'[k] # "err" => \A f \in Follower : f <= n => Safe(f, k)
  <2> SUFFICES ASSUME result'[k] # "err", NEW f \in Follower, f <= n
               PROVE  Safe(f, k)
    OBVIOUS
  <2>1. CASE f = n
    BY <1>4, <1>7, <2>1, TransportTypes DEF Answers
  <2>2. CASE f < n
    <3>1. receiver.p = k /\ receiver.i = n
      BY <1>2
    <3> QED BY <1>1, <1>7, <2>2, <3>1 DEF IndInv, Truthful, Heard
  <2> QED BY <1>3, <2>1, <2>2 DEF Follower
<1>9. CASE (n = NumFollowers \/ err = "deadline") /\ DeletePacket(k)
  <2>1. result'[k] = "ok" /\ kind[k] # "read" => \A r \in Replica : Safe(r, k)
    <3> SUFFICES ASSUME result'[k] = "ok", kind[k] # "read", NEW r \in Replica
                 PROVE  Safe(r, k)
      OBVIOUS
    <3>1. n = NumFollowers /\ result[k] = "ok"
      BY <1>7, <1>9
    <3>2. CASE r = 0
      BY <3>1, <3>2 DEF IndInv, Truthful, Local
    <3>3. CASE r # 0
      <4>1. r \in Follower /\ r <= n
        BY <3>1, <3>3, RpAssumption DEF Replica, Follower
      <4> QED BY <1>8, <4>1
    <3> QED BY <3>2, <3>3
  <2>2. ackCh' \in Nat /\ ackCh' + Left(Writing) <= Len(packetList) - 1
    BY <1>3, <1>5
  <2> QED BY <1>1, <1>3, <1>5, <1>7, <1>9, <2>1, <2>2, DeleteKeeps
<1>10. CASE /\ n < NumFollowers /\ receiver' = [p |-> k, i |-> n + 1]
            /\ UNCHANGED <<packetList, responseCh>>
  <2>1. n + 1 \in Follower
    BY <1>10, RpAssumption DEF Follower
  <2>2. result'[k] # "err" => \A f \in Follower : f < n + 1 => Safe(f, k)
    <3>1. \A f \in Follower : f < n + 1 => f <= n
      BY <1>3 DEF Follower
    <3> QED BY <1>8, <3>1
  <2>3. ackCh' \in Nat /\ ackCh' + 1 + Left(Writing) <= Len(packetList)
    BY <1>3, <1>5
  <2> QED BY <1>1, <1>3, <1>5, <1>7, <1>10, <2>1, <2>2, <2>3, AdvanceKeeps
<1> QED BY <1>5, <1>9, <1>10

-----------------------------------------------------------------------------
(* The writer, and the theorems *)

\* An answer that says "ok" is true of every replica when it is sent.
LEMMA WriteResponseKeeps ==
  ASSUME IndInv, WriteResponse
  PROVE  IndInv'
<1>1. /\ writer = "run" /\ responseCh # <<>>
      /\ responseCh' = Tail(responseCh)
      /\ \/ UNCHANGED replies
         \/ /\ kind[Head(responseCh)] # "read" \/ result[Head(responseCh)] = "err"
            /\ replies' = Append(replies, <<Head(responseCh), result[Head(responseCh)]>>)
      /\ exited' \in {exited, Stopped}
      /\ UNCHANGED <<kind, nread, server, oper, receiver, writer, toBeProcessedCh, packetList,
                     ackCh, result, extent, offset, file, sendCh, wire, back, respCh>>
  BY DEF WriteResponse, ftVars
<1>2. /\ Tail(responseCh) \in Seq(Packet) /\ Len(responseCh) \in Nat /\ Len(responseCh) > 0
      /\ Len(Tail(responseCh)) = Len(responseCh) - 1
      /\ \A i \in 1..(Len(responseCh) - 1) : Tail(responseCh)[i] = responseCh[i + 1]
      /\ Head(responseCh) = responseCh[1] /\ responseCh[1] \in Packet
  BY <1>1, QueueFacts, TailFacts DEF IndInv
<1>3. PICK k \in Packet : k = Head(responseCh) /\ k = responseCh[1]
  BY <1>2
<1>4. Packet' = Packet
  BY <1>1 DEF Packet
<1>5. /\ result[k] \in {"init", "ok", "err"}
      /\ replies \in Seq(Packet \X {"init", "ok", "err"}) /\ exited \in Int
  BY DEF IndInv, Types
<1>6. /\ replies' \in Seq(Packet \X {"init", "ok", "err"})
      /\ \A i \in 1..Len(replies') :
            \/ i \in 1..Len(replies) /\ replies'[i] = replies[i]
            \/ replies'[i] = <<k, result[k]>> /\ (kind[k] # "read" \/ result[k] = "err")
  <2> DEFINE R == Packet \X {"init", "ok", "err"}
             m == <<k, result[k]>>
  <2>1. m \in R /\ replies \in Seq(R)
    BY <1>5
  <2>2. \/ replies' = replies
        \/ replies' = Append(replies, m) /\ (kind[k] # "read" \/ result[k] = "err")
    BY <1>1, <1>3
  <2> SUFFICES /\ replies' \in Seq(R)
               /\ \A i \in 1..Len(replies') :
                     \/ i \in 1..Len(replies) /\ replies'[i] = replies[i]
                     \/ replies'[i] = m /\ (kind[k] # "read" \/ result[k] = "err")
    OBVIOUS
  <2> HIDE DEF R, m
  <2> QED BY <2>1, <2>2, AppendFacts
<1>7. Types'
  <2>1. exited' \in Int
    BY <1>1, <1>5 DEF Stopped, ReplExiting
  <2> QED BY <1>1, <1>2, <1>4, <1>6, <2>1 DEF IndInv, Types
<1>8. Steady
  BY <1>1, SteadyStutter DEF IndInv
<1>9. Exits'
  <2> USE DEF ReplRuning, ReplExiting, ReplHasExited
  <2>1. Exits /\ exited \in Int
    BY <1>5 DEF IndInv
  <2> QED BY <1>1, <2>1 DEF Exits, Stopped, Left
<1>10. Counted'
  BY <1>1 DEF IndInv, Counted, Waiting, Writing
<1>11. Placed'
  <2>1. \A i \in 1..Len(responseCh') : Over(responseCh[i + 1]) /\ responseCh'[i] = responseCh[i + 1]
    BY <1>1, <1>2 DEF IndInv, Placed
  <2>2. (\A i \in 1..Len(responseCh) : Over(responseCh[i]))'
    BY <1>1, <2>1 DEF Over, Sending, Writing
  <2> QED BY <1>1, <1>4, <2>2 DEF IndInv, Placed, Queued, Listed, Good, Sending, Writing, Waiting
<1>12. Truthful'
  <2>1. \A f \in Follower : Answers(f)'
    BY <1>1, <1>7, <1>8, AnswersStay DEF IndInv, Truthful
  <2>2. (\A p \in Packet : Local(p))' /\ Heard'
    BY <1>1, <1>7, <1>8, LocalStays, HeardStays DEF IndInv, Truthful
  <2>3. \A r \in Replica : \A p : Safe(r, p) => Safe(r, p)'
    BY <1>7, <1>8, SafeStays DEF IndInv
  <2>4. \A i \in 1..Len(responseCh) : Judged(i)
    BY DEF IndInv, Truthful
  <2>5. \A i \in 1..Len(responseCh') : Judged(i)'
    <3> SUFFICES ASSUME NEW i \in 1..Len(responseCh') PROVE Judged(i)'
      OBVIOUS
    <3>1. i + 1 \in 1..Len(responseCh) /\ responseCh'[i] = responseCh[i + 1]
      BY <1>1, <1>2
    <3> QED BY <1>1, <2>3, <2>4, <3>1 DEF Judged
  <2>6. \A i \in 1..Len(replies') : Replied(i)'
    <3> SUFFICES ASSUME NEW i \in 1..Len(replies'), replies'[i][2] = "ok", NEW r \in Replica
                 PROVE  (Safe(r, replies[i][1]))'
      BY DEF Replied
    <3>1. CASE i \in 1..Len(replies) /\ replies'[i] = replies[i]
      <4>1. Safe(r, replies[i][1])
        BY <3>1 DEF IndInv, Truthful, Replied
      <4>2. PICK p : p = replies[i][1] /\ p = replies'[i][1]
        BY <3>1
      <4>3. Safe(r, p)'
        BY <2>3, <4>1, <4>2
      <4> QED BY <4>2, <4>3
    <3>2. CASE replies'[i] = <<k, result[k]>> /\ (kind[k] # "read" \/ result[k] = "err")
      <4>1. result[k] = "ok" /\ kind[k] # "read" /\ replies'[i][1] = k
        BY <3>2
      <4>2. Safe(r, k)
        BY <1>2, <1>3, <2>4, <4>1 DEF Judged
      <4>3. Safe(r, k)'
        BY <2>3, <4>2
      <4> QED BY <4>1, <4>3
    <3> QED BY <1>6, <3>1, <3>2
  <2> QED BY <2>1, <2>2, <2>5, <2>6 DEF Truthful
<1> QED BY <1>7, <1>9, <1>10, <1>11, <1>12 DEF IndInv

\* The invariant holds of every connection: whatever the clients send, the
\* followers answer and the connections lose, the places of the packets and
\* the answers on their way stay as the argument needs them.
THEOREM ReplInvariant == Spec => []IndInv
<1>1. Init => IndInv
  BY InitInv
<1>2. IndInv /\ [Next]_vars => IndInv'
  <2> SUFFICES ASSUME IndInv, [Next]_vars PROVE IndInv'
    OBVIOUS
  <2>1. CASE ServerNext \/ ReadEOF
    BY <2>1, ReadEOFKeeps, LeaveActionsKeep DEF ServerNext
  <2>2. CASE OperNext
    BY <2>2, OperTakeKeeps, OperSendKeeps, OperSendFailsKeeps, OperLocalKeeps, LeaveActionsKeep
       DEF OperNext
  <2>3. CASE RecvNext
    BY <2>3, RecvTakeKeeps, RecvWaitKeeps, LeaveActionsKeep DEF RecvNext
  <2>4. CASE WriterNext
    BY <2>4, WriteResponseKeeps, LeaveActionsKeep DEF WriterNext
  <2>5. ASSUME NEW f \in Follower, FtNext(f) \/ FollowerNext(f) \/ Destory(f)
        PROVE  IndInv'
    BY <2>5, FtWriteKeeps, FtWriteFailsKeeps, FtReadKeeps, FollowerHandleKeeps,
       OtherTransportKeeps DEF FtNext, FollowerNext
  <2>6. ASSUME NEW p \in Packet, ReuseBuffer(p)
        PROVE  IndInv'
    <3>1. UNCHANGED allVars
      BY <2>6 DEF ReuseBuffer, allVars, coreVars, rpVars, chVars, pkVars, stVars
    <3> QED BY <3>1, StutterKeeps
  <2>7. CASE ReadPkg \/ ReadPkgFails
    BY <2>7, ReadPkgKeeps, ReadPkgFailsKeeps
  <2>8. CASE UNCHANGED vars
    <3>1. UNCHANGED allVars
      BY <2>8 DEF vars, allVars, coreVars, rpVars, chVars, pkVars, ftVars, stVars
    <3> QED BY <3>1, StutterKeeps
  <2> QED BY <2>1, <2>2, <2>3, <2>4, <2>5, <2>6, <2>7, <2>8 DEF Next, Progress
<1> QED BY <1>1, <1>2, PTL DEF Spec

\* A write the client was told has succeeded is in its place on every replica.
THEOREM WritesOnAll == Spec => []AckedOnAll
<1>1. IndInv => AckedOnAll
  <2> SUFFICES ASSUME IndInv PROVE AckedOnAll
    OBVIOUS
  <2>1. DOMAIN replies = 1..Len(replies)
    BY DEF IndInv, Types
  <2> QED BY <2>1 DEF IndInv, Truthful, Replied, Safe, AckedOnAll
<1> QED BY <1>1, ReplInvariant, PTL

\* The copies of an extent agree wherever two replicas have one: none has taken the
\* bytes of a reused buffer, none has skipped a packet, and no two packets were
\* given the same place.
THEOREM CopiesAgree == Spec => []ReplicasAgree
<1>1. Spec => []AgreeInv
  <2>1. IndInv /\ IndInv' /\ AgreeInv /\ [Next]_vars => AgreeInv'
    BY AgreeNext
  <2> QED BY <2>1, AgreeInit, ReplInvariant, PTL DEF Spec
<1> QED BY <1>1, AgreeReplicas, ReplInvariant, PTL

\* A tiny extent is held by one packet at most, never while it is in one of the
\* channels, and is given back before the connection is gone.
THEOREM TinyKept == Spec => []TinyReturned
<1>1. Spec => []AgreeInv
  <2>1. IndInv /\ IndInv' /\ AgreeInv /\ [Next]_vars => AgreeInv'
    BY AgreeNext
  <2> QED BY <2>1, AgreeInit, ReplInvariant, PTL DEF Spec
<1> QED BY <1>1, AgreeTiny, ReplInvariant, PTL
=============================================================================
