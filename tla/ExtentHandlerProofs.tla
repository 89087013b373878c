------------------------ MODULE ExtentHandlerProofs -------------------------
(***************************************************************************)
(* Proofs about ExtentHandler: the extent keys the client publishes name   *)
(* extents that hold the data of the file, for every size of blocks,       *)
(* extents and writes, any number of handlers and any number of faults.    *)
(***************************************************************************)
EXTENDS EhSteps

USE ZenonT(5), SMTT(60), ZenonT(60)

-----------------------------------------------------------------------------
(* The rest of the state.                                                  *)

Called ==
    /\ Serving /\ synced \in 0..fsize
    /\ call = [op |-> call.op, n |-> call.n, wait |-> call.wait]

Listed == handler \in 0..Len(eh) /\ dirtylist \in Seq(Id)

\* A step keeps the invariant when it keeps the handlers and each other part.
LEMMA StepInv ==
    ASSUME IndInv, Advances, Called', Listed', Cached', Published', limit' = limit
    PROVE  IndInv'
<1>1. /\ fsize \in Nat /\ limit \in 0..MaxSize /\ fsize <= limit /\ fsize' = fsize
      /\ Fit(eh', store', fsize') /\ Extents(store') /\ DOMAIN store \subseteq DOMAIN store'
      /\ TinyExtent \in DOMAIN store
  BY DEF IndInv, Types, Advances, Grows
<1>2. TinyExtent \in DOMAIN store'
  BY <1>1
<1>3. fsize' \in Nat /\ limit' \in 0..MaxSize /\ fsize' <= limit'
  BY <1>1
<1>4. Types'
  BY <1>1, <1>2, <1>3 DEF Types, Called, Listed
<1> QED
  BY <1>1, <1>4 DEF IndInv, Called

\* What the client and the meta node know stays true when the data nodes get more.
LEMMA CachedStays ==
    ASSUME Cached, Grows(store, store'), fsize \in Nat, fsize' \in Nat, fsize <= fsize',
           NEW k \in cache
    PROVE  /\ k \in Key
           /\ k.ext # NoExtent =>
                 k.size > 0 /\ Placed(store', k.ext, k.eoff, k.off, k.size)
           /\ k.off + k.size <= fsize'
<1>1. k \in Key /\ k.off + k.size <= fsize
  BY DEF Cached
<1>2. k.off \in Nat /\ k.size \in Nat /\ k.eoff \in Nat
  BY <1>1 DEF Key
<1>3. k.off + k.size <= fsize'
  BY <1>1, <1>2
<1>4. ASSUME k.ext # NoExtent
      PROVE  k.size > 0 /\ Placed(store', k.ext, k.eoff, k.off, k.size)
  <2>1. k.size > 0 /\ Placed(store, k.ext, k.eoff, k.off, k.size)
    BY <1>4 DEF Cached
  <2> QED
    BY <2>1, <1>2, PlacedGrows
<1> QED
  BY <1>1, <1>3, <1>4

\* What the meta node was told stays true when extents grow.
LEMMA PublishedStays ==
    ASSUME Published, Grows(store, store'), NEW o \in DOMAIN meta
    PROVE  /\ o \in Nat /\ meta[o].eoff \in Nat
           /\ meta[o].ext \in DOMAIN store'
           /\ meta[o].eoff < Len(store'[meta[o].ext])
           /\ store'[meta[o].ext][meta[o].eoff + 1] = o
<1> DEFINE e == meta[o].ext
           i == meta[o].eoff
<1>1. o \in Nat /\ i \in Nat /\ e \in DOMAIN store /\ i < Len(store[e]) /\ store[e][i + 1] = o
  BY DEF Published, KeysBacked
<1> HIDE DEF e, i
<1>2. store[e] \in Seq(Int) /\ store'[e] \in Seq(Int) /\ e \in DOMAIN store'
      /\ Len(store[e]) <= Len(store'[e])
      /\ \A j \in 1..Len(store[e]) : store'[e][j] = store[e][j]
  BY <1>1 DEF Grows, Extents
<1>3. i + 1 \in 1..Len(store[e]) /\ i < Len(store'[e])
  BY <1>1, <1>2
<1>4. store'[e][i + 1] = o
  BY <1>1, <1>2, <1>3
<1> QED
  BY <1>1, <1>2, <1>3, <1>4 DEF e, i

\* A step that publishes nothing keeps what cache and meta node know.
LEMMA UnwrittenKnown ==
    ASSUME IndInv, Advances, file' = file
    PROVE  Cached' /\ Published'
<1>1. /\ Cached /\ Published /\ Grows(store, store') /\ fsize \in Nat /\ fsize' = fsize
      /\ cache' = cache /\ meta' = meta /\ fsize <= fsize' /\ fsize' \in Nat
  BY DEF IndInv, Types, Advances, file
<1>2. Cached'
  BY <1>1, CachedStays DEF Cached
<1>3. Published'
  BY <1>1, PublishedStays DEF Published, KeysBacked
<1> QED
  BY <1>2, <1>3

\* A sequence over a set is one over a larger set.
LEMMA SeqSub ==
    ASSUME NEW S, NEW T, S \subseteq T, NEW s \in Seq(S)
    PROVE  s \in Seq(T)
OBVIOUS

\* Put, of the dirty list, keeps a list of handlers.
LEMMA PutType ==
    ASSUME NEW S, NEW dl \in Seq(S), NEW id \in S
    PROVE  Put(dl, id) \in Seq(S) /\ (dl # <<>> => Put(dl, id) # <<>>)
<1>1. Append(dl, id) \in Seq(S) /\ Append(dl, id) # <<>>
  BY AppendFacts
<1> QED
  BY <1>1 DEF Put

\* The list while there may be more handlers.
LEMMA MoreIds ==
    ASSUME IndInv, Len(eh') \in Nat, Len(eh) <= Len(eh')
    PROVE  /\ dirtylist \in Seq(Id') /\ handler \in 0..Len(eh')
           /\ \A id \in Id : id \in Id'
<1>1. dirtylist \in Seq(Id) /\ handler \in 0..Len(eh) /\ Len(eh) \in Nat
  BY DEF IndInv, Types, Fit
<1>2. Id \subseteq Id'
  BY <1>1 DEF Id
<1>3. dirtylist \in Seq(Id')
  BY <1>1, <1>2, SeqSub
<1> QED
  BY <1>1, <1>2, <1>3

\* A step of the sender or the receiver of a handler, or of a data node.
LEMMA GoroutineInv ==
    ASSUME IndInv, Advances, handler' = handler, server' = server, file' = file,
           config' = config, dirtylist' \in Seq(Id'),
           dirtylist # <<>> => dirtylist' # <<>>
    PROVE  IndInv'
<1>1. Len(eh') \in Nat /\ Len(eh) <= Len(eh')
  BY DEF Advances
<1>2. Listed'
  BY <1>1, MoreIds DEF Listed
<1>3. pc' = pc /\ call' = call /\ synced' = synced /\ limit' = limit /\ fsize' = fsize
  BY DEF server, config, file
<1>4. Called'
  BY <1>3 DEF Called, Serving, IndInv, Types
<1>5. Cached' /\ Published'
  BY UnwrittenKnown
<1> QED
  BY <1>2, <1>3, <1>4, <1>5, StepInv

\* The steps of the goroutines of a handler, and of a data node.
LEMMA HandlerInv ==
    ASSUME IndInv, NEW id \in Id,
           \/ Sender(id) \/ DataNode(id) \/ ProcessReply(id)
           \/ ReadReply(id) \/ ReadFails(id) \/ PutRecoverHandler(id)
    PROVE  IndInv'
<1>1. Advances
  BY SenderAdvances, DataNodeAdvances, ProcessReplyAdvances, ReadReplyAdvances,
     ReadFailsAdvances, PutRecoverHandlerAdvances
<1>2. handler' = handler /\ server' = server /\ file' = file /\ config' = config
  BY DEF Sender, DataNode, ProcessReply, ReadReply, ReadFails, PutRecoverHandler, list
<1>3. dirtylist' = dirtylist \/ PutRecoverHandler(id)
  BY DEF Sender, DataNode, ProcessReply, ReadReply, ReadFails, list
<1>4. Len(eh') \in Nat /\ Len(eh) <= Len(eh')
  BY <1>1 DEF Advances
<1>5. dirtylist \in Seq(Id') /\ \A i \in Id : i \in Id'
  BY <1>4, MoreIds
<1>6. ASSUME PutRecoverHandler(id)
      PROVE  dirtylist' \in Seq(Id') /\ (dirtylist # <<>> => dirtylist' # <<>>)
  <2> DEFINE r == eh[id].recoverHandler
  <2>1. Fit(eh, store, fsize) /\ id \in 1..Len(eh)
    BY DEF IndInv, Id
  <2>2. Good(eh[id], store) /\ Linked(eh)
    BY <2>1 DEF Fit
  <2>3. eh[id].recv = "put" /\ dirtylist' = Put(dirtylist, r)
    BY <1>6 DEF PutRecoverHandler
  <2>4. r # 0
    BY <2>2, <2>3 DEF Good, Recovers
  <2>5. r \in Id
    BY <2>1, <2>2, <2>4 DEF Linked, Id
  <2> HIDE DEF r
  <2> QED
    BY <2>3, <2>5, <1>5, PutType
<1> QED
  BY <1>1, <1>2, <1>3, <1>5, <1>6, GoroutineInv

-----------------------------------------------------------------------------
(* The goroutine of the streamer.                                          *)

\* A request that returns leaves the streamer idle.
LEMMA ReturnCalled ==
    ASSUME IndInv, ReturnOk \/ ReturnErr, fsize' \in Nat, fsize <= fsize'
    PROVE  Called'
<1>1. pc' = "idle" /\ call' = NoCall /\ synced' \in {fsize, synced}
  BY DEF ReturnOk, ReturnErr
<1>2. synced \in 0..fsize /\ fsize \in Nat
  BY DEF IndInv, Types
<1>3. synced' \in 0..fsize'
  BY <1>1, <1>2
<1>4. Serving'
  BY <1>1 DEF Serving, Pcs, NoCall
<1>5. call' = [op |-> call'.op, n |-> call'.n, wait |-> call'.wait]
  BY <1>1 DEF NoCall
<1> QED
  BY <1>3, <1>4, <1>5 DEF Called

\* What the streamer needs at the label it goes to.
LEMMA GoToCalled ==
    ASSUME IndInv, NEW l \in Pcs, GoTo(l), fsize' = fsize, limit' = limit,
           l = "closeWait" => handler' # 0,
           l \in {"flushWait", "traverseWait"} => dirtylist' # <<>>,
           l = "write" => call.op = "write",
           l \in {"traverse", "traverseWait"} => call.op = "tick"
    PROVE  Called'
<1>1. pc' = l /\ call' = call /\ synced' = synced
  BY DEF GoTo
<1>2. /\ synced \in 0..fsize
      /\ call = [op |-> call.op, n |-> call.n, wait |-> call.wait]
      /\ call.op = "write" => call.n \in Sizes /\ fsize + call.n <= limit
  BY DEF IndInv, Types, Serving
<1>3. Serving'
  BY <1>1, <1>2 DEF Serving
<1> QED
  BY <1>1, <1>2, <1>3 DEF Called

\* traverse goes on with the next handler, or ends.
LEMMA TraverseCalled ==
    ASSUME IndInv, TraverseNext, pc \in {"traverse", "traverseWait"},
           fsize' = fsize, limit' = limit
    PROVE  Called'
<1>1. /\ synced \in 0..fsize /\ call.op = "tick"
      /\ call = [op |-> call.op, n |-> call.n, wait |-> call.wait]
  BY DEF IndInv, Types, Serving
<1>2. pc' = "traverse" /\ call' = [call EXCEPT !.n = @ - 1] /\ synced' = synced
  BY DEF TraverseNext
<1>3. call' = [op |-> call.op, n |-> call.n - 1, wait |-> call.wait]
  BY <1>1, <1>2
<1>4. call'.op = "tick" /\ call' = [op |-> call'.op, n |-> call'.n, wait |-> call'.wait]
  BY <1>1, <1>3
<1>5. Serving'
  BY <1>2, <1>4 DEF Serving, Pcs
<1> QED
  BY <1>1, <1>2, <1>4, <1>5 DEF Called

\* The end of a flush, good or bad, leaves the streamer at its next label.
LEMMA FlushCalled ==
    ASSUME IndInv, FlushFails \/ FlushEnds, fsize' = fsize, limit' = limit
    PROVE  Called'
<1>1. fsize \in Nat /\ fsize' \in Nat /\ fsize <= fsize'
  BY DEF IndInv, Types
<1>2. CASE GoTo("abort")
  BY <1>2, GoToCalled DEF Pcs
<1>3. CASE call.op = "write" /\ GoTo("write")
  BY <1>3, GoToCalled DEF Pcs
<1>4. CASE ReturnOk \/ ReturnErr
  BY <1>1, <1>4, ReturnCalled
<1> QED
  BY <1>2, <1>3, <1>4 DEF FlushFails, FlushEnds

\* ExtentCache.Append of a key that is in its place, or of the local cache only.
LEMMA CacheAppendCached ==
    ASSUME IndInv, Grows(store, store'), fsize' \in Nat, fsize <= fsize', NEW ek \in Key,
           ek.ext # NoExtent =>
              ek.size > 0 /\ Placed(store', ek.ext, ek.eoff, ek.off, ek.size),
           ek.off + ek.size <= fsize', cache' = CacheAppend(ek)
    PROVE  Cached'
<1>1. Cached /\ fsize \in Nat
  BY DEF IndInv, Types
<1>2. \A k \in cache' : k \in cache \/ k = ek
  BY DEF CacheAppend
<1>3. ASSUME NEW k \in cache'
      PROVE  /\ k \in Key
             /\ k.ext # NoExtent =>
                   k.size > 0 /\ Placed(store', k.ext, k.eoff, k.off, k.size)
             /\ k.off + k.size <= fsize'
  <2>1. CASE k \in cache
    BY <2>1, <1>1, CachedStays
  <2>2. CASE k = ek
    BY <2>2
  <2> QED
    BY <2>1, <2>2, <1>2
<1> QED
  BY <1>3 DEF Cached

\* The meta node with the key of a handler.
LEMMA WithKeyBacked ==
    ASSUME IndInv, NEW k \in Key,
           k.size > 0 => Placed(store, k.ext, k.eoff, k.off, k.size),
           NEW o \in DOMAIN WithKey(k)
    PROVE  /\ o \in Nat /\ WithKey(k)[o].eoff \in Nat
           /\ WithKey(k)[o].ext \in DOMAIN store
           /\ WithKey(k)[o].eoff < Len(store[WithKey(k)[o].ext])
           /\ store[WithKey(k)[o].ext][WithKey(k)[o].eoff + 1] = o
<1> DEFINE m == WithKey(k)
           r == k.off..(k.off + k.size - 1)
           f == [i \in r |-> [ext |-> k.ext, eoff |-> k.eoff + i - k.off]]
<1>1. k.off \in Nat /\ k.size \in Nat /\ k.eoff \in Nat
  BY DEF Key
<1>2. m = [x \in r \cup DOMAIN meta |-> IF x \in r THEN f[x] ELSE meta[x]]
  BY DEF WithKey, Over
<1>3. o \in r \cup DOMAIN meta /\ m[o] = IF o \in r THEN f[o] ELSE meta[o]
  BY <1>2
<1>4. CASE o \in r
  <2>1. o \in Nat /\ k.size > 0 /\ o - k.off \in 0..(k.size - 1)
        /\ k.eoff + o - k.off \in Nat /\ k.eoff + (o - k.off) = k.eoff + o - k.off
        /\ k.off + (o - k.off) = o
    BY <1>1, <1>4
  <2>2. m[o].ext = k.ext /\ m[o].eoff = k.eoff + o - k.off
    BY <1>3, <1>4
  <2>3. /\ k.ext \in DOMAIN store
        /\ k.eoff + (o - k.off) < Len(store[k.ext])
        /\ store[k.ext][k.eoff + (o - k.off) + 1] = k.off + (o - k.off)
    BY <2>1 DEF Placed
  <2> HIDE DEF m
  <2> QED
    BY <2>1, <2>2, <2>3 DEF m
<1>5. CASE o \notin r
  <2>1. o \in DOMAIN meta /\ m[o] = meta[o]
    BY <1>3, <1>5
  <2>2. /\ o \in Nat /\ meta[o].eoff \in Nat /\ meta[o].ext \in DOMAIN store
        /\ meta[o].eoff < Len(store[meta[o].ext])
        /\ store[meta[o].ext][meta[o].eoff + 1] = o
    BY <2>1 DEF IndInv, Published, KeysBacked
  <2> HIDE DEF m
  <2> QED
    BY <2>1, <2>2 DEF m
<1> QED
  BY <1>4, <1>5

\* appendExtentKey, for a handler that fits.
LEMMA AppendExtentKeyKnown ==
    ASSUME IndInv, NEW h, Good(h, store), Within(h, fsize), NEW ok, AppendExtentKey(h, ok),
           store' = store, fsize' = fsize
    PROVE  Cached' /\ Published'
<1> DEFINE k == h.key
<1>1. /\ fsize \in Nat /\ Extents(store) /\ Cached /\ Published
      /\ fsize' \in Nat /\ fsize <= fsize'
  BY DEF IndInv, Types
<1>2. Grows(store, store')
  BY <1>1, GrowsSelf
<1>3. h \in HandlerSet /\ k \in Key /\ h.off + k.size <= fsize
  BY Fields DEF Good, Within
<1>4. k # NoKey => /\ k.off = h.off /\ k.size > 0
                   /\ Placed(store, k.ext, k.eoff, k.off, k.size)
  BY DEF Good, Keyed
<1>5. k = NoKey => k.size = 0
  BY NoKeyKey
<1>6. cache' = (IF k = NoKey THEN cache ELSE CacheAppend(k)) /\ meta' \in {meta, WithKey(k)}
  BY DEF AppendExtentKey
<1> HIDE DEF k
<1>7. Cached'
  <2>1. CASE k = NoKey
    BY <2>1, <1>6, <1>1, <1>2, CachedStays DEF Cached
  <2>2. CASE k # NoKey
    <3>1. k.off + k.size <= fsize' /\ k.size > 0
          /\ Placed(store', k.ext, k.eoff, k.off, k.size)
      BY <2>2, <1>3, <1>4
    <3> QED
      BY <2>2, <3>1, <1>1, <1>2, <1>3, <1>6, CacheAppendCached
  <2> QED
    BY <2>1, <2>2
<1>8. Published'
  <2>1. CASE meta' = meta
    BY <2>1, <1>1, <1>2, PublishedStays DEF Published, KeysBacked
  <2>2. CASE meta' = WithKey(k)
    <3>1. k.size > 0 => Placed(store, k.ext, k.eoff, k.off, k.size)
      BY <1>4, <1>5
    <3>2. \A o \in DOMAIN WithKey(k) :
             /\ o \in Nat /\ WithKey(k)[o].eoff \in Nat
             /\ WithKey(k)[o].ext \in DOMAIN store
             /\ WithKey(k)[o].eoff < Len(store[WithKey(k)[o].ext])
             /\ store[WithKey(k)[o].ext][WithKey(k)[o].eoff + 1] = o
      BY <3>1, <1>3, WithKeyBacked
    <3> QED
      BY <2>2, <3>2 DEF Published, KeysBacked
  <2> QED
    BY <2>1, <2>2, <1>6
<1> QED
  BY <1>7, <1>8

\* Steps of the streamer that change no extent, and at most one handler.
LEMMA SameAdvances ==
    ASSUME IndInv, eh' = eh, store' = store, fsize' = fsize
    PROVE  Advances
<1>1. /\ Fit(eh, store, fsize) /\ Grows(store, store)
      /\ Len(eh) \in Nat /\ Len(eh) <= Len(eh)
  BY GrowsSelf DEF IndInv, Types, Fit
<1> QED
  BY <1>1 DEF Advances

\* The invariant, of one handler.
LEMMA HandlerGood ==
    ASSUME IndInv, NEW id \in Id
    PROVE  Good(eh[id], store) /\ Within(eh[id], fsize) /\ eh[id] \in HandlerSet
<1>1. Fit(eh, store, fsize) /\ id \in 1..Len(eh)
  BY DEF IndInv, Id
<1> QED
  BY <1>1 DEF Fit, Good

\* A step of one handler that keeps it right keeps all.
LEMMA KeptAdvances ==
    ASSUME IndInv, NEW id \in Id, NEW g, Good(g, store), Within(g, fsize), Kept(eh[id], g),
           store' = store, fsize' = fsize
    PROVE  eh' = [eh EXCEPT ![id] = g] => Advances
<1>1. Grows(store, store') /\ Good(g, store')
  BY GrowsSelf DEF IndInv, Types
<1> QED
  BY <1>1, StepAdvances

\* A step that changes status or flags of one handler keeps all right.
LEMMA TurnedAdvances ==
    ASSUME IndInv, NEW id \in Id, NEW g, Turned(eh[id], g), store' = store, fsize' = fsize
    PROVE  eh' = [eh EXCEPT ![id] = g] => Advances
<1>1. Good(g, store) /\ Within(g, fsize) /\ Kept(eh[id], g)
  BY HandlerGood, TurnedGood
<1> QED
  BY <1>1, KeptAdvances

\* cleanup keeps all handlers right.
LEMMA CleanupAdvances ==
    ASSUME IndInv, NEW id \in Id, store' = store, fsize' = fsize,
           eh' = [eh EXCEPT ![id] = Cleanup(@)]
    PROVE  Advances
<1> DEFINE g == Cleanup(eh[id])
<1>1. Turned(eh[id], g)
  BY HandlerGood, CleanupTurned
<1>2. eh' = [eh EXCEPT ![id] = g]
  OBVIOUS
<1> HIDE DEF g
<1> QED
  BY <1>1, <1>2, TurnedAdvances

\* flushPacket keeps all handlers right.
LEMMA FlushPacketAdvances ==
    ASSUME IndInv, NEW id \in Id, store' = store, fsize' = fsize,
           eh' = [eh EXCEPT ![id] = FlushPacket(@)]
    PROVE  Advances
<1> DEFINE g == FlushPacket(eh[id])
<1>1. fsize \in Nat
  BY DEF IndInv, Types
<1>2. Good(g, store) /\ Within(g, fsize) /\ Kept(eh[id], g)
  BY <1>1, HandlerGood, FlushPacketGood
<1>3. eh' = [eh EXCEPT ![id] = g]
  OBVIOUS
<1> HIDE DEF g
<1> QED
  BY <1>2, <1>3, KeptAdvances

\* The end of a flush of a handler changes its flags alone.
LEMMA FlushedTurned ==
    ASSUME NEW h \in HandlerSet, NEW ok \in BOOLEAN, NEW clear
    PROVE  Turned(h, Flushed(h, ok)) /\ Turned(h, Clear(Flushed(h, ok), clear))
<1> DEFINE g == [h EXCEPT !.dirty = FALSE]
           f == Flushed(h, ok)
<1>1. Turned(h, g) /\ g \in HandlerSet
  BY FlagsTurned DEF Turned
<1>2. Turned(h, SetClosed(g))
  <2> HIDE DEF g
  <2> QED
    BY <1>1, SetClosedTurned, TurnedOn
<1>3. f \in {h, g, SetClosed(g)}
  BY DEF Flushed
<1>4. Turned(h, h)
  BY TurnedSelf
<1> HIDE DEF g, f
<1>5. Turned(h, f) /\ f \in HandlerSet
  BY <1>1, <1>2, <1>3, <1>4 DEF Turned
<1>6. Turned(h, Cleanup(f))
  BY <1>5, CleanupTurned, TurnedOn
<1>7. Clear(f, clear) \in {f, Cleanup(f)}
  BY DEF Clear
<1> QED
  BY <1>5, <1>6, <1>7 DEF f

\* appendExtentKey, at the end of waitForFlush, publishes a key that names data in
\* their place.
LEMMA EndFlushAdvances ==
    ASSUME IndInv, NEW id \in Id, NEW good, NEW clear, EndFlush(id, good, clear),
           store' = store, fsize' = fsize
    PROVE  Advances /\ Cached' /\ Published'
<1> DEFINE h == eh[id]
<1>1. Good(h, store) /\ Within(h, fsize) /\ h \in HandlerSet
  BY HandlerGood
<1>2. CASE eh' = eh /\ cache' = cache /\ meta' = meta
  <2>1. Advances
    BY <1>2, SameAdvances
  <2>2. file' = file
    BY <1>2 DEF file
  <2> QED
    BY <2>1, <2>2, UnwrittenKnown
<1>3. ASSUME NEW ok \in BOOLEAN, AppendExtentKey(h, ok),
             \/ eh' = [eh EXCEPT ![id] = Flushed(h, ok)]
             \/ eh' = [eh EXCEPT ![id] = Clear(Flushed(h, ok), clear)]
      PROVE  Advances /\ Cached' /\ Published'
  <2>1. Cached' /\ Published'
    BY <1>1, <1>3, AppendExtentKeyKnown
  <2>2. Turned(h, Flushed(h, ok)) /\ Turned(h, Clear(Flushed(h, ok), clear))
    BY <1>1, FlushedTurned
  <2>3. Advances
    BY <1>3, <2>2, TurnedAdvances
  <2> QED
    BY <2>1, <2>3
<1>4. \/ eh' = eh /\ cache' = cache /\ meta' = meta
      \/ \E ok \in BOOLEAN :
            /\ AppendExtentKey(h, ok)
            /\ \/ eh' = [eh EXCEPT ![id] = Flushed(h, ok)]
               \/ eh' = [eh EXCEPT ![id] = Clear(Flushed(h, ok), clear)]
  <2>1. CASE good
    BY <2>1 DEF EndFlush
  <2>2. CASE ~good
    BY <2>2 DEF EndFlush
  <2> QED
    BY <2>1, <2>2
<1> QED
  BY <1>2, <1>3, <1>4

-----------------------------------------------------------------------------
(* The actions of the streamer.                                            *)

\* Requests without data, and the timer.
LEMMA RequestInv ==
    ASSUME IndInv, FlushRequest \/ ReleaseRequest \/ Tick \/ RenewalFails
    PROVE  IndInv'
<1>1. /\ eh' = eh /\ store' = store /\ file' = file /\ fsize' = fsize /\ limit' = limit
      /\ handler' = handler /\ dirtylist' = dirtylist /\ synced' = synced
  BY DEF FlushRequest, ReleaseRequest, Tick, RenewalFails, Begin, list, server, file, config
<1>2. Advances
  BY <1>1, SameAdvances
<1>3. Cached' /\ Published'
  BY <1>1, <1>2, UnwrittenKnown
<1>4. Listed'
  BY <1>1 DEF Listed, Id, IndInv, Types
<1>5. CASE RenewalFails
  <2>1. pc' = pc /\ call' = call
    BY <1>5 DEF RenewalFails, server
  <2>2. Called'
    BY <1>1, <2>1 DEF Called, Serving, IndInv, Types
  <2> QED
    BY <1>1, <1>2, <1>3, <1>4, <2>2, StepInv
<1>6. CASE FlushRequest \/ ReleaseRequest \/ Tick
  <2>1. PICK op \in {"flush", "release", "tick"} :
           /\ call' = [op |-> op, n |-> call'.n, wait |-> TRUE]
           /\ \/ pc' \in {"flush", "close"}
              \/ pc' = "traverse" /\ op = "tick"
    BY <1>6 DEF FlushRequest, ReleaseRequest, Tick, Begin
  <2>2. call'.op = op /\ call' = [op |-> call'.op, n |-> call'.n, wait |-> call'.wait]
    BY <2>1
  <2>3. Serving'
    BY <2>1, <2>2 DEF Serving, Pcs
  <2>4. Called'
    BY <1>1, <2>2, <2>3 DEF Called, IndInv, Types
  <2> QED
    BY <1>1, <1>2, <1>3, <1>4, <2>4, StepInv
<1> QED
  BY <1>5, <1>6

\* An action that does not end a flush, nor write.
LEMMA QuietInv ==
    ASSUME IndInv, Advances, Called', file' = file, limit' = limit,
           handler' \in {handler, 0}, dirtylist' \in Seq(Id')
    PROVE  IndInv'
<1>1. Cached' /\ Published'
  BY UnwrittenKnown
<1>2. Len(eh') \in Nat /\ Len(eh) <= Len(eh')
  BY DEF Advances
<1>3. handler \in 0..Len(eh') /\ 0 \in 0..Len(eh')
  BY <1>2, MoreIds
<1>4. Listed'
  BY <1>3 DEF Listed
<1> QED
  BY <1>1, <1>4, StepInv

\* Handlers on the dirty list are handlers after the step too.
LEMMA ListFacts ==
    ASSUME IndInv, Advances
    PROVE  /\ dirtylist \in Seq(Id')
           /\ dirtylist # <<>> => Head(dirtylist) \in Id /\ Tail(dirtylist) \in Seq(Id')
           /\ handler # 0 => handler \in Id
           /\ \A id \in Id : Put(dirtylist, id) \in Seq(Id')
<1>1. Len(eh') \in Nat /\ Len(eh) <= Len(eh') /\ dirtylist \in Seq(Id) /\ Len(eh) \in Nat
      /\ handler \in 0..Len(eh)
  BY DEF Advances, IndInv, Types, Fit
<1>2. dirtylist \in Seq(Id') /\ \A id \in Id : id \in Id'
  BY <1>1, MoreIds
<1>3. dirtylist # <<>> => Head(dirtylist) \in Id
  BY <1>1, TailFacts
<1>4. dirtylist # <<>> => Tail(dirtylist) \in Seq(Id')
  BY <1>2, TailFacts
<1>5. handler # 0 => handler \in Id
  BY <1>1 DEF Id
<1>6. \A id \in Id : Put(dirtylist, id) \in Seq(Id')
  BY <1>2, PutType
<1> QED
  BY <1>2, <1>3, <1>4, <1>5, <1>6

\* The open handler and those of the dirty list are handlers.
LEMMA IdFacts ==
    ASSUME IndInv
    PROVE  /\ dirtylist # <<>> => Head(dirtylist) \in Id
           /\ handler # 0 => handler \in Id
<1>1. dirtylist \in Seq(Id) /\ Len(eh) \in Nat /\ handler \in 0..Len(eh)
  BY DEF IndInv, Types, Fit
<1> QED
  BY <1>1, TailFacts DEF Id

\* closeOpenHandler keeps the invariant.
LEMMA CloseOpenHandlerInv ==
    ASSUME IndInv, CloseOpenHandler
    PROVE  IndInv'
<1>1. file' = file /\ fsize' = fsize /\ limit' = limit /\ store' = store
  BY DEF CloseOpenHandler, file, config
<1>2. CASE handler # 0 /\ eh' = [eh EXCEPT ![handler] = FlushPacket(@)]
           /\ GoTo("closeWait") /\ UNCHANGED list
  <2>1. Advances
    BY <1>1, <1>2, IdFacts, FlushPacketAdvances
  <2>2. handler' = handler /\ dirtylist' = dirtylist /\ handler' # 0
    BY <1>2 DEF list
  <2>3. Called'
    BY <1>1, <1>2, <2>2, GoToCalled DEF Pcs
  <2> QED
    BY <1>1, <2>1, <2>2, <2>3, ListFacts, QuietInv
<1>3. CASE eh' = eh /\ GoTo("flush") /\ handler' \in {handler, 0}
           /\ \/ dirtylist' = dirtylist
              \/ handler # 0 /\ dirtylist' = Put(dirtylist, handler)
  <2>1. Advances
    BY <1>1, <1>3, SameAdvances
  <2>2. Called'
    BY <1>1, <1>3, GoToCalled DEF Pcs
  <2>3. dirtylist' \in Seq(Id')
    BY <1>3, <2>1, ListFacts
  <2> QED
    BY <1>1, <1>3, <2>1, <2>2, <2>3, QuietInv
<1> QED
  BY <1>2, <1>3 DEF CloseOpenHandler, list

\* flushSync keeps the invariant as it begins to flush a handler.
LEMMA FlushSyncInv ==
    ASSUME IndInv, FlushSync
    PROVE  IndInv'
<1>1. /\ file' = file /\ fsize' = fsize /\ limit' = limit /\ store' = store
      /\ handler' = handler /\ dirtylist' = dirtylist
  BY DEF FlushSync, file, config, list
<1>2. CASE FlushEnds /\ eh' = eh
  <2>1. Advances
    BY <1>1, <1>2, SameAdvances
  <2>2. Called'
    BY <1>1, <1>2, FlushCalled
  <2> QED
    BY <1>1, <2>1, <2>2, ListFacts, QuietInv
<1>3. CASE dirtylist # <<>> /\ eh' = [eh EXCEPT ![Head(dirtylist)] = FlushPacket(@)]
           /\ GoTo("flushWait")
  <2>1. Advances
    BY <1>1, <1>3, IdFacts, FlushPacketAdvances
  <2>2. Called'
    BY <1>1, <1>3, GoToCalled DEF Pcs
  <2> QED
    BY <1>1, <2>1, <2>2, ListFacts, QuietInv
<1> QED
  BY <1>2, <1>3 DEF FlushSync

\* An action that ends a flush.
LEMMA EndedInv ==
    ASSUME IndInv, Advances, Cached', Published', Called', limit' = limit,
           handler' \in {handler, 0}, dirtylist' \in Seq(Id')
    PROVE  IndInv'
<1>1. Len(eh') \in Nat /\ Len(eh) <= Len(eh')
  BY DEF Advances
<1>2. handler \in 0..Len(eh') /\ 0 \in 0..Len(eh')
  BY <1>1, MoreIds
<1>3. Listed'
  BY <1>2 DEF Listed
<1> QED
  BY <1>3, StepInv

\* closeOpenHandler keeps it when its flush ends.
LEMMA CloseWaitInv ==
    ASSUME IndInv, CloseWait
    PROVE  IndInv'
<1>1. fsize' = fsize /\ limit' = limit /\ store' = store /\ dirtylist' = dirtylist
  BY DEF CloseWait, config
<1>2. PICK good \in BOOLEAN :
         /\ EndFlush(handler, good, "clean")
         /\ IF good THEN handler' = 0 /\ GoTo("flush")
                    ELSE FlushFails /\ UNCHANGED handler
  BY DEF CloseWait
<1>3. handler \in Id
  BY IdFacts DEF CloseWait, IndInv, Serving
<1>4. Advances /\ Cached' /\ Published'
  BY <1>1, <1>2, <1>3, EndFlushAdvances
<1>5. Called'
  <2>1. CASE GoTo("flush")
    BY <1>1, <2>1, GoToCalled DEF Pcs
  <2>2. CASE FlushFails
    BY <1>1, <2>2, FlushCalled
  <2> QED
    BY <2>1, <2>2, <1>2
<1>6. handler' \in {handler, 0}
  BY <1>2
<1>7. dirtylist' \in Seq(Id')
  BY <1>1, <1>4, ListFacts
<1> QED
  BY <1>1, <1>4, <1>5, <1>6, <1>7, EndedInv

\* flushSync keeps it when the flush of a handler ends.
LEMMA FlushWaitInv ==
    ASSUME IndInv, FlushWait
    PROVE  IndInv'
<1> DEFINE id == Head(dirtylist)
<1>1. fsize' = fsize /\ limit' = limit /\ store' = store /\ handler' = handler
  BY DEF FlushWait, config
<1>2. PICK good \in BOOLEAN :
         /\ EndFlush(id, good, "closed")
         /\ IF good THEN dirtylist' = Tail(dirtylist) /\ GoTo("flush")
                    ELSE FlushFails /\ dirtylist' = dirtylist
  BY DEF FlushWait
<1>3. dirtylist # <<>> /\ id \in Id
  BY IdFacts DEF FlushWait, IndInv, Serving
<1> HIDE DEF id
<1>4. Advances /\ Cached' /\ Published'
  BY <1>1, <1>2, <1>3, EndFlushAdvances
<1>5. Called'
  <2>1. CASE GoTo("flush")
    BY <1>1, <2>1, GoToCalled DEF Pcs
  <2>2. CASE FlushFails
    BY <1>1, <2>2, FlushCalled
  <2> QED
    BY <2>1, <2>2, <1>2
<1>6. dirtylist' \in Seq(Id')
  BY <1>2, <1>3, <1>4, ListFacts
<1> QED
  BY <1>1, <1>4, <1>5, <1>6, EndedInv

\* traverse keeps it when the flush of a handler ends.
LEMMA TraverseWaitInv ==
    ASSUME IndInv, TraverseWait
    PROVE  IndInv'
<1> DEFINE id == Head(dirtylist)
<1>1. /\ fsize' = fsize /\ limit' = limit /\ store' = store
      /\ handler' = handler /\ dirtylist' = dirtylist
  BY DEF TraverseWait, config, list
<1>2. PICK good \in BOOLEAN : EndFlush(id, good, "none")
  BY DEF TraverseWait
<1>3. id \in Id
  BY IdFacts DEF TraverseWait, IndInv, Serving
<1> HIDE DEF id
<1>4. Advances /\ Cached' /\ Published'
  BY <1>1, <1>2, <1>3, EndFlushAdvances
<1>5. Called'
  BY <1>1, TraverseCalled DEF TraverseWait
<1>6. dirtylist' \in Seq(Id')
  BY <1>1, <1>4, ListFacts
<1> QED
  BY <1>1, <1>4, <1>5, <1>6, EndedInv

\* The streamer stays where it is.
LEMMA SameCalled ==
    ASSUME IndInv, server' = server, fsize' = fsize, limit' = limit, handler' = handler,
           dirtylist' = dirtylist
    PROVE  Called'
<1>1. pc' = pc /\ call' = call /\ synced' = synced
  BY DEF server
<1> QED
  BY <1>1 DEF Called, Serving, IndInv, Types

\* A flush goroutine keeps it when its flush ends (completeAsyncFlush).
LEMMA AsyncFlushedInv ==
    ASSUME IndInv, NEW b, NEW id \in Id, AsyncFlushed(b, id)
    PROVE  IndInv'
<1>1. /\ fsize' = fsize /\ limit' = limit /\ store' = store
      /\ handler' = handler /\ dirtylist' = dirtylist /\ server' = server
  BY DEF AsyncFlushed, config
<1>2. PICK good \in BOOLEAN : EndFlush(id, good, areq[b].clear)
  BY DEF AsyncFlushed
<1>3. Advances /\ Cached' /\ Published'
  BY <1>1, <1>2, EndFlushAdvances
<1>4. Called'
  BY <1>1, SameCalled
<1>5. dirtylist' \in Seq(Id')
  BY <1>1, <1>3, ListFacts
<1> QED
  BY <1>1, <1>3, <1>4, <1>5, EndedInv

\* A flush goroutine keeps it when it takes up a request.
LEMMA CompleteAsyncFlushInv ==
    ASSUME IndInv, NEW b, NEW id \in Id, CompleteAsyncFlush(b, id)
    PROVE  IndInv'
<1>1. /\ file' = file /\ fsize' = fsize /\ limit' = limit /\ store' = store
      /\ handler' = handler /\ dirtylist' = dirtylist /\ server' = server
  BY DEF CompleteAsyncFlush, config, file, list
<1>2. eh' = eh \/ eh' = [eh EXCEPT ![id] = FlushPacket(@)]
  BY DEF CompleteAsyncFlush
<1>3. Advances
  BY <1>1, <1>2, SameAdvances, FlushPacketAdvances
<1>4. Called'
  BY <1>1, SameCalled
<1> QED
  BY <1>1, <1>3, <1>4, ListFacts, QuietInv

\* flushAsync keeps it.
LEMMA FlushAsyncInv ==
    ASSUME IndInv, FlushAsync
    PROVE  IndInv'
<1>1. /\ file' = file /\ fsize' = fsize /\ limit' = limit /\ store' = store
      /\ eh' = eh /\ handler' = handler
  BY DEF FlushAsync, config, file
<1>2. Advances
  BY <1>1, SameAdvances
<1>3. CASE dirtylist' = <<>> /\ GoTo("asyncWait")
  <2>1. Called'
    BY <1>1, <1>3, GoToCalled DEF Pcs
  <2> QED
    BY <1>1, <1>2, <1>3, <2>1, EmptySeqs, QuietInv
<1>4. CASE FlushEnds /\ dirtylist' = dirtylist
  <2>1. Called'
    BY <1>1, <1>4, FlushCalled
  <2> QED
    BY <1>1, <1>2, <1>4, <2>1, ListFacts, QuietInv
<1> QED
  BY <1>3, <1>4 DEF FlushAsync

\* flushAsync keeps it as it takes the answers.
LEMMA AsyncAnsweredInv ==
    ASSUME IndInv, NEW b, NEW id \in Id, AsyncAnswered(b, id)
    PROVE  IndInv'
<1>1. /\ file' = file /\ fsize' = fsize /\ limit' = limit /\ store' = store
      /\ handler' = handler /\ dirtylist' = dirtylist
  BY DEF AsyncAnswered, config, file, list
<1>2. PICK l \in {"asyncWait", "asyncFail"} : GoTo(l)
  BY DEF AsyncAnswered
<1>3. eh' = eh \/ eh' = [eh EXCEPT ![id] = Cleanup(@)]
  BY DEF AsyncAnswered
<1>4. Advances
  BY <1>1, <1>3, SameAdvances, CleanupAdvances
<1>5. Called'
  BY <1>1, <1>2, GoToCalled DEF Pcs
<1> QED
  BY <1>1, <1>4, <1>5, ListFacts, QuietInv

\* flushAsync keeps it when it has all answers.
LEMMA AsyncWaitedInv ==
    ASSUME IndInv, AsyncWaited
    PROVE  IndInv'
<1>1. /\ file' = file /\ fsize' = fsize /\ limit' = limit /\ store' = store
      /\ eh' = eh /\ handler' = handler /\ dirtylist' = dirtylist
  BY DEF AsyncWaited, config, file, list
<1>2. Advances
  BY <1>1, SameAdvances
<1>3. FlushFails \/ FlushEnds \/ GoTo("flush")
  BY DEF AsyncWaited
<1>4. Called'
  <2>1. CASE GoTo("flush")
    BY <1>1, <2>1, GoToCalled DEF Pcs
  <2> QED
    BY <2>1, <1>1, <1>3, FlushCalled
<1> QED
  BY <1>1, <1>2, <1>4, ListFacts, QuietInv

\* abort keeps it.
LEMMA AbortInv ==
    ASSUME IndInv, AbortFlushers \/ Abort
    PROVE  IndInv'
<1>1. /\ file' = file /\ fsize' = fsize /\ limit' = limit /\ store' = store
      /\ handler' = handler /\ fsize \in Nat /\ fsize' \in Nat /\ fsize <= fsize'
  BY DEF AbortFlushers, Abort, config, file, list, IndInv, Types
<1>2. Called'
  <2>1. CASE GoTo("aborting")
    BY <1>1, <2>1, GoToCalled DEF Pcs
  <2>2. CASE ReturnErr
    BY <1>1, <2>2, ReturnCalled
  <2> QED
    BY <2>1, <2>2 DEF AbortFlushers, Abort
<1>3. CASE eh' = eh /\ dirtylist' = dirtylist
  <2>1. Advances
    BY <1>1, <1>3, SameAdvances
  <2> QED
    BY <1>1, <1>2, <1>3, <2>1, ListFacts, QuietInv
<1>4. CASE dirtylist # <<>> /\ eh' = [eh EXCEPT ![Head(dirtylist)] = Cleanup(@)]
           /\ dirtylist' = Tail(dirtylist)
  <2>1. Advances
    BY <1>1, <1>4, IdFacts, CleanupAdvances
  <2>2. dirtylist' \in Seq(Id')
    BY <1>4, <2>1, ListFacts
  <2> QED
    BY <1>1, <1>2, <2>1, <2>2, QuietInv
<1> QED
  BY <1>3, <1>4 DEF AbortFlushers, Abort, list

\* traverse keeps it at its end and at an open handler.
LEMMA TraversedInv ==
    ASSUME IndInv, Traversed \/ TraverseOpen
    PROVE  IndInv'
<1>1. /\ file' = file /\ fsize' = fsize /\ limit' = limit /\ store' = store
      /\ handler' = handler /\ dirtylist' = dirtylist
      /\ fsize \in Nat /\ fsize' \in Nat /\ fsize <= fsize'
  BY DEF Traversed, TraverseOpen, config, file, list, IndInv, Types
<1>2. \/ ReturnOk /\ eh' = eh
      \/ TraverseNext /\ pc = "traverse" /\ eh' = eh
      \/ /\ GoTo("traverseWait") /\ pc = "traverse" /\ dirtylist # <<>>
         /\ eh' = [eh EXCEPT ![Head(dirtylist)] = FlushPacket(@)]
  BY DEF Traversed, TraverseOpen
<1>3. Advances
  BY <1>1, <1>2, IdFacts, SameAdvances, FlushPacketAdvances
<1>4. Called'
  <2>1. CASE ReturnOk
    BY <1>1, <2>1, ReturnCalled
  <2>2. CASE TraverseNext /\ pc = "traverse"
    BY <1>1, <2>2, TraverseCalled
  <2>3. CASE GoTo("traverseWait") /\ pc = "traverse" /\ dirtylist # <<>>
    <3>1. call.op = "tick"
      BY <2>3 DEF IndInv, Serving
    <3> QED
      BY <1>1, <2>3, <3>1, GoToCalled DEF Pcs
  <2> QED
    BY <2>1, <2>2, <2>3, <1>2
<1> QED
  BY <1>1, <1>3, <1>4, ListFacts, QuietInv

\* traverse keeps it at a closed handler.
LEMMA TraverseClosedInv ==
    ASSUME IndInv, TraverseClosed
    PROVE  IndInv'
<1> DEFINE id == Head(dirtylist)
           h == FlushPacket(eh[id])
           g == [h EXCEPT !.dirty = FALSE]
<1>1. /\ fsize' = fsize /\ limit' = limit /\ store' = store /\ handler' = handler
      /\ fsize \in Nat /\ fsize' \in Nat /\ fsize <= fsize'
      /\ pc = "traverse" /\ dirtylist # <<>>
  BY DEF TraverseClosed, config, IndInv, Types
<1>2. id \in Id
  BY <1>1, IdFacts
<1>3. \/ eh' = [eh EXCEPT ![id] = h] /\ cache' = cache /\ meta' = meta
         /\ TraverseNext /\ dirtylist' = dirtylist
      \/ AppendExtentKey(h, TRUE) /\ eh' = [eh EXCEPT ![id] = Cleanup(g)]
         /\ TraverseNext /\ dirtylist' = Tail(dirtylist)
      \/ AppendExtentKey(h, FALSE) /\ eh' = eh /\ ReturnOk /\ dirtylist' = dirtylist
  BY DEF TraverseClosed
<1> HIDE DEF id
<1>4. Good(h, store) /\ Within(h, fsize) /\ Kept(eh[id], h)
  BY <1>1, <1>2, HandlerGood, FlushPacketGood
<1>5. h \in HandlerSet
  BY <1>4 DEF Good
<1> HIDE DEF h
<1>6. Good(Cleanup(g), store) /\ Within(Cleanup(g), fsize) /\ Kept(eh[id], Cleanup(g))
  <2>1. Turned(h, g)
    BY <1>5, FlagsTurned
  <2> HIDE DEF g
  <2>2. g \in HandlerSet
    BY <2>1 DEF Turned
  <2>3. Turned(h, Cleanup(g))
    BY <2>1, <2>2, <1>5, CleanupTurned, TurnedOn
  <2>4. Good(Cleanup(g), store) /\ Within(Cleanup(g), fsize) /\ Kept(h, Cleanup(g))
    BY <2>3, <1>4, TurnedGood
  <2> QED
    BY <2>4, <1>4, KeptOn
<1> HIDE DEF g
<1>7. Advances
  BY <1>1, <1>2, <1>3, <1>4, <1>6, KeptAdvances, SameAdvances
<1>8. Cached' /\ Published'
  <2>1. CASE cache' = cache /\ meta' = meta
    <3>1. file' = file
      BY <2>1, <1>1 DEF file
    <3> QED
      BY <3>1, <1>7, UnwrittenKnown
  <2>2. CASE \E ok \in BOOLEAN : AppendExtentKey(h, ok)
    BY <2>2, <1>1, <1>4, AppendExtentKeyKnown
  <2> QED
    BY <2>1, <2>2, <1>3
<1>9. Called'
  BY <1>1, <1>3, ReturnCalled, TraverseCalled
<1>10. dirtylist' \in Seq(Id')
  BY <1>1, <1>3, <1>7, ListFacts
<1> QED
  BY <1>1, <1>7, <1>8, <1>9, <1>10, EndedInv

\* A write request; tryInitExtentHandlerByLastEk may open a handler that extends
\* the last extent of the file.
LEMMA WriteRequestInv ==
    ASSUME IndInv, NEW n \in Sizes, WriteRequest(n)
    PROVE  IndInv'
<1>1. /\ file' = file /\ fsize' = fsize /\ limit' = limit /\ store' = store
      /\ dirtylist' = dirtylist /\ synced' = synced /\ fsize + n <= limit
      /\ pc' = "write" /\ call' = [op |-> "write", n |-> n, wait |-> TRUE]
  BY DEF WriteRequest, Begin, config, file
<1>2. /\ fsize \in Nat /\ Fit(eh, store, fsize) /\ Cached /\ Extents(store)
      /\ Len(eh) \in Nat /\ synced \in 0..fsize /\ handler \in 0..Len(eh)
  BY DEF IndInv, Types, Fit
<1>3. Called'
  <2>1. call'.op = "write" /\ call'.n = n
        /\ call' = [op |-> call'.op, n |-> call'.n, wait |-> call'.wait]
    BY <1>1
  <2>2. Serving'
    BY <1>1, <2>1 DEF Serving, Pcs
  <2> QED
    BY <1>1, <1>2, <2>1, <2>2 DEF Called
<1>4. CASE eh' = eh /\ handler' = handler
  <2>1. Advances
    BY <1>1, <1>4, SameAdvances
  <2> QED
    BY <1>1, <1>3, <1>4, <2>1, ListFacts, QuietInv
<1>5. ASSUME NEW k \in EndForAppendWrite(fsize), handler' = Len(eh) + 1,
             eh' = Append(eh, NewExtentHandler(k.off, "normal", k.size, k))
      PROVE  IndInv'
  <2> DEFINE g == NewExtentHandler(k.off, "normal", k.size, k)
  <2>1. /\ k \in cache /\ k.off + k.size = fsize /\ k.ext # NoExtent /\ k.ext # TinyExtent
    BY DEF EndForAppendWrite
  <2>2. k \in Key /\ k.size > 0 /\ Placed(store, k.ext, k.eoff, k.off, k.size)
    BY <1>2, <2>1 DEF Cached
  <2>3. k.off \in Nat /\ k.size \in Nat /\ k.off + k.size <= fsize
    BY <1>2, <2>1, <2>2 DEF Key
  <2>4. Extends(store, k, "normal", k.off)
    BY <2>1, <2>2 DEF Extends
  <2>5. Fresh(g, store, fsize, k.off, "normal", k.size)
    BY <1>2, <2>2, <2>3, <2>4, NewGood
  <2> HIDE DEF g
  <2>6. Good(g, store) /\ Within(g, fsize) /\ g.recoverHandler = 0
    BY <2>5 DEF Fresh
  <2>7. Fit(Append(eh, g), store, fsize) /\ Len(Append(eh, g)) = Len(eh) + 1
    BY <1>2, <2>6, NewFit
  <2>8. eh' = Append(eh, g)
    BY <1>5 DEF g
  <2>9. Fit(eh', store', fsize') /\ Len(eh') = Len(eh) + 1
    BY <1>1, <2>7, <2>8
  <2>10. Len(eh') \in Nat /\ Len(eh) <= Len(eh') /\ handler' \in 0..Len(eh')
    BY <1>2, <1>5, <2>9
  <2>11. Advances
    BY <1>1, <1>2, <2>9, <2>10, GrowsSelf DEF Advances
  <2>12. Listed'
    BY <1>1, <2>10, MoreIds DEF Listed
  <2> QED
    BY <1>1, <1>3, <2>11, <2>12, UnwrittenKnown, StepInv
<1> QED
  BY <1>4, <1>5 DEF WriteRequest

\* A turn of doWriteAppendEx that the handler refuses.
LEMMA RefusedInv ==
    ASSUME IndInv, pc = "write", pc' = "close", NEW w, call' = [call EXCEPT !.wait = w],
           eh' = eh, list' = list, file' = file, synced' = synced, store' = store,
           config' = config
    PROVE  IndInv'
<1>1. /\ fsize' = fsize /\ limit' = limit /\ handler' = handler /\ dirtylist' = dirtylist
  BY DEF list, file, config
<1>2. Advances
  BY <1>1, SameAdvances
<1>3. /\ call = [op |-> call.op, n |-> call.n, wait |-> call.wait] /\ synced \in 0..fsize
      /\ call.op = "write" => call.n \in Sizes /\ fsize + call.n <= limit
  BY DEF IndInv, Types, Serving
<1>4. call' = [op |-> call.op, n |-> call.n, wait |-> w]
  BY <1>3
<1>5. call'.op = call.op /\ call'.n = call.n
      /\ call' = [op |-> call'.op, n |-> call'.n, wait |-> call'.wait]
  BY <1>4
<1>6. Serving'
  BY <1>1, <1>3, <1>5 DEF Serving, Pcs
<1>7. Called'
  BY <1>1, <1>3, <1>5, <1>6 DEF Called
<1> QED
  BY <1>1, <1>2, <1>7, ListFacts, QuietInv

\* A turn that writes: the handlers hs and the file of size m.
LEMMA WrittenInv ==
    ASSUME IndInv, ReturnOk, store' = store, meta' = meta, limit' = limit,
           fsize' \in Nat, fsize <= fsize', fsize' <= limit,
           Fit(eh', store, fsize'), Len(eh') \in Nat, Len(eh) <= Len(eh'),
           handler' \in Id', dirtylist' \in {dirtylist, Put(dirtylist, handler')},
           NEW o \in Nat, NEW s \in Nat, o + s <= fsize',
           cache' = CacheAppend([off |-> o, ext |-> NoExtent, eoff |-> 0, size |-> s])
    PROVE  IndInv'
<1> DEFINE ek == [off |-> o, ext |-> NoExtent, eoff |-> 0, size |-> s]
<1>1. /\ Extents(store) /\ TinyExtent \in DOMAIN store /\ limit \in 0..MaxSize /\ Published
  BY DEF IndInv, Types
<1>2. Grows(store, store')
  BY <1>1, GrowsSelf
<1>3. ek \in Key /\ ek.ext = NoExtent /\ ek.off + ek.size <= fsize'
  BY DEF Key
<1> HIDE DEF ek
<1>4. Cached'
  BY <1>2, <1>3, CacheAppendCached DEF ek
<1>5. Published'
  BY <1>1, <1>2, PublishedStays DEF Published, KeysBacked
<1>6. Called'
  BY ReturnCalled
<1>7. dirtylist \in Seq(Id')
  BY MoreIds
<1>8. dirtylist' \in Seq(Id') /\ handler' \in 0..Len(eh')
  BY <1>7, PutType DEF Id
<1>9. Types'
  BY <1>1, <1>6, <1>8 DEF Types, Called
<1> QED
  BY <1>4, <1>5, <1>6, <1>9 DEF IndInv, Called

\* doWriteAppendEx keeps it: the open handler takes the units, or a new one does.
LEMMA DoWriteAppendInv ==
    ASSUME IndInv, DoWriteAppend
    PROVE  IndInv'
<1> DEFINE n == call.n
           mode == GetStoreMod(fsize, n)
           new == handler = 0
           id == IF new THEN Len(eh) + 1 ELSE handler
           h == IF new THEN NewExtentHandler(fsize, mode, 0, NoKey) ELSE eh[id]
           g == Write(h, fsize, n)
<1>1. /\ pc = "write" /\ meta' = meta /\ store' = store /\ limit' = limit
      /\ config' = config
  BY DEF DoWriteAppend, config
<1>2. /\ fsize \in Nat /\ Fit(eh, store, fsize) /\ Len(eh) \in Nat /\ Extents(store)
      /\ handler \in 0..Len(eh)
  BY DEF IndInv, Types, Fit
<1>3. n \in Nat /\ fsize + n <= limit
  BY <1>1, EhAssumption DEF IndInv, Serving
<1>4. CASE h.mode # mode \/ Refuses(h, fsize, n)
  <2>1. /\ pc' = "close" /\ call' = [call EXCEPT !.wait = h.mode # mode]
        /\ eh' = eh /\ list' = list /\ cache' = cache /\ fsize' = fsize /\ synced' = synced
    BY <1>4 DEF DoWriteAppend
  <2>2. file' = file
    BY <1>1, <2>1 DEF file
  <2> QED
    BY <1>1, <2>1, <2>2, RefusedInv
<1>5. CASE h.mode = mode /\ ~Refuses(h, fsize, n)
  <2>1. /\ eh' = IF new THEN Append(eh, g) ELSE [eh EXCEPT ![id] = g]
        /\ handler' = id
        /\ dirtylist' \in {dirtylist, Put(dirtylist, id)}
        /\ cache' = CacheAppend([off |-> g.off, ext |-> NoExtent, eoff |-> 0,
                                 size |-> g.size])
        /\ fsize' = fsize + n
        /\ ReturnOk
    BY <1>5 DEF DoWriteAppend
  <2>2. h.status = "open" /\ h.off + h.size = fsize
    BY <1>5 DEF Refuses
  <2>3. Good(h, store) /\ Within(h, fsize) /\ h \in HandlerSet /\ (new => h.recoverHandler = 0)
    <3>1. CASE new
      <4>1. mode \in {"tiny", "normal"}
        BY DEF GetStoreMod
      <4>2. Extends(store, NoKey, mode, fsize) /\ fsize + 0 <= fsize /\ 0 \in Nat
        BY <1>2 DEF Extends
      <4> HIDE DEF mode
      <4>3. Fresh(NewExtentHandler(fsize, mode, 0, NoKey), store, fsize, fsize, mode, 0)
        BY <1>2, <4>1, <4>2, NoKeyKey, NewGood
      <4> QED
        BY <3>1, <4>3 DEF Fresh, Good
    <3>2. CASE ~new
      <4>1. handler \in Id /\ h = eh[handler]
        BY <3>2, <1>2 DEF Id
      <4> QED
        BY <3>2, <4>1, HandlerGood
    <3> QED
      BY <3>1, <3>2
  <2> DEFINE m == fsize + n
  <2>4. m \in Nat /\ fsize <= m /\ m <= limit
    BY <1>2, <1>3
  <2> HIDE DEF h
  <2>5. /\ Good(g, store) /\ Within(g, m) /\ Kept(h, g)
        /\ g.off = h.off /\ g.size = h.size + n
    <3> HIDE DEF n
    <3> QED
      BY <1>2, <1>3, <2>2, <2>3, WriteGood, ZenonT(100)
  <2>6. g.off \in Nat /\ g.size \in Nat /\ g.off + g.size <= m
    <3>1. h.off \in Nat /\ h.size \in Nat
      BY <2>3, Fields
    <3> QED
      BY <1>2, <1>3, <2>2, <2>5, <3>1
  <2>7. Grows(store, store)
    BY <1>2, GrowsSelf
  <2> HIDE DEF m, g
  <2>8. Fit(eh', store, m) /\ Len(eh') \in Nat /\ Len(eh) <= Len(eh') /\ id \in Id'
    <3>1. CASE new
      <4>1. eh' = Append(eh, g) /\ id = Len(eh) + 1
        BY <3>1, <2>1
      <4>2. Fit(eh, store, m)
        BY <1>2, <2>4, <2>7, SameFit
      <4>3. g.recoverHandler = 0
        BY <3>1, <2>3, <2>5 DEF Kept
      <4>4. Fit(Append(eh, g), store, m) /\ Len(Append(eh, g)) = Len(eh) + 1
        BY <2>4, <2>5, <4>2, <4>3, NewFit
      <4> QED
        BY <1>2, <4>1, <4>4 DEF Id
    <3>2. CASE ~new
      <4>1. id = handler /\ id \in 1..Len(eh) /\ h = eh[id]
        BY <3>2, <1>2 DEF h
      <4>2. Fit([eh EXCEPT ![id] = g], store, m) /\ Len([eh EXCEPT ![id] = g]) = Len(eh)
        <5> HIDE DEF id
        <5> QED
          BY <1>2, <2>4, <2>5, <2>7, <4>1, StepFit
      <4>3. eh' = [eh EXCEPT ![id] = g]
        BY <3>2, <2>1
      <4> HIDE DEF id, new
      <4>4. Fit(eh', store, m) /\ Len(eh') = Len(eh)
        BY <4>2, <4>3
      <4>5. Id' = Id
        BY <4>4 DEF Id
      <4> QED
        BY <1>2, <4>1, <4>4, <4>5 DEF Id
    <3> QED
      BY <3>1, <3>2
  <2> HIDE DEF id
  <2>9. fsize' = m /\ handler' = id
    BY <2>1 DEF m
  <2>10. /\ ReturnOk /\ fsize' \in Nat /\ fsize <= fsize' /\ fsize' <= limit
         /\ Fit(eh', store, fsize') /\ handler' \in Id' /\ g.off + g.size <= fsize'
         /\ dirtylist' \in {dirtylist, Put(dirtylist, handler')}
    BY <2>1, <2>4, <2>6, <2>8, <2>9
  <2> QED
    BY <1>1, <2>1, <2>6, <2>8, <2>10, WrittenInv
<1> QED
  BY <1>4, <1>5

-----------------------------------------------------------------------------
\* A streamer as NewStreamer makes it satisfies the invariant.
LEMMA InitInv ==
    ASSUME Init
    PROVE  IndInv
<1>1. /\ eh = <<>> /\ handler = 0 /\ dirtylist = <<>> /\ pc = "idle" /\ call = NoCall
      /\ fsize = 0 /\ cache = {} /\ meta = <<>> /\ synced = 0
      /\ store = [e \in {TinyExtent} |-> <<-1>>]
  BY DEF Init
<1>2. limit \in 0..MaxSize
  BY EhAssumption DEF Init
<1>3. Len(eh) = 0 /\ DOMAIN meta = {}
  BY <1>1
<1>4. Fit(eh, store, fsize)
  BY <1>1, <1>3, EmptySeqs DEF Fit, Linked
<1>5. Extents(store) /\ TinyExtent \in DOMAIN store
  BY <1>1 DEF Extents, TinyExtent
<1>6. dirtylist \in Seq(Id)
  BY <1>1, EmptySeqs
<1>7. call = [op |-> call.op, n |-> call.n, wait |-> call.wait] /\ call.op = "none"
  BY <1>1 DEF NoCall
<1>8. handler \in 0..Len(eh) /\ fsize \in Nat /\ fsize <= limit /\ synced \in 0..fsize
  BY <1>1, <1>2, <1>3, EhAssumption
<1>9. Types
  BY <1>2, <1>5, <1>6, <1>7, <1>8 DEF Types
<1>10. Serving
  BY <1>1, <1>7 DEF Serving, Pcs
<1>11. Cached /\ Published
  BY <1>1, <1>3 DEF Cached, Published, KeysBacked
<1> QED
  BY <1>4, <1>9, <1>10, <1>11 DEF IndInv

\* Every step keeps the invariant.
LEMMA NextInv ==
    ASSUME IndInv, [Next]_vars
    PROVE  IndInv'
<1>1. CASE Request
  BY <1>1, WriteRequestInv, RequestInv DEF Request
<1>2. CASE Streamer
  BY <1>2, DoWriteAppendInv, CloseOpenHandlerInv, CloseWaitInv, FlushSyncInv, FlushWaitInv,
     FlushAsyncInv, AsyncWaitedInv, AbortInv, TraversedInv, TraverseWaitInv,
     TraverseClosedInv, AsyncAnsweredInv DEF Streamer
<1>3. CASE \E b \in DOMAIN areq, id \in Id : CompleteAsyncFlush(b, id) \/ AsyncFlushed(b, id)
  BY <1>3, CompleteAsyncFlushInv, AsyncFlushedInv
<1>4. CASE \E id \in Id : \/ Sender(id) \/ DataNode(id) \/ ProcessReply(id)
                          \/ ReadReply(id) \/ ReadFails(id) \/ PutRecoverHandler(id)
  BY <1>4, HandlerInv
<1>5. CASE UNCHANGED vars
  <2>1. /\ eh' = eh /\ store' = store /\ file' = file /\ handler' = handler
        /\ dirtylist' = dirtylist /\ server' = server /\ config' = config
    BY <1>5 DEF vars, list
  <2>2. fsize' = fsize
    BY <2>1 DEF file
  <2>3. Advances
    BY <2>1, <2>2, SameAdvances
  <2>4. dirtylist' \in Seq(Id')
    BY <2>1, <2>3, ListFacts
  <2> QED
    BY <2>1, <2>3, <2>4, GoroutineInv
<1> QED
  BY <1>1, <1>2, <1>3, <1>4, <1>5 DEF Next, Progress

\* The invariant of a write stream.
LEMMA Inductive == Spec => []IndInv
<1>1. Init => IndInv
  BY InitInv
<1>2. IndInv /\ [Next]_vars => IndInv'
  BY NextInv
<1> QED
  BY <1>1, <1>2, PTL DEF Spec

\* The extent keys appendExtentKey gives to the meta node name extents that hold
\* the data of the file in their place: for every file, block and extent size,
\* any number of handlers, of writes and of faults, and every order in which
\* senders, receivers, data nodes, flushes and recoverPacket take their steps.
THEOREM KeysAreBacked == Spec => []KeysBacked
<1>1. IndInv => KeysBacked
  BY DEF IndInv, Published
<1> QED
  BY <1>1, Inductive, PTL

\* What is left after the type of a packet or a key is known.
LEMMA Bounded ==
    ASSUME IndInv, NEW id \in Id
    PROVE  eh[id].packet \in PacketSet /\ eh[id].key \in KeySet
<1> DEFINE h == eh[id]
<1>1. Good(h, store) /\ Within(h, fsize) /\ h \in HandlerSet
  BY HandlerGood
<1>2. fsize \in Nat /\ limit \in 0..MaxSize /\ fsize <= limit /\ MaxSize \in Nat
      /\ MaxPacketErrorCount \in Nat
  BY EhAssumption DEF IndInv, Types
<1>3. h.packet \in Pkt \cup {NoPacket} /\ h.key \in Key /\ h.off \in Nat
  BY <1>1, Fields
<1>4. h.packet.err = 0 /\ h.packet.off + h.packet.len <= fsize /\ h.off + h.key.size <= fsize
  BY <1>1 DEF Good, Within
<1>5. h.key = NoKey \/ h.key.off = h.off
  BY <1>1 DEF Good, Keyed
<1> HIDE DEF h
<1>6. h.packet \in PacketSet
  BY <1>2, <1>3, <1>4 DEF Pkt, NoPacket, PacketSet
<1>7. h.key \in KeySet
  BY <1>2, <1>3, <1>4, <1>5 DEF Key, NoKey, KeySet
<1> QED
  BY <1>6, <1>7 DEF h

\* The state of the client is well typed, and inflight of each handler counts the
\* packets between pushToRequest and the end of their processReply, so that
\* waitForFlush ends when and only when all of them are dealt with.
THEOREM TypeCorrect == Spec => []TypeOK
<1>1. ASSUME IndInv
      PROVE  TypeOK
  <2>1. ASSUME NEW id \in Id
        PROVE  /\ eh[id].status \in {"open", "closed", "recovery", "error"}
               /\ eh[id].packet \in PacketSet /\ eh[id].key \in KeySet
               /\ eh[id].recoverHandler \in 0..Len(eh)
               /\ eh[id].inflight = Len(eh[id].request) + Len(eh[id].reply)
    <3>1. Good(eh[id], store) /\ eh[id] \in HandlerSet
      BY <1>1, HandlerGood
    <3>2. eh[id].status \in {"open", "closed", "recovery", "error"}
      BY <3>1, Fields
    <3>3. eh[id].inflight = Len(eh[id].request) + Len(eh[id].reply)
      BY <3>1 DEF Good, Queued
    <3>4. eh[id].recoverHandler \in 0..Len(eh)
      BY <1>1 DEF IndInv, Fit, Linked, Id
    <3> QED
      BY <1>1, <3>2, <3>3, <3>4, Bounded
  <2>2. handler \in 0..Len(eh) /\ dirtylist \in Seq(Id) /\ fsize \in 0..MaxSize
        /\ synced \in 0..fsize
    BY <1>1, EhAssumption DEF IndInv, Types
  <2> QED
    BY <2>1, <2>2 DEF TypeOK
<1> QED
  BY <1>1, Inductive, PTL
=============================================================================
