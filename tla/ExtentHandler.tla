--------------------------- MODULE ExtentHandler ---------------------------
(***************************************************************************)
(* How the client writes a file: the goroutine of a Streamer, which serves *)
(* the write, flush and release requests of the applications and a timer,  *)
(* and the sender and receiver goroutines of each of its extent handlers.  *)
(*                                                                         *)
(*   src/sdk/data/stream/extent_handler.go    ExtentHandler                *)
(*   src/sdk/data/stream/stream_writer.go     Streamer                     *)
(*   src/sdk/data/stream/stream_reader.go     asynchronous flush           *)
(*   src/sdk/data/stream/extent_dirtylist.go  DirtyExtentList              *)
(*   src/sdk/data/stream/extent_cache.go      ExtentCache                  *)
(*                                                                         *)
(* Files grow at their end.  A flush is done in place (flushSync: object   *)
(* node, life-cycle node, SDK library, direct I/O) or by the goroutines of *)
(* asyncFlushManager (flushAsync: FUSE client).  The unit of size is part  *)
(* of a block; the unit written at offset o of the file is the value o, so *)
(* data are in their place when the extent an extent key names holds o     *)
(* there.                                                                  *)
(***************************************************************************)
EXTENDS Integers, Sequences, Functions

CONSTANTS
    MaxSize,      \* bound on the file size
    Sizes,        \* sizes of the write requests
    BlockSize,    \* util.BlockSize
    TinyLimit,    \* util.DefaultTinySizeLimit
    ExtentSize,   \* util.ExtentSize
    MaxPacketErrorCount,
    Plans         \* values of enableAsyncFlush, with bounds on the faults and the file

ASSUME EhAssumption ==
    /\ MaxSize \in Nat /\ Sizes \subseteq Nat \ {0}
    /\ BlockSize \in Nat \ {0} /\ TinyLimit \in Nat \ {0}
    /\ ExtentSize \in Nat \ {0}
    /\ MaxPacketErrorCount \in Nat \ {0}
    /\ Plans \subseteq [async : BOOLEAN, faults : Nat, size : 0..MaxSize]

NoExtent == -1        \* PartitionId 0: a key of the local cache only
TinyExtent == 0       \* a normal extent has the number of the handler
NoPacket == [off |-> 0, len |-> 0, err |-> 0]
NoKey == [off |-> 0, ext |-> NoExtent, eoff |-> 0, size |-> 0]

VARIABLES
    eh,           \* the extent handlers, by id
    handler,      \* s.handler, 0 for nil
    dirtylist,
    sdirty,       \* s.dirty
    sstatus,      \* s.status
    pc,           \* where the goroutine of the streamer is
    call,         \* the request it serves
    fsize,        \* size of the file, as the client sees it
    cache,        \* s.extents: the extent keys the client knows
    meta,         \* the extent keys of the meta node, by file offset
    store,        \* the extents of the data nodes
    async,        \* enableAsyncFlush, and not a file for direct I/O
    limit,        \* bound on the file size
    areq,         \* the requests to asyncFlushManager, in batches, by handler id
    pending,      \* pendingAsyncFlushMap: handler id to the batch of its request
    waiting,      \* the requests flushAsync waits for
    stopped,      \* asyncFlushDone is closed
    faults,       \* faults that may still happen
    told,         \* some request returned an error
    synced        \* size of the file at the last flush that returned nil

file == <<fsize, cache, meta>>
list == <<handler, dirtylist, sdirty>>
server == <<pc, call, told, synced>>
config == <<async, limit>>
flusher == <<areq, pending, waiting, stopped>>
vars == <<eh, list, sstatus, server, file, store, config, flusher, faults>>

Id == 1..Len(eh)

\* The function f, and g where f is not defined.
Over(f, g) ==
    [x \in DOMAIN f \cup DOMAIN g |-> IF x \in DOMAIN f THEN f[x] ELSE g[x]]

\* end is auxiliary: the file offset behind the last packet pushed so far.
NewExtentHandler(off, mode, size, key) ==
    [status |-> "open", mode |-> mode, off |-> off, size |-> size,
     packet |-> NoPacket, inflight |-> 0, key |-> key, dirty |-> FALSE,
     dp |-> FALSE, ext |-> NoExtent, recoverHandler |-> 0,
     request |-> <<>>, reply |-> <<>>, recv |-> "idle",
     wire |-> <<>>, resp |-> <<>>, done |-> FALSE,
     end |-> off + size]

NoCall == [op |-> "none", n |-> 0, wait |-> TRUE]

Init ==
    /\ eh = <<>> /\ handler = 0 /\ dirtylist = <<>> /\ sdirty = FALSE
    /\ sstatus = "normal"
    /\ pc = "idle" /\ call = NoCall
    /\ \E plan \in Plans : async = plan.async /\ limit = plan.size /\ faults = plan.faults
    /\ areq = <<>> /\ pending = <<>> /\ waiting = {}
    /\ stopped = FALSE
    /\ fsize = 0 /\ cache = {} /\ meta = <<>>
    /\ store = [e \in {TinyExtent} |-> <<-1>>]      \* data of another file
    /\ told = FALSE /\ synced = 0

Fault == faults > 0 /\ faults' = faults - 1
NoFault == UNCHANGED faults

-----------------------------------------------------------------------------
(* What a handler does to itself.                                          *)

SetClosed(h) ==
    [h EXCEPT !.status = IF @ = "open" THEN "closed" ELSE @]
SetRecovery(h) ==
    [h EXCEPT !.status = IF @ = "closed" THEN "recovery" ELSE @]
SetError(h) ==
    [h EXCEPT !.status = IF @ = "recovery" THEN "error" ELSE @]

\* Faulty variant: the packet is not counted.
PushToRequestUncounted(h, p) == [h EXCEPT !.request = Append(@, p)]

PushToRequest(h, p) ==
    [h EXCEPT !.inflight = @ + 1, !.request = Append(@, p), !.end = p.off + p.len]

FlushPacket(h) ==
    IF h.packet = NoPacket THEN h
    ELSE [PushToRequest(h, h.packet) EXCEPT !.packet = NoPacket]

BlkSize(h) == IF h.mode = "tiny" THEN TinyLimit ELSE BlockSize

\* The handler cannot take n units at file offset o.
Refuses(h, o, n) ==
    \/ h.status # "open"
    \/ h.off + h.size # o
    \/ h.size + n > ExtentSize
    \/ h.mode = "tiny" /\ h.size + n > BlkSize(h)

\* The loop of write: n units at file offset o go into the packet of the handler
\* and into new ones, and each packet is pushed when it is full.
Write(h, o, n) ==
    LET blksize == BlkSize(h)
        first == IF h.packet = NoPacket THEN o ELSE h.packet.off
        total == h.packet.len + n
        full == total \div blksize
        Filled(i, len) == [off |-> first + i * blksize, len |-> len, err |-> 0]
    IN  [h EXCEPT !.inflight = @ + full,
                  !.request = @ \o [i \in 1..full |-> Filled(i - 1, blksize)],
                  !.packet = IF total % blksize = 0 THEN NoPacket
                             ELSE Filled(full, total % blksize),
                  !.size = @ + n,
                  !.end = first + full * blksize]

\* cleanup: the sender and the receiver end.
Cleanup(h) == [SetClosed(h) EXCEPT !.done = TRUE]

Put(dl, id) == IF id \in Range(dl) THEN dl
               ELSE Append(dl, id)

-----------------------------------------------------------------------------
(* The sender.                                                             *)

GiveUp(h) == SetRecovery(SetClosed(h))

\* allocateExtent: a new extent, or the one of the key the handler extends.
AllocateExtent(h, id) ==
    [h EXCEPT !.dp = TRUE,
              !.ext = IF h.key # NoKey THEN h.key.ext
                      ELSE IF h.mode = "tiny" THEN TinyExtent ELSE id]

Sent(h, p) ==
    [h EXCEPT !.wire = Append(@, [off |-> p.off, len |-> p.len, ext |-> h.ext,
                                  eoff |-> p.off - h.off + h.key.eoff])]

Sender(id) ==
    LET h == eh[id]
        p == Head(h.request)
        To(g) == [eh EXCEPT ![id] = [g EXCEPT !.request = Tail(@),
                                              !.reply = Append(@, p)]]
        a == IF h.dp THEN h ELSE AllocateExtent(h, id)
        allocated == IF a.ext = id /\ ~h.dp THEN Over(store, [e \in {id} |-> <<>>])
                     ELSE store
    IN  /\ ~h.done /\ h.request # <<>>
        /\ \/ /\ h.status \in {"recovery", "error"}
              /\ eh' = To(h)
              /\ NoFault /\ UNCHANGED <<sstatus, store>>
           \/ /\ h.status \in {"open", "closed"} /\ ~h.dp
              /\ eh' = To(IF h.key = NoKey THEN SetError(GiveUp(h))
                                           ELSE GiveUp(h))
              /\ sstatus' = IF h.key = NoKey THEN "error" ELSE sstatus
              /\ Fault /\ UNCHANGED store
           \/ /\ h.status \in {"open", "closed"}
              /\ store' = allocated
              /\ \/ eh' = To(Sent(a, p)) /\ NoFault
                 \/ eh' \in {To(GiveUp(a)), To(GiveUp(Sent(a, p)))} /\ Fault
              /\ UNCHANGED sstatus
        /\ UNCHANGED <<list, server, file, config, flusher>>

-----------------------------------------------------------------------------
(* The data node: it appends a packet to a normal extent only at its end,  *)
(* and chooses the place in a tiny extent itself.                          *)

DataNode(id) ==
    LET w == Head(eh[id].wire)
        data == [j \in 1..w.len |-> w.off + j - 1]
        end == Len(store[w.ext])
        accepts == w.ext = TinyExtent \/ w.eoff = end
        stored == [store EXCEPT ![w.ext] = @ \o data]
        Answer(ok) == [eh EXCEPT ![id].wire = Tail(@),
                                 ![id].resp = Append(@, [ok |-> ok, eoff |-> end])]
    IN  /\ eh[id].wire # <<>>
        /\ \/ /\ NoFault /\ eh' = Answer(accepts)
              /\ store' = IF accepts THEN stored ELSE store
           \/ /\ Fault /\ eh' = Answer(FALSE)
              /\ store' \in IF accepts THEN {store, stored} ELSE {store}
        /\ UNCHANGED <<list, sstatus, server, file, config, flusher>>

-----------------------------------------------------------------------------
(* The receiver.  The packet it works on is the head of reply.             *)

\* processReply is over.
Processed(h) ==
    [h EXCEPT !.reply = Tail(@), !.recv = "idle", !.inflight = @ - 1]

DiscardPacket(id, h) ==
    /\ eh' = [eh EXCEPT ![id] = Processed(SetError(h))]
    /\ sstatus' = "error"

\* recoverPacket, with the packet p and the store mode of a new handler.
RecoverPacket(id, h, mode) ==
    LET p == [Head(h.reply) EXCEPT !.err = @ + 1]
        new == Len(eh) + 1
        n == PushToRequest(SetClosed(NewExtentHandler(p.off, mode, 0, NoKey)), p)
        r == h.recoverHandler
    IN  IF p.err >= MaxPacketErrorCount THEN DiscardPacket(id, h)
        ELSE /\ eh' = IF r = 0
                      THEN Append([eh EXCEPT ![id] =
                               [h EXCEPT !.recoverHandler = new, !.recv = "put"]], n)
                      ELSE [eh EXCEPT ![id] = Processed(h),
                                      ![r] = PushToRequest(@, p)]
             /\ UNCHANGED sstatus

ProcessReply(id) ==
    LET h == eh[id]
    IN  /\ ~h.done /\ h.recv = "idle" /\ h.reply # <<>>
        /\ \/ h.status = "error" /\ DiscardPacket(id, h)
           \/ h.status = "recovery" /\ RecoverPacket(id, h, "normal")
           \/ /\ h.status \in {"open", "closed"}
              /\ eh' = [eh EXCEPT ![id].recv = "read"] /\ UNCHANGED sstatus
        /\ NoFault /\ UNCHANGED <<list, server, file, store, config, flusher>>

\* Faulty variant: the place in a tiny extent is taken from the request.
ExtendedFromRequest(h, p, eoff) ==
    IF h.key = NoKey
    THEN [off |-> h.off, ext |-> h.ext, size |-> p.len, eoff |-> p.off - h.off]
    ELSE [h.key EXCEPT !.size = @ + p.len]

\* The key of the handler with one more packet.
Extended(h, p, eoff) ==
    IF h.key = NoKey
    THEN [off |-> h.off, ext |-> h.ext, size |-> p.len,
          eoff |-> IF h.mode = "tiny" THEN eoff ELSE p.off - h.off]
    ELSE [h.key EXCEPT !.size = @ + p.len]

ReadReply(id) ==
    LET h == eh[id]
        r == Head(h.resp)
        g == [h EXCEPT !.resp = Tail(@)]
        k == [g EXCEPT !.key = Extended(h, Head(h.reply), r.eoff), !.dirty = TRUE]
    IN  /\ h.recv = "read" /\ h.resp # <<>>
        /\ \/ /\ r.ok /\ UNCHANGED sstatus
              /\ eh' = [eh EXCEPT ![id] =
                           Processed(IF h.mode = "tiny" THEN GiveUp(k) ELSE k)]
           \/ /\ ~r.ok
              /\ \E mode \in {"normal", h.mode} : RecoverPacket(id, GiveUp(g), mode)
        /\ NoFault /\ UNCHANGED <<list, server, file, store, config, flusher>>

\* The answer does not come, or the connection breaks.
ReadFails(id) ==
    /\ eh[id].recv = "read" /\ Fault
    /\ RecoverPacket(id, GiveUp(eh[id]), "normal")
    /\ UNCHANGED <<list, server, file, store, config, flusher>>

\* Faulty variant: a recovery handler does not go to the dirty list.
PutRecoverHandlerNot(id) ==
    /\ eh[id].recv = "put"
    /\ eh' = [eh EXCEPT ![id] = Processed(@)]
    /\ NoFault
    /\ UNCHANGED <<list, sstatus, server, file, store, config, flusher>>

\* recoverPacket: the handler goes to the dirty list after the packet is sent.
PutRecoverHandler(id) ==
    /\ eh[id].recv = "put"
    /\ dirtylist' = Put(dirtylist, eh[id].recoverHandler)
    /\ eh' = [eh EXCEPT ![id] = Processed(@)]
    /\ NoFault
    /\ UNCHANGED <<handler, sdirty, sstatus, server, file, store, config, flusher>>

-----------------------------------------------------------------------------
(* The goroutine of the streamer.                                          *)

GetStoreMod(o, n) == IF o + n > TinyLimit THEN "normal" ELSE "tiny"

\* ExtentCache.Append: the new key replaces those that start in its range.
CacheAppend(ek) ==
    {k \in cache : k.off \notin ek.off..(ek.off + ek.size - 1)} \cup {ek}

\* GetEndForAppendWrite, as tryInitExtentHandlerByLastEk uses it.
EndForAppendWrite(o) ==
    {k \in cache : /\ k.off < o /\ k.off + k.size = o
                   /\ k.eoff + k.size < ExtentSize
                   /\ k.ext \notin {NoExtent, TinyExtent}}

\* The file with the extent key k, as the meta node has it.
WithKey(k) ==
    Over([o \in k.off..(k.off + k.size - 1) |->
            [ext |-> k.ext, eoff |-> k.eoff + o - k.off]], meta)

\* The request the streamer serves returns.
ReturnOk ==
    /\ pc' = "idle" /\ call' = NoCall
    /\ synced' = IF call.op \in {"flush", "release"} THEN fsize ELSE synced
    /\ UNCHANGED told

ReturnErr ==
    /\ pc' = "idle" /\ call' = NoCall
    /\ told' = TRUE /\ UNCHANGED synced

GoTo(l) == pc' = l /\ UNCHANGED <<call, told, synced>>

\* A request of an application: the streamer takes it from its channel.
Begin(l, op, n) ==
    /\ pc = "idle" /\ pc' = l
    /\ call' = [op |-> op, n |-> n, wait |-> TRUE]
    /\ NoFault
    /\ UNCHANGED <<dirtylist, sstatus, told, synced, file, store, config, flusher>>

FlushRequest == Begin("flush", "flush", 0) /\ UNCHANGED <<eh, handler, sdirty>>

ReleaseRequest == Begin("close", "release", 0) /\ UNCHANGED <<eh, handler, sdirty>>

\* The timer: traverse looks at the head of the dirty list so many times.
Tick ==
    /\ dirtylist # <<>>
    /\ Begin("traverse", "tick", Len(dirtylist)) /\ UNCHANGED <<eh, handler, sdirty>>

\* The renewal of forbiddenMigration fails.
RenewalFails ==
    /\ pc = "idle" /\ Fault /\ sstatus' = "error"
    /\ UNCHANGED <<eh, list, server, file, store, config, flusher>>

\* write, with tryInitExtentHandlerByLastEk, which may not find the partition.
WriteRequest(n) ==
    /\ sstatus # "error" /\ fsize + n <= limit
    /\ Begin("write", "write", n)
    /\ \/ /\ GetStoreMod(fsize, n) = "normal" /\ handler = 0
          /\ \E k \in EndForAppendWrite(fsize) :
                eh' = Append(eh, NewExtentHandler(k.off, "normal", k.size, k))
          /\ handler' = Len(eh) + 1 /\ sdirty' = FALSE
       \/ UNCHANGED <<eh, handler, sdirty>>

\* doWriteAppendEx, one turn of its loop.
DoWriteAppend ==
    LET n == call.n
        mode == GetStoreMod(fsize, n)
        new == handler = 0
        id == IF new THEN Len(eh) + 1 ELSE handler
        h == IF new THEN NewExtentHandler(fsize, mode, 0, NoKey) ELSE eh[id]
        g == Write(h, fsize, n)
    IN  /\ pc = "write"
        /\ IF h.mode # mode \/ Refuses(h, fsize, n)
           THEN /\ pc' = "close" /\ call' = [call EXCEPT !.wait = h.mode # mode]
                /\ UNCHANGED <<eh, list, cache, fsize, told, synced>>
           ELSE /\ eh' = IF new THEN Append(eh, g) ELSE [eh EXCEPT ![id] = g]
                /\ handler' = id /\ sdirty' = TRUE
                /\ dirtylist' = IF new \/ ~sdirty THEN Put(dirtylist, id)
                                ELSE dirtylist
                /\ cache' = CacheAppend([off |-> g.off, ext |-> NoExtent,
                                         eoff |-> 0, size |-> g.size])
                /\ fsize' = fsize + n
                /\ ReturnOk
        /\ NoFault /\ UNCHANGED <<sstatus, meta, store, config, flusher>>

-----------------------------------------------------------------------------
(* The flush of one handler: flushPacket, a wait until nothing is in       *)
(* flight, appendExtentKey.                                                *)

\* appendExtentKey: the key goes to the cache and, if it is new, to the meta
\* node, which may fail before or after it has stored the key.
AppendExtentKey(h, ok) ==
    /\ cache' = IF h.key = NoKey THEN cache ELSE CacheAppend(h.key)
    /\ \/ /\ ok /\ NoFault
          /\ meta' = IF h.dirty THEN WithKey(h.key) ELSE meta
       \/ /\ ~ok /\ h.dirty /\ Fault
          /\ meta' \in {meta, WithKey(h.key)}

\* The handler when its flush is over.
Flushed(h, ok) ==
    LET g == [h EXCEPT !.dirty = FALSE]
    IN  CASE ~ok -> h
          [] ok /\ h.mode = "tiny" -> SetClosed(g)
          [] OTHER -> g

\* What becomes of a handler that has been flushed: it is cleaned up, it is
\* unless it is open, or it stays.
Clear(h, clear) ==
    IF clear = "clean" \/ (clear = "closed" /\ h.status # "open") THEN Cleanup(h) ELSE h

\* waitForFlush and the rest of flush.
EndFlush(id, good, clear) ==
    LET h == eh[id]
    IN  \/ /\ h.inflight = 0
           /\ \E ok \in BOOLEAN :
                 /\ AppendExtentKey(h, ok)
                 /\ (good <=> ok /\ h.status # "error")
                 /\ eh' = [eh EXCEPT ![id] = IF good THEN Clear(Flushed(h, ok), clear)
                                                     ELSE Flushed(h, ok)]
        \/ /\ h.inflight > 0 /\ h.done     \* eh maybe cleaned
           /\ ~good /\ NoFault /\ UNCHANGED <<eh, cache, meta>>

\* A failed release cleans up what is left.
FlushFails ==
    IF call.op = "release" THEN GoTo("abort") ELSE ReturnErr

\* A flush of the dirty list has ended well.
FlushEnds ==
    IF call.op = "write" THEN GoTo("write") ELSE ReturnOk

-----------------------------------------------------------------------------
(* Asynchronous flush: a request waits until nothing is in flight and      *)
(* until the handlers with smaller ids have been flushed.                  *)

\* requestAsyncFlush for each handler of a sequence; what their clearFunc does.
AsyncFlush(ids, clear) ==
    LET new == Range(ids) \ DOMAIN pending
        st == IF stopped THEN "err" ELSE "queued"
    IN  /\ areq' = IF new = {} THEN areq
                   ELSE Append(areq, [clear |-> clear, st |-> [id \in new |-> st]])
        /\ pending' = Over([id \in new |-> Len(areq) + 1], pending)

RemovePending(ids) == [id \in DOMAIN pending \ ids |-> pending[id]]

Asks(b, id) == b \in DOMAIN areq /\ id \in DOMAIN areq[b].st

Answer(b, id, st) == areq' = [areq EXCEPT ![b].st[id] = st]

\* processAsyncFlushRequest and completeAsyncFlush, up to its flush.
CompleteAsyncFlush(b, id) ==
    /\ Asks(b, id) /\ areq[b].st[id] = "queued" /\ eh[id].inflight = 0
    /\ \/ stopped /\ Answer(b, id, "err") /\ UNCHANGED eh
       \/ /\ ~stopped
          /\ \/ pending = <<>> /\ Answer(b, id, "err") /\ UNCHANGED eh
             \/ /\ pending # <<>> /\ \A i \in DOMAIN pending : id < i
                /\ Answer(b, id, "ok") /\ UNCHANGED eh
             \/ /\ id \in DOMAIN pending /\ \A i \in DOMAIN pending : id <= i
                /\ Answer(b, id, "flush")
                /\ eh' = [eh EXCEPT ![id] = FlushPacket(@)]
    /\ NoFault
    /\ UNCHANGED <<list, sstatus, server, file, store, config, pending, waiting, stopped>>

\* The flush of completeAsyncFlush is over; clearFunc.
AsyncFlushed(b, id) ==
    LET clear == areq[b].clear
    IN  /\ Asks(b, id) /\ areq[b].st[id] = "flush"
        /\ \E good \in BOOLEAN :
              /\ EndFlush(id, good, clear)
              /\ sdirty' = IF good /\ clear = "closed" /\ eh'[id].status = "open"
                           THEN FALSE ELSE sdirty
              /\ Answer(b, id, IF good THEN "ok" ELSE "err")
        /\ UNCHANGED <<handler, dirtylist, sstatus, server, fsize, store, config,
                       pending, waiting, stopped>>

-----------------------------------------------------------------------------
(* closeOpenHandler and flush.                                             *)

CloseOpenHandler ==
    /\ pc = "close"
    /\ \/ /\ handler = 0
          /\ GoTo("flush") /\ UNCHANGED <<eh, list, areq, pending>>
       \/ /\ handler # 0 /\ ~async
          /\ eh' = [eh EXCEPT ![handler] = FlushPacket(@)]
          /\ GoTo("closeWait") /\ UNCHANGED <<list, areq, pending>>
       \/ /\ handler # 0 /\ async
          /\ AsyncFlush(<<handler>>, "clean")
          /\ dirtylist' = Put(dirtylist, handler) /\ handler' = 0
          /\ GoTo("flush") /\ UNCHANGED <<eh, sdirty>>
    /\ NoFault /\ UNCHANGED <<sstatus, file, store, config, waiting, stopped>>

CloseWait ==
    /\ pc = "closeWait"
    /\ \E good \in BOOLEAN :
          /\ EndFlush(handler, good, "clean")
          /\ IF good THEN handler' = 0 /\ GoTo("flush")
                     ELSE FlushFails /\ UNCHANGED handler
    /\ UNCHANGED <<dirtylist, sdirty, sstatus, fsize, store, config, flusher>>

FlushSync ==
    /\ pc = "flush" /\ ~async
    /\ IF dirtylist = <<>> THEN FlushEnds /\ UNCHANGED eh
       ELSE /\ eh' = [eh EXCEPT ![Head(dirtylist)] = FlushPacket(@)]
            /\ GoTo("flushWait")
    /\ NoFault /\ UNCHANGED <<list, sstatus, file, store, config, flusher>>

FlushWait ==
    LET id == Head(dirtylist)
    IN  /\ pc = "flushWait"
        /\ \E good \in BOOLEAN :
              /\ EndFlush(id, good, "closed")
              /\ IF good
                 THEN /\ dirtylist' = Tail(dirtylist) /\ GoTo("flush")
                      /\ sdirty' = IF eh'[id].status = "open" THEN FALSE ELSE sdirty
                 ELSE FlushFails /\ UNCHANGED <<dirtylist, sdirty>>
        /\ UNCHANGED <<handler, sstatus, fsize, store, config, flusher>>

\* flushAsync: requests for the whole list; without waiting, the handlers stay
\* on the list.
FlushAsync ==
    /\ pc = "flush" /\ async
    /\ AsyncFlush(dirtylist, "closed")
    /\ IF call.wait
       THEN /\ waiting' = {<<pending'[id], id>> : id \in Range(dirtylist)}
            /\ dirtylist' = <<>> /\ GoTo("asyncWait")
       ELSE FlushEnds /\ UNCHANGED <<waiting, dirtylist>>
    /\ NoFault
    /\ UNCHANGED <<eh, handler, sdirty, sstatus, file, store, config, stopped>>

\* One of the requests it waits for is answered.
AsyncAnswered(b, id) ==
    /\ pc \in {"asyncWait", "asyncFail"} /\ <<b, id>> \in waiting
    /\ waiting' = waiting \ {<<b, id>>} /\ pending' = RemovePending({id})
    /\ \/ areq[b].st[id] = "ok" /\ GoTo(pc) /\ UNCHANGED eh
       \/ /\ areq[b].st[id] = "err" /\ GoTo("asyncFail")
          /\ eh[id].done \/ eh[id].recv = "idle"
          /\ eh' = [eh EXCEPT ![id] = Cleanup(@)]
    /\ NoFault
    /\ UNCHANGED <<list, sstatus, file, store, config, areq, stopped>>

\* Faulty variant: the dirty list is not looked at again.
AsyncWaitedOnce ==
    /\ pc \in {"asyncWait", "asyncFail"} /\ waiting = {}
    /\ IF pc = "asyncFail" THEN FlushFails ELSE FlushEnds
    /\ NoFault /\ UNCHANGED <<eh, list, sstatus, file, store, config, flusher>>

\* All are: recovery handlers that came up meanwhile are flushed as well.
AsyncWaited ==
    /\ pc \in {"asyncWait", "asyncFail"} /\ waiting = {}
    /\ CASE pc = "asyncFail" -> FlushFails
         [] pc = "asyncWait" /\ dirtylist # <<>> -> GoTo("flush")
         [] OTHER -> FlushEnds
    /\ NoFault /\ UNCHANGED <<eh, list, sstatus, file, store, config, flusher>>

\* abort waits for the asynchronous flushes, unless the streamer is in error
\* status, and stops their manager.
AbortFlushers ==
    /\ pc = "abort"
    /\ \A b \in DOMAIN areq : "flush" \notin Range(areq[b].st)
    /\ \/ sstatus = "error"
       \/ pending = <<>> /\ \A b \in DOMAIN areq : "queued" \notin Range(areq[b].st)
    /\ stopped' = TRUE /\ GoTo("aborting")
    /\ NoFault
    /\ UNCHANGED <<eh, list, sstatus, file, store, config, areq, pending, waiting>>

\* Then every dirty handler is cleaned up, whatever it still has to do.
Abort ==
    LET id == Head(dirtylist)
    IN  /\ pc = "aborting"
        /\ IF dirtylist = <<>> THEN ReturnErr /\ UNCHANGED <<eh, dirtylist, pending>>
           ELSE /\ eh[id].done \/ eh[id].recv = "idle"
                /\ eh' = [eh EXCEPT ![id] = Cleanup(@)]
                /\ pending' = RemovePending({id})
                /\ dirtylist' = Tail(dirtylist) /\ GoTo("aborting")
        /\ NoFault
        /\ UNCHANGED <<handler, sdirty, sstatus, file, store, config, areq,
                       waiting, stopped>>

-----------------------------------------------------------------------------
(* traverse.                                                               *)

\* Faulty variant: the turns are not counted.
TraverseNextForever == GoTo("traverse")

TraverseNext ==
    /\ pc' = "traverse" /\ call' = [call EXCEPT !.n = @ - 1]
    /\ UNCHANGED <<told, synced>>

Traversed ==
    /\ pc = "traverse" /\ (call.n = 0 \/ dirtylist = <<>>)
    /\ ReturnOk /\ NoFault
    /\ UNCHANGED <<eh, list, sstatus, file, store, config, flusher>>

\* An open handler: skipped until streamWriterFlushPeriod, then flushed.
TraverseOpen ==
    LET id == Head(dirtylist)
    IN  /\ pc = "traverse" /\ call.n > 0 /\ dirtylist # <<>>
        /\ eh[id].status = "open"
        /\ \/ TraverseNext /\ UNCHANGED eh
           \/ GoTo("traverseWait") /\ eh' = [eh EXCEPT ![id] = FlushPacket(@)]
        /\ NoFault /\ UNCHANGED <<list, sstatus, file, store, config, flusher>>

TraverseWait ==
    /\ pc = "traverseWait"
    /\ \E good \in BOOLEAN : EndFlush(Head(dirtylist), good, "none")
    /\ TraverseNext
    /\ UNCHANGED <<list, sstatus, fsize, store, config, flusher>>

\* A handler that is not open: skipped while packets are in flight; its key is
\* appended and it is cleaned up and forgotten.
TraverseClosed ==
    LET id == Head(dirtylist)
        h == FlushPacket(eh[id])
    IN  /\ pc = "traverse" /\ call.n > 0 /\ dirtylist # <<>>
        /\ h.status # "open"
        /\ \/ /\ h.inflight > 0
              /\ eh' = [eh EXCEPT ![id] = h]
              /\ TraverseNext /\ NoFault
              /\ UNCHANGED <<dirtylist, sstatus, pending, cache, meta>>
           \/ /\ h.inflight = 0 /\ AppendExtentKey(h, TRUE)
              /\ eh' = [eh EXCEPT ![id] = Cleanup([h EXCEPT !.dirty = FALSE])]
              /\ dirtylist' = Tail(dirtylist) /\ pending' = RemovePending({id})
              /\ TraverseNext /\ UNCHANGED sstatus
           \/ /\ h.inflight = 0 /\ AppendExtentKey(h, FALSE)
              /\ sstatus' \in {sstatus, "error"}      \* EIO
              /\ ReturnOk /\ UNCHANGED <<eh, dirtylist, pending>>
        /\ UNCHANGED <<handler, sdirty, fsize, store, config, areq, waiting, stopped>>

-----------------------------------------------------------------------------
Request ==
    \/ \E n \in Sizes : WriteRequest(n)
    \/ FlushRequest \/ ReleaseRequest \/ Tick \/ RenewalFails

Streamer ==
    \/ DoWriteAppend \/ CloseOpenHandler \/ CloseWait \/ FlushSync \/ FlushWait
    \/ FlushAsync \/ AsyncWaited \/ AbortFlushers \/ Abort
    \/ Traversed \/ TraverseOpen \/ TraverseWait \/ TraverseClosed
    \/ \E b \in DOMAIN areq, id \in Id : AsyncAnswered(b, id)

Progress ==
    \/ Streamer
    \/ \E b \in DOMAIN areq, id \in Id : CompleteAsyncFlush(b, id) \/ AsyncFlushed(b, id)
    \/ \E id \in Id : \/ Sender(id) \/ DataNode(id) \/ ProcessReply(id)
                      \/ ReadReply(id) \/ ReadFails(id) \/ PutRecoverHandler(id)

Next == Request \/ Progress

Spec == Init /\ [][Next]_vars /\ WF_vars(Progress /\ UNCHANGED faults)

-----------------------------------------------------------------------------
PacketSet == [off : 0..MaxSize, len : 0..MaxSize, err : 0..MaxPacketErrorCount]
KeySet == [off : 0..MaxSize, ext : Nat \cup {NoExtent}, eoff : Nat, size : 0..MaxSize]

\* Well-typed states; inflight counts the packets between the open packet of
\* a handler and the end of their processReply.
TypeOK ==
    /\ \A id \in Id :
          /\ eh[id].status \in {"open", "closed", "recovery", "error"}
          /\ eh[id].packet \in PacketSet /\ eh[id].key \in KeySet
          /\ eh[id].recoverHandler \in 0..Len(eh)
          /\ eh[id].inflight = Len(eh[id].request) + Len(eh[id].reply)
    /\ handler \in 0..Len(eh)
    /\ dirtylist \in Seq(Id)
    /\ fsize \in 0..MaxSize /\ synced \in 0..fsize

\* The extent keys of the meta node name extents that hold the data of the
\* file: what appendExtentKey publishes has been acknowledged, in its place,
\* whatever packets failed, were sent again or arrived late.
KeysBacked ==
    \A o \in DOMAIN meta :
        /\ meta[o].ext \in DOMAIN store
        /\ meta[o].eoff < Len(store[meta[o].ext])
        /\ store[meta[o].ext][meta[o].eoff + 1] = o

Durable(n) == \A o \in 0..(n - 1) : o \in DOMAIN meta

\* A flush or a release that returns nil leaves all that was written before it
\* under extent keys, recovery handlers included, unless the streamer is in
\* error status or an error has been reported before.
FlushDurable == Durable(synced) \/ sstatus = "error" \/ told

\* A flush or a release that returns nil leaves all that was written before it
\* under extent keys, unless an error has been reported before.
FlushHonest == Durable(synced) \/ told

\* A handler whose goroutines run is one the streamer, or a flush it has asked
\* for, still knows, so that it will be cleaned up.
NoLeak ==
    \A id \in Id :
        \/ eh[id].done
        \/ id = handler \/ id \in Range(dirtylist)
        \/ \E b \in DOMAIN areq :
              Asks(b, id) /\ (<<b, id>> \in waiting \/ areq[b].st[id] = "flush")
        \/ \E i \in Id : eh[i].recv = "put" /\ eh[i].recoverHandler = id

\* Each request of an application, and each turn of the timer, comes to an
\* end: flush is not left waiting by a handler that failed.
Returns == (pc # "idle") ~> (pc = "idle")
=============================================================================
