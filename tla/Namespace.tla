----------------------------- MODULE Namespace ------------------------------
(***************************************************************************)
(* The file system tree outside transactions: the inode and dentry trees   *)
(* of the metadata partitions and the multi-step calls of the client.      *)
(*                                                                         *)
(*   src/metanode/partition_fsmop_{inode,dentry}.go   state machine        *)
(*   src/metanode/partition_op_{inode,dentry}.go      request handlers     *)
(*   src/metanode/inode.go                            link counts          *)
(*   src/sdk/meta/{api,operation,conn}.go             client calls         *)
(*                                                                         *)
(* A request is one raft entry of the partition that stores its object.    *)
(* The client sends it until it gets an answer or gives up: a request may  *)
(* be handled once, several times or never, also after the client gave up. *)
(* Snapshots (verSeq > 0) and the trash are off.                           *)
(***************************************************************************)
EXTENDS Naturals, FiniteSets

CONSTANTS
    Client,
    File, Dir,   \* inode numbers, by the type the inode gets
    Root,        \* the root directory, a member of Dir
    Name,
    None,        \* no inode, no name
    DirLimit,    \* dirChildrenNumLimit
    Plans,       \* bounds on the clients, inode numbers, calls, stray requests and links
    MaxStray     \* the largest bound on the requests in flight nobody waits for

Inode == File \cup Dir
CallNames == {"create", "mkdir", "unlink", "rmdir", "link", "rename"}

ASSUME NsAssumption ==
    /\ Root \in Dir /\ None \notin Inode \cup Name /\ File \cap Dir = {}
    /\ IsFiniteSet(Dir \X Name)
    /\ DirLimit \in Nat /\ MaxStray \in Nat
    /\ \A bd \in Plans : /\ bd.calls \subseteq CallNames
                        /\ bd.stray \in 0..MaxStray /\ bd.link \in Nat

VARIABLES
    born,     \* inode numbers handed out (nextInodeID never goes back)
    tree,     \* inodeTree
    nlink,    \* Inode.NLink
    marked,   \* inodes with DeleteMarkFlag
    dentry,   \* dentryTree: dentry[p][n], None if there is none
    seen,     \* uniqChecker: ids of link and unlink requests applied
    net,      \* requests in flight
    call,     \* call[c]: the call client c is in
    orphan,   \* orphan[c]: OrphanInodeList of c
    resent,   \* history: inodes of a dentry request that was handled twice
    plan      \* the clients that make calls, the calls, the bound on strays, and the
              \* link count at which calls link an inode no further

fsmVars == <<born, tree, nlink, marked, dentry>>
vars == <<fsmVars, seen, net, call, orphan, resent, plan>>

Pcs == {"idle", "icreate", "dcreate", "undo", "undoEvict", "rmcheck", "ddelete",
        "iunlink", "evict", "ilink", "lcreate", "rlink", "rcreate", "rupdate",
        "rdelete", "rundo", "runlink", "rold", "revict"}

\* Where a call is: its step, its arguments (entry n of p, for a rename also
\* entry m of q), the inodes it has learnt, and the request it waits for.
Idle == [pc |-> "idle", new |-> None, p |-> None, n |-> None, q |-> None,
         m |-> None, ino |-> None, old |-> None, wait |-> 0]

\* The inode numbers a plan leaves out belong to other files already.
Init ==
    /\ \E bd \in Plans :
          /\ \E who \in SUBSET Client :
                /\ Cardinality(who) = bd.clients
                /\ plan = [client |-> who, calls |-> bd.calls, stray |-> bd.stray,
                           link |-> bd.link]
          /\ \E taken \in SUBSET (Inode \ {Root}) :
                /\ Cardinality(File \ taken) = bd.files
                /\ Cardinality(Dir \ taken) = bd.dirs
                /\ born = taken \cup {Root}
    /\ tree = {Root}
    /\ nlink = [i \in Inode |-> IF i = Root THEN 2 ELSE 0]
    /\ marked = {}
    /\ dentry = [p \in Dir |-> [n \in Name |-> None]]
    /\ seen = {}
    /\ net = {}
    /\ call = [c \in Client |-> Idle]
    /\ orphan = [c \in Client |-> {}]
    /\ resent = {}

-----------------------------------------------------------------------------
(* The state machine of a partition.  Every operation sets fsmVars, and    *)
(* says what it answers: a status and a value.                             *)

Live(i) == i \in tree /\ i \notin marked
SameType(i, j) == i \in Dir <=> j \in Dir

\* Faulty variant: no check for zero.
DecNLinkUnchecked(i, k) == IF i \in Dir /\ k = 2 THEN 0 ELSE k - 1

\* Inode.DecNLink: an empty directory goes from 2 to 0.
DecNLink(i, k) == IF i \in Dir /\ k = 2 THEN 0 ELSE IF k > 0 THEN k - 1 ELSE 0

\* fsmCreateInode, with the number nextInodeID hands out.
FsmCreateInode(i) ==
    /\ i \notin born
    /\ born' = born \cup {i}
    /\ tree' = tree \cup {i}
    /\ nlink' = [nlink EXCEPT ![i] = IF i \in Dir THEN 2 ELSE 1]
    /\ UNCHANGED <<marked, dentry>>

\* CreateDentry and fsmCreateDentry: what they answer.
CreateDentryStatus(p, n, i) ==
    CASE p \notin tree -> "noent"
      [] p \in tree /\ nlink[p] >= DirLimit -> "quota"
      [] p \in tree /\ nlink[p] < DirLimit /\ p \in marked -> "noent"
      [] Live(p) /\ nlink[p] < DirLimit /\ dentry[p][n] \in {None, i} -> "ok"
      [] Live(p) /\ nlink[p] < DirLimit /\ dentry[p][n] \notin {None, i} ->
            IF SameType(i, dentry[p][n]) THEN "exist" ELSE "inval"

\* fsmCreateDentry: what it changes.
FsmCreateDentry(p, n, i) ==
    IF CreateDentryStatus(p, n, i) = "ok" /\ dentry[p][n] = None
    THEN /\ dentry' = [dentry EXCEPT ![p][n] = i]
         /\ nlink' = [nlink EXCEPT ![p] = @ + 1]
         /\ UNCHANGED <<born, tree, marked>>
    ELSE UNCHANGED fsmVars

\* fsmDeleteDentry without an inode to check: whatever n names is removed.
FsmDeleteDentry(p, n) ==
    /\ dentry' = [dentry EXCEPT ![p][n] = None]
    /\ nlink' = IF dentry[p][n] # None /\ Live(p)
                THEN [nlink EXCEPT ![p] = DecNLink(p, @)] ELSE nlink
    /\ UNCHANGED <<born, tree, marked>>

\* fsmUpdateDentry.
FsmUpdateDentry(p, n, i) ==
    /\ dentry' = IF dentry[p][n] = None THEN dentry
                 ELSE [dentry EXCEPT ![p][n] = i]
    /\ UNCHANGED <<born, tree, nlink, marked>>


\* uniqChecker.legalIn.
LegalIn(id) == id \notin seen

\* fsmCreateLinkInode.
FsmCreateLinkInode(i, id) ==
    IF Live(i) /\ LegalIn(id)
    THEN nlink' = [nlink EXCEPT ![i] = @ + 1] /\ UNCHANGED <<born, tree, marked, dentry>>
    ELSE UNCHANGED fsmVars

\* Faulty variant: any unlinked directory leaves the tree.
FsmUnlinkInodeForce(i, id) ==
    IF Live(i) /\ LegalIn(id)
    THEN /\ nlink' = [nlink EXCEPT ![i] = DecNLink(i, @)]
         /\ tree' = IF i \in Dir THEN tree \ {i} ELSE tree
         /\ UNCHANGED <<born, marked, dentry>>
    ELSE UNCHANGED fsmVars

\* fsmUnlinkInode: a directory with no links left leaves the tree.
FsmUnlinkInode(i, id) ==
    IF Live(i) /\ LegalIn(id)
    THEN /\ nlink' = [nlink EXCEPT ![i] = DecNLink(i, @)]
         /\ tree' = IF i \in Dir /\ DecNLink(i, nlink[i]) < 2 THEN tree \ {i} ELSE tree
         /\ UNCHANGED <<born, marked, dentry>>
    ELSE UNCHANGED fsmVars

\* fsmEvictInode: a file without links, or an empty directory, is marked for
\* deletion; its extents are then removed in the background (module FreeList).
FsmEvictInode(i) ==
    /\ marked' = IF Live(i) /\ (IF i \in Dir THEN nlink[i] <= 2 ELSE nlink[i] = 0)
                 THEN marked \cup {i} ELSE marked
    /\ UNCHANGED <<born, tree, nlink, dentry>>

-----------------------------------------------------------------------------
(* The client.  Every step of a call but rmcheck waits for the answer to   *)
(* one request; the moves of a call say where an answer takes it.  Status  *)
(* "err" stands for no answer at all.                                      *)

\* The request a call sends at its present step.
Request(l) ==
    CASE l.pc = "icreate" -> [op |-> "icreate", p |-> None, n |-> None, i |-> l.new]
      [] l.pc \in {"dcreate", "lcreate"} -> [op |-> "dcreate", p |-> l.p, n |-> l.n, i |-> l.ino]
      [] l.pc = "rcreate" -> [op |-> "dcreate", p |-> l.q, n |-> l.m, i |-> l.ino]
      [] l.pc = "rupdate" -> [op |-> "dupdate", p |-> l.q, n |-> l.m, i |-> l.ino]
      [] l.pc \in {"ddelete", "rdelete"} -> [op |-> "ddelete", p |-> l.p, n |-> l.n, i |-> None]
      [] l.pc \in {"ilink", "rlink"} -> [op |-> "ilink", p |-> None, n |-> None, i |-> l.ino]
      [] l.pc \in {"undo", "iunlink", "rundo", "runlink"} ->
             [op |-> "iunlink", p |-> None, n |-> None, i |-> l.ino]
      [] l.pc = "rold" -> [op |-> "iunlink", p |-> None, n |-> None, i |-> l.old]
      [] l.pc \in {"undoEvict", "evict"} -> [op |-> "ievict", p |-> None, n |-> None, i |-> l.ino]
      [] l.pc = "revict" -> [op |-> "ievict", p |-> None, n |-> None, i |-> l.old]

At(l, pc) == {[l EXCEPT !.pc = pc]}

\* create_ll: on a failed icreate the next partition is tried; the new inode
\* is given back only when the directory is full.
CreateMoves(l, s, v) ==
    CASE l.pc = "icreate" -> IF s = "ok" THEN {[l EXCEPT !.pc = "dcreate", !.ino = v]}
                             ELSE {l, Idle}
      [] l.pc = "dcreate" -> IF s = "quota" THEN At(l, "undo") ELSE {Idle}
      [] l.pc = "undo" -> At(l, "undoEvict")
      [] l.pc = "undoEvict" -> {Idle}

\* Delete_ll_EX: the inode whose dentry was removed is unlinked.
RemoveMoves(l, s, v) ==
    CASE l.pc = "ddelete" -> IF s = "ok" THEN {[l EXCEPT !.pc = "iunlink", !.ino = v]}
                             ELSE {Idle}
      [] l.pc \in {"iunlink", "evict"} -> {Idle}

\* link: nothing is undone once the inode has its new link.
LinkMoves(l, s, v) ==
    CASE l.pc = "ilink" -> IF s = "ok" THEN At(l, "lcreate") ELSE {Idle}
      [] l.pc = "lcreate" -> {Idle}

\* rename_ll.
RenameMoves(l, s, v) ==
    CASE l.pc = "rlink" -> IF s = "ok" THEN At(l, "rcreate") ELSE {Idle}
      [] l.pc = "rcreate" ->
            CASE s = "ok" -> At(l, "rdelete")
              [] s = "exist" /\ l.ino \in File -> At(l, "rupdate") \cup {Idle}
              [] s = "exist" /\ l.ino \in Dir -> At(l, "rundo")
              [] OTHER -> {Idle}
      [] l.pc = "rupdate" -> IF s = "ok" THEN {[l EXCEPT !.pc = "rdelete", !.old = v]}
                             ELSE {Idle}
      [] l.pc = "rdelete" -> IF s = "ok" THEN At(l, "runlink") ELSE {Idle}
      [] l.pc = "runlink" -> IF l.old = None THEN {Idle} ELSE At(l, "rold")
      [] l.pc = "rold" -> At(l, "revict")
      [] l.pc \in {"rundo", "revict"} -> {Idle}

Moves(l, s, v) ==
    CASE l.pc \in {"icreate", "dcreate", "undo", "undoEvict"} -> CreateMoves(l, s, v)
      [] l.pc \in {"ddelete", "iunlink", "evict"} -> RemoveMoves(l, s, v)
      [] l.pc \in {"ilink", "lcreate"} -> LinkMoves(l, s, v)
      [] OTHER -> RenameMoves(l, s, v)

\* Client c moves to l, while the requests `rest` of all clients are in flight,
\* and sends l's request, if it has one, under a number c does not use.
Enter(c, l, rest) ==
    IF l.pc \in {"idle", "rmcheck"}
    THEN /\ call' = [call EXCEPT ![c] = [l EXCEPT !.wait = 0]]
         /\ net' = rest
    ELSE LET used == {r.k : r \in {x \in rest : x.c = c}}
             k == CHOOSE x \in 1..MaxStray + 1 :
                      x \notin used /\ \A y \in 1..MaxStray + 1 : y < x => y \in used
         IN /\ call' = [call EXCEPT ![c] = [l EXCEPT !.wait = k]]
            /\ net' = rest \cup {[c |-> c, k |-> k, again |-> FALSE, req |-> Request(l)]}

Awaited(r) == call[r.c].wait = r.k

\* What is in flight once nobody waits for r: it may stay, in the form r1.
Leave(r, r1) ==
    {net \ {r}} \cup
    IF Cardinality({x \in net : ~Awaited(x)}) < plan.stray
    THEN {(net \ {r}) \cup {r1}} ELSE {}

-----------------------------------------------------------------------------
(* Calls begin.  The attributes a call reads first are read here; whatever *)
(* happens before its first request is handled makes them stale.           *)

\* iget of a parent that must exist and have room.
Usable(p) == Live(p) /\ nlink[p] < DirLimit

Begin(c, name, l) ==
    /\ c \in plan.client /\ name \in plan.calls /\ call[c].pc = "idle"
    /\ Enter(c, l, net)
    /\ UNCHANGED <<fsmVars, seen, orphan, resent, plan>>

BeginCreate(c, p, n) ==
    /\ Usable(p)
    /\ \/ Begin(c, "create", [Idle EXCEPT !.pc = "icreate", !.new = "file", !.p = p, !.n = n])
       \/ Begin(c, "mkdir", [Idle EXCEPT !.pc = "icreate", !.new = "dir", !.p = p, !.n = n])

BeginUnlink(c, p, n) ==
    /\ dentry[p][n] \in File
    /\ Begin(c, "unlink", [Idle EXCEPT !.pc = "ddelete", !.p = p, !.n = n])

BeginRmdir(c, p, n) ==
    /\ dentry[p][n] \in Dir
    /\ Begin(c, "rmdir", [Idle EXCEPT !.pc = "rmcheck", !.p = p, !.n = n, !.ino = dentry[p][n]])

\* The inode and its link count are read after the lookup; only then is the
\* dentry removed, whatever has changed in between.
RmdirCheck(c) ==
    /\ call[c].pc = "rmcheck"
    /\ LET l == call[c]
       IN Enter(c, IF Live(l.ino) /\ nlink[l.ino] <= 2 THEN [l EXCEPT !.pc = "ddelete"]
                   ELSE Idle, net)
    /\ UNCHANGED <<fsmVars, seen, orphan, resent, plan>>

BeginLink(c, p, n, i) ==
    /\ Usable(p) /\ \E q \in Dir, m \in Name : dentry[q][m] = i
    /\ nlink[i] < plan.link
    /\ Begin(c, "link", [Idle EXCEPT !.pc = "ilink", !.p = p, !.n = n, !.ino = i])

BeginRename(c, p, n, q, m) ==
    /\ Usable(q) /\ dentry[p][n] # None /\ dentry[p][n] # q /\ <<p, n>> # <<q, m>>
    /\ nlink[dentry[p][n]] < IF dentry[p][n] \in Dir THEN 2 + plan.link ELSE plan.link
    /\ Begin(c, "rename", [Idle EXCEPT !.pc = "rlink", !.p = p, !.n = n, !.q = q,
                                       !.m = m, !.ino = dentry[p][n]])

\* File.Forget: the kernel has dropped an unlinked file, which is evicted.
Forget(c, i) ==
    /\ call[c].pc = "idle" /\ i \in orphan[c]
    /\ Enter(c, [Idle EXCEPT !.pc = "evict", !.ino = i], net)
    /\ orphan' = [orphan EXCEPT ![c] = @ \ {i}]
    /\ UNCHANGED <<fsmVars, seen, resent, plan>>

-----------------------------------------------------------------------------
(* Requests and answers.                                                   *)

Id(r) == <<r.c, r.k>>

\* The state of the uniqChecker when r has been handled and `rest` is in flight:
\* an id stays as long as its request (module UniqChecker).
SeenAfter(r, rest) ==
    (seen \cup IF r.req.op \in {"ilink", "iunlink"} THEN {Id(r)} ELSE {})
        \cap {Id(x) : x \in rest}

\* Request r has been handled: the answer reaches the client, which moves on,
\* or it does not.  The request may still be around, to be handled again.
Handled(r, s, v) ==
    LET dent == r.req.op \in {"dcreate", "dupdate"}
        r1 == [r EXCEPT !.again = dent]
        kept == (net \ {r}) \cup {r1}
    IN /\ \/ /\ Awaited(r)
             /\ \E l \in Moves(call[r.c], s, v), rest \in Leave(r, r1) :
                   Enter(r.c, l, rest) /\ seen' = SeenAfter(r, rest)
             /\ orphan' = IF call[r.c].pc = "iunlink" /\ s = "ok" /\ v = 0 /\ r.req.i \in File
                          THEN [orphan EXCEPT ![r.c] = @ \cup {r.req.i}] ELSE orphan
          \/ net' = kept /\ seen' = SeenAfter(r, kept) /\ UNCHANGED <<call, orphan>>
       /\ resent' = IF r.again THEN resent \cup {r.req.i} ELSE resent
       /\ UNCHANGED plan

Handle(r) ==
    LET p == r.req.p  n == r.req.n  i == r.req.i
    IN \/ /\ r.req.op = "icreate"
          /\ \E j \in IF i = "dir" THEN Dir ELSE File :
                FsmCreateInode(j) /\ Handled(r, "ok", j)
       \/ /\ r.req.op = "dcreate"
          /\ FsmCreateDentry(p, n, i)
          /\ Handled(r, CreateDentryStatus(p, n, i), None)
       \/ /\ r.req.op = "ddelete"
          /\ FsmDeleteDentry(p, n)
          /\ Handled(r, IF dentry[p][n] = None THEN "noent" ELSE "ok", dentry[p][n])
       \/ /\ r.req.op = "dupdate"
          /\ FsmUpdateDentry(p, n, i)
          /\ Handled(r, IF dentry[p][n] = None THEN "noent" ELSE "ok",
                        IF dentry[p][n] = i THEN None ELSE dentry[p][n])
       \/ /\ r.req.op = "ilink"
          /\ FsmCreateLinkInode(i, Id(r))
          /\ Handled(r, IF Live(i) THEN "ok" ELSE "noent", None)
       \/ /\ r.req.op = "iunlink"
          /\ FsmUnlinkInode(i, Id(r))
          /\ Handled(r, IF Live(i) THEN "ok" ELSE "noent", nlink'[i])
       \/ /\ r.req.op = "ievict"
          /\ FsmEvictInode(i)
          /\ Handled(r, IF i \in tree THEN "ok" ELSE "noent", None)

\* What is left of c's requests when c stops waiting.
Abandon(c) == UNION {Leave(r, r) : r \in {x \in net : x.c = c /\ Awaited(x)}}

\* The client's retries are exhausted; its request may still be under way.
Timeout(c) ==
    /\ call[c].wait # 0
    /\ \E rest \in Abandon(c), l \in Moves(call[c], "err", None) :
          /\ Enter(c, l, rest)
          /\ seen' = seen \cap {Id(r) : r \in rest}
    /\ UNCHANGED <<fsmVars, orphan, resent, plan>>

\* The client is killed.
Crash(c) ==
    /\ call[c] # Idle \/ orphan[c] # {}
    /\ call' = [call EXCEPT ![c] = Idle]
    /\ orphan' = [orphan EXCEPT ![c] = {}]
    /\ net' \in IF call[c].wait = 0 THEN {net} ELSE Abandon(c)
    /\ seen' = seen \cap {Id(r) : r \in net'}
    /\ UNCHANGED <<fsmVars, resent, plan>>

\* A request nobody waits for is gone.
Drop(r) ==
    /\ ~Awaited(r)
    /\ net' = net \ {r}
    /\ seen' = seen \ {Id(r)}
    /\ UNCHANGED <<fsmVars, call, orphan, resent, plan>>

Next ==
    \/ \E c \in Client :
          \/ \E p \in Dir, n \in Name :
                \/ BeginCreate(c, p, n) \/ BeginUnlink(c, p, n) \/ BeginRmdir(c, p, n)
                \/ \E i \in File : BeginLink(c, p, n, i)
                \/ \E q \in Dir, m \in Name : BeginRename(c, p, n, q, m)
          \/ RmdirCheck(c) \/ \E i \in File : Forget(c, i)
          \/ Timeout(c) \/ Crash(c)
    \/ \E r \in net : Handle(r) \/ Drop(r)

Spec == Init /\ [][Next]_vars

-----------------------------------------------------------------------------
(* Properties.                                                             *)

Refs(i) == {e \in Dir \X Name : dentry[e[1]][e[2]] = i}

TypeOK ==
    /\ born \subseteq Inode /\ tree \subseteq born /\ marked \subseteq born
    /\ nlink \in [Inode -> Nat]
    /\ dentry \in [Dir -> [Name -> Inode \cup {None}]]
    /\ \A r \in net : r.c \in Client /\ r.k \in 1..MaxStray + 1
    /\ seen \subseteq {Id(r) : r \in net}
    /\ \A c \in Client : call[c].pc \in Pcs /\ orphan[c] \subseteq File


\* A directory leaves the tree, or is marked for deletion, only when it has no
\* entries: rmdir checks the link count long before it unlinks.
GoneIsEmpty ==
    \A d \in Dir \ resent, n \in Name :
        d \in born /\ ~Live(d) => dentry[d][n] = None
=============================================================================
