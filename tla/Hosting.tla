------------------------------- MODULE Hosting ------------------------------
(***************************************************************************)
(* Shards hosted for other peers: the StoreShard and DeleteShard handlers  *)
(* (server/src/p2p.rs) and the retention sweep (server/src/retention.rs).  *)
(* Every handler runs on a connection of its own, and each of its          *)
(* statements and file operations is one step.                             *)
(*                                                                         *)
(* tainted records that two requests worked on one fragment at the same    *)
(* time, or that a request failed part way: the code then lets the books   *)
(* drift.  The properties say what holds until then.                       *)
(***************************************************************************)
EXTENDS Integers, FiniteSets, FiniteSetsExt, Functions

CONSTANTS
    Owners,         \* peers known to this node
    Fragments,
    OwnerOf,        \* Fragments -> Owners: fragment ids are unique to an owner
    Parity,         \* fragments whose shard index is at least DATA_SHARDS
    Sizes,          \* disk costs of a shard
    Contributed,    \* node_local.contributed_bytes
    Handlers,       \* connections served at the same time
    Sweeper,        \* the retention sweep
    ReclaimAt, EvictAt,  \* an owner's thresholds, stretched by its reliability
    None

ASSUME HostingAssumption ==
    /\ OwnerOf \in [Fragments -> Owners]
    /\ Parity \subseteq Fragments
    /\ Sizes \subseteq Nat \ {0} /\ Sizes # {} /\ Contributed \in Nat
    /\ IsFiniteSet(Fragments) /\ IsFiniteSet(Sizes)
    /\ IsFiniteSet(Handlers) /\ Handlers # {}
    /\ ReclaimAt \in Nat /\ EvictAt \in Nat /\ ReclaimAt <= EvictAt
    /\ Sweeper \notin Handlers /\ None \notin Nat /\ None \notin Fragments

Procs == Handlers \cup {Sweeper}

VARIABLES
    rows,     \* hosted_shards: Fragments -> size_bytes or None
    disk,     \* fragments the chunk store has a file for
    hosted,   \* node_local.hosted_bytes
    absent,   \* days since each owner was last seen
    req,      \* what each handler, and the sweep, is doing
    tainted

vars == <<rows, disk, hosted, absent, req, tainted>>

Ops == {"idle", "check", "write", "record", "settle store",
        "look up", "unlink", "forget", "settle delete", "sweep", "drop"}

(* size: the shard being stored; seen: hosted_bytes as first read; old: the *)
(* fragment's hosted_size; todo, freed: the sweep's rows and its total.     *)
Request == [op: Ops, frag: Fragments \cup {None}, size: Nat, seen: Nat, old: Nat,
            todo: SUBSET (Fragments \X Sizes), freed: Nat]
Idle == [op |-> "idle", frag |-> None, size |-> 0, seen |-> 0, old |-> 0,
         todo |-> {}, freed |-> 0]

PlusZero(x) == IF x < 0 THEN 0 ELSE x     \* GREATEST(x, 0)
HostedSize(f) == IF rows[f] = None THEN 0 ELSE rows[f]
Recorded == {f \in Fragments : rows[f] # None}
Listed(p) == {t[1] : t \in req[p].todo}
BusyOn(F) == \E p \in Procs : req[p].frag \in F \/ Listed(p) \cap F # {}

Init ==
    /\ rows = [f \in Fragments |-> None]
    /\ disk = {}
    /\ hosted = 0
    /\ absent = [o \in Owners |-> 0]
    /\ req = [p \in Procs |-> Idle]
    /\ tainted = FALSE

-----------------------------------------------------------------------------
(* StoreShard *)

(* A known owner's shard of an accepted size; the capacity is read. *)
StoreBegin(h, f, n) ==
    /\ req[h].op = "idle"
    /\ req' = [req EXCEPT ![h] = [Idle EXCEPT !.op = "check", !.frag = f,
                                     !.size = n, !.seen = hosted]]
    /\ tainted' = (tainted \/ BusyOn({f}))
    /\ UNCHANGED <<rows, disk, hosted, absent>>

(* Faulty variant: the shard that arrives is not counted. *)
Room_before(r, old) == r.seen - old <= Contributed

Room(r, old) == r.seen - old + r.size <= Contributed

(* hosted_size, then the contribution cap. *)
StoreCheck(h) ==
    LET old == HostedSize(req[h].frag)
    IN  /\ req[h].op = "check"
        /\ req' = [req EXCEPT ![h] = IF Room(@, old)
                                     THEN [@ EXCEPT !.op = "write", !.old = old]
                                     ELSE Idle]
        /\ UNCHANGED <<rows, disk, hosted, absent, tainted>>

(* Faulty variant: the row is recorded whether or not the write succeeded. *)
StoreWrite_unchecked(h) ==
    /\ req[h].op = "write"
    /\ \E written \in SUBSET {req[h].frag} : disk' = disk \cup written
    /\ req' = [req EXCEPT ![h].op = "record"]
    /\ UNCHANGED <<rows, hosted, absent, tainted>>

StoreWrite(h) ==
    /\ req[h].op = "write"
    /\ disk' = disk \cup {req[h].frag}
    /\ req' = [req EXCEPT ![h].op = "record"]
    /\ UNCHANGED <<rows, hosted, absent, tainted>>

StoreRecord(h) ==
    /\ req[h].op = "record"
    /\ rows' = [rows EXCEPT ![req[h].frag] = req[h].size]
    /\ req' = [req EXCEPT ![h].op = "settle store"]
    /\ UNCHANGED <<disk, hosted, absent, tainted>>

(* Faulty variant: the total read at the start is written back. *)
StoreSettle_absolute(h) ==
    /\ req[h].op = "settle store"
    /\ hosted' = PlusZero(req[h].seen + req[h].size - req[h].old)
    /\ req' = [req EXCEPT ![h] = Idle]
    /\ UNCHANGED <<rows, disk, absent, tainted>>

(* The net delta is added to the total; the peer is told the shard is stored. *)
StoreSettle(h) ==
    /\ req[h].op = "settle store"
    /\ hosted' = PlusZero(hosted + req[h].size - req[h].old)
    /\ req' = [req EXCEPT ![h] = Idle]
    /\ UNCHANGED <<rows, disk, absent, tainted>>

-----------------------------------------------------------------------------
(* DeleteShard *)

(* The recorded owner asks; an unknown fragment is an idempotent success. *)
DeleteBegin(h, f) ==
    /\ req[h].op = "idle"
    /\ rows[f] # None
    /\ req' = [req EXCEPT ![h] = [Idle EXCEPT !.op = "look up", !.frag = f]]
    /\ tainted' = (tainted \/ BusyOn({f}))
    /\ UNCHANGED <<rows, disk, hosted, absent>>

DeleteLookUp(h) ==
    /\ req[h].op = "look up"
    /\ req' = [req EXCEPT ![h].op = "unlink", ![h].old = HostedSize(req[h].frag)]
    /\ UNCHANGED <<rows, disk, hosted, absent, tainted>>

DeleteUnlink(h) ==
    /\ req[h].op = "unlink"
    /\ disk' = disk \ {req[h].frag}
    /\ req' = [req EXCEPT ![h].op = "forget"]
    /\ UNCHANGED <<rows, hosted, absent, tainted>>

DeleteForget(h) ==
    /\ req[h].op = "forget"
    /\ rows' = [rows EXCEPT ![req[h].frag] = None]
    /\ req' = [req EXCEPT ![h].op = "settle delete"]
    /\ UNCHANGED <<disk, hosted, absent, tainted>>

DeleteSettle(h) ==
    /\ req[h].op = "settle delete"
    /\ hosted' = PlusZero(hosted - req[h].old)
    /\ req' = [req EXCEPT ![h] = Idle]
    /\ UNCHANGED <<rows, disk, absent, tainted>>

-----------------------------------------------------------------------------
(* The retention sweep, one owner at a time *)

(* Faulty variant: the reclaim stage takes the data shards too. *)
Reclaimable_all(o) ==
    {f \in Recorded : OwnerOf[f] = o /\ absent[o] >= ReclaimAt}

(* What the sweep may remove: parity first, everything at eviction. *)
Reclaimable(o) ==
    {f \in Recorded : OwnerOf[f] = o /\ (\/ absent[o] >= EvictAt
                                         \/ absent[o] >= ReclaimAt /\ f \in Parity)}

(* old carries the stage: the owner's absence when the rows were selected. *)
SweepBegin(o) ==
    /\ req[Sweeper].op = "idle"
    /\ Reclaimable(o) # {}
    /\ req' = [req EXCEPT ![Sweeper] = [Idle EXCEPT !.op = "sweep", !.old = absent[o],
                                           !.todo = {<<f, rows[f]>> : f \in Reclaimable(o)}]]
    /\ tainted' = (tainted \/ BusyOn(Reclaimable(o)))
    /\ UNCHANGED <<rows, disk, hosted, absent>>

SweepUnlink(f) ==
    /\ req[Sweeper].op = "sweep"
    /\ f \in Listed(Sweeper)
    /\ disk' = disk \ {f}
    /\ req' = [req EXCEPT ![Sweeper].op = "drop", ![Sweeper].frag = f]
    /\ UNCHANGED <<rows, hosted, absent, tainted>>

Listing(f) == CHOOSE t \in req[Sweeper].todo : t[1] = f

(* The sweep moves on, with the listed size added when it deleted the row. *)
SweptRow(deleted) ==
    LET t == Listing(req[Sweeper].frag)
    IN  [req EXCEPT ![Sweeper].op = "sweep", ![Sweeper].frag = None, ![Sweeper].todo = @ \ {t},
                    ![Sweeper].freed = @ + IF deleted THEN t[2] ELSE 0]

SweepDrop ==
    LET f == req[Sweeper].frag
    IN  /\ req[Sweeper].op = "drop"
        /\ rows' = [rows EXCEPT ![f] = None]
        /\ req' = SweptRow(rows[f] # None)
        /\ UNCHANGED <<disk, hosted, absent, tainted>>

SweepSettle ==
    /\ req[Sweeper].op = "sweep"
    /\ req[Sweeper].todo = {}
    /\ hosted' = PlusZero(hosted - req[Sweeper].freed)
    /\ req' = [req EXCEPT ![Sweeper] = Idle]
    /\ UNCHANGED <<rows, disk, absent, tainted>>

-----------------------------------------------------------------------------
(* Environment *)

(* A write or a statement fails, or the node stops, before the next step. *)
Fail(p) ==
    /\ req[p].op \notin {"idle", "check", "look up"}
    /\ req' = [req EXCEPT ![p] = Idle]
    /\ tainted' = (tainted \/ req[p].op \notin {"write", "record", "unlink"})
    /\ UNCHANGED <<rows, disk, hosted, absent>>

(* A file or a row that could not be removed is passed over. *)
PassOver(p) ==
    /\ \/ /\ req[p].op = "unlink"
          /\ req' = [req EXCEPT ![p].op = "forget"]
       \/ /\ req[p].op = "forget"
          /\ req' = [req EXCEPT ![p].op = "settle delete"]
       \/ /\ req[p].op = "drop"
          /\ req' = SweptRow(FALSE)
    /\ tainted' = TRUE
    /\ UNCHANGED <<rows, disk, hosted, absent>>

DayPasses(o) ==
    /\ absent[o] < EvictAt
    /\ absent' = [absent EXCEPT ![o] = @ + 1]
    /\ UNCHANGED <<rows, disk, hosted, req, tainted>>

(* peers.last_seen is refreshed. *)
Seen(o) ==
    /\ absent[o] > 0
    /\ absent' = [absent EXCEPT ![o] = 0]
    /\ UNCHANGED <<rows, disk, hosted, req, tainted>>

Next ==
    \/ \E h \in Handlers :
          \/ \E f \in Fragments, n \in Sizes : StoreBegin(h, f, n)
          \/ StoreCheck(h) \/ StoreWrite(h) \/ StoreRecord(h) \/ StoreSettle(h)
          \/ \E f \in Fragments : DeleteBegin(h, f)
          \/ DeleteLookUp(h) \/ DeleteUnlink(h) \/ DeleteForget(h) \/ DeleteSettle(h)
    \/ \E o \in Owners : SweepBegin(o) \/ DayPasses(o) \/ Seen(o)
    \/ \E f \in Fragments : SweepUnlink(f)
    \/ SweepDrop \/ SweepSettle
    \/ \E p \in Procs : Fail(p) \/ PassOver(p)

Spec == Init /\ [][Next]_vars

-----------------------------------------------------------------------------
(* Properties *)

(* Every cell holds a value of its column. *)
TypeOK ==
    /\ rows \in [Fragments -> Sizes \cup {None}]
    /\ disk \subseteq Fragments
    /\ hosted \in Nat
    /\ absent \in [Owners -> 0 .. EvictAt]
    /\ req \in [Procs -> Request]
    /\ tainted \in BOOLEAN

Total(F) == SumFunction([f \in F |-> HostedSize(f)])

(* What a request takes off the total when it settles, and what it has *)
(* recorded and not yet settled.                                       *)
Debt(r) ==
    IF r.op \in {"settle store", "settle delete"} THEN r.old
    ELSE IF r.op \in {"sweep", "drop"} THEN r.freed ELSE 0
Due(r) == (IF r.op = "settle store" THEN r.size ELSE 0) - Debt(r)
Unsettled == SumFunction([p \in Procs |-> Due(req[p])])

(* The books balance: hosted_bytes and the settlements under way add up to the *)
(* sizes of the recorded shards, however stores, deletes and the sweep         *)
(* interleave on different fragments.                                          *)
HostedExact == ~tainted => hosted + Unsettled = Total(Recorded)

(* A recorded shard can be served: its file is there, unless the request that *)
(* is removing the shard has already unlinked it.                             *)
RecordBacked ==
    ~tainted => \A f \in Recorded :
        f \in disk \/ \E p \in Procs : req[p].frag = f /\ req[p].op \in {"forget", "drop"}

MaxSize == Max(Sizes)

(* How far concurrent stores can pass the contribution: every connection but *)
(* one may carry a shard that the capacity it read did not include.          *)
CapOvershootBounded ==
    ~tainted => Total(Recorded) <= Contributed + (Cardinality(Handlers) - 1) * MaxSize

(* "The data shards alone still reconstruct the file" (retention.rs:25): the   *)
(* sweep removes the file or the row of a data shard only for an owner that    *)
(* was past the eviction threshold when its rows were selected.                *)
DataKeptUntilEviction ==
    [][\A f \in Fragments \ Parity :
          /\ f \in Listed(Sweeper)
          /\ req'[Sweeper] # req[Sweeper]
          /\ f \in disk \ disk' \/ rows'[f] # rows[f]
          => req[Sweeper].old >= EvictAt]_vars
=============================================================================
