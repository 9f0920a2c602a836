---------------------------- MODULE HostingProofs ---------------------------
(***************************************************************************)
(* Shards hosted for others, for any owners, fragments, sizes, thresholds  *)
(* and number of connections: a recorded shard has its file, the retention *)
(* sweep takes a data shard only at eviction, hosted_bytes agrees with the *)
(* recorded sizes, and these pass the contribution by no more than the     *)
(* other connections' shards.                                              *)
(*                                                                         *)
(* None is inductive.  A store has its file before it has its row, so      *)
(* what it wrote must still be there when it records it (Written); that    *)
(* holds because no other request works on the same fragment (Apart),      *)
(* which in turn needs to know what a request of each kind has in hand     *)
(* (Shaped).  The sweep works from a list, so what the thresholds said     *)
(* when it was made must be remembered until it is worked off (Selected).  *)
(* And a settlement adds a difference it computed from an earlier read, so *)
(* the books need that read to hold still (Knows), the total to be no less *)
(* than what is about to be taken off it, or the clamp at zero would lose  *)
(* bytes, and the room each admitted store may still fill (Account).       *)
(***************************************************************************)
EXTENDS Hosting, Sums

USE HostingAssumption DEF Procs

Storing == {"check", "write", "record"}

(* A handler has one fragment, the sweep a list and at times one of it. *)
Shaped ==
    /\ \A p \in Procs : req[p].op = "idle" => req[p] = Idle
    /\ \A h \in Handlers :
          /\ req[h].op \notin {"sweep", "drop"}
          /\ req[h].todo = {}
          /\ req[h].frag = None => req[h].op = "idle"
          /\ req[h].op \in Storing => req[h].size \in Sizes
    /\ req[Sweeper].op \in {"idle", "sweep", "drop"}
    /\ req[Sweeper].op = "sweep" => req[Sweeper].frag = None
    /\ req[Sweeper].op = "drop" =>
          /\ req[Sweeper].frag \in Fragments
          /\ \E t \in req[Sweeper].todo : t[1] = req[Sweeper].frag

(* No two requests work on one fragment. *)
Apart ==
    ~tainted => \A p, q \in Procs :
        p # q /\ req[p].frag # None
            => req[p].frag # req[q].frag /\ \A t \in req[q].todo : t[1] # req[p].frag

(* A store that is about to record its shard has written it. *)
Written == ~tainted => \A p \in Procs : req[p].op = "record" => req[p].frag \in disk

(* A listed data shard was listed at eviction. *)
Selected ==
    \A t \in req[Sweeper].todo : t[1] \in Parity \/ req[Sweeper].old >= EvictAt

(* The inductive invariant. *)
IInv == TypeOK /\ Shaped /\ Apart /\ Written /\ Selected /\ RecordBacked

-----------------------------------------------------------------------------
(* The initial state satisfies the invariant. *)
LEMMA InitIInv == Init => IInv
<1> SUFFICES ASSUME Init PROVE IInv
  OBVIOUS
<1>1. Idle \in Request
  BY DEF Idle, Request, Ops
<1>2. TypeOK
  <2>1. tainted \in BOOLEAN
    BY Zenon DEF Init
  <2>2. req \in [Procs -> Request]
    BY <1>1 DEF Init
  <2>3. absent \in [Owners -> 0 .. EvictAt]
    BY DEF Init
  <2> QED
    BY <2>1, <2>2, <2>3 DEF Init, TypeOK
<1>3. Shaped /\ Apart /\ Written /\ Selected
  BY DEF Init, Shaped, Apart, Written, Selected, Idle, Storing
<1>4. RecordBacked
  BY DEF Init, RecordBacked, Recorded
<1> QED
  BY <1>2, <1>3, <1>4 DEF IInv

(* What every change of one request shares: the parts of the invariant that *)
(* are about the requests alone.                                            *)
Requests == (req \in [Procs -> Request]) /\ Shaped /\ Apart /\ Selected

(* A handler takes up a fragment, and an overlap is recorded. *)
LEMMA BeginStep ==
  ASSUME Requests, NEW h \in Handlers, NEW f \in Fragments, NEW r \in Request,
         req[h].op = "idle",
         r.op \notin {"idle", "sweep", "drop"}, r.frag = f, r.todo = {},
         r.op \in Storing => r.size \in Sizes,
         req' = [req EXCEPT ![h] = r],
         tainted' = (tainted \/ BusyOn({f}))
  PROVE  Requests'
<1> USE DEF Requests
<1>1. h # Sweeper /\ h \in Procs /\ Sweeper \in Procs
  OBVIOUS
<1>2. (req \in [Procs -> Request])'
  BY <1>1
<1>3. Shaped'
  BY <1>1 DEF Shaped, Request
<1>4. Apart'
  <2> SUFFICES ASSUME ~tainted',
                      NEW p \in Procs, NEW q \in Procs, p # q, req'[p].frag # None
               PROVE  req'[p].frag # req'[q].frag /\ \A t \in req'[q].todo : t[1] # req'[p].frag
    BY DEF Apart
  <2>1. ~tainted /\ ~BusyOn({f})
    BY Zenon
  <2>2. \A x \in Procs : req[x].frag # f /\ \A t \in req[x].todo : t[1] # f
    BY <2>1 DEF BusyOn, Listed
  <2>3. CASE p = h
    BY <1>1, <2>2, <2>3
  <2>4. CASE q = h
    BY <1>1, <2>2, <2>4
  <2>5. CASE p # h /\ q # h
    BY <1>1, <2>1, <2>5 DEF Apart
  <2> QED
    BY <2>3, <2>4, <2>5
<1>5. Selected'
  BY <1>1 DEF Selected
<1> QED
  BY <1>2, <1>3, <1>4, <1>5

(* A handler goes on with the fragment it has. *)
LEMMA AdvanceStep ==
  ASSUME Requests, NEW h \in Handlers, NEW r \in Request,
         req[h].op # "idle",
         r.op \notin {"idle", "sweep", "drop"}, r.frag = req[h].frag, r.todo = {},
         r.op \in Storing => r.size = req[h].size /\ req[h].op \in Storing,
         req' = [req EXCEPT ![h] = r],
         tainted => tainted'
  PROVE  Requests'
<1> USE DEF Requests
<1>1. h # Sweeper /\ h \in Procs /\ Sweeper \in Procs
  OBVIOUS
<1>2. (req \in [Procs -> Request])'
  BY <1>1
<1>3. Shaped'
  BY <1>1 DEF Shaped, Request
<1>4. Apart'
  BY <1>1 DEF Apart, Shaped
<1>5. Selected'
  BY <1>1 DEF Selected
<1> QED
  BY <1>2, <1>3, <1>4, <1>5

(* A request ends, or is dropped. *)
LEMMA EndStep ==
  ASSUME Requests, NEW p \in Procs,
         req' = [req EXCEPT ![p] = Idle],
         tainted => tainted'
  PROVE  Requests'
<1> USE DEF Requests
<1>1. Idle \in Request /\ Idle.op = "idle" /\ Idle.frag = None /\ Idle.todo = {}
  BY Zenon DEF Idle, Request, Ops
<1>2. (req \in [Procs -> Request])'
  BY <1>1
<1>3. Shaped'
  BY <1>1 DEF Shaped, Storing
<1>4. Apart'
  BY <1>1 DEF Apart
<1>5. Selected'
  BY <1>1 DEF Selected
<1> QED
  BY <1>2, <1>3, <1>4, <1>5

(* The sweep takes up, or puts down, an entry of its list: the list only   *)
(* shrinks.                                                                *)
LEMMA SweepStep ==
  ASSUME Requests, NEW r \in Request,
         req[Sweeper].op \in {"sweep", "drop"},
         r.todo \subseteq req[Sweeper].todo, r.old = req[Sweeper].old,
         \/ r.op = "sweep" /\ r.frag = None
         \/ r.op = "drop" /\ r.frag \in Fragments /\ \E t \in r.todo : t[1] = r.frag,
         req' = [req EXCEPT ![Sweeper] = r],
         tainted => tainted'
  PROVE  Requests'
<1> USE DEF Requests
<1>1. Sweeper \in Procs /\ Sweeper \notin Handlers
  OBVIOUS
<1>2. (req \in [Procs -> Request])'
  BY <1>1
<1>3. Shaped'
  BY <1>1 DEF Shaped
<1>4. Apart'
  <2> SUFFICES ASSUME ~tainted',
                      NEW p \in Procs, NEW q \in Procs, p # q, req'[p].frag # None
               PROVE  req'[p].frag # req'[q].frag /\ \A t \in req'[q].todo : t[1] # req'[p].frag
    BY DEF Apart
  <2>1. CASE p = Sweeper
    <3>1. req'[p] = r /\ req'[q] = req[q] /\ q \in Handlers
      BY <1>1, <2>1
    <3>2. PICK t \in req[Sweeper].todo : t[1] = r.frag
      BY <3>1
    <3>3. req[q].todo = {}
      BY <3>1 DEF Shaped
    <3>4. req[q].frag # r.frag
      BY <3>1, <3>2, <2>1 DEF Apart
    <3> QED
      BY <3>1, <3>3, <3>4
  <2>2. CASE q = Sweeper
    <3>1. req'[q] = r /\ req'[p] = req[p] /\ p \in Handlers
      BY <1>1, <2>2
    <3>2. \A t \in req[Sweeper].todo : t[1] # req[p].frag
      BY <3>1, <2>2 DEF Apart
    <3> QED
      BY <3>1, <3>2
  <2>3. CASE p # Sweeper /\ q # Sweeper
    BY <2>3 DEF Apart
  <2> QED
    BY <2>1, <2>2, <2>3
<1>5. Selected'
  BY <1>1 DEF Selected
<1> QED
  BY <1>2, <1>3, <1>4, <1>5

-----------------------------------------------------------------------------
(* The tables keep their types. *)
Tables ==
    /\ rows \in [Fragments -> Sizes \cup {None}]
    /\ disk \subseteq Fragments
    /\ hosted \in Nat
    /\ absent \in [Owners -> 0 .. EvictAt]
    /\ tainted \in BOOLEAN

(* The invariant is what it says of the requests and of the tables, and how *)
(* they agree.                                                              *)
LEMMA IInvSplit == IInv <=> Requests /\ Tables /\ Written /\ RecordBacked
BY DEF IInv, Requests, Tables, TypeOK

(* hosted_size of a fragment is a number. *)
LEMMA HostedSizeType ==
  ASSUME Tables, NEW f \in Fragments
  PROVE  HostedSize(f) \in Nat
BY Zenon DEF Tables, HostedSize

(* GREATEST(x, 0) is a natural number. *)
LEMMA PlusZeroType == ASSUME NEW x \in Int PROVE PlusZero(x) \in Nat
BY DEF PlusZero

(* A request that touches neither table keeps the agreement, if it has not  *)
(* just become one that records.                                            *)
LEMMA AgreeStep ==
  ASSUME req \in [Procs -> Request], Written, RecordBacked, NEW p \in Procs, NEW r \in Request,
         req' = [req EXCEPT ![p] = r], rows' = rows, disk' = disk,
         tainted => tainted',
         r.op # "record",
         ~tainted' => req[p].op \notin {"forget", "drop"}
  PROVE  Written' /\ RecordBacked'
<1>1. \A q \in Procs : req'[q] = IF q = p THEN r ELSE req[q]
  OBVIOUS
<1>2. Written'
  BY <1>1 DEF Written
<1>3. RecordBacked'
  <2> SUFFICES ASSUME ~tainted', NEW f \in Recorded'
               PROVE  f \in disk' \/ \E q \in Procs : req'[q].frag = f /\ req'[q].op \in {"forget", "drop"}
    BY DEF RecordBacked
  <2>1. f \in Recorded /\ ~tainted
    BY DEF Recorded
  <2>2. CASE f \in disk
    BY <2>2
  <2>3. CASE f \notin disk
    <3>1. PICK q \in Procs : req[q].frag = f /\ req[q].op \in {"forget", "drop"}
      BY <2>1, <2>3 DEF RecordBacked
    <3>2. q # p
      BY <3>1
    <3> QED
      BY <1>1, <3>1, <3>2
  <2> QED
    BY <2>2, <2>3
<1> QED
  BY <1>2, <1>3

-----------------------------------------------------------------------------
(* A request in hand is one, and a busy handler has a fragment. *)
LEMMA InHand ==
  ASSUME Requests, NEW h \in Handlers, req[h].op # "idle"
  PROVE  req[h] \in Request /\ req[h].frag \in Fragments /\ req[h].todo = {}
<1>1. req[h] \in Request
  BY DEF Requests
<1> QED
  BY <1>1 DEF Requests, Shaped, Request

(* StoreShard and DeleteShard begin: the request is noted. *)
LEMMA BeginIInv ==
  ASSUME IInv, NEW h \in Handlers, NEW f \in Fragments,
         (\E n \in Sizes : StoreBegin(h, f, n)) \/ DeleteBegin(h, f)
  PROVE  IInv'
<1>0. Requests /\ Tables /\ Written /\ RecordBacked /\ h \in Procs
  BY IInvSplit
<1>1. PICK r \in Request :
        /\ r.op \in {"check", "look up"} /\ r.frag = f /\ r.todo = {}
        /\ r.op \in Storing => r.size \in Sizes
        /\ req' = [req EXCEPT ![h] = r]
  <2>1. CASE \E n \in Sizes : StoreBegin(h, f, n)
    <3>1. PICK n \in Sizes : StoreBegin(h, f, n)
      BY <2>1
    <3>2. PICK r : r = [Idle EXCEPT !.op = "check", !.frag = f, !.size = n, !.seen = hosted]
      OBVIOUS
    <3>3. r \in Request
      BY <1>0, <3>2, Zenon DEF Idle, Request, Ops, Tables
    <3> QED
      BY <3>1, <3>2, <3>3, Zenon DEF StoreBegin, Idle, Storing
  <2>2. CASE DeleteBegin(h, f)
    <3>1. PICK r : r = [Idle EXCEPT !.op = "look up", !.frag = f]
      OBVIOUS
    <3>2. r \in Request
      BY <3>1, Zenon DEF Idle, Request, Ops
    <3> QED
      BY <2>2, <3>1, <3>2, Zenon DEF DeleteBegin, Idle, Storing
  <2> QED
    BY <2>1, <2>2, Zenon
<1>2. /\ req[h].op = "idle"
      /\ tainted' = (tainted \/ BusyOn({f}))
      /\ UNCHANGED <<rows, disk, hosted, absent>>
  BY Zenon DEF StoreBegin, DeleteBegin
<1>3. Requests'
  BY <1>0, <1>1, <1>2, BeginStep, Zenon
<1>4. Tables'
  <2>1. tainted' \in BOOLEAN
    BY <1>2, Zenon
  <2> QED
    BY <1>0, <1>2, <2>1 DEF Tables
<1>5. Written' /\ RecordBacked'
  <2>1. tainted => tainted'
    BY <1>2, Zenon
  <2> QED
    BY <1>0, <1>1, <1>2, <2>1, AgreeStep, Zenon DEF Requests
<1> QED
  BY <1>3, <1>4, <1>5, IInvSplit, PTL

(* The cap refuses the shard or lets it in. *)
LEMMA StoreCheckIInv ==
  ASSUME IInv, NEW h \in Handlers, StoreCheck(h)
  PROVE  IInv'
<1>0. Requests /\ Tables /\ Written /\ RecordBacked /\ h \in Procs
  BY IInvSplit
<1>1. /\ req[h].op = "check"
      /\ UNCHANGED <<rows, disk, hosted, absent, tainted>>
  BY DEF StoreCheck
<1>2. req[h] \in Request /\ req[h].frag \in Fragments /\ req[h].todo = {}
  BY <1>0, <1>1, InHand
<1>3. PICK old : old = HostedSize(req[h].frag)
  OBVIOUS
<1>4. old \in Nat
  BY <1>0, <1>2, <1>3, HostedSizeType
<1>5. PICK r : r = IF Room(req[h], old) THEN [req[h] EXCEPT !.op = "write", !.old = old] ELSE Idle
  OBVIOUS
<1>6. req' = [req EXCEPT ![h] = r]
  BY <1>3, <1>5 DEF StoreCheck
<1>7. r \in Request
  BY <1>2, <1>4, <1>5, Zenon DEF Request, Ops, Idle
<1>8. Requests'
  <2>1. CASE Room(req[h], old)
    <3>1. r.op = "write" /\ r.frag = req[h].frag /\ r.todo = {} /\ r.size = req[h].size
      BY <1>2, <1>5, <2>1 DEF Request
    <3> QED
      BY <1>0, <1>1, <1>6, <1>7, <3>1, AdvanceStep, Zenon DEF Storing
  <2>2. CASE ~Room(req[h], old)
    BY <1>0, <1>1, <1>5, <1>6, <2>2, EndStep, Zenon
  <2> QED
    BY <2>1, <2>2
<1>9. r.op # "record"
  BY <1>2, <1>5 DEF Request, Idle
<1>10. Written' /\ RecordBacked'
  BY <1>0, <1>1, <1>6, <1>7, <1>9, AgreeStep, Zenon DEF Requests
<1>11. Tables'
  BY <1>0, <1>1 DEF Tables
<1> QED
  BY <1>8, <1>10, <1>11, IInvSplit, PTL

(* The shard is written before its row: the file of the row to come. *)
LEMMA StoreWriteIInv ==
  ASSUME IInv, NEW h \in Handlers, StoreWrite(h)
  PROVE  IInv'
<1>0. Requests /\ Tables /\ Written /\ RecordBacked /\ h \in Procs
  BY IInvSplit
<1>1. /\ req[h].op = "write"
      /\ disk' = disk \cup {req[h].frag}
      /\ UNCHANGED <<rows, hosted, absent, tainted>>
  BY DEF StoreWrite
<1>2. req[h] \in Request /\ req[h].frag \in Fragments /\ req[h].todo = {}
  BY <1>0, <1>1, InHand
<1>3. PICK r : r = [req[h] EXCEPT !.op = "record"]
  BY Zenon
<1>4. req' = [req EXCEPT ![h] = r]
  BY <1>3 DEF StoreWrite
<1>5. /\ r \in Request /\ r.op = "record" /\ r.frag = req[h].frag
      /\ r.todo = {} /\ r.size = req[h].size
  BY <1>2, <1>3, Zenon DEF Request, Ops
<1>6. Requests'
  BY <1>0, <1>1, <1>4, <1>5, AdvanceStep, Zenon DEF Storing
<1>7. \A q \in Procs : req'[q] = IF q = h THEN r ELSE req[q]
  BY <1>0, <1>4 DEF Requests
<1>8. Written'
  BY <1>0, <1>1, <1>5, <1>7 DEF Written
<1>9. RecordBacked'
  BY <1>0, <1>1, <1>5, <1>7 DEF RecordBacked, Recorded
<1>10. Tables'
  BY <1>0, <1>1, <1>2 DEF Tables
<1> QED
  BY <1>6, <1>8, <1>9, <1>10, IInvSplit, PTL

(* The row is recorded: its file is there, and nobody is removing it. *)
LEMMA StoreRecordIInv ==
  ASSUME IInv, NEW h \in Handlers, StoreRecord(h)
  PROVE  IInv'
<1>0. Requests /\ Tables /\ Written /\ RecordBacked /\ h \in Procs
  BY IInvSplit
<1>1. /\ req[h].op = "record"
      /\ rows' = [rows EXCEPT ![req[h].frag] = req[h].size]
      /\ UNCHANGED <<disk, hosted, absent, tainted>>
  BY Zenon DEF StoreRecord
<1>2. req[h] \in Request /\ req[h].frag \in Fragments /\ req[h].todo = {}
  BY <1>0, <1>1, InHand
<1>3. PICK r : r = [req[h] EXCEPT !.op = "settle store"]
  BY Zenon
<1>4. req' = [req EXCEPT ![h] = r]
  BY <1>3, Zenon DEF StoreRecord
<1>5. r \in Request /\ r.op = "settle store" /\ r.frag = req[h].frag /\ r.todo = {}
  BY <1>2, <1>3, Zenon DEF Request, Ops
<1>6. Requests'
  BY <1>0, <1>1, <1>4, <1>5, AdvanceStep, Zenon DEF Storing
<1>7. \A q \in Procs : req'[q] = IF q = h THEN r ELSE req[q]
  BY <1>0, <1>4 DEF Requests
<1>8. Written'
  BY <1>0, <1>1, <1>5, <1>7, Zenon DEF Written
<1>9. RecordBacked'
  <2>1. ~tainted => req[h].frag \in disk
    BY <1>0, <1>1 DEF Written
  <2>2. \A f \in Recorded' : f = req[h].frag \/ f \in Recorded
    BY <1>0, <1>1, <1>2 DEF Recorded, Tables
  <2> QED
    BY <1>0, <1>1, <1>7, <2>1, <2>2 DEF RecordBacked
<1>10. req[h].size \in Sizes
  BY <1>0, <1>1 DEF Requests, Shaped, Storing
<1>11. Tables'
  BY <1>0, <1>1, <1>2, <1>10 DEF Tables
<1> QED
  BY <1>6, <1>8, <1>9, <1>11, IInvSplit, PTL

(* A settlement ends its request and touches the total only. *)
LEMMA SettleIInv ==
  ASSUME IInv, NEW p \in Procs,
         \/ p \in Handlers /\ (StoreSettle(p) \/ DeleteSettle(p))
         \/ p = Sweeper /\ SweepSettle
  PROVE  IInv'
<1>0. Requests /\ Tables /\ Written /\ RecordBacked
  BY IInvSplit
<1>1. /\ req[p].op \notin {"forget", "drop"}
      /\ req' = [req EXCEPT ![p] = Idle]
      /\ UNCHANGED <<rows, disk, absent, tainted>>
  BY Zenon DEF StoreSettle, DeleteSettle, SweepSettle
<1>2. hosted' \in Nat
  <2>1. req[p] \in Request /\ hosted \in Nat
    BY <1>0 DEF Requests, Tables
  <2>2. req[p].size \in Nat /\ req[p].old \in Nat /\ req[p].freed \in Nat
    BY <2>1 DEF Request
  <2>3. /\ hosted + req[p].size - req[p].old \in Int
        /\ hosted - req[p].old \in Int
        /\ hosted - req[p].freed \in Int
    BY <2>1, <2>2
  <2> QED
    BY <2>3, PlusZeroType, Zenon DEF StoreSettle, DeleteSettle, SweepSettle
<1>3. Requests'
  BY <1>0, <1>1, EndStep, Zenon
<1>4. Idle \in Request /\ Idle.op # "record"
  BY DEF Idle, Request, Ops
<1>5. Written' /\ RecordBacked'
  BY <1>0, <1>1, <1>4, AgreeStep, Zenon DEF Requests
<1>6. Tables'
  BY <1>0, <1>1, <1>2 DEF Tables
<1> QED
  BY <1>3, <1>5, <1>6, IInvSplit, PTL

(* A delete reads the size it will give back. *)
LEMMA DeleteLookUpIInv ==
  ASSUME IInv, NEW h \in Handlers, DeleteLookUp(h)
  PROVE  IInv'
<1>0. Requests /\ Tables /\ Written /\ RecordBacked /\ h \in Procs
  BY IInvSplit
<1>1. /\ req[h].op = "look up"
      /\ UNCHANGED <<rows, disk, hosted, absent, tainted>>
  BY Zenon DEF DeleteLookUp
<1>2. req[h] \in Request /\ req[h].frag \in Fragments /\ req[h].todo = {}
  BY <1>0, <1>1, InHand, Zenon
<1>3. PICK old : old = HostedSize(req[h].frag)
  OBVIOUS
<1>4. old \in Nat
  BY <1>0, <1>2, <1>3, HostedSizeType
<1>5. PICK r : r = [req[h] EXCEPT !.op = "unlink", !.old = old]
  OBVIOUS
<1>6. r \in Request /\ r.op = "unlink" /\ r.frag = req[h].frag /\ r.todo = {}
  BY <1>2, <1>4, <1>5, Zenon DEF Request, Ops
<1>7. req' = [req EXCEPT ![h] = r]
  BY <1>0, <1>2, <1>3, <1>5, Zenon DEF DeleteLookUp, Requests, Request
<1>8. Requests'
  BY <1>0, <1>1, <1>6, <1>7, AdvanceStep, Zenon DEF Storing
<1>9. Written' /\ RecordBacked'
  BY <1>0, <1>1, <1>6, <1>7, AgreeStep, Zenon DEF Requests
<1>10. Tables'
  BY <1>0, <1>1, Zenon DEF Tables
<1> QED
  BY <1>8, <1>9, <1>10, IInvSplit, PTL

(* A file is unlinked by the one request that works on its fragment. *)
LEMMA UnlinkAgree ==
  ASSUME Requests, Written, RecordBacked,
         NEW p \in Procs, NEW f \in Fragments, NEW r \in Request,
         \/ req[p].frag = f /\ req[p].op = "unlink"
         \/ req[p].op = "sweep" /\ \E t \in req[p].todo : t[1] = f,
         r.frag = f, r.op \in {"forget", "drop"},
         req' = [req EXCEPT ![p] = r],
         disk' = disk \ {f}, UNCHANGED <<rows, tainted>>
  PROVE  Written' /\ RecordBacked'
<1>1. \A q \in Procs : req'[q] = IF q = p THEN r ELSE req[q]
  BY DEF Requests
<1>2. Written'
  <2> SUFFICES ASSUME ~tainted', NEW q \in Procs, req'[q].op = "record"
               PROVE  req'[q].frag \in disk'
    BY DEF Written
  <2>1. q # p /\ req'[q] = req[q] /\ ~tainted
    BY <1>1
  <2>2. req[q].frag \in disk
    BY <2>1 DEF Written
  <2>3. req[q].frag # None
    BY <2>1 DEF Requests, Shaped
  <2>4. req[q].frag # f
    BY <2>1, <2>3 DEF Requests, Apart
  <2> QED
    BY <2>1, <2>2, <2>4
<1>3. RecordBacked'
  <2> SUFFICES ASSUME ~tainted', NEW g \in Recorded'
               PROVE  g \in disk' \/ \E q \in Procs : req'[q].frag = g /\ req'[q].op \in {"forget", "drop"}
    BY DEF RecordBacked
  <2>1. g \in Recorded /\ ~tainted
    BY DEF Recorded
  <2>2. CASE g = f
    BY <1>1, <2>2
  <2>3. CASE g # f
    BY <1>1, <2>1, <2>3 DEF RecordBacked
  <2> QED
    BY <2>2, <2>3
<1> QED
  BY <1>2, <1>3

(* A row is deleted by the one request that has unlinked its file. *)
LEMMA ForgetAgree ==
  ASSUME Requests, Tables, Written, RecordBacked,
         NEW p \in Procs, NEW f \in Fragments, NEW r \in Request,
         req[p].frag = f, r.op # "record",
         req' = [req EXCEPT ![p] = r],
         rows' = [rows EXCEPT ![f] = None], UNCHANGED <<disk, tainted>>
  PROVE  Written' /\ RecordBacked'
<1>1. \A q \in Procs : req'[q] = IF q = p THEN r ELSE req[q]
  BY DEF Requests
<1>2. Written'
  BY <1>1 DEF Written
<1>3. Recorded' = Recorded \ {f}
  BY DEF Recorded, Tables
<1>4. RecordBacked'
  <2> SUFFICES ASSUME ~tainted', NEW g \in Recorded'
               PROVE  g \in disk' \/ \E q \in Procs : req'[q].frag = g /\ req'[q].op \in {"forget", "drop"}
    BY DEF RecordBacked
  <2>1. g \in Recorded /\ g # f /\ ~tainted
    BY <1>3
  <2>2. CASE g \in disk
    BY <2>2
  <2>3. CASE g \notin disk
    <3>1. PICK q \in Procs : req[q].frag = g /\ req[q].op \in {"forget", "drop"}
      BY <2>1, <2>3 DEF RecordBacked
    <3>2. q # p
      BY <2>1, <3>1
    <3> QED
      BY <1>1, <3>1, <3>2
  <2> QED
    BY <2>2, <2>3
<1> QED
  BY <1>2, <1>4

(* A delete unlinks the file, then deletes the row. *)
LEMMA DeleteIInv ==
  ASSUME IInv, NEW h \in Handlers, DeleteUnlink(h) \/ DeleteForget(h)
  PROVE  IInv'
<1>0. Requests /\ Tables /\ Written /\ RecordBacked /\ h \in Procs
  BY IInvSplit
<1>1. req[h].op \in {"unlink", "forget"}
  BY Zenon DEF DeleteUnlink, DeleteForget
<1>2. req[h] \in Request /\ req[h].frag \in Fragments /\ req[h].todo = {}
  BY <1>0, <1>1, InHand
<1>3. PICK f : f = req[h].frag
  OBVIOUS
<1>4. PICK r : r = [req[h] EXCEPT !.op = IF req[h].op = "unlink" THEN "forget" ELSE "settle delete"]
  BY Zenon
<1>5. /\ r \in Request /\ r.frag = f /\ r.todo = {}
      /\ r.op = IF req[h].op = "unlink" THEN "forget" ELSE "settle delete"
  BY <1>2, <1>3, <1>4, Zenon DEF Request, Ops
<1>6. req' = [req EXCEPT ![h] = r] /\ UNCHANGED <<hosted, absent, tainted>>
  BY <1>4, Zenon DEF DeleteUnlink, DeleteForget
<1>7. Requests'
  BY <1>0, <1>1, <1>3, <1>5, <1>6, AdvanceStep, Zenon DEF Storing
<1>8. CASE DeleteUnlink(h)
  <2>1. req[h].op = "unlink" /\ disk' = disk \ {f} /\ UNCHANGED <<rows, tainted>>
    BY <1>3, <1>8 DEF DeleteUnlink
  <2>2. Written' /\ RecordBacked'
    BY <1>0, <1>2, <1>3, <1>5, <1>6, <2>1, UnlinkAgree, Zenon
  <2>3. Tables'
    BY <1>0, <1>6, <2>1 DEF Tables
  <2> QED
    BY <1>7, <2>2, <2>3, IInvSplit, PTL
<1>9. CASE DeleteForget(h)
  <2>1. req[h].op = "forget" /\ rows' = [rows EXCEPT ![f] = None] /\ UNCHANGED <<disk, tainted>>
    BY <1>3, <1>9, Zenon DEF DeleteForget
  <2>2. Written' /\ RecordBacked'
    BY <1>0, <1>2, <1>3, <1>5, <1>6, <2>1, ForgetAgree, Zenon
  <2>3. Tables'
    BY <1>0, <1>2, <1>3, <1>6, <2>1 DEF Tables
  <2> QED
    BY <1>7, <2>2, <2>3, IInvSplit, PTL
<1> QED
  BY <1>8, <1>9

-----------------------------------------------------------------------------
(* The sweep lists what the thresholds allow. *)
LEMMA SweepBeginIInv ==
  ASSUME IInv, NEW o \in Owners, SweepBegin(o)
  PROVE  IInv'
<1>0. Requests /\ Tables /\ Written /\ RecordBacked /\ Sweeper \in Procs
  BY IInvSplit
<1>1. PICK F : F = Reclaimable(o)
  OBVIOUS
<1>2. PICK r : r = [Idle EXCEPT !.op = "sweep", !.old = absent[o],
                                !.todo = {<<f, rows[f]>> : f \in F}]
  BY Zenon
<1>3. /\ req[Sweeper].op = "idle"
      /\ req' = [req EXCEPT ![Sweeper] = r]
      /\ tainted' = (tainted \/ BusyOn(F))
      /\ UNCHANGED <<rows, disk, hosted, absent>>
  BY <1>1, <1>2 DEF SweepBegin
<1>4. /\ F \subseteq Fragments
      /\ \A f \in F : rows[f] \in Sizes /\ (f \in Parity \/ absent[o] >= EvictAt)
  BY <1>0, <1>1 DEF Reclaimable, Recorded, Tables
<1>5. /\ r.op = "sweep" /\ r.frag = None /\ r.old = absent[o]
      /\ r.todo = {<<f, rows[f]>> : f \in F}
  BY <1>2 DEF Idle
<1>6. r \in Request
  <2>1. {<<f, rows[f]>> : f \in F} \in SUBSET (Fragments \X Sizes)
    BY <1>4
  <2>2. absent[o] \in Nat
    BY <1>0 DEF Tables
  <2> QED
    BY <1>2, <2>1, <2>2, Zenon DEF Idle, Request, Ops
<1>7. \A q \in Procs : req'[q] = IF q = Sweeper THEN r ELSE req[q]
  BY <1>0, <1>3 DEF Requests
<1>8. Requests'
  <2>1. (req \in [Procs -> Request])'
    BY <1>0, <1>3, <1>6 DEF Requests
  <2>2. Shaped'
    BY <1>0, <1>5, <1>7 DEF Requests, Shaped
  <2>3. \A t \in r.todo : t[1] \in F
    BY <1>5
  <2>4. Apart'
    <3> SUFFICES ASSUME ~tainted',
                        NEW p \in Procs, NEW q \in Procs, p # q, req'[p].frag # None
                 PROVE  req'[p].frag # req'[q].frag /\ \A t \in req'[q].todo : t[1] # req'[p].frag
      BY DEF Apart
    <3>1. ~tainted /\ ~BusyOn(F)
      BY <1>3, Zenon
    <3>2. p # Sweeper /\ req'[p] = req[p]
      BY <1>5, <1>7
    <3>3. req[p].frag \notin F
      BY <3>1 DEF BusyOn
    <3>4. CASE q = Sweeper
      BY <1>5, <1>7, <2>3, <3>2, <3>3, <3>4
    <3>5. CASE q # Sweeper
      BY <1>0, <1>7, <3>1, <3>2, <3>5 DEF Requests, Apart
    <3> QED
      BY <3>4, <3>5
  <2>5. Selected'
    BY <1>0, <1>4, <1>5, <1>7, <2>3 DEF Selected
  <2> QED
    BY <2>1, <2>2, <2>4, <2>5 DEF Requests
<1>9. Tables'
  <2>1. tainted' \in BOOLEAN
    BY <1>3, Zenon
  <2> QED
    BY <1>0, <1>3, <2>1 DEF Tables
<1>10. Written' /\ RecordBacked'
  <2>1. tainted => tainted'
    BY <1>3, Zenon
  <2> QED
    BY <1>0, <1>3, <1>5, <1>6, <2>1, AgreeStep, Zenon DEF Requests
<1> QED
  BY <1>8, <1>9, <1>10, IInvSplit, PTL

(* The sweep unlinks the file of a listed shard. *)
LEMMA SweepUnlinkIInv ==
  ASSUME IInv, NEW f \in Fragments, SweepUnlink(f)
  PROVE  IInv'
<1>0. Requests /\ Tables /\ Written /\ RecordBacked /\ Sweeper \in Procs
  BY IInvSplit
<1>1. /\ req[Sweeper].op = "sweep"
      /\ disk' = disk \ {f}
      /\ UNCHANGED <<rows, hosted, absent, tainted>>
  BY DEF SweepUnlink
<1>2. req[Sweeper] \in Request
  BY <1>0 DEF Requests
<1>3. \E t \in req[Sweeper].todo : t[1] = f
  BY DEF SweepUnlink, Listed
<1>4. PICK r : r = [req[Sweeper] EXCEPT !.op = "drop", !.frag = f]
  OBVIOUS
<1>5. /\ r \in Request /\ r.op = "drop" /\ r.frag = f
      /\ r.todo = req[Sweeper].todo /\ r.old = req[Sweeper].old
  BY <1>2, <1>4, Zenon DEF Request, Ops
<1>6. req' = [req EXCEPT ![Sweeper] = r]
  BY <1>0, <1>2, <1>4, Zenon DEF SweepUnlink, Requests, Request
<1>7. Requests'
  BY <1>0, <1>1, <1>3, <1>5, <1>6, SweepStep, Zenon
<1>8. Written' /\ RecordBacked'
  BY <1>0, <1>1, <1>3, <1>5, <1>6, UnlinkAgree, Zenon
<1>9. Tables'
  BY <1>0, <1>1 DEF Tables
<1> QED
  BY <1>7, <1>8, <1>9, IInvSplit, PTL

(* The sweep is done with an entry, whatever became of the row. *)
LEMMA SweptRowStep ==
  ASSUME Requests, NEW deleted \in BOOLEAN, req[Sweeper].op = "drop"
  PROVE  \E r \in Request, t \in req[Sweeper].todo :
            /\ r.op = "sweep" /\ r.frag = None
            /\ r.todo \subseteq req[Sweeper].todo /\ r.old = req[Sweeper].old
            /\ t[1] = req[Sweeper].frag /\ r.todo = req[Sweeper].todo \ {t}
            /\ r.freed = req[Sweeper].freed + IF deleted THEN t[2] ELSE 0
            /\ SweptRow(deleted) = [req EXCEPT ![Sweeper] = r]
<1>1. PICK t : t = Listing(req[Sweeper].frag)
  OBVIOUS
<1>2. t \in req[Sweeper].todo /\ t[1] = req[Sweeper].frag
  BY <1>1 DEF Listing, Requests, Shaped
<1>3. req[Sweeper] \in Request /\ Sweeper \in Procs /\ req \in [Procs -> Request]
  BY DEF Requests
<1>4. t[2] \in Nat
  BY <1>2, <1>3, Zenon DEF Request
<1>5. PICK n \in Nat : n = IF deleted THEN t[2] ELSE 0
  BY <1>4
<1>6. PICK r : r = [req[Sweeper] EXCEPT !.op = "sweep", !.frag = None,
                                        !.todo = @ \ {t}, !.freed = @ + n]
  OBVIOUS
<1>7. /\ r \in Request /\ r.op = "sweep" /\ r.frag = None
      /\ r.todo \subseteq req[Sweeper].todo /\ r.old = req[Sweeper].old
      /\ r.todo = req[Sweeper].todo \ {t} /\ r.freed = req[Sweeper].freed + n
  <2>1. PICK rest : rest = req[Sweeper].todo \ {t}
    BY Zenon
  <2>2. PICK freed : freed = req[Sweeper].freed + n
    OBVIOUS
  <2>3. rest \in SUBSET (Fragments \X Sizes) /\ rest \subseteq req[Sweeper].todo
    BY <1>3, <2>1 DEF Request
  <2>4. freed \in Nat
    BY <1>3, <1>5, <2>2 DEF Request
  <2>5. r = [req[Sweeper] EXCEPT !.op = "sweep", !.frag = None, !.todo = rest, !.freed = freed]
    BY <1>6, <2>1, <2>2
  <2> QED
    BY <1>3, <2>1, <2>2, <2>3, <2>4, <2>5, Zenon DEF Request, Ops
<1>8. SweptRow(deleted) = [req EXCEPT ![Sweeper] = r]
  BY <1>1, <1>3, <1>5, <1>6, Zenon DEF SweptRow, Request
<1> QED
  BY <1>2, <1>5, <1>7, <1>8, Zenon

(* The sweep deletes the row of the file it has unlinked. *)
LEMMA SweepDropIInv ==
  ASSUME IInv, SweepDrop
  PROVE  IInv'
<1>0. Requests /\ Tables /\ Written /\ RecordBacked /\ Sweeper \in Procs
  BY IInvSplit
<1>1. PICK f : f = req[Sweeper].frag
  OBVIOUS
<1>2. PICK deleted \in BOOLEAN : deleted = (rows[f] # None)
  BY Zenon
<1>3. /\ req[Sweeper].op = "drop"
      /\ rows' = [rows EXCEPT ![f] = None]
      /\ req' = SweptRow(deleted)
      /\ UNCHANGED <<disk, hosted, absent, tainted>>
  BY <1>1, <1>2 DEF SweepDrop
<1>4. f \in Fragments
  BY <1>0, <1>1, <1>3 DEF Requests, Shaped
<1>5. PICK r \in Request :
         /\ r.op = "sweep" /\ r.frag = None
         /\ r.todo \subseteq req[Sweeper].todo /\ r.old = req[Sweeper].old
         /\ SweptRow(deleted) = [req EXCEPT ![Sweeper] = r]
  BY <1>0, <1>3, SweptRowStep
<1>6. req' = [req EXCEPT ![Sweeper] = r]
  BY <1>3, <1>5
<1>7. Requests'
  BY <1>0, <1>3, <1>5, <1>6, SweepStep, Zenon
<1>8. Written' /\ RecordBacked'
  BY <1>0, <1>1, <1>3, <1>4, <1>5, <1>6, ForgetAgree, Zenon
<1>9. Tables'
  BY <1>0, <1>3, <1>4 DEF Tables
<1> QED
  BY <1>7, <1>8, <1>9, IInvSplit, PTL

-----------------------------------------------------------------------------
(* A request that fails after it removed a file taints the books. *)
LEMMA FailIInv ==
  ASSUME IInv, NEW p \in Procs, Fail(p)
  PROVE  IInv'
<1>0. Requests /\ Tables /\ Written /\ RecordBacked
  BY IInvSplit
<1>1. /\ req' = [req EXCEPT ![p] = Idle]
      /\ tainted' = (tainted \/ req[p].op \notin {"write", "record", "unlink"})
      /\ UNCHANGED <<rows, disk, hosted, absent>>
  BY Zenon DEF Fail
<1>2. (tainted => tainted') /\ (~tainted' => req[p].op \notin {"forget", "drop"})
  BY <1>1, Zenon
<1>3. Requests'
  BY <1>0, <1>1, <1>2, EndStep, Zenon
<1>4. Idle \in Request /\ Idle.op # "record"
  BY DEF Idle, Request, Ops
<1>5. Written' /\ RecordBacked'
  BY <1>0, <1>1, <1>2, <1>4, AgreeStep, Zenon DEF Requests
<1>6. Tables'
  <2>1. tainted' \in BOOLEAN
    BY <1>1, Zenon
  <2> QED
    BY <1>0, <1>1, <2>1 DEF Tables
<1> QED
  BY <1>3, <1>5, <1>6, IInvSplit, PTL

(* So does a file or a row that is passed over. *)
LEMMA PassOverIInv ==
  ASSUME IInv, NEW p \in Procs, PassOver(p)
  PROVE  IInv'
<1>0. Requests /\ Tables
  BY IInvSplit
<1>1. tainted' = TRUE /\ UNCHANGED <<rows, disk, hosted, absent>>
  BY Zenon DEF PassOver
<1>2. Requests'
  <2>1. CASE req[p].op = "drop" /\ req' = SweptRow(FALSE)
    <3>1. p = Sweeper
      BY <1>0, <2>1 DEF Requests, Shaped
    <3>2. PICK r \in Request :
             /\ r.op = "sweep" /\ r.frag = None
             /\ r.todo \subseteq req[Sweeper].todo /\ r.old = req[Sweeper].old
             /\ SweptRow(FALSE) = [req EXCEPT ![Sweeper] = r]
      BY <1>0, <2>1, <3>1, SweptRowStep, Zenon
    <3>3. req' = [req EXCEPT ![Sweeper] = r]
      BY <2>1, <3>2, Zenon
    <3> QED
      BY <1>0, <1>1, <2>1, <3>1, <3>2, <3>3, SweepStep, Zenon
  <2>2. CASE \E op \in {"forget", "settle delete"} :
                req[p].op \in {"unlink", "forget"} /\ req' = [req EXCEPT ![p].op = op]
    <3>1. p \in Handlers
      BY <1>0, <2>2, Zenon DEF Requests, Shaped
    <3>2. req[p] \in Request /\ req[p].todo = {}
      BY <1>0, <2>2, <3>1, InHand, Zenon
    <3>3. PICK op \in {"forget", "settle delete"} :
                req[p].op \in {"unlink", "forget"} /\ req' = [req EXCEPT ![p].op = op]
      BY <2>2, Zenon
    <3>4. PICK r : r = [req[p] EXCEPT !.op = op]
      BY Zenon
    <3>5. r \in Request /\ r.op = op /\ r.frag = req[p].frag /\ r.todo = {}
      BY <3>2, <3>4, Zenon DEF Request, Ops
    <3>6. req' = [req EXCEPT ![p] = r]
      BY <3>3, <3>4, Zenon
    <3> QED
      BY <1>0, <1>1, <3>1, <3>3, <3>5, <3>6, AdvanceStep, Zenon DEF Storing
  <2> QED
    BY <2>1, <2>2, Zenon DEF PassOver
<1>3. Written' /\ RecordBacked'
  BY <1>1 DEF Written, RecordBacked
<1>4. Tables'
  BY <1>0, <1>1 DEF Tables
<1> QED
  BY <1>2, <1>3, <1>4, IInvSplit, PTL

(* The passing of days and the return of owners touch no request. *)
LEMMA AbsenceIInv ==
  ASSUME IInv, NEW o \in Owners, DayPasses(o) \/ Seen(o)
  PROVE  IInv'
<1>0. Requests /\ Tables /\ Written /\ RecordBacked
  BY IInvSplit
<1>1. UNCHANGED <<rows, disk, hosted, req, tainted>>
  BY DEF DayPasses, Seen
<1>2. Tables'
  BY <1>0, <1>1 DEF Tables, DayPasses, Seen
<1>3. Requests'
  BY <1>0, <1>1 DEF Requests, Shaped, Apart, Selected
<1>4. Written' /\ RecordBacked'
  BY <1>0, <1>1 DEF Written, RecordBacked, Recorded
<1> QED
  BY <1>2, <1>3, <1>4, IInvSplit, PTL

(* Every step keeps the invariant. *)
LEMMA StepIInv == IInv /\ [Next]_vars => IInv'
<1> SUFFICES ASSUME IInv, [Next]_vars PROVE IInv'
  OBVIOUS
<1>1. ASSUME NEW h \in Handlers, NEW f \in Fragments, NEW n \in Sizes, StoreBegin(h, f, n)
      PROVE  IInv'
  BY <1>1, BeginIInv
<1>2. ASSUME NEW h \in Handlers, NEW f \in Fragments, DeleteBegin(h, f) PROVE IInv'
  BY <1>2, BeginIInv
<1>3. ASSUME NEW h \in Handlers, StoreCheck(h) PROVE IInv'
  BY <1>3, StoreCheckIInv
<1>4. ASSUME NEW h \in Handlers, StoreWrite(h) PROVE IInv'
  BY <1>4, StoreWriteIInv
<1>5. ASSUME NEW h \in Handlers, StoreRecord(h) PROVE IInv'
  BY <1>5, StoreRecordIInv
<1>6. ASSUME NEW h \in Handlers, StoreSettle(h) \/ DeleteSettle(h) PROVE IInv'
  BY <1>6, SettleIInv
<1>7. ASSUME NEW h \in Handlers, DeleteLookUp(h) PROVE IInv'
  BY <1>7, DeleteLookUpIInv
<1>8. ASSUME NEW h \in Handlers, DeleteUnlink(h) \/ DeleteForget(h) PROVE IInv'
  BY <1>8, DeleteIInv
<1>9. ASSUME NEW o \in Owners, SweepBegin(o) PROVE IInv'
  BY <1>9, SweepBeginIInv
<1>10. ASSUME NEW f \in Fragments, SweepUnlink(f) PROVE IInv'
  BY <1>10, SweepUnlinkIInv
<1>11. CASE SweepDrop
  BY <1>11, SweepDropIInv
<1>12. CASE SweepSettle
  BY <1>12, SettleIInv
<1>13. ASSUME NEW p \in Procs, Fail(p) PROVE IInv'
  BY <1>13, FailIInv
<1>14. ASSUME NEW p \in Procs, PassOver(p) PROVE IInv'
  BY <1>14, PassOverIInv
<1>15. ASSUME NEW o \in Owners, DayPasses(o) \/ Seen(o) PROVE IInv'
  BY <1>15, AbsenceIInv
<1>16. CASE UNCHANGED vars
  BY <1>16 DEF vars, IInv, TypeOK, Shaped, Apart, Written, Selected, RecordBacked, Recorded
<1> QED
  BY <1>1, <1>2, <1>3, <1>4, <1>5, <1>6, <1>7, <1>8, <1>9, <1>10, <1>11, <1>12, <1>13,
     <1>14, <1>15, <1>16 DEF Next

-----------------------------------------------------------------------------
(* The inductive invariant holds: among other things, until the first       *)
(* overlap or failure no two requests work on one fragment, and what the    *)
(* sweep has listed was past its threshold (p2p.rs, retention.rs).          *)
THEOREM HostingInvariance == Spec => []IInv
BY InitIInv, StepIInv, PTL DEF Spec

(* A recorded shard has its file, but for the request that is removing it,  *)
(* for any number of concurrent StoreShard and DeleteShard handlers and the *)
(* retention sweep.                                                         *)
THEOREM RecordsBacked == Spec => []RecordBacked
<1>1. IInv => RecordBacked
  BY DEF IInv
<1> QED
  BY <1>1, HostingInvariance, PTL

(* The retention sweep removes a data shard only for an owner that was past *)
(* the eviction threshold when its rows were selected.                      *)
THEOREM DataKept == Spec => DataKeptUntilEviction
<1>1. IInv /\ [Next]_vars =>
         [\A f \in Fragments \ Parity :
             /\ f \in Listed(Sweeper)
             /\ req'[Sweeper] # req[Sweeper]
             /\ f \in disk \ disk' \/ rows'[f] # rows[f]
             => req[Sweeper].old >= EvictAt]_vars
  BY DEF IInv, Selected, Listed
<1> QED
  BY <1>1, HostingInvariance, PTL DEF Spec, DataKeptUntilEviction
-----------------------------------------------------------------------------
(* The books *)

Weight(n) == IF n = None THEN 0 ELSE n

(* How much a store may still add to the recorded sizes: the reading it was or will *)
(* be let in on bounds what it adds, and so does the size of a shard.               *)
Growth(r) ==
    IF r.op = "check"
    THEN IF MaxSize <= PlusZero(Contributed - r.seen) THEN MaxSize ELSE PlusZero(Contributed - r.seen)
    ELSE IF r.op \in {"write", "record"} THEN PlusZero(r.size - r.old) ELSE 0

(* The fragments whose new size the total does not have yet. *)
Settling(rq) ==
    {f \in Fragments : \E p \in Procs : rq[p].op = "settle store" /\ rq[p].frag = f}
Kept(n, f, Q) == IF f \in Q THEN 0 ELSE Weight(n)

Weights(rs) == SumFunctionOnSet([f \in Fragments |-> Weight(rs[f])], Fragments)
Keeps(rs, Q) == SumFunctionOnSet([f \in Fragments |-> Kept(rs[f], f, Q)], Fragments)
Debts(rq) == SumFunctionOnSet([p \in Procs |-> Debt(rq[p])], Procs)
Dues(rq) == SumFunctionOnSet([p \in Procs |-> Due(rq[p])], Procs)
Growths(rq) == SumFunctionOnSet([p \in Procs |-> Growth(rq[p])], Procs)

(* What a request knows of its fragments still holds when it acts on them. *)
Knows(r, rs) ==
    /\ r.op \in {"write", "record", "unlink", "forget"} => r.old = Weight(rs[r.frag])
    /\ r.op = "settle store" => rs[r.frag] = r.size
    /\ \A t \in r.todo : rs[t[1]] = t[2]

Ceiling == Contributed + (Cardinality(Handlers) - 1) * MaxSize

(* The total is what requests will take off it and the rows it has; with what they *)
(* have not settled it is what the rows have, and that stays below the ceiling.    *)
Account(rq, rs, Q, h) ==
    /\ h = Debts(rq) + Keeps(rs, Q)
    /\ h + Dues(rq) = Weights(rs)
    /\ Weights(rs) + Growths(rq) <= Ceiling

BooksAt(rq, rs, h) ==
    /\ \A p \in Procs : Knows(rq[p], rs)
    /\ Account(rq, rs, Settling(rq), h)
Books == BooksAt(req, rows, hosted)

HInv == IInv /\ (~tainted => Books)

(* The largest size of a shard. *)
LEMMA MaxSizeIs == MaxSize \in Nat /\ \A n \in Sizes : n <= MaxSize
<1>1. \E m \in Sizes : \A k \in Sizes : k <= m
  BY LargestNatural
<1>2. \E m \in Sizes : \A k \in Sizes : m >= k
  BY <1>1
<1>3. MaxSize \in Sizes /\ \A k \in Sizes : MaxSize >= k
  BY <1>2, Zenon DEF MaxSize, Max
<1> QED
  BY <1>3

(* The most the recorded sizes can come to is a number. *)
LEMMA CeilingType == Ceiling \in Int
<1>1. PICK k : k = Cardinality(Handlers)
  OBVIOUS
<1>2. k \in Nat
  BY <1>1, FS_CardinalityType
<1> QED
  BY <1>1, <1>2, MaxSizeIs DEF Ceiling

(* The terms of the sums are numbers. *)
LEMMA BookTerms ==
  /\ \A n \in Sizes \cup {None} : Weight(n) \in Nat
  /\ \A r \in Request : Debt(r) \in Nat /\ Due(r) \in Int /\ Growth(r) \in Nat
<1>1. \A n \in Sizes \cup {None} : Weight(n) \in Nat
  BY DEF Weight
<1>2. ASSUME NEW r \in Request PROVE Debt(r) \in Nat /\ Due(r) \in Int /\ Growth(r) \in Nat
  <2>1. r.size \in Nat /\ r.seen \in Nat /\ r.old \in Nat /\ r.freed \in Nat
    BY DEF Request
  <2>2. Debt(r) \in Nat
    BY <2>1, Zenon DEF Debt
  <2>3. Due(r) \in Int
    <3>1. PICK n : n = IF r.op = "settle store" THEN r.size ELSE 0
      BY Zenon
    <3>2. n \in Nat /\ Due(r) = n - Debt(r)
      BY <2>1, <3>1, Zenon DEF Due
    <3> QED
      BY <2>2, <3>2
  <2>4. PlusZero(Contributed - r.seen) \in Nat /\ PlusZero(r.size - r.old) \in Nat
    BY <2>1, PlusZeroType
  <2>5. Growth(r) \in Nat
    BY <2>4, MaxSizeIs DEF Growth
  <2> QED
    BY <2>2, <2>3, <2>5
<1> QED
  BY <1>1, <1>2

(* A node serves finitely many connections. *)
LEMMA FiniteProcs == IsFiniteSet(Procs)
BY FS_AddElement

(* One request changes. *)
LEMMA RequestSums ==
  ASSUME NEW rq \in [Procs -> Request], NEW rp \in [Procs -> Request], NEW p \in Procs,
         \A q \in Procs \ {p} : rp[q] = rq[q]
  PROVE  /\ Debts(rq) \in Nat /\ Debt(rq[p]) <= Debts(rq)
         /\ Dues(rq) \in Int /\ Growths(rq) \in Nat
         /\ Debts(rp) = Debts(rq) - Debt(rq[p]) + Debt(rp[p])
         /\ Dues(rp) = Dues(rq) - Due(rq[p]) + Due(rp[p])
         /\ Growths(rp) = Growths(rq) - Growth(rq[p]) + Growth(rp[p])
<1> HIDE DEF Procs
<1>1. PICK a : a = [q \in Procs |-> Debt(rq[q])]
  BY Zenon
<1>2. PICK b : b = [q \in Procs |-> Debt(rp[q])]
  BY Zenon
<1>3. PICK c : c = [q \in Procs |-> Due(rq[q])]
  BY Zenon
<1>4. PICK d : d = [q \in Procs |-> Due(rp[q])]
  BY Zenon
<1>5. PICK e : e = [q \in Procs |-> Growth(rq[q])]
  BY Zenon
<1>6. PICK f : f = [q \in Procs |-> Growth(rp[q])]
  BY Zenon
<1>7. \A q \in Procs : a[q] \in Nat /\ b[q] \in Nat /\ c[q] \in Int /\ d[q] \in Int
                       /\ e[q] \in Nat /\ f[q] \in Nat
  BY <1>1, <1>2, <1>3, <1>4, <1>5, <1>6, BookTerms
<1>8. \A q \in Procs \ {p} : a[q] = b[q] /\ c[q] = d[q] /\ e[q] = f[q]
  BY <1>1, <1>2, <1>3, <1>4, <1>5, <1>6
<1>9. SumFunctionOnSet(b, Procs) = SumFunctionOnSet(a, Procs) - a[p] + b[p]
  <2>1. \A q \in Procs : a[q] \in Int /\ b[q] \in Int
    BY <1>7
  <2>2. \A q \in Procs \ {p} : a[q] = b[q]
    BY <1>8
  <2> QED
    BY <2>1, <2>2, FiniteProcs, SumChange
<1>10. SumFunctionOnSet(d, Procs) = SumFunctionOnSet(c, Procs) - c[p] + d[p]
  <2>1. \A q \in Procs : c[q] \in Int /\ d[q] \in Int
    BY <1>7
  <2>2. \A q \in Procs \ {p} : c[q] = d[q]
    BY <1>8
  <2> QED
    BY <2>1, <2>2, FiniteProcs, SumChange
<1>11. SumFunctionOnSet(f, Procs) = SumFunctionOnSet(e, Procs) - e[p] + f[p]
  <2>1. \A q \in Procs : e[q] \in Int /\ f[q] \in Int
    BY <1>7
  <2>2. \A q \in Procs \ {p} : e[q] = f[q]
    BY <1>8
  <2> QED
    BY <2>1, <2>2, FiniteProcs, SumChange
<1>12. SumFunctionOnSet(a, Procs) \in Nat /\ a[p] <= SumFunctionOnSet(a, Procs)
  BY <1>7, FiniteProcs, SumNat
<1>13. SumFunctionOnSet(c, Procs) \in Int
  BY <1>7, FiniteProcs, SumType
<1>14. SumFunctionOnSet(e, Procs) \in Nat
  BY <1>7, FiniteProcs, SumNat
<1>15. /\ a[p] = Debt(rq[p]) /\ b[p] = Debt(rp[p]) /\ c[p] = Due(rq[p]) /\ d[p] = Due(rp[p])
       /\ e[p] = Growth(rq[p]) /\ f[p] = Growth(rp[p])
  BY <1>1, <1>2, <1>3, <1>4, <1>5, <1>6
<1>16. /\ Debts(rq) = SumFunctionOnSet(a, Procs) /\ Debts(rp) = SumFunctionOnSet(b, Procs)
       /\ Dues(rq) = SumFunctionOnSet(c, Procs) /\ Dues(rp) = SumFunctionOnSet(d, Procs)
       /\ Growths(rq) = SumFunctionOnSet(e, Procs) /\ Growths(rp) = SumFunctionOnSet(f, Procs)
  BY <1>1, <1>2, <1>3, <1>4, <1>5, <1>6, Zenon DEF Debts, Dues, Growths
<1> QED
  BY <1>9, <1>10, <1>11, <1>12, <1>13, <1>14, <1>15, <1>16

Rows == [Fragments -> Sizes \cup {None}]

(* One fragment changes. *)
LEMMA RowSums ==
  ASSUME NEW rs \in Rows, NEW rt \in Rows, NEW P, NEW Q, NEW f \in Fragments,
         \A g \in Fragments \ {f} : rt[g] = rs[g] /\ (g \in P <=> g \in Q)
  PROVE  /\ Weights(rt) = Weights(rs) - Weight(rs[f]) + Weight(rt[f])
         /\ Keeps(rt, Q) = Keeps(rs, P) - Kept(rs[f], f, P) + Kept(rt[f], f, Q)
<1>1. PICK a : a = [g \in Fragments |-> Weight(rs[g])]
  BY Zenon
<1>2. PICK b : b = [g \in Fragments |-> Weight(rt[g])]
  BY Zenon
<1>3. PICK c : c = [g \in Fragments |-> Kept(rs[g], g, P)]
  BY Zenon
<1>4. PICK d : d = [g \in Fragments |-> Kept(rt[g], g, Q)]
  BY Zenon
<1>5. \A g \in Fragments : a[g] \in Int /\ b[g] \in Int /\ c[g] \in Int /\ d[g] \in Int
  <2>1. \A n \in Sizes \cup {None} : \A g, R : Kept(n, g, R) \in Int /\ Weight(n) \in Int
    BY BookTerms DEF Kept
  <2>2. \A g \in Fragments : rs[g] \in Sizes \cup {None} /\ rt[g] \in Sizes \cup {None}
    BY DEF Rows
  <2> QED
    BY <1>1, <1>2, <1>3, <1>4, <2>1, <2>2, Zenon
<1>6. \A g \in Fragments \ {f} : a[g] = b[g] /\ c[g] = d[g]
  BY <1>1, <1>2, <1>3, <1>4 DEF Kept
<1>7. SumFunctionOnSet(b, Fragments) = SumFunctionOnSet(a, Fragments) - a[f] + b[f]
  <2>1. \A g \in Fragments : a[g] \in Int /\ b[g] \in Int
    BY <1>5
  <2>2. \A g \in Fragments \ {f} : a[g] = b[g]
    BY <1>6
  <2> QED
    BY <2>1, <2>2, SumChange
<1>8. SumFunctionOnSet(d, Fragments) = SumFunctionOnSet(c, Fragments) - c[f] + d[f]
  <2>1. \A g \in Fragments : c[g] \in Int /\ d[g] \in Int
    BY <1>5
  <2>2. \A g \in Fragments \ {f} : c[g] = d[g]
    BY <1>6
  <2> QED
    BY <2>1, <2>2, SumChange
<1>9. /\ a[f] = Weight(rs[f]) /\ b[f] = Weight(rt[f])
      /\ c[f] = Kept(rs[f], f, P) /\ d[f] = Kept(rt[f], f, Q)
  BY <1>1, <1>2, <1>3, <1>4
<1>10. /\ Weights(rs) = SumFunctionOnSet(a, Fragments) /\ Weights(rt) = SumFunctionOnSet(b, Fragments)
       /\ Keeps(rs, P) = SumFunctionOnSet(c, Fragments) /\ Keeps(rt, Q) = SumFunctionOnSet(d, Fragments)
  BY <1>1, <1>2, <1>3, <1>4, Zenon DEF Weights, Keeps
<1> QED
  BY <1>7, <1>8, <1>9, <1>10

(* The sums over the rows are numbers. *)
LEMMA RowTypes ==
  ASSUME NEW rs \in Rows, NEW Q
  PROVE  Weights(rs) \in Nat /\ Keeps(rs, Q) \in Nat
<1>1. PICK a : a = [g \in Fragments |-> Weight(rs[g])]
  BY Zenon
<1>2. PICK c : c = [g \in Fragments |-> Kept(rs[g], g, Q)]
  BY Zenon
<1>3. \A g \in Fragments : a[g] \in Nat /\ c[g] \in Nat
  BY <1>1, <1>2, BookTerms, Zenon DEF Rows, Kept
<1>4. SumFunctionOnSet(a, Fragments) \in Nat /\ SumFunctionOnSet(c, Fragments) \in Nat
  BY <1>3, SumNat
<1> QED
  BY <1>1, <1>2, <1>4 DEF Weights, Keeps
-----------------------------------------------------------------------------
(* One step and the books *)

(* A request is about other fragments. *)
Elsewhere(r, f) ==
    /\ r.frag # f
    /\ \A t \in r.todo : t[1] # f
    /\ r.op \in {"write", "record", "unlink", "forget", "settle store"} => r.frag \in Fragments

(* What a request does not touch, it still knows. *)
LEMMA StillKnows ==
  ASSUME NEW r \in Request, NEW rs, NEW rt, NEW f,
         \A g \in Fragments \ {f} : rt[g] = rs[g],
         Elsewhere(r, f), Knows(r, rs)
  PROVE  Knows(r, rt)
<1> USE DEF Elsewhere
<1>1. \A t \in r.todo : t[1] \in Fragments
  BY Zenon DEF Request
<1>2. \A t \in r.todo : rt[t[1]] = t[2]
  BY <1>1, Zenon DEF Knows
<1>3. r.op \in {"write", "record", "unlink", "forget"} => r.old = Weight(rt[r.frag])
  BY Zenon DEF Knows
<1>4. r.op = "settle store" => rt[r.frag] = r.size
  BY Zenon DEF Knows
<1> QED
  BY <1>2, <1>3, <1>4, Zenon DEF Knows

(* The other requests are. *)
Alone(rq, p) == \A q \in Procs \ {p} : Elsewhere(rq[q], rq[p].frag)

(* Until the first overlap, the requests are about different fragments. *)
LEMMA OthersApart ==
  ASSUME Requests, ~tainted, NEW p \in Procs, req[p].frag \in Fragments
  PROVE  Alone(req, p)
<1> SUFFICES ASSUME NEW q \in Procs, q # p
             PROVE  Elsewhere(req[q], req[p].frag)
  BY DEF Alone
<1>1. req[q].frag # req[p].frag /\ \A t \in req[q].todo : t[1] # req[p].frag
  <2>1. req[p].frag # None
    OBVIOUS
  <2> QED
    BY <2>1 DEF Requests, Apart
<1>2. ASSUME req[q].op \in {"write", "record", "unlink", "forget", "settle store"}
      PROVE  req[q].frag \in Fragments
  <2>1. q \in Handlers /\ req[q].op # "idle"
    BY <1>2, Zenon DEF Requests, Shaped
  <2> QED
    BY <2>1, InHand
<1> QED
  BY <1>1, <1>2, Zenon DEF Elsewhere

(* One request moves on: the account moves with it. *)
LEMMA AccountMoves ==
  ASSUME NEW rq \in [Procs -> Request], NEW rp \in [Procs -> Request], NEW p \in Procs,
         \A q \in Procs \ {p} : rp[q] = rq[q],
         NEW rs \in Rows, NEW rt \in Rows, NEW P, NEW Q, NEW h \in Nat, NEW k \in Nat,
         NEW x \in Int, NEW y \in Int,
         Weights(rt) = Weights(rs) + x, Keeps(rt, Q) = Keeps(rs, P) + y,
         Account(rq, rs, P, h),
         k = h - Debt(rq[p]) + Debt(rp[p]) + y,
         k + Due(rp[p]) = h + Due(rq[p]) + x,
         x + Growth(rp[p]) <= Growth(rq[p])
  PROVE  Account(rp, rt, Q, k)
<1> HIDE DEF Procs
<1>1. /\ Debts(rq) \in Nat /\ Dues(rq) \in Int /\ Growths(rq) \in Nat
      /\ Debts(rp) = Debts(rq) - Debt(rq[p]) + Debt(rp[p])
      /\ Dues(rp) = Dues(rq) - Due(rq[p]) + Due(rp[p])
      /\ Growths(rp) = Growths(rq) - Growth(rq[p]) + Growth(rp[p])
  BY RequestSums, Zenon
<1>2. Weights(rs) \in Nat /\ Keeps(rs, P) \in Nat
  BY RowTypes
<1>3. /\ Debt(rp[p]) \in Nat /\ Due(rp[p]) \in Int /\ Growth(rp[p]) \in Nat
      /\ Debt(rq[p]) \in Nat /\ Due(rq[p]) \in Int /\ Growth(rq[p]) \in Nat
  BY BookTerms
<1>4. /\ h = Debts(rq) + Keeps(rs, P)
      /\ h + Dues(rq) = Weights(rs)
      /\ Weights(rs) + Growths(rq) <= Ceiling
  BY DEF Account
<1>5. k = Debts(rp) + Keeps(rt, Q)
  BY <1>1, <1>2, <1>3, <1>4
<1>6. k + Dues(rp) = Weights(rt)
  BY <1>1, <1>2, <1>3, <1>4
<1>7. Weights(rt) + Growths(rp) <= Ceiling
  BY <1>1, <1>2, <1>3, <1>4, CeilingType
<1> QED
  BY <1>5, <1>6, <1>7 DEF Account

(* A store that has recorded its shard and not settled; what it is about. *)
Recorder(r) == r.op = "settle store"
About(r, f) == r.frag = f

(* A request moves on, and no row changes. *)
LEMMA RequestBooks ==
  ASSUME NEW rq \in [Procs -> Request], NEW rp \in [Procs -> Request], NEW p \in Procs,
         \A q \in Procs \ {p} : rp[q] = rq[q],
         NEW rs \in Rows, NEW h \in Nat, NEW k \in Nat, BooksAt(rq, rs, h),
         ~Recorder(rq[p]), ~Recorder(rp[p]), Knows(rp[p], rs),
         k = h - Debt(rq[p]) + Debt(rp[p]),
         k + Due(rp[p]) = h + Due(rq[p]),
         Growth(rp[p]) <= Growth(rq[p])
  PROVE  BooksAt(rp, rs, k)
<1> HIDE DEF Procs
<1>1. \A q \in Procs : Knows(rp[q], rs)
  BY DEF BooksAt
<1>2. PICK P : P = Settling(rq)
  OBVIOUS
<1>3. Settling(rp) = P
  BY <1>2, Zenon DEF Settling, Recorder
<1>4. Account(rq, rs, P, h)
  BY <1>2 DEF BooksAt
<1>5. Weights(rs) \in Nat /\ Keeps(rs, P) \in Nat
  BY RowTypes
<1>6. /\ Debt(rp[p]) \in Nat /\ Due(rp[p]) \in Int /\ Growth(rp[p]) \in Nat
      /\ Debt(rq[p]) \in Nat /\ Due(rq[p]) \in Int /\ Growth(rq[p]) \in Nat
  BY BookTerms
<1>7. /\ Weights(rs) = Weights(rs) + 0 /\ Keeps(rs, P) = Keeps(rs, P) + 0
      /\ k = h - Debt(rq[p]) + Debt(rp[p]) + 0
      /\ k + Due(rp[p]) = h + Due(rq[p]) + 0
      /\ 0 + Growth(rp[p]) <= Growth(rq[p])
      /\ 0 \in Int
  <2>1. Weights(rs) = Weights(rs) + 0 /\ Keeps(rs, P) = Keeps(rs, P) + 0
    BY <1>5
  <2>2. k = h - Debt(rq[p]) + Debt(rp[p]) + 0
    BY <1>6
  <2>3. k + Due(rp[p]) = h + Due(rq[p]) + 0
    BY <1>6
  <2>4. 0 + Growth(rp[p]) <= Growth(rq[p])
    BY <1>6
  <2> QED
    BY <2>1, <2>2, <2>3, <2>4
<1>8. Account(rp, rs, P, k)
  BY <1>4, <1>7, AccountMoves, Zenon
<1> QED
  BY <1>1, <1>3, <1>8 DEF BooksAt

(* What the total has of the fragment a request is about. *)
Own(r, n) == IF Recorder(r) THEN 0 ELSE Weight(n)

(* A request changes the row of its fragment, or the total now has it. *)
LEMMA RowBooks ==
  ASSUME NEW rq \in [Procs -> Request], NEW rp \in [Procs -> Request], NEW p \in Procs,
         \A q \in Procs \ {p} : rp[q] = rq[q],
         NEW f \in Fragments, About(rq[p], f), Alone(rq, p),
         NEW rs \in Rows, NEW rt \in Rows, \A g \in Fragments \ {f} : rt[g] = rs[g],
         NEW h \in Nat, NEW k \in Nat, BooksAt(rq, rs, h),
         Recorder(rp[p]) => About(rp[p], f), Knows(rp[p], rt),
         k = h - Debt(rq[p]) + Debt(rp[p]) - Own(rq[p], rs[f]) + Own(rp[p], rt[f]),
         k + Due(rp[p]) - Weight(rt[f]) = h + Due(rq[p]) - Weight(rs[f]),
         Weight(rt[f]) + Growth(rp[p]) <= Weight(rs[f]) + Growth(rq[p])
  PROVE  BooksAt(rp, rt, k)
<1> HIDE DEF Procs
<1>1. \A q \in Procs \ {p} : rq[q].frag # f
  BY Zenon DEF Alone, About, Elsewhere
<1>2. PICK P : P = Settling(rq)
  OBVIOUS
<1>3. PICK Q : Q = Settling(rp)
  OBVIOUS
<1>4. f \in P <=> Recorder(rq[p])
  BY <1>1, <1>2, Zenon DEF Settling, Recorder, About
<1>5. f \in Q <=> Recorder(rp[p])
  BY <1>1, <1>3, Zenon DEF Settling, Recorder, About
<1>6. \A g \in Fragments \ {f} : g \in P <=> g \in Q
  BY <1>2, <1>3, Zenon DEF Settling, Recorder, About
<1>7. /\ Weights(rt) = Weights(rs) - Weight(rs[f]) + Weight(rt[f])
      /\ Keeps(rt, Q) = Keeps(rs, P) - Kept(rs[f], f, P) + Kept(rt[f], f, Q)
  <2>1. \A g \in Fragments \ {f} : rt[g] = rs[g] /\ (g \in P <=> g \in Q)
    BY <1>6
  <2> QED
    BY <2>1, RowSums, SMTT(40)
<1>8. Kept(rs[f], f, P) = Own(rq[p], rs[f]) /\ Kept(rt[f], f, Q) = Own(rp[p], rt[f])
  BY <1>4, <1>5 DEF Kept, Own
<1>9. \A q \in Procs : Knows(rp[q], rt)
  <2> SUFFICES ASSUME NEW q \in Procs, q # p PROVE Knows(rq[q], rt)
    OBVIOUS
  <2>1. Knows(rq[q], rs)
    BY DEF BooksAt
  <2>2. rq[q] \in Request /\ Elsewhere(rq[q], f)
    BY DEF Alone, About
  <2> QED
    BY <2>1, <2>2, StillKnows, Zenon
<1>10. /\ Debt(rp[p]) \in Nat /\ Due(rp[p]) \in Int /\ Growth(rp[p]) \in Nat
       /\ Debt(rq[p]) \in Nat /\ Due(rq[p]) \in Int /\ Growth(rq[p]) \in Nat
  BY BookTerms
<1>11. Weight(rt[f]) \in Nat /\ Weight(rs[f]) \in Nat
  BY BookTerms, Zenon DEF Rows
<1>12. Own(rq[p], rs[f]) \in Nat /\ Own(rp[p], rt[f]) \in Nat
  BY <1>11 DEF Own
<1>13. Weights(rs) \in Nat /\ Keeps(rs, P) \in Nat
  BY RowTypes
<1>14. PICK x : x = Weight(rt[f]) - Weight(rs[f])
  OBVIOUS
<1>15. PICK y : y = Own(rp[p], rt[f]) - Own(rq[p], rs[f])
  OBVIOUS
<1>16. x \in Int
  BY <1>11, <1>14
<1>17. y \in Int
  BY <1>12, <1>15
<1>18. Weights(rt) = Weights(rs) + x /\ Keeps(rt, Q) = Keeps(rs, P) + y
  <2>1. Weights(rt) = Weights(rs) + x
    BY <1>7, <1>11, <1>13, <1>14
  <2>2. Keeps(rt, Q) = Keeps(rs, P) + y
    BY <1>7, <1>8, <1>12, <1>13, <1>15
  <2> QED
    BY <2>1, <2>2
<1>19. /\ k = h - Debt(rq[p]) + Debt(rp[p]) + y
       /\ k + Due(rp[p]) = h + Due(rq[p]) + x
       /\ x + Growth(rp[p]) <= Growth(rq[p])
  <2>1. k = h - Debt(rq[p]) + Debt(rp[p]) + y
    BY <1>10, <1>12, <1>15
  <2>2. k + Due(rp[p]) = h + Due(rq[p]) + x
    BY <1>10, <1>11, <1>14
  <2>3. x + Growth(rp[p]) <= Growth(rq[p])
    BY <1>10, <1>11, <1>14
  <2> QED
    BY <2>1, <2>2, <2>3
<1>20. Account(rq, rs, P, h)
  BY <1>2 DEF BooksAt
<1>21. Account(rp, rt, Q, k)
  BY <1>18, <1>19, <1>20, <1>16, <1>17, AccountMoves, Zenon
<1> QED
  BY <1>3, <1>9, <1>21 DEF BooksAt
-----------------------------------------------------------------------------
(* The requests of each kind *)

(* What a request owes and may add, by what it is doing. *)
LEMMA TermsOf ==
  ASSUME NEW r \in Request
  PROVE  /\ r.op \in {"idle", "check", "write", "record", "look up", "unlink", "forget"}
               => Debt(r) = 0 /\ Due(r) = 0
         /\ r.op = "settle store" => Debt(r) = r.old /\ Due(r) = r.size - r.old
         /\ r.op = "settle delete" => Debt(r) = r.old /\ Due(r) = 0 - r.old
         /\ r.op \in {"sweep", "drop"} => Debt(r) = r.freed /\ Due(r) = 0 - r.freed
         /\ r.op \notin {"check", "write", "record"} => Growth(r) = 0
         /\ r.op # "settle store" => ~Recorder(r)
<1>1. ASSUME r.op \in {"idle", "check", "write", "record", "look up", "unlink", "forget"}
      PROVE  Debt(r) = 0 /\ Due(r) = 0
  <2>1. Debt(r) = 0
    BY <1>1, Zenon DEF Debt
  <2>2. Due(r) = 0 - Debt(r)
    BY <1>1, Zenon DEF Due
  <2> QED
    BY <2>1, <2>2
<1>2. ASSUME r.op = "settle store" PROVE Debt(r) = r.old /\ Due(r) = r.size - r.old
  <2>1. Debt(r) = r.old
    BY <1>2, Zenon DEF Debt
  <2> QED
    BY <1>2, <2>1, Zenon DEF Due
<1>3. ASSUME r.op = "settle delete" PROVE Debt(r) = r.old /\ Due(r) = 0 - r.old
  <2>1. Debt(r) = r.old
    BY <1>3, Zenon DEF Debt
  <2> QED
    BY <1>3, <2>1, Zenon DEF Due
<1>4. ASSUME r.op \in {"sweep", "drop"} PROVE Debt(r) = r.freed /\ Due(r) = 0 - r.freed
  <2>1. Debt(r) = r.freed
    BY <1>4, Zenon DEF Debt
  <2>2. Due(r) = 0 - Debt(r)
    BY <1>4, Zenon DEF Due
  <2> QED
    BY <2>1, <2>2
<1>5. r.op \notin {"check", "write", "record"} => Growth(r) = 0
  BY DEF Growth
<1>6. r.op # "settle store" => ~Recorder(r)
  BY Zenon DEF Recorder
<1> QED
  BY <1>1, <1>2, <1>3, <1>4, <1>5, <1>6, Zenon

(* A request that is done owes nothing. *)
LEMMA IdleTerms ==
  /\ Idle \in Request /\ Debt(Idle) = 0 /\ Due(Idle) = 0 /\ Growth(Idle) = 0
  /\ ~Recorder(Idle) /\ \A rs : Knows(Idle, rs)
<1>1. Idle \in Request /\ Idle.op = "idle" /\ Idle.todo = {}
  BY DEF Idle, Request, Ops
<1>2. \A rs : Knows(Idle, rs)
  BY <1>1 DEF Knows
<1> QED
  BY <1>1, <1>2, TermsOf, Zenon

(* The types of the state. *)
Typed == (req \in [Procs -> Request]) /\ (rows \in Rows) /\ (hosted \in Nat)
(* They follow from the invariant. *)
LEMMA Typing == IInv => Typed
BY DEF IInv, TypeOK, Typed, Rows

(* A request moves on and owes what it owed. *)
LEMMA QuietBooks ==
  ASSUME Typed, Books, NEW p \in Procs, NEW r \in Request,
         req' = [req EXCEPT ![p] = r], rows' = rows, hosted' = hosted,
         ~Recorder(req[p]), ~Recorder(r), Knows(r, rows),
         Debt(r) = Debt(req[p]), Due(r) = Due(req[p]), Growth(r) <= Growth(req[p])
  PROVE  Books'
<1> HIDE DEF Procs
<1>1. /\ req \in [Procs -> Request] /\ req' \in [Procs -> Request] /\ req[p] \in Request
      /\ req'[p] = r /\ \A q \in Procs \ {p} : req'[q] = req[q]
  BY DEF Typed
<1>2. rows \in Rows /\ hosted \in Nat
  BY DEF Typed
<1>3. Debt(req[p]) \in Nat /\ Due(req[p]) \in Int
  BY <1>1, BookTerms
<1>4. hosted = hosted - Debt(req[p]) + Debt(r)
  BY <1>2, <1>3
<1>5. PICK rp : rp = req'
  OBVIOUS
<1>6. /\ rp \in [Procs -> Request] /\ \A q \in Procs \ {p} : rp[q] = req[q]
      /\ ~Recorder(rp[p]) /\ Knows(rp[p], rows)
      /\ hosted = hosted - Debt(req[p]) + Debt(rp[p])
      /\ hosted + Due(rp[p]) = hosted + Due(req[p])
      /\ Growth(rp[p]) <= Growth(req[p])
  BY <1>1, <1>4, <1>5, Zenon
<1>7. BooksAt(req, rows, hosted)
  BY DEF Books
<1>8. BooksAt(rp, rows, hosted)
  BY <1>1, <1>2, <1>6, <1>7, RequestBooks, Zenon
<1> QED
  BY <1>5, <1>8 DEF Books

(* A removal settles: the total is never clamped. *)
LEMMA RemovalSettles ==
  ASSUME Typed, Books, NEW p \in Procs, ~Recorder(req[p]),
         NEW n \in Nat, n = Debt(req[p]), Due(req[p]) = 0 - n, Growth(req[p]) = 0,
         req' = [req EXCEPT ![p] = Idle], rows' = rows, hosted' = PlusZero(hosted - n)
  PROVE  Books'
<1> HIDE DEF Procs
<1>1. /\ req \in [Procs -> Request] /\ req' \in [Procs -> Request] /\ req[p] \in Request
      /\ req'[p] = Idle /\ \A q \in Procs \ {p} : req'[q] = req[q]
  BY IdleTerms DEF Typed
<1>2. rows \in Rows /\ hosted \in Nat
  BY DEF Typed
<1>3. Debts(req) \in Nat /\ Debt(req[p]) <= Debts(req)
  BY <1>1, RequestSums
<1>4. n <= hosted
  <2>1. Keeps(rows, Settling(req)) \in Nat
    BY <1>2, RowTypes
  <2>2. hosted = Debts(req) + Keeps(rows, Settling(req))
    BY DEF Books, BooksAt, Account
  <2> QED
    BY <1>2, <1>3, <2>1, <2>2
<1>5. PICK k \in Nat : k = hosted - n
  BY <1>2, <1>4
<1>6. hosted' = k
  BY <1>5 DEF PlusZero
<1>7. PICK rp : rp = req'
  OBVIOUS
<1>8. k = hosted - Debt(req[p]) + 0 /\ k + 0 = hosted + Due(req[p]) /\ 0 <= Growth(req[p])
  BY <1>2, <1>5
<1>9. /\ rp \in [Procs -> Request] /\ \A q \in Procs \ {p} : rp[q] = req[q]
      /\ ~Recorder(rp[p]) /\ Knows(rp[p], rows)
      /\ k = hosted - Debt(req[p]) + Debt(rp[p])
      /\ k + Due(rp[p]) = hosted + Due(req[p])
      /\ Growth(rp[p]) <= Growth(req[p])
  BY <1>1, <1>7, <1>8, IdleTerms, Zenon
<1>10. BooksAt(req, rows, hosted)
  BY DEF Books
<1>11. BooksAt(rp, rows, k)
  BY <1>1, <1>2, <1>5, <1>9, <1>10, RequestBooks, Zenon
<1> QED
  BY <1>6, <1>7, <1>11 DEF Books
-----------------------------------------------------------------------------
(* The steps that change no row *)

(* A store that is let in adds no more than the reading it was let in on. *)
LEMMA Admitted ==
  ASSUME NEW r \in Request, r.op = "check", r.size \in Sizes, NEW old \in Nat, Room(r, old),
         NEW s \in Request, s.op = "write", s.size = r.size, s.old = old
  PROVE  Growth(s) <= Growth(r)
<1>1. PICK n \in Nat : n = r.size
  BY Zenon
<1>2. PICK m \in Nat : m = r.seen
  BY DEF Request
<1>3. n <= MaxSize /\ MaxSize \in Nat
  BY <1>1, MaxSizeIs
<1>4. m - old + n <= Contributed
  BY <1>1, <1>2 DEF Room
<1>5. PlusZero(n - old) <= PlusZero(Contributed - m) /\ PlusZero(n - old) <= MaxSize
  BY <1>3, <1>4 DEF PlusZero
<1>6. Growth(s) = PlusZero(n - old)
  BY <1>1 DEF Growth
<1>7. Growth(r) = IF MaxSize <= PlusZero(Contributed - m) THEN MaxSize ELSE PlusZero(Contributed - m)
  BY <1>2 DEF Growth
<1> QED
  BY <1>5, <1>6, <1>7

(* hosted_size is read, and the cap refuses the shard or lets it in. *)
LEMMA StoreCheckBooks ==
  ASSUME IInv, Books, NEW h \in Handlers, StoreCheck(h)
  PROVE  Books'
<1>0. Requests /\ Tables /\ Typed /\ h \in Procs
  BY IInvSplit, Typing
<1>1. req[h].op = "check" /\ rows' = rows /\ hosted' = hosted
  BY DEF StoreCheck
<1>2. req[h] \in Request /\ req[h].frag \in Fragments /\ req[h].todo = {}
  BY <1>0, <1>1, InHand
<1>3. PICK old : old = HostedSize(req[h].frag)
  OBVIOUS
<1>4. old \in Nat
  BY <1>0, <1>2, <1>3, HostedSizeType
<1>5. Debt(req[h]) = 0 /\ Due(req[h]) = 0 /\ ~Recorder(req[h]) /\ Growth(req[h]) \in Nat
  BY <1>1, <1>2, TermsOf, BookTerms, Zenon
<1>6. CASE Room(req[h], old)
  <2>1. PICK r : r = [req[h] EXCEPT !.op = "write", !.old = old]
    OBVIOUS
  <2>2. /\ r \in Request /\ r.op = "write" /\ r.frag = req[h].frag /\ r.todo = {}
        /\ r.size = req[h].size /\ r.old = old
    BY <1>2, <1>4, <2>1, Zenon DEF Request, Ops
  <2>3. req' = [req EXCEPT ![h] = r]
    BY <1>3, <1>6, <2>1 DEF StoreCheck
  <2>4. req[h].size \in Sizes
    BY <1>0, <1>1 DEF Requests, Shaped, Storing
  <2>5. Growth(r) <= Growth(req[h])
    BY <1>1, <1>2, <1>4, <1>6, <2>2, <2>4, Admitted
  <2>6. Knows(r, rows)
    BY <1>3, <2>2 DEF Knows, Weight, HostedSize
  <2>7. Debt(r) = 0 /\ Due(r) = 0 /\ ~Recorder(r)
    BY <2>2, TermsOf, Zenon
  <2> QED
    BY <1>0, <1>1, <1>5, <2>2, <2>3, <2>5, <2>6, <2>7, QuietBooks, Zenon
<1>7. CASE ~Room(req[h], old)
  <2>1. req' = [req EXCEPT ![h] = Idle]
    BY <1>3, <1>7 DEF StoreCheck
  <2>2. Growth(Idle) <= Growth(req[h])
    BY <1>5, IdleTerms
  <2> QED
    BY <1>0, <1>1, <1>5, <2>1, <2>2, IdleTerms, QuietBooks, Zenon
<1> QED
  BY <1>6, <1>7

(* A file is written or unlinked: nothing to book. *)
LEMMA FileBooks ==
  ASSUME IInv, Books, NEW h \in Handlers, StoreWrite(h) \/ DeleteUnlink(h)
  PROVE  Books'
<1>0. Requests /\ Typed /\ h \in Procs
  BY IInvSplit, Typing
<1>1. PICK op \in {"record", "forget"} :
        /\ op = "record" => req[h].op = "write"
        /\ op = "forget" => req[h].op = "unlink"
        /\ req' = [req EXCEPT ![h].op = op]
        /\ rows' = rows /\ hosted' = hosted
  BY DEF StoreWrite, DeleteUnlink
<1>2. req[h] \in Request /\ req[h].frag \in Fragments /\ req[h].todo = {}
  BY <1>0, <1>1, InHand
<1>3. PICK r : r = [req[h] EXCEPT !.op = op]
  BY Zenon
<1>4. /\ r \in Request /\ r.op = op /\ r.frag = req[h].frag /\ r.todo = {}
      /\ r.size = req[h].size /\ r.old = req[h].old
  BY <1>1, <1>2, <1>3, Zenon DEF Request, Ops
<1>5. req' = [req EXCEPT ![h] = r]
  BY <1>1, <1>3
<1>6. /\ Debt(req[h]) = 0 /\ Due(req[h]) = 0 /\ ~Recorder(req[h]) /\ Growth(req[h]) \in Nat
      /\ Debt(r) = 0 /\ Due(r) = 0 /\ ~Recorder(r)
  BY <1>1, <1>2, <1>4, TermsOf, BookTerms, Zenon
<1>7. Growth(r) = Growth(req[h])
  BY <1>1, <1>4 DEF Growth
<1>8. Knows(req[h], rows)
  BY <1>0 DEF Books, BooksAt
<1>9. Knows(r, rows)
  BY <1>1, <1>4, <1>8, Zenon DEF Knows
<1>10. Growth(r) <= Growth(req[h])
  BY <1>6, <1>7
<1> QED
  BY <1>0, <1>1, <1>4, <1>5, <1>6, <1>9, <1>10, QuietBooks, Zenon

(* A deletion begins, and reads hosted_size. *)
LEMMA DeleteBeginBooks ==
  ASSUME IInv, Books, NEW h \in Handlers, NEW f \in Fragments, DeleteBegin(h, f)
  PROVE  Books'
<1>0. Requests /\ Typed /\ h \in Procs
  BY IInvSplit, Typing
<1>1. req[h].op = "idle" /\ rows' = rows /\ hosted' = hosted
  BY DEF DeleteBegin
<1>2. req[h] \in Request
  BY <1>0 DEF Typed
<1>3. PICK r : r = [Idle EXCEPT !.op = "look up", !.frag = f]
  OBVIOUS
<1>4. r \in Request /\ r.op = "look up" /\ r.todo = {}
  BY <1>3, Zenon DEF Idle, Request, Ops
<1>5. req' = [req EXCEPT ![h] = r]
  BY <1>3 DEF DeleteBegin
<1>6. /\ Debt(req[h]) = 0 /\ Due(req[h]) = 0 /\ ~Recorder(req[h]) /\ Growth(req[h]) = 0
      /\ Debt(r) = 0 /\ Due(r) = 0 /\ ~Recorder(r) /\ Growth(r) = 0
  BY <1>1, <1>2, <1>4, TermsOf, Zenon
<1>7. Knows(r, rows)
  BY <1>4, Zenon DEF Knows
<1>8. Growth(r) <= Growth(req[h])
  BY <1>6
<1> QED
  BY <1>0, <1>1, <1>4, <1>5, <1>6, <1>7, <1>8, QuietBooks, Zenon

(* DeleteShard reads hosted_size: what it will owe. *)
LEMMA DeleteLookUpBooks ==
  ASSUME IInv, Books, NEW h \in Handlers, DeleteLookUp(h)
  PROVE  Books'
<1>0. Requests /\ Tables /\ Typed /\ h \in Procs
  BY IInvSplit, Typing
<1>1. req[h].op = "look up" /\ rows' = rows /\ hosted' = hosted
  BY Zenon DEF DeleteLookUp
<1>2. req[h] \in Request /\ req[h].frag \in Fragments /\ req[h].todo = {}
  BY <1>0, <1>1, InHand, Zenon
<1>3. PICK old : old = HostedSize(req[h].frag)
  OBVIOUS
<1>4. old \in Nat
  BY <1>0, <1>2, <1>3, HostedSizeType
<1>5. PICK r : r = [req[h] EXCEPT !.op = "unlink", !.old = old]
  OBVIOUS
<1>6. r \in Request /\ r.op = "unlink" /\ r.frag = req[h].frag /\ r.todo = {} /\ r.old = old
  BY <1>2, <1>4, <1>5, Zenon DEF Request, Ops
<1>7. req' = [req EXCEPT ![h] = r]
  BY <1>0, <1>2, <1>3, <1>5, Zenon DEF DeleteLookUp, Requests, Request
<1>8. /\ Debt(req[h]) = 0 /\ Due(req[h]) = 0 /\ ~Recorder(req[h]) /\ Growth(req[h]) = 0
      /\ Debt(r) = 0 /\ Due(r) = 0 /\ ~Recorder(r) /\ Growth(r) = 0
  BY <1>1, <1>2, <1>6, TermsOf, Zenon
<1>9. Knows(r, rows)
  BY <1>3, <1>6 DEF Knows, Weight, HostedSize
<1>10. Growth(r) <= Growth(req[h])
  BY <1>8
<1> QED
  BY <1>0, <1>1, <1>6, <1>7, <1>8, <1>9, <1>10, QuietBooks, Zenon
(* The sweep lists rows with their sizes. *)
LEMMA SweepBeginBooks ==
  ASSUME IInv, IInv', Books, NEW o \in Owners, SweepBegin(o)
  PROVE  Books'
<1>0. Typed /\ Typed' /\ Sweeper \in Procs
  BY Typing DEF IInv, TypeOK, Typed, Rows
<1>1. req[Sweeper].op = "idle" /\ rows' = rows /\ hosted' = hosted
  BY DEF SweepBegin
<1>2. PICK F : F = Reclaimable(o)
  OBVIOUS
<1>3. PICK r : r = [Idle EXCEPT !.op = "sweep", !.old = absent[o], !.todo = {<<f, rows[f]>> : f \in F}]
  BY Zenon
<1>4. req' = [req EXCEPT ![Sweeper] = r]
  BY <1>2, <1>3 DEF SweepBegin
<1>5. r.op = "sweep" /\ r.freed = 0 /\ r.todo = {<<f, rows[f]>> : f \in F}
  BY <1>3 DEF Idle
<1>6. r \in Request /\ req[Sweeper] \in Request
  BY <1>0, <1>4 DEF Typed
<1>7. /\ Debt(req[Sweeper]) = 0 /\ Due(req[Sweeper]) = 0 /\ ~Recorder(req[Sweeper])
      /\ Growth(req[Sweeper]) = 0
  BY <1>1, <1>6, TermsOf, Zenon
<1>8. Debt(r) = 0 /\ Due(r) = 0 /\ ~Recorder(r) /\ Growth(r) = 0
  <2>1. r.op = "sweep" /\ r.freed = 0
    BY <1>5
  <2>2. Debt(r) = r.freed /\ Due(r) = 0 - r.freed /\ ~Recorder(r) /\ Growth(r) = 0
    BY <1>6, <2>1, TermsOf, Zenon
  <2> QED
    BY <2>1, <2>2
<1>9. Knows(r, rows)
  <2>1. \A t \in r.todo : rows[t[1]] = t[2]
    BY <1>5
  <2> QED
    BY <1>5, <2>1 DEF Knows
<1>10. Growth(r) <= Growth(req[Sweeper])
  BY <1>7, <1>8
<1> QED
  BY <1>0, <1>1, <1>4, <1>6, <1>7, <1>8, <1>9, <1>10, QuietBooks, Zenon

(* The sweep unlinks a file: nothing to book. *)
LEMMA SweepUnlinkBooks ==
  ASSUME IInv, Books, NEW f \in Fragments, SweepUnlink(f)
  PROVE  Books'
<1>0. Typed /\ Sweeper \in Procs
  BY Typing
<1>1. req[Sweeper].op = "sweep" /\ rows' = rows /\ hosted' = hosted
  BY DEF SweepUnlink
<1>2. req[Sweeper] \in Request
  BY <1>0 DEF Typed
<1>3. PICK r : r = [req[Sweeper] EXCEPT !.op = "drop", !.frag = f]
  OBVIOUS
<1>4. /\ r \in Request /\ r.op = "drop" /\ r.todo = req[Sweeper].todo
      /\ r.freed = req[Sweeper].freed
  BY <1>2, <1>3, Zenon DEF Request, Ops
<1>5. req' = [req EXCEPT ![Sweeper] = r]
  BY <1>0, <1>2, <1>3, Zenon DEF SweepUnlink, Typed, Request
<1>6. /\ Debt(req[Sweeper]) = req[Sweeper].freed /\ Due(req[Sweeper]) = 0 - req[Sweeper].freed
      /\ ~Recorder(req[Sweeper]) /\ Growth(req[Sweeper]) = 0
  BY <1>1, <1>2, TermsOf, Zenon
<1>7. /\ Debt(r) = req[Sweeper].freed /\ Due(r) = 0 - req[Sweeper].freed
      /\ ~Recorder(r) /\ Growth(r) = 0
  BY <1>4, TermsOf, Zenon
<1>8. Knows(req[Sweeper], rows)
  BY <1>0 DEF Books, BooksAt
<1>9. Knows(r, rows)
  BY <1>4, <1>8, Zenon DEF Knows
<1>10. Growth(r) <= Growth(req[Sweeper])
  BY <1>6, <1>7
<1> QED
  BY <1>0, <1>1, <1>4, <1>5, <1>6, <1>7, <1>9, <1>10, QuietBooks, Zenon

(* A request that fails before it has changed a row had nothing to settle. *)
LEMMA FailBooks ==
  ASSUME IInv, Books, ~tainted', NEW p \in Procs, Fail(p)
  PROVE  Books'
<1>0. Typed
  BY Typing
<1>1. /\ req[p].op \in {"write", "record", "unlink"}
      /\ req' = [req EXCEPT ![p] = Idle] /\ rows' = rows /\ hosted' = hosted
  BY Zenon DEF Fail
<1>2. req[p] \in Request
  BY <1>0 DEF Typed
<1>3. Debt(req[p]) = 0 /\ Due(req[p]) = 0 /\ ~Recorder(req[p]) /\ Growth(req[p]) \in Nat
  BY <1>1, <1>2, TermsOf, BookTerms, Zenon
<1>4. Growth(Idle) <= Growth(req[p])
  BY <1>3, IdleTerms
<1> QED
  BY <1>0, <1>1, <1>3, <1>4, IdleTerms, QuietBooks, Zenon

(* DeleteShard and the sweep settle. *)
LEMMA RemovalBooks ==
  ASSUME IInv, Books, (\E h \in Handlers : DeleteSettle(h)) \/ SweepSettle
  PROVE  Books'
<1>0. Typed /\ Sweeper \in Procs
  BY Typing
<1>1. ASSUME NEW h \in Handlers, DeleteSettle(h) PROVE Books'
  <2>1. /\ req[h].op = "settle delete" /\ req' = [req EXCEPT ![h] = Idle] /\ rows' = rows
        /\ hosted' = PlusZero(hosted - req[h].old)
    BY <1>1, Zenon DEF DeleteSettle
  <2>2. req[h] \in Request /\ h \in Procs
    BY <1>0 DEF Typed
  <2>3. PICK n : n = req[h].old
    OBVIOUS
  <2>4. n \in Nat
    BY <2>2, <2>3 DEF Request
  <2>5. n = Debt(req[h]) /\ Due(req[h]) = 0 - n /\ ~Recorder(req[h]) /\ Growth(req[h]) = 0
    BY <2>1, <2>2, <2>3, TermsOf, Zenon
  <2>6. hosted' = PlusZero(hosted - n)
    BY <2>1, <2>3, Zenon
  <2> QED
    BY <1>0, <2>1, <2>2, <2>4, <2>5, <2>6, RemovalSettles, Zenon
<1>2. CASE SweepSettle
  <2>1. /\ req[Sweeper].op = "sweep" /\ req' = [req EXCEPT ![Sweeper] = Idle] /\ rows' = rows
        /\ hosted' = PlusZero(hosted - req[Sweeper].freed)
    BY <1>2 DEF SweepSettle
  <2>2. req[Sweeper] \in Request
    BY <1>0 DEF Typed
  <2>3. PICK n : n = req[Sweeper].freed
    OBVIOUS
  <2>4. n \in Nat
    BY <2>2, <2>3 DEF Request
  <2>5. /\ n = Debt(req[Sweeper]) /\ Due(req[Sweeper]) = 0 - n
        /\ ~Recorder(req[Sweeper]) /\ Growth(req[Sweeper]) = 0
    BY <2>1, <2>2, <2>3, TermsOf, Zenon
  <2>6. hosted' = PlusZero(hosted - n)
    BY <2>1, <2>3
  <2> QED
    BY <1>0, <2>1, <2>2, <2>4, <2>5, <2>6, RemovalSettles, Zenon
<1> QED
  BY <1>1, <1>2
-----------------------------------------------------------------------------
(* The steps that change a row, or bring its size into the total *)

(* The books of a step that changes one row, or none, of the fragment in hand. *)
LEMMA RowStepBooks ==
  ASSUME IInv, ~tainted, Typed', Books, NEW p \in Procs, NEW r \in Request, NEW f \in Fragments,
         About(req[p], f), req' = [req EXCEPT ![p] = r],
         \A g \in Fragments \ {f} : rows'[g] = rows[g],
         Recorder(r) => About(r, f), Knows(r, rows'),
         hosted' = hosted - Debt(req[p]) + Debt(r) - Own(req[p], rows[f]) + Own(r, rows'[f]),
         hosted' + Due(r) - Weight(rows'[f]) = hosted + Due(req[p]) - Weight(rows[f]),
         Weight(rows'[f]) + Growth(r) <= Weight(rows[f]) + Growth(req[p])
  PROVE  Books'
<1>1. Alone(req, p)
  <2>1. Requests /\ req[p].frag \in Fragments
    BY IInvSplit DEF About
  <2> QED
    BY <2>1, OthersApart
<1> HIDE DEF Procs
<1>2. Typed
  BY Typing
<1>3. /\ req \in [Procs -> Request] /\ req' \in [Procs -> Request] /\ rows \in Rows
      /\ rows' \in Rows /\ hosted \in Nat /\ hosted' \in Nat
      /\ req'[p] = r /\ \A q \in Procs \ {p} : req'[q] = req[q]
  BY <1>2 DEF Typed
<1>4. PICK rp : rp = req'
  OBVIOUS
<1>5. PICK rt : rt = rows'
  OBVIOUS
<1>6. PICK k : k = hosted'
  OBVIOUS
<1>7. /\ rp \in [Procs -> Request] /\ rt \in Rows /\ k \in Nat
      /\ \A q \in Procs \ {p} : rp[q] = req[q]
      /\ \A g \in Fragments \ {f} : rt[g] = rows[g]
      /\ Recorder(rp[p]) => About(rp[p], f)
      /\ Knows(rp[p], rt)
      /\ k = hosted - Debt(req[p]) + Debt(rp[p]) - Own(req[p], rows[f]) + Own(rp[p], rt[f])
      /\ k + Due(rp[p]) - Weight(rt[f]) = hosted + Due(req[p]) - Weight(rows[f])
      /\ Weight(rt[f]) + Growth(rp[p]) <= Weight(rows[f]) + Growth(req[p])
  BY <1>3, <1>4, <1>5, <1>6, Zenon
<1>8. BooksAt(req, rows, hosted)
  BY DEF Books
<1>9. req[p].frag = f
  BY DEF About
<1>10. BooksAt(rp, rt, k)
  BY <1>1, <1>3, <1>7, <1>8, RowBooks
<1> QED
  BY <1>4, <1>5, <1>6, <1>10 DEF Books

(* A store records its shard: the old size is now owed, the new one not yet in. *)
LEMMA StoreRecordBooks ==
  ASSUME IInv, IInv', ~tainted, Books, NEW h \in Handlers, StoreRecord(h)
  PROVE  Books'
<1>0. Requests /\ Typed /\ Typed' /\ h \in Procs
  BY IInvSplit, Typing DEF IInv, TypeOK, Typed, Rows
<1>1. req[h].op = "record" /\ hosted' = hosted
  BY Zenon DEF StoreRecord
<1>2. req[h] \in Request /\ req[h].frag \in Fragments /\ req[h].todo = {}
  BY <1>0, <1>1, InHand
<1>3. PICK f \in Fragments : f = req[h].frag
  BY <1>2
<1>4. PICK n \in Sizes : n = req[h].size
  BY <1>0, <1>1, Zenon DEF Requests, Shaped, Storing
<1>5. rows'[f] = n /\ \A g \in Fragments \ {f} : rows'[g] = rows[g]
  BY <1>0, <1>3, <1>4, Zenon DEF StoreRecord, Typed, Rows
<1>6. PICK r : r = [req[h] EXCEPT !.op = "settle store"]
  BY Zenon
<1>7. /\ r \in Request /\ r.op = "settle store" /\ r.frag = f /\ r.todo = {}
      /\ r.size = n /\ r.old = req[h].old
  BY <1>2, <1>3, <1>4, <1>6, Zenon DEF Request, Ops
<1>8. req' = [req EXCEPT ![h] = r]
  BY <1>6, Zenon DEF StoreRecord
<1>9. PICK old : old = req[h].old
  OBVIOUS
<1>10. old \in Nat /\ old = Weight(rows[f])
  <2>1. Knows(req[h], rows)
    BY <1>0 DEF Books, BooksAt
  <2> QED
    BY <1>1, <1>2, <1>3, <1>9, <2>1 DEF Knows, Request
<1>11. Weight(n) = n
  BY <1>4 DEF Weight
<1>12. Debt(req[h]) = 0 /\ Due(req[h]) = 0 /\ ~Recorder(req[h])
  BY <1>1, <1>2, TermsOf, Zenon
<1>13. Debt(r) = old /\ Due(r) = n - old /\ Recorder(r) /\ Growth(r) = 0
  BY <1>7, <1>9, TermsOf, Zenon DEF Recorder
<1>14. Growth(req[h]) = PlusZero(n - old)
  BY <1>1, <1>4, <1>9 DEF Growth
<1>15. Own(req[h], rows[f]) = old /\ Own(r, rows'[f]) = 0
  BY <1>10, <1>12, <1>13 DEF Own
<1>16. hosted \in Nat /\ n \in Nat
  BY <1>0, <1>4 DEF Typed
<1>17. hosted' = hosted - Debt(req[h]) + Debt(r) - Own(req[h], rows[f]) + Own(r, rows'[f])
  BY <1>1, <1>10, <1>12, <1>13, <1>15, <1>16
<1>18. hosted' + Due(r) - Weight(rows'[f]) = hosted + Due(req[h]) - Weight(rows[f])
  BY <1>1, <1>5, <1>10, <1>11, <1>12, <1>13, <1>16
<1>19. Weight(rows'[f]) + Growth(r) <= Weight(rows[f]) + Growth(req[h])
  BY <1>5, <1>10, <1>11, <1>13, <1>14, <1>16 DEF PlusZero
<1>20. About(req[h], f) /\ About(r, f) /\ Knows(r, rows')
  BY <1>3, <1>5, <1>7, Zenon DEF About, Knows
<1> QED
  BY <1>0, <1>5, <1>7, <1>8, <1>17, <1>18, <1>19, <1>20, RowStepBooks, Zenon

(* It settles: the new size comes in, the old one goes. *)
LEMMA StoreSettleBooks ==
  ASSUME IInv, IInv', ~tainted, Books, NEW h \in Handlers, StoreSettle(h)
  PROVE  Books'
<1>0. Requests /\ Typed /\ Typed' /\ h \in Procs
  BY IInvSplit, Typing DEF IInv, TypeOK, Typed, Rows
<1>1. /\ req[h].op = "settle store" /\ rows' = rows /\ req' = [req EXCEPT ![h] = Idle]
      /\ hosted' = PlusZero(hosted + req[h].size - req[h].old)
  BY Zenon DEF StoreSettle
<1>2. req[h] \in Request /\ req[h].frag \in Fragments
  BY <1>0, <1>1, InHand, Zenon
<1>3. PICK f \in Fragments : f = req[h].frag
  BY <1>2
<1>4. PICK n : n = req[h].size
  OBVIOUS
<1>5. PICK old : old = req[h].old
  OBVIOUS
<1>6. n \in Nat /\ old \in Nat /\ hosted \in Nat
  BY <1>0, <1>2, <1>4, <1>5 DEF Request, Typed
<1>7. Debt(req[h]) = old /\ Due(req[h]) = n - old /\ Growth(req[h]) = 0 /\ Recorder(req[h])
  BY <1>1, <1>2, <1>4, <1>5, TermsOf, Zenon DEF Recorder
<1>8. rows[f] = n
  <2>1. Knows(req[h], rows)
    BY <1>0 DEF Books, BooksAt
  <2> QED
    BY <1>1, <1>3, <1>4, <2>1, Zenon DEF Knows
<1>9. Weight(rows[f]) = n
  BY <1>6, <1>8 DEF Weight
<1>10. old <= hosted
  <2>1. Debts(req) \in Nat /\ Debt(req[h]) <= Debts(req)
    BY <1>0, RequestSums DEF Typed
  <2>2. Keeps(rows, Settling(req)) \in Nat
    BY <1>0, RowTypes DEF Typed
  <2>3. hosted = Debts(req) + Keeps(rows, Settling(req))
    BY DEF Books, BooksAt, Account
  <2> QED
    BY <1>6, <1>7, <2>1, <2>2, <2>3
<1>11. hosted' = hosted + n - old
  <2>1. hosted' = PlusZero(hosted + n - old)
    BY <1>1, <1>4, <1>5, Zenon
  <2> QED
    BY <1>6, <1>10, <2>1 DEF PlusZero
<1>12. Own(req[h], rows[f]) = 0 /\ Own(Idle, rows'[f]) = n
  BY <1>1, <1>7, <1>9, IdleTerms, Zenon DEF Own
<1>13. Weight(rows'[f]) = n
  BY <1>1, <1>9, Zenon
<1>14. hosted' = hosted - Debt(req[h]) + Debt(Idle) - Own(req[h], rows[f]) + Own(Idle, rows'[f])
  BY <1>6, <1>7, <1>11, <1>12, IdleTerms
<1>15. hosted' + Due(Idle) - Weight(rows'[f]) = hosted + Due(req[h]) - Weight(rows[f])
  BY <1>6, <1>7, <1>9, <1>11, <1>13, IdleTerms
<1>16. Weight(rows'[f]) + Growth(Idle) <= Weight(rows[f]) + Growth(req[h])
  BY <1>6, <1>7, <1>9, <1>13, IdleTerms, SMTT(30)
<1>17. About(req[h], f)
  BY <1>3 DEF About
<1>18. \A g \in Fragments \ {f} : rows'[g] = rows[g]
  BY <1>1, Zenon
<1> QED
  BY <1>0, <1>1, <1>14, <1>15, <1>16, <1>17, <1>18, IdleTerms, RowStepBooks, Zenon
(* A deletion forgets its row, and owes the size. *)
LEMMA DeleteForgetBooks ==
  ASSUME IInv, IInv', ~tainted, Books, NEW h \in Handlers, DeleteForget(h)
  PROVE  Books'
<1>0. Requests /\ Typed /\ Typed' /\ h \in Procs
  BY IInvSplit, Typing DEF IInv, TypeOK, Typed, Rows
<1>1. req[h].op = "forget" /\ hosted' = hosted
  BY Zenon DEF DeleteForget
<1>2. req[h] \in Request /\ req[h].frag \in Fragments /\ req[h].todo = {}
  BY <1>0, <1>1, InHand
<1>3. PICK f \in Fragments : f = req[h].frag
  BY <1>2
<1>4. rows'[f] = None /\ \A g \in Fragments \ {f} : rows'[g] = rows[g]
  BY <1>0, <1>3, Zenon DEF DeleteForget, Typed, Rows
<1>5. PICK r : r = [req[h] EXCEPT !.op = "settle delete"]
  BY Zenon
<1>6. r \in Request /\ r.op = "settle delete" /\ r.todo = {} /\ r.old = req[h].old
  BY <1>2, <1>5, Zenon DEF Request, Ops
<1>7. req' = [req EXCEPT ![h] = r]
  BY <1>5, Zenon DEF DeleteForget
<1>8. PICK old : old = req[h].old
  OBVIOUS
<1>9. old \in Nat /\ old = Weight(rows[f])
  <2>1. Knows(req[h], rows)
    BY <1>0 DEF Books, BooksAt
  <2> QED
    BY <1>1, <1>2, <1>3, <1>8, <2>1 DEF Knows, Request
<1>10. Debt(req[h]) = 0 /\ Due(req[h]) = 0 /\ ~Recorder(req[h]) /\ Growth(req[h]) = 0
  BY <1>1, <1>2, TermsOf, Zenon
<1>11. Debt(r) = old /\ Due(r) = 0 - old /\ ~Recorder(r) /\ Growth(r) = 0
  BY <1>6, <1>8, TermsOf, Zenon
<1>12. Weight(rows'[f]) = 0
  BY <1>4 DEF Weight
<1>14. Own(req[h], rows[f]) = old /\ Own(r, rows'[f]) = 0
  BY <1>9, <1>10, <1>11, <1>12 DEF Own
<1>15. hosted \in Nat
  BY <1>0 DEF Typed
<1>16. hosted' = hosted - Debt(req[h]) + Debt(r) - Own(req[h], rows[f]) + Own(r, rows'[f])
  BY <1>1, <1>9, <1>10, <1>11, <1>14, <1>15
<1>17. hosted' + Due(r) - Weight(rows'[f]) = hosted + Due(req[h]) - Weight(rows[f])
  BY <1>1, <1>9, <1>10, <1>11, <1>12, <1>15
<1>18. Weight(rows'[f]) + Growth(r) <= Weight(rows[f]) + Growth(req[h])
  BY <1>9, <1>10, <1>11, <1>12
<1>13. About(req[h], f) /\ Knows(r, rows')
  BY <1>3, <1>6, Zenon DEF About, Knows
<1> QED
  BY <1>0, <1>4, <1>6, <1>7, <1>11, <1>16, <1>17, <1>18, <1>13, RowStepBooks, Zenon

(* The sweep drops a row of the size it listed. *)
LEMMA SweepDropBooks ==
  ASSUME IInv, IInv', ~tainted, Books, SweepDrop
  PROVE  Books'
<1>0. Requests /\ Typed /\ Typed' /\ Sweeper \in Procs
  BY IInvSplit, Typing DEF IInv, TypeOK, Typed, Rows
<1>1. req[Sweeper].op = "drop" /\ hosted' = hosted
  BY DEF SweepDrop
<1>2. req[Sweeper] \in Request
  BY <1>0 DEF Typed
<1>3. PICK f \in Fragments : f = req[Sweeper].frag
  BY <1>0, <1>1 DEF Requests, Shaped
<1>4. rows'[f] = None /\ \A g \in Fragments \ {f} : rows'[g] = rows[g]
  BY <1>0, <1>3 DEF SweepDrop, Typed, Rows
<1>5. PICK deleted \in BOOLEAN : deleted = (rows[f] # None)
  BY Zenon
<1>6. PICK r \in Request, t \in req[Sweeper].todo :
         /\ r.op = "sweep" /\ r.frag = None
         /\ r.todo \subseteq req[Sweeper].todo /\ r.old = req[Sweeper].old
         /\ t[1] = req[Sweeper].frag /\ r.todo = req[Sweeper].todo \ {t}
         /\ r.freed = req[Sweeper].freed + IF deleted THEN t[2] ELSE 0
         /\ SweptRow(deleted) = [req EXCEPT ![Sweeper] = r]
  BY <1>0, <1>1, SweptRowStep
<1>7. req' = [req EXCEPT ![Sweeper] = r]
  BY <1>3, <1>5, <1>6 DEF SweepDrop
<1>8. \A u \in req[Sweeper].todo : rows[u[1]] = u[2]
  BY <1>0, Zenon DEF Books, BooksAt, Knows
<1>9. PICK n \in Sizes : n = t[2]
  BY <1>2, <1>6, Zenon DEF Request
<1>10. rows[f] = n
  BY <1>3, <1>6, <1>8, <1>9
<1>11. Weight(rows[f]) = n /\ Weight(rows'[f]) = 0 /\ rows[f] # None
  BY <1>4, <1>9, <1>10 DEF Weight
<1>12. PICK m : m = req[Sweeper].freed
  OBVIOUS
<1>13. m \in Nat /\ n \in Nat /\ hosted \in Nat
  BY <1>0, <1>2, <1>9, <1>12 DEF Typed, Request
<1>14. r.freed = m + n
  BY <1>5, <1>6, <1>9, <1>11, <1>12, Zenon
<1>15. /\ Debt(req[Sweeper]) = m /\ Due(req[Sweeper]) = 0 - m
       /\ ~Recorder(req[Sweeper]) /\ Growth(req[Sweeper]) = 0
  BY <1>1, <1>2, <1>12, TermsOf, Zenon
<1>16. Debt(r) = m + n /\ Due(r) = 0 - (m + n) /\ ~Recorder(r) /\ Growth(r) = 0
  <2>1. r.op = "sweep"
    BY <1>6
  <2>2. Debt(r) = r.freed /\ Due(r) = 0 - r.freed /\ ~Recorder(r) /\ Growth(r) = 0
    BY <2>1, TermsOf, Zenon
  <2> QED
    BY <1>14, <2>2
<1>17. Own(req[Sweeper], rows[f]) = n /\ Own(r, rows'[f]) = 0
  BY <1>11, <1>15, <1>16 DEF Own
<1>18. hosted' = hosted - Debt(req[Sweeper]) + Debt(r) - Own(req[Sweeper], rows[f]) + Own(r, rows'[f])
  BY <1>1, <1>13, <1>15, <1>16, <1>17
<1>19. hosted' + Due(r) - Weight(rows'[f]) = hosted + Due(req[Sweeper]) - Weight(rows[f])
  BY <1>1, <1>11, <1>13, <1>15, <1>16
<1>20. Weight(rows'[f]) + Growth(r) <= Weight(rows[f]) + Growth(req[Sweeper])
  BY <1>11, <1>13, <1>15, <1>16
<1>21. Knows(r, rows')
  <2>1. ASSUME NEW u \in r.todo PROVE rows'[u[1]] = u[2]
    <3>1. u \in req[Sweeper].todo /\ u # t /\ rows[u[1]] = u[2]
      BY <1>6, <1>8
    <3>2. u \in Fragments \X Sizes /\ t \in Fragments \X Sizes
      BY <1>2, <1>6, <3>1 DEF Request
    <3>3. u[1] # f
      BY <1>3, <1>6, <1>9, <1>10, <3>1, <3>2
    <3> QED
      BY <1>4, <3>1, <3>2, <3>3
  <2> QED
    BY <1>6, <2>1 DEF Knows
<1>22. About(req[Sweeper], f)
  BY <1>3 DEF About
<1> QED
  BY <1>0, <1>4, <1>6, <1>7, <1>16, <1>18, <1>19, <1>20, <1>21, <1>22, RowStepBooks, Zenon
-----------------------------------------------------------------------------
(* The cap *)

(* A request of a connection, and a store that has a shard. *)
Carries(r) ==
    /\ r.op \notin {"sweep", "drop"}
    /\ r.op \in Storing \cup {"settle store"} => r.size \in Sizes

(* What one connection may have in the rows and not in the total, and may yet *)
(* add: a shard.                                                              *)
LEMMA OneShard ==
  ASSUME NEW r \in Request, Carries(r)
  PROVE  Due(r) + Growth(r) <= MaxSize
<1>1. PICK n : n = r.size
  OBVIOUS
<1>2. PICK old : old = r.old
  OBVIOUS
<1>3. n \in Nat /\ old \in Nat /\ MaxSize \in Nat
  BY <1>1, <1>2, MaxSizeIs DEF Request
<1>4. r.op \in Storing \cup {"settle store"} => n <= MaxSize
  BY <1>1, MaxSizeIs, Zenon DEF Carries
<1>5. CASE r.op = "check"
  <2>1. Due(r) = 0
    BY <1>5, TermsOf, Zenon
  <2>2. PICK m : m = PlusZero(Contributed - r.seen)
    OBVIOUS
  <2>3. m \in Nat
    <3>1. r.seen \in Nat
      BY DEF Request
    <3> QED
      BY <2>2, <3>1, PlusZeroType
  <2>4. Growth(r) = IF MaxSize <= m THEN MaxSize ELSE m
    BY <1>5, <2>2 DEF Growth
  <2> QED
    BY <1>3, <2>1, <2>4, <2>3
<1>6. CASE r.op \in {"write", "record"}
  <2>1. Due(r) = 0
    BY <1>6, TermsOf, Zenon
  <2>2. Growth(r) = PlusZero(n - old)
    BY <1>1, <1>2, <1>6 DEF Growth
  <2>3. n <= MaxSize
    BY <1>4, <1>6, Zenon DEF Storing
  <2> QED
    BY <1>3, <2>1, <2>2, <2>3 DEF PlusZero
<1>7. CASE r.op = "settle store"
  <2>1. Due(r) = n - old /\ Growth(r) = 0
    BY <1>1, <1>2, <1>7, TermsOf, Zenon
  <2>2. n <= MaxSize
    BY <1>4, <1>7, Zenon
  <2> QED
    BY <1>3, <2>1, <2>2
<1>8. CASE r.op = "settle delete"
  <2>1. Due(r) = 0 - old /\ Growth(r) = 0
    BY <1>2, <1>8, TermsOf, Zenon
  <2> QED
    BY <1>3, <2>1
<1>9. CASE r.op \in {"idle", "look up", "unlink", "forget"}
  <2>1. Due(r) = 0 /\ Growth(r) = 0
    BY <1>9, TermsOf, Zenon
  <2> QED
    BY <1>3, <2>1
<1>10. r.op \in Ops
  BY DEF Request
<1> QED
  BY <1>5, <1>6, <1>7, <1>8, <1>9, <1>10, Zenon DEF Ops, Carries

(* All but one connection together: that many shards. *)
LEMMA OtherShards ==
  ASSUME NEW rp \in [Procs -> Request], NEW h \in Handlers,
         \A q \in Handlers : Due(rp[q]) + Growth(rp[q]) <= MaxSize,
         Due(rp[Sweeper]) + Growth(rp[Sweeper]) <= 0
  PROVE  Dues(rp) + Growths(rp) <=
            Due(rp[h]) + Growth(rp[h]) + (Cardinality(Handlers) - 1) * MaxSize
<1>1. PICK c : c = [q \in Procs |-> Due(rp[q])]
  BY Zenon
<1>2. PICK e : e = [q \in Procs |-> Growth(rp[q])]
  BY Zenon
<1>3. PICK g : g = [q \in Procs |-> Due(rp[q]) + Growth(rp[q])]
  BY Zenon
<1>4. PICK S : S = Procs
  OBVIOUS
<1>5. \A q \in Procs : rp[q] \in Request
  OBVIOUS
<1>6. \A q \in Procs : Due(rp[q]) \in Int /\ Growth(rp[q]) \in Int
  BY <1>5, BookTerms
<1>7. \A q \in S : c[q] \in Int /\ e[q] \in Int /\ g[q] = c[q] + e[q]
  BY <1>1, <1>2, <1>3, <1>4, <1>6
<1>8. \A q \in S : g[q] \in Int
  BY <1>7
<1>9. IsFiniteSet(S)
  BY <1>4, FiniteProcs
<1>10. SumFunctionOnSet(g, S) = SumFunctionOnSet(c, S) + SumFunctionOnSet(e, S)
  BY <1>7, <1>9, SumPlus
<1>11. h \in S /\ Sweeper \in S \ {h} /\ (S \ {h}) \ {Sweeper} = Handlers \ {h}
  BY <1>4
<1>12. SumFunctionOnSet(g, S) = g[h] + SumFunctionOnSet(g, S \ {h})
  BY <1>8, <1>9, <1>11, SumRemove
<1>13. IsFiniteSet(S \ {h})
  BY <1>9, FS_RemoveElement
<1>14. \A q \in S \ {h} : g[q] \in Int
  BY <1>8
<1>15. SumFunctionOnSet(g, S \ {h}) = g[Sweeper] + SumFunctionOnSet(g, (S \ {h}) \ {Sweeper})
  BY <1>11, <1>13, <1>14, SumRemove
<1>16. PICK T : T = Handlers \ {h}
  BY Zenon
<1>17. IsFiniteSet(T) /\ Cardinality(T) = Cardinality(Handlers) - 1
  BY <1>16, FS_RemoveElement
<1>18. \A q \in T : g[q] \in Int /\ g[q] <= MaxSize
  BY <1>3, <1>4, <1>8, <1>16, Zenon
<1>19. SumFunctionOnSet(g, T) <= Cardinality(T) * MaxSize
  BY <1>17, <1>18, MaxSizeIs, SumAtMost
<1>20. SumFunctionOnSet(g, T) \in Int
  BY <1>17, <1>18, SumType
<1>21. g[Sweeper] <= 0 /\ g[Sweeper] \in Int /\ g[h] = Due(rp[h]) + Growth(rp[h]) /\ g[h] \in Int
  BY <1>3, <1>4, <1>8, <1>11, Zenon
<1>22. PICK b : b = (Cardinality(Handlers) - 1) * MaxSize
  OBVIOUS
<1>23. b \in Int
  <2>1. Ceiling \in Int /\ Ceiling = Contributed + b
    BY <1>22, CeilingType DEF Ceiling
  <2>2. PICK k : k = Cardinality(Handlers)
    OBVIOUS
  <2>3. k \in Nat
    BY <2>2, FS_CardinalityType
  <2> QED
    BY <1>22, <2>2, <2>3, MaxSizeIs
<1>24. SumFunctionOnSet(g, T) <= b
  BY <1>17, <1>19, <1>22
<1>25. SumFunctionOnSet(g, S) <= g[h] + b
  <2>1. SumFunctionOnSet(g, S \ {h}) = g[Sweeper] + SumFunctionOnSet(g, T)
    BY <1>11, <1>15, <1>16
  <2>2. SumFunctionOnSet(g, S) = g[h] + (g[Sweeper] + SumFunctionOnSet(g, T))
    BY <1>12, <2>1
  <2> QED
    BY <1>20, <1>21, <1>23, <1>24, <2>2
<1>26. Dues(rp) = SumFunctionOnSet(c, S) /\ Growths(rp) = SumFunctionOnSet(e, S)
  BY <1>1, <1>2, <1>4 DEF Dues, Growths
<1> QED
  BY <1>10, <1>21, <1>22, <1>25, <1>26
(* A store reads the capacity.  If there is none left it can add nothing; if there *)
(* is, every other connection has at most a shard beyond the total.               *)
LEMMA StoreBeginBooks ==
  ASSUME IInv, IInv', Books, NEW h \in Handlers, NEW f \in Fragments, NEW n \in Sizes,
         StoreBegin(h, f, n)
  PROVE  Books'
<1>0. Requests /\ Typed /\ Typed' /\ Shaped' /\ h \in Procs /\ Sweeper \in Procs
  BY IInvSplit, Typing DEF IInv, TypeOK, Typed, Rows
<1>1. req[h].op = "idle" /\ rows' = rows /\ hosted' = hosted
  BY DEF StoreBegin
<1>2. PICK r : r = [Idle EXCEPT !.op = "check", !.frag = f, !.size = n, !.seen = hosted]
  OBVIOUS
<1>3. req' = [req EXCEPT ![h] = r]
  BY <1>2 DEF StoreBegin
<1>4. r.op = "check" /\ r.todo = {} /\ r.seen = hosted
  BY <1>2 DEF Idle
<1>5. r \in Request /\ req[h] \in Request
  BY <1>0, <1>3 DEF Typed
<1>6. /\ Debt(req[h]) = 0 /\ Due(req[h]) = 0 /\ ~Recorder(req[h]) /\ Growth(req[h]) = 0
      /\ Debt(r) = 0 /\ Due(r) = 0 /\ ~Recorder(r)
  BY <1>1, <1>4, <1>5, TermsOf, Zenon
<1>7. Knows(r, rows)
  BY <1>4 DEF Knows
<1>8. PICK m : m = PlusZero(Contributed - hosted)
  OBVIOUS
<1>9. Growth(r) = IF MaxSize <= m THEN MaxSize ELSE m
  BY <1>4, <1>8 DEF Growth
<1>10. hosted \in Nat /\ MaxSize \in Nat /\ Contributed \in Nat
  BY <1>0, MaxSizeIs DEF Typed
<1>11. CASE hosted >= Contributed
  <2>1. m = 0
    BY <1>8, <1>10, <1>11 DEF PlusZero
  <2>2. Growth(r) <= Growth(req[h])
    BY <1>6, <1>9, <1>10, <2>1
  <2> QED
    BY <1>0, <1>1, <1>3, <1>5, <1>6, <1>7, <2>2, QuietBooks, Zenon
<1>12. CASE hosted < Contributed
  <2>1. m = Contributed - hosted
    BY <1>8, <1>10, <1>12 DEF PlusZero
  <2>2. Growth(r) <= Contributed - hosted /\ Growth(r) \in Nat
    BY <1>9, <1>10, <1>12, <2>1
  <2>3. PICK rp : rp = req'
    OBVIOUS
  <2>4. /\ req \in [Procs -> Request] /\ rp \in [Procs -> Request] /\ rp[h] = r
        /\ \A q \in Procs \ {h} : rp[q] = req[q]
    BY <1>0, <1>3, <2>3 DEF Typed
  <2>5. Debts(rp) = Debts(req) /\ Dues(rp) = Dues(req) /\ Dues(rp) \in Int
    <3>1. /\ Debts(req) \in Nat /\ Dues(req) \in Int
          /\ Debts(rp) = Debts(req) - Debt(req[h]) + Debt(rp[h])
          /\ Dues(rp) = Dues(req) - Due(req[h]) + Due(rp[h])
      <4> HIDE DEF Procs
      <4> QED
        BY <1>0, <2>4, RequestSums
    <3> QED
      BY <1>6, <2>4, <3>1
  <2>6. \A q \in Procs : Knows(rp[q], rows)
    BY <1>7, <2>4 DEF Books, BooksAt
  <2>7. Settling(rp) = Settling(req)
    BY <1>6, <2>4, Zenon DEF Settling, Recorder
  <2>8. ASSUME NEW q \in Handlers PROVE Due(rp[q]) + Growth(rp[q]) <= MaxSize
    <3>1. /\ rp[q].op \notin {"sweep", "drop"} /\ (rp[q].frag = None => rp[q].op = "idle")
          /\ rp[q].op \in Storing => rp[q].size \in Sizes
      BY <1>0, <2>3 DEF Shaped
    <3>2. rp[q] \in Request /\ Knows(rp[q], rows)
      BY <2>4, <2>6
    <3>3. ASSUME rp[q].op = "settle store" PROVE rp[q].size \in Sizes
      <4>1. rp[q].frag \in Fragments
        BY <3>1, <3>2, <3>3, Zenon DEF Request
      <4>2. rows[rp[q].frag] \in Sizes \cup {None} /\ rows[rp[q].frag] = rp[q].size
        BY <1>0, <3>2, <3>3, <4>1, Zenon DEF Typed, Rows, Knows
      <4>3. rp[q].size \in Nat
        BY <3>2 DEF Request
      <4> QED
        BY <4>2, <4>3
    <3>4. Carries(rp[q])
      BY <3>1, <3>3, Zenon DEF Carries
    <3> QED
      BY <3>2, <3>4, OneShard
  <2>9. Due(rp[Sweeper]) + Growth(rp[Sweeper]) <= 0
    <3>1. rp[Sweeper] \in Request /\ rp[Sweeper].op \in {"idle", "sweep", "drop"}
      BY <1>0, <2>3, <2>4 DEF Shaped
    <3>2. PICK k : k = rp[Sweeper].freed
      OBVIOUS
    <3>3. k \in Nat
      BY <3>1, <3>2 DEF Request
    <3>4. Growth(rp[Sweeper]) = 0 /\ (Due(rp[Sweeper]) = 0 \/ Due(rp[Sweeper]) = 0 - k)
      BY <3>1, <3>2, TermsOf, Zenon
    <3> QED
      BY <3>3, <3>4
  <2>10. Dues(rp) + Growths(rp) <= Due(rp[h]) + Growth(rp[h]) + (Cardinality(Handlers) - 1) * MaxSize
    BY <2>4, <2>8, <2>9, OtherShards, Zenon
  <2>11. PICK b : b = (Cardinality(Handlers) - 1) * MaxSize
    OBVIOUS
  <2>12. b \in Int /\ Ceiling = Contributed + b
    <3>1. PICK k : k = Cardinality(Handlers)
      OBVIOUS
    <3>2. k \in Nat
      BY <3>1, FS_CardinalityType
    <3> QED
      BY <2>11, <3>1, <3>2, MaxSizeIs DEF Ceiling
  <2>13. /\ hosted = Debts(req) + Keeps(rows, Settling(req))
         /\ hosted + Dues(req) = Weights(rows)
    BY DEF Books, BooksAt, Account
  <2>14. Growths(rp) \in Nat
    BY <1>0, <2>4, RequestSums, Zenon
  <2>15. Weights(rows) + Growths(rp) <= Ceiling
    <3>1. Dues(rp) + Growths(rp) <= 0 + Growth(r) + b
      BY <1>6, <2>4, <2>10, <2>11
    <3>2. Weights(rows) = hosted + Dues(rp)
      BY <2>5, <2>13
    <3> QED
      BY <1>10, <2>2, <2>5, <2>12, <2>14, <3>1, <3>2
  <2>16. Account(rp, rows, Settling(rp), hosted)
    BY <2>5, <2>7, <2>13, <2>15 DEF Account
  <2> QED
    BY <1>1, <2>3, <2>6, <2>16 DEF Books, BooksAt
<1> QED
  BY <1>10, <1>11, <1>12

-----------------------------------------------------------------------------
(* The books begin in balance. *)
LEMMA InitBooks == Init => Books
<1> SUFFICES ASSUME Init PROVE Books
  OBVIOUS
<1>1. /\ rows = [g \in Fragments |-> None] /\ hosted = 0 /\ req = [q \in Procs |-> Idle]
  BY DEF Init
<1>2. \A q \in Procs : req[q] = Idle
  BY <1>1
<1>3. \A q \in Procs : Knows(req[q], rows)
  BY <1>2, IdleTerms
<1>4. Debts(req) = 0
  <2>1. PICK a : a = [q \in Procs |-> Debt(req[q])]
    BY Zenon
  <2>2. \A q \in Procs : a[q] = 0
    BY <1>2, <2>1, IdleTerms
  <2> QED
    BY <2>1, <2>2, FiniteProcs, ZeroSum DEF Debts
<1>5. Dues(req) = 0
  <2>1. PICK a : a = [q \in Procs |-> Due(req[q])]
    BY Zenon
  <2>2. \A q \in Procs : a[q] = 0
    BY <1>2, <2>1, IdleTerms
  <2> QED
    BY <2>1, <2>2, FiniteProcs, ZeroSum DEF Dues
<1>6. Growths(req) = 0
  <2>1. PICK a : a = [q \in Procs |-> Growth(req[q])]
    BY Zenon
  <2>2. \A q \in Procs : a[q] = 0
    BY <1>2, <2>1, IdleTerms
  <2> QED
    BY <2>1, <2>2, FiniteProcs, ZeroSum DEF Growths
<1>7. Weights(rows) = 0
  <2>1. PICK a : a = [g \in Fragments |-> Weight(rows[g])]
    BY Zenon
  <2>2. \A g \in Fragments : a[g] = 0
    BY <1>1, <2>1 DEF Weight
  <2> QED
    BY <2>1, <2>2, ZeroSum DEF Weights
<1>8. Keeps(rows, Settling(req)) = 0
  <2>1. PICK Q : Q = Settling(req)
    OBVIOUS
  <2>2. PICK a : a = [g \in Fragments |-> Kept(rows[g], g, Q)]
    BY Zenon
  <2>3. \A g \in Fragments : a[g] = 0
    BY <1>1, <2>2 DEF Weight, Kept
  <2>4. SumFunctionOnSet(a, Fragments) = 0
    BY <2>3, ZeroSum
  <2> QED
    BY <2>1, <2>2, <2>4 DEF Keeps
<1>9. 0 <= Ceiling
  <2>1. PICK k : k = Cardinality(Handlers) - 1
    OBVIOUS
  <2>2. k \in Nat
    <3>1. Cardinality(Handlers) \in Nat /\ Cardinality(Handlers) # 0
      BY FS_CardinalityType, FS_EmptySet
    <3> QED
      BY <2>1, <3>1
  <2>3. k * MaxSize \in Nat
    BY <2>2, MaxSizeIs
  <2> QED
    BY <2>1, <2>3 DEF Ceiling
<1> QED
  BY <1>1, <1>3, <1>4, <1>5, <1>6, <1>7, <1>8, <1>9 DEF Books, BooksAt, Account
(* What the books do not speak of leaves them alone. *)
LEMMA SameBooks ==
  ASSUME Books, rows' = rows, hosted' = hosted, req' = req
  PROVE  Books'
BY Zenon DEF Books

(* Every step keeps the books, until the first overlap or failure. *)
LEMMA StepBooks == HInv /\ [Next]_vars => HInv'
<1> SUFFICES ASSUME HInv, [Next]_vars PROVE HInv'
  OBVIOUS
<1>1. IInv /\ IInv'
  BY StepIInv DEF HInv
<1> SUFFICES ASSUME ~tainted' PROVE Books'
  BY <1>1 DEF HInv
<1>2. ~tainted
  BY Zenon DEF Next, vars, StoreBegin, StoreCheck, StoreWrite, StoreRecord, StoreSettle, DeleteBegin,
     DeleteLookUp, DeleteUnlink, DeleteForget, DeleteSettle, SweepBegin, SweepUnlink, SweepDrop,
     SweepSettle, Fail, PassOver, DayPasses, Seen
<1>3. Books
  BY <1>2 DEF HInv
<1>4. ASSUME NEW h \in Handlers, NEW f \in Fragments, NEW n \in Sizes, StoreBegin(h, f, n)
      PROVE  Books'
  BY <1>1, <1>3, <1>4, StoreBeginBooks
<1>5. ASSUME NEW h \in Handlers, StoreCheck(h) PROVE Books'
  BY <1>1, <1>3, <1>5, StoreCheckBooks
<1>6. ASSUME NEW h \in Handlers, StoreWrite(h) \/ DeleteUnlink(h) PROVE Books'
  BY <1>1, <1>3, <1>6, FileBooks
<1>7. ASSUME NEW h \in Handlers, StoreRecord(h) PROVE Books'
  BY <1>1, <1>2, <1>3, <1>7, StoreRecordBooks
<1>8. ASSUME NEW h \in Handlers, StoreSettle(h) PROVE Books'
  BY <1>1, <1>2, <1>3, <1>8, StoreSettleBooks
<1>9. ASSUME NEW h \in Handlers, NEW f \in Fragments, DeleteBegin(h, f) PROVE Books'
  BY <1>1, <1>3, <1>9, DeleteBeginBooks
<1>10. ASSUME NEW h \in Handlers, DeleteLookUp(h) PROVE Books'
  BY <1>1, <1>3, <1>10, DeleteLookUpBooks
<1>11. ASSUME NEW h \in Handlers, DeleteForget(h) PROVE Books'
  BY <1>1, <1>2, <1>3, <1>11, DeleteForgetBooks
<1>12. ASSUME NEW h \in Handlers, DeleteSettle(h) PROVE Books'
  BY <1>1, <1>3, <1>12, RemovalBooks
<1>13. CASE SweepSettle
  BY <1>1, <1>3, <1>13, RemovalBooks
<1>14. ASSUME NEW o \in Owners, SweepBegin(o) PROVE Books'
  BY <1>1, <1>3, <1>14, SweepBeginBooks
<1>15. ASSUME NEW f \in Fragments, SweepUnlink(f) PROVE Books'
  BY <1>1, <1>3, <1>15, SweepUnlinkBooks
<1>16. CASE SweepDrop
  BY <1>1, <1>2, <1>3, <1>16, SweepDropBooks
<1>17. ASSUME NEW p \in Procs, Fail(p) PROVE Books'
  BY <1>1, <1>3, <1>17, FailBooks
<1>18. ASSUME NEW p \in Procs, PassOver(p) PROVE FALSE
  BY <1>18, Zenon DEF PassOver
<1>19. ASSUME NEW o \in Owners, DayPasses(o) \/ Seen(o) PROVE Books'
  BY <1>3, <1>19, SameBooks DEF DayPasses, Seen
<1>20. CASE UNCHANGED vars
  BY <1>3, <1>20, SameBooks DEF vars
<1> QED
  BY <1>4, <1>5, <1>6, <1>7, <1>8, <1>9, <1>10, <1>11, <1>12, <1>13, <1>14, <1>15, <1>16,
     <1>17, <1>18, <1>19, <1>20 DEF Next

(* Until then hosted_bytes is, with what is about to be settled, the sum of the  *)
(* sizes recorded in hosted_shards, and the GREATEST(.., 0) of the settlements   *)
(* never has anything to clamp (Books).                                          *)
THEOREM BooksKept == Spec => []HInv
<1>1. Init => HInv
  BY InitIInv, InitBooks DEF HInv
<1> QED
  BY <1>1, StepBooks, PTL DEF Spec

(* The sums of the properties are those of the books. *)
LEMMA TotalIsWeights ==
  ASSUME rows \in Rows
  PROVE  Total(Recorded) = Weights(rows)
<1>1. PICK a : a = [g \in Fragments |-> Weight(rows[g])]
  BY Zenon
<1>2. PICK T : T = Recorded
  OBVIOUS
<1>3. PICK e : e = [g \in T |-> HostedSize(g)]
  BY Zenon
<1>4. T \in SUBSET Fragments /\ DOMAIN e = T
  BY <1>2, <1>3 DEF Recorded
<1>5. \A g \in T : e[g] = a[g]
  BY <1>1, <1>3, <1>4 DEF HostedSize, Weight
<1>6. \A g \in Fragments : a[g] \in Int
  <2>1. \A g \in Fragments : rows[g] \in Sizes \cup {None}
    BY DEF Rows
  <2>2. \A n \in Sizes \cup {None} : Weight(n) \in Int
    BY BookTerms
  <2> QED
    BY <1>1, <2>1, <2>2, Zenon
<1>7. \A g \in Fragments \ T : a[g] = 0
  BY <1>1, <1>2 DEF Recorded, Weight
<1>8. SumFunction(e) = SumFunctionOnSet(a, Fragments)
  BY <1>4, <1>5, <1>6, <1>7, SumAll
<1>9. Total(Recorded) = SumFunction(e)
  BY <1>2, <1>3 DEF Total
<1>10. Weights(rows) = SumFunctionOnSet(a, Fragments)
  BY <1>1 DEF Weights
<1> QED
  BY <1>8, <1>9, <1>10

(* What is about to be settled is the sum of the dues. *)
LEMMA UnsettledIsDues == Unsettled = Dues(req)
BY DEF Unsettled, Dues, SumFunction

(* The books balance at every moment, for any number of concurrent StoreShard   *)
(* and DeleteShard handlers beside the retention sweep.                         *)
THEOREM HostedIsExact == Spec => []HostedExact
<1>1. HInv => HostedExact
  <2> SUFFICES ASSUME HInv, ~tainted PROVE hosted + Unsettled = Total(Recorded)
    BY DEF HostedExact
  <2>1. Books /\ rows \in Rows
    BY Typing DEF HInv, Typed
  <2>2. hosted + Dues(req) = Weights(rows)
    BY <2>1 DEF Books, BooksAt, Account
  <2> QED
    BY <2>1, <2>2, TotalIsWeights, UnsettledIsDues
<1> QED
  BY <1>1, BooksKept, PTL

(* Concurrent stores pass the contribution by at most the largest shard for     *)
(* each connection but one, for any number of connections and any sizes.        *)
THEOREM OvershootBounded == Spec => []CapOvershootBounded
<1>1. HInv => CapOvershootBounded
  <2> SUFFICES ASSUME HInv, ~tainted PROVE Total(Recorded) <= Ceiling
    BY DEF CapOvershootBounded, Ceiling
  <2>1. Books /\ rows \in Rows /\ req \in [Procs -> Request]
    BY Typing DEF HInv, Typed
  <2>2. Weights(rows) + Growths(req) <= Ceiling
    BY <2>1 DEF Books, BooksAt, Account
  <2>3. Growths(req) \in Nat
    <3>1. Sweeper \in Procs
      OBVIOUS
    <3> QED
      BY <2>1, <3>1, RequestSums, Zenon
  <2>4. Weights(rows) \in Nat
    BY <2>1, RowTypes
  <2>5. Weights(rows) <= Ceiling
    BY <2>2, <2>3, <2>4, CeilingType
  <2> QED
    BY <2>1, <2>5, TotalIsWeights
<1> QED
  BY <1>1, BooksKept, PTL
=============================================================================
