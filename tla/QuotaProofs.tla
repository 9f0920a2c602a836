----------------------------- MODULE QuotaProofs ----------------------------
(***************************************************************************)
(* Proofs about the quotas (module Quota): what a deleted account gives    *)
(* back, that an account is charged for what it stores, and that quotas    *)
(* are backed, for any number of users, files and requests.                *)
(***************************************************************************)
EXTENDS Quota, Sums

-----------------------------------------------------------------------------
(* The sums of the model, over all users, files and requests *)

Part(row) == IF row = None THEN 0 ELSE row.quota
Used(row) == IF row = None THEN 0 ELSE row.used
Held(row, u) == IF row # None /\ row.user = u THEN row.size ELSE 0
Owed(r, u) == IF r.user = u /\ r.op \in {"push", "refund", "credit"} THEN r.amount ELSE 0

Shares(q, U) == SumFunctionOnSet([u \in Users |-> Part(q[u])], U)
Stored(fs, u) == SumFunctionOnSet([f \in FileIds |-> Held(fs[f], u)], FileIds)
Flying(rs, u) == SumFunctionOnSet([p \in Procs |-> Owed(rs[p], u)], Procs)

QuotaRows == [Users -> QuotaRow \cup {None}]
FileRows == [FileIds -> FileRow \cup {None}]

(* The terms are naturals. *)
LEMMA TermTypes ==
  /\ \A row \in QuotaRow \cup {None} : Part(row) \in Nat /\ Used(row) \in Nat
  /\ \A row \in FileRow \cup {None}, u \in Users : Held(row, u) \in Nat
  /\ \A r \in Request, u \in Users : Owed(r, u) \in Nat
BY NoneAssumption DEF Part, Used, Held, Owed, QuotaRow, FileRow, Request

LEMMA Finite == IsFiniteSet(Users) /\ IsFiniteSet(FileIds) /\ IsFiniteSet(Procs)
BY QuotaAssumption, FS_Interval DEF FileIds, Procs

(* Allocated, Bytes and InFlight as such sums. *)
LEMMA AllocatedIs ==
  ASSUME NEW q \in QuotaRows, NEW U \in SUBSET Users
  PROVE  /\ SumFunction([u \in U \cap {v \in Users : q[v] # None} |-> q[u].quota]) = Shares(q, U)
         /\ Shares(q, U) \in Nat
<1>1. PICK f : f = [u \in Users |-> Part(q[u])]
  BY Zenon
<1>2. PICK T : T = U \cap {v \in Users : q[v] # None}
  BY Zenon
<1>3. PICK e : e = [u \in T |-> q[u].quota]
  BY Zenon
<1>4. \A u \in U : f[u] \in Nat
  BY <1>1, TermTypes DEF QuotaRows
<1>5. T \in SUBSET U /\ DOMAIN e = T /\ \A u \in T : e[u] = f[u]
  BY <1>1, <1>2, <1>3 DEF Part
<1>6. \A u \in U \ T : f[u] = 0
  BY <1>1, <1>2 DEF Part
<1>7. IsFiniteSet(U)
  BY Finite, FS_Subset
<1>8. SumFunction(e) = SumFunctionOnSet(f, U)
  BY <1>4, <1>5, <1>6, <1>7, SumAll
<1>9. SumFunctionOnSet(f, U) \in Nat
  BY <1>4, <1>7, SumNat
<1> QED
  BY <1>1, <1>2, <1>3, <1>8, <1>9 DEF Shares

LEMMA BytesIs ==
  ASSUME NEW fs \in FileRows, NEW u \in Users
  PROVE  /\ SumFunction([f \in {g \in FileIds : fs[g] # None /\ fs[g].user = u} |-> fs[f].size])
              = Stored(fs, u)
         /\ Stored(fs, u) \in Nat
<1>1. PICK h : h = [f \in FileIds |-> Held(fs[f], u)]
  BY Zenon
<1>2. PICK T : T = {g \in FileIds : fs[g] # None /\ fs[g].user = u}
  BY Zenon
<1>3. PICK e : e = [f \in T |-> fs[f].size]
  BY Zenon
<1>4. \A f \in FileIds : h[f] \in Nat
  BY <1>1, TermTypes DEF FileRows
<1>5. T \in SUBSET FileIds /\ DOMAIN e = T /\ \A f \in T : e[f] = h[f]
  BY <1>1, <1>2, <1>3 DEF Held
<1>6. \A f \in FileIds \ T : h[f] = 0
  BY <1>1, <1>2 DEF Held
<1>8. SumFunction(e) = SumFunctionOnSet(h, FileIds)
  BY <1>4, <1>5, <1>6, Finite, SumAll
<1>9. SumFunctionOnSet(h, FileIds) \in Nat
  BY <1>4, Finite, SumNat
<1> QED
  BY <1>1, <1>2, <1>3, <1>8, <1>9 DEF Stored

LEMMA InFlightIs ==
  ASSUME NEW rs \in [Procs -> Request], NEW u \in Users
  PROVE  /\ SumFunction([p \in {q \in Procs : rs[q].user = u
                                     /\ rs[q].op \in {"push", "refund", "credit"}}
                            |-> rs[p].amount]) = Flying(rs, u)
         /\ Flying(rs, u) \in Nat
         /\ \A p \in Procs : Owed(rs[p], u) <= Flying(rs, u)
<1>1. PICK h : h = [p \in Procs |-> Owed(rs[p], u)]
  BY Zenon
<1>2. PICK T : T = {q \in Procs : rs[q].user = u /\ rs[q].op \in {"push", "refund", "credit"}}
  BY Zenon
<1>3. PICK e : e = [p \in T |-> rs[p].amount]
  BY Zenon
<1>4. \A p \in Procs : h[p] \in Nat
  BY <1>1, TermTypes
<1>5. T \in SUBSET Procs /\ DOMAIN e = T /\ \A p \in T : e[p] = h[p]
  BY <1>1, <1>2, <1>3 DEF Owed
<1>6. \A p \in Procs \ T : h[p] = 0
  BY <1>1, <1>2 DEF Owed
<1>8. SumFunction(e) = SumFunctionOnSet(h, Procs)
  BY <1>4, <1>5, <1>6, Finite, SumAll
<1>9. SumFunctionOnSet(h, Procs) \in Nat /\ \A p \in Procs : h[p] <= SumFunctionOnSet(h, Procs)
  BY <1>4, Finite, SumNat
<1> QED
  BY <1>1, <1>2, <1>3, <1>8, <1>9 DEF Flying

(* One row, one file or one request changes. *)
LEMMA SharesChange ==
  ASSUME NEW q \in QuotaRows, NEW r \in QuotaRows, NEW u \in Users,
         \A v \in Users \ {u} : r[v] = q[v]
  PROVE  Shares(r, Users) = Shares(q, Users) - Part(q[u]) + Part(r[u])
<1>1. PICK f : f = [v \in Users |-> Part(q[v])]
  BY Zenon
<1>2. PICK g : g = [v \in Users |-> Part(r[v])]
  BY Zenon
<1>3. \A v \in Users : f[v] \in Int /\ g[v] \in Int
  BY <1>1, <1>2, TermTypes DEF QuotaRows
<1>4. \A v \in Users \ {u} : f[v] = g[v]
  BY <1>1, <1>2
<1>5. SumFunctionOnSet(g, Users) = SumFunctionOnSet(f, Users) - f[u] + g[u]
  BY <1>3, <1>4, Finite, SumChange
<1> QED
  BY <1>1, <1>2, <1>5 DEF Shares

LEMMA StoredChange ==
  ASSUME NEW fs \in FileRows, NEW gs \in FileRows, NEW x \in FileIds, NEW u \in Users,
         \A y \in FileIds \ {x} : gs[y] = fs[y]
  PROVE  Stored(gs, u) = Stored(fs, u) - Held(fs[x], u) + Held(gs[x], u)
<1>1. PICK f : f = [y \in FileIds |-> Held(fs[y], u)]
  BY Zenon
<1>2. PICK g : g = [y \in FileIds |-> Held(gs[y], u)]
  BY Zenon
<1>3. \A y \in FileIds : f[y] \in Int /\ g[y] \in Int
  BY <1>1, <1>2, TermTypes DEF FileRows
<1>4. \A y \in FileIds \ {x} : f[y] = g[y]
  BY <1>1, <1>2
<1>5. SumFunctionOnSet(g, FileIds) = SumFunctionOnSet(f, FileIds) - f[x] + g[x]
  BY <1>3, <1>4, Finite, SumChange
<1> QED
  BY <1>1, <1>2, <1>5 DEF Stored

LEMMA FlyingChange ==
  ASSUME NEW rs \in [Procs -> Request], NEW ts \in [Procs -> Request], NEW p \in Procs,
         NEW u \in Users, \A q \in Procs \ {p} : ts[q] = rs[q]
  PROVE  Flying(ts, u) = Flying(rs, u) - Owed(rs[p], u) + Owed(ts[p], u)
<1>1. PICK f : f = [q \in Procs |-> Owed(rs[q], u)]
  BY Zenon
<1>2. PICK g : g = [q \in Procs |-> Owed(ts[q], u)]
  BY Zenon
<1>3. \A q \in Procs : f[q] \in Int /\ g[q] \in Int
  BY <1>1, <1>2, TermTypes
<1>4. \A q \in Procs \ {p} : f[q] = g[q]
  BY <1>1, <1>2
<1>5. SumFunctionOnSet(g, Procs) = SumFunctionOnSet(f, Procs) - f[p] + g[p]
  BY <1>3, <1>4, Finite, SumChange
<1> QED
  BY <1>1, <1>2, <1>5 DEF Flying

(* Sweep: some files of a user go; what is left and what went add up. *)
LEMMA StoredSplit ==
  ASSUME NEW fs \in FileRows, NEW u \in Users, NEW S,
         S \subseteq {g \in FileIds : fs[g] # None /\ fs[g].user = u},
         NEW gs, gs = [f \in FileIds |-> IF f \in S THEN None ELSE fs[f]]
  PROVE  /\ SumFunction([f \in S |-> fs[f].size]) \in Nat
         /\ Stored(fs, u) = Stored(gs, u) + SumFunction([f \in S |-> fs[f].size])
         /\ \A v \in Users \ {u} : Stored(gs, v) = Stored(fs, v)
<1>1. PICK h : h = [f \in FileIds |-> Held(fs[f], u)]
  BY Zenon
<1>2. PICK k : k = [f \in FileIds |-> Held(gs[f], u)]
  BY Zenon
<1>3. PICK e : e = [f \in S |-> fs[f].size]
  BY Zenon
<1>4. PICK rest : rest = FileIds \ S
  BY Zenon
<1>5. S \in SUBSET FileIds /\ rest \in SUBSET FileIds /\ IsFiniteSet(S) /\ IsFiniteSet(rest)
  BY <1>4, Finite, FS_Subset
<1>6. \A f \in FileIds : h[f] \in Nat
  BY <1>1, TermTypes DEF FileRows
<1>7. \A f \in S : k[f] = 0
  BY <1>2, <1>5 DEF Held
<1>8. \A f \in rest : k[f] = h[f]
  BY <1>1, <1>2, <1>4
<1>9. \A f \in S : e[f] = h[f]
  BY <1>1, <1>3, <1>5 DEF Held
<1>10. SumFunction(e) = SumFunctionOnSet(h, S)
  BY <1>3, <1>5, <1>6, <1>9, SumAll
<1>11. SumFunctionOnSet(h, S) \in Nat
  BY <1>5, <1>6, SumNat
<1>12. SumFunctionOnSet(h, FileIds) = SumFunctionOnSet(h, S) + SumFunctionOnSet(h, rest)
  BY <1>4, <1>5, <1>6, Finite, SumSplit
<1>13. SumFunctionOnSet(h, rest) = SumFunctionOnSet(k, rest)
  BY <1>5, <1>6, <1>8, SumSame
<1>14. SumFunctionOnSet(k, rest) = SumFunctionOnSet(k, FileIds)
  <2>1. \A f \in FileIds : k[f] \in Int
    BY <1>4, <1>6, <1>7, <1>8
  <2>2. \A f \in FileIds \ rest : k[f] = 0
    BY <1>4, <1>7
  <2> QED
    BY <1>5, <2>1, <2>2, Finite, SumNonzero, Zenon
<1>15. SumFunctionOnSet(k, rest) \in Nat
  BY <1>5, <1>6, <1>8, SumNat, Zenon
<1>16. Stored(fs, u) = Stored(gs, u) + SumFunction(e)
  BY <1>1, <1>2, <1>10, <1>11, <1>12, <1>13, <1>14, <1>15 DEF Stored
<1>17. ASSUME NEW v \in Users \ {u} PROVE Stored(gs, v) = Stored(fs, v)
  <2>1. \A f \in FileIds : Held(gs[f], v) = Held(fs[f], v)
    BY DEF Held
  <2>2. [f \in FileIds |-> Held(gs[f], v)] = [f \in FileIds |-> Held(fs[f], v)]
    BY <2>1
  <2> QED
    BY <2>2 DEF Stored
<1> QED
  BY <1>3, <1>10, <1>11, <1>16, <1>17

-----------------------------------------------------------------------------
(* The shape of the requests *)

(* What the operation of a request says about its other fields. *)
Sound(r) ==
    /\ IF r.op \in {"idle", "set contribution"} THEN r.user = None ELSE r.user \in Users
    /\ r.op = "purging" => r.file \in FileIds
    /\ r.op = "set contribution" => r.amount \in Contributions

TInv == TypeOK /\ \A p \in Procs : Sound(req[p])

(* Only the request of p changes. *)
Moved(p) ==
    /\ p \in Procs
    /\ req' \in [Procs -> Request]
    /\ \A q \in Procs \ {p} : req'[q] = req[q]
    /\ \A q \in Procs : Sound(req'[q])

(* An idle request. *)
LEMMA IdleSound ==
  Idle \in Request /\ Sound(Idle) /\ Idle.op = "idle" /\ Idle.user = None
BY DEF Idle, Request, Ops, Sound

(* A request that becomes r. *)
LEMMA Becomes ==
  ASSUME TInv, NEW p \in Procs, NEW r \in Request, Sound(r), req' = [req EXCEPT ![p] = r]
  PROVE  Moved(p) /\ req'[p] = r
BY DEF TInv, TypeOK, Moved

(* UploadBegin. *)
LEMMA UploadBeginStep ==
  ASSUME TInv, NEW r \in Uploads, NEW u \in Users, NEW n \in Sizes, UploadBegin(r, u, n),
         UNCHANGED accounts, UNCHANGED default_quota
  PROVE  /\ TInv' /\ Moved(r)
         /\ req'[r].op \in {"grant", "charge"}
         /\ req'[r].op = "grant" => default_quota > 0
         /\ req'[r].user = u
<1>1. PICK b \in {"grant", "charge"} :
         b = IF quota[u] = None /\ default_quota > 0 THEN "grant" ELSE "charge"
  OBVIOUS
<1>2. PICK s : s = [Idle EXCEPT !.op = b, !.user = u, !.amount = n]
  OBVIOUS
<1>3. s = [op |-> b, user |-> u, amount |-> n, seen |-> 0, file |-> None, todo |-> {}]
  BY <1>2, Zenon DEF Idle
<1>4. s \in Request /\ Sound(s)
  BY <1>1, <1>3, QuotaAssumption DEF Request, Ops, Sound
<1>5. req' = [req EXCEPT ![r] = s]
  BY <1>1, <1>2 DEF UploadBegin
<1>6. Moved(r) /\ req'[r] = s
  BY <1>4, <1>5, Becomes, Zenon DEF Procs
<1>7. TInv'
  BY <1>6 DEF TInv, TypeOK, Moved, UploadBegin, accounts
<1> QED
  BY <1>1, <1>3, <1>6, <1>7

(* GrantDecide: the lock is taken exactly when a row is to be inserted. *)
LEMMA GrantDecideStep ==
  ASSUME TInv, NEW r \in Uploads, GrantDecide(r), UNCHANGED accounts, UNCHANGED default_quota
  PROVE  /\ TInv' /\ Moved(r)
         /\ req'[r].op \in {"charge", "insert"}
         /\ req'[r].op = "insert" =>
               lock' = r /\ req'[r].seen = Grant /\ Grant # 0 /\ quota[req[r].user] = None
         /\ req'[r].op = "charge" => lock' = None
         /\ req'[r].user = req[r].user
<1>1. PICK settled \in BOOLEAN : settled = (quota[req[r].user] # None \/ Grant = 0)
  BY Zenon
<1>2. Grant \in Nat
  <2>1. Allocated(Users) \in Nat
    BY AllocatedIs, Zenon DEF Allocated, Granted, TInv, TypeOK, QuotaRows
  <2> QED
    BY <2>1, QuotaAssumption DEF Grant, Least, PlusZero, TInv, TypeOK
<1>3. PICK s : s = [req[r] EXCEPT !.op = IF settled THEN "charge" ELSE "insert",
                                  !.seen = IF settled THEN 0 ELSE Grant]
  OBVIOUS
<1>4. r \in Procs /\ req[r] \in Request /\ req[r].user \in Users
  BY Zenon DEF TInv, TypeOK, Procs, Sound, GrantDecide
<1>5. /\ s.op = (IF settled THEN "charge" ELSE "insert")
      /\ s.seen = (IF settled THEN 0 ELSE Grant) /\ s.user = req[r].user
      /\ s \in Request
  BY <1>2, <1>3, <1>4, Zenon DEF Request, Ops
<1>6. Sound(s)
  BY <1>4, <1>5 DEF Sound
<1>7. req' = [req EXCEPT ![r] = s]
  BY <1>1, <1>3, Zenon DEF GrantDecide
<1>8. Moved(r) /\ req'[r] = s
  BY <1>4, <1>5, <1>6, <1>7, Becomes, Zenon
<1>9. lock' = IF settled THEN None ELSE r
  BY <1>1, Zenon DEF GrantDecide
<1>10. TInv'
  BY <1>8, <1>9 DEF TInv, TypeOK, Moved, GrantDecide, accounts
<1> QED
  BY <1>1, <1>5, <1>8, <1>9, <1>10, Zenon

(* What ensure, a charge, a refund, a credit or an administrator does to one row. *)
RowChanged(u) ==
    /\ quota' \in QuotaRows
    /\ \A v \in Users \ {u} : quota'[v] = quota[v]

(* GrantInsert: a row that exists stays, a new one has no usage. *)
LEMMA GrantInsertStep ==
  ASSUME TInv, NEW r \in Uploads, NEW u \in Users, u = req[r].user, GrantInsert(r),
         UNCHANGED accounts, UNCHANGED default_quota
  PROVE  /\ TInv' /\ Moved(r) /\ RowChanged(u)
         /\ req'[r].op = "charge" /\ req'[r].user = u
         /\ quota[u] # None => quota'[u] = quota[u]
         /\ quota[u] = None =>
              quota'[u] \in QuotaRow /\ quota'[u].quota = req[r].seen /\ quota'[u].used = 0
         /\ lock' = IF lock = r THEN None ELSE lock
<1>1. PICK s : s = [req[r] EXCEPT !.op = "charge", !.seen = 0]
  OBVIOUS
<1>2. r \in Procs /\ req[r] \in Request
  BY DEF TInv, TypeOK, Procs
<1>3. s.op = "charge" /\ s.user = u /\ s \in Request
  BY <1>1, <1>2, Zenon DEF Request, Ops
<1>4. Sound(s)
  BY <1>3 DEF Sound
<1>5. req' = [req EXCEPT ![r] = s]
  BY <1>1, Zenon DEF GrantInsert
<1>6. Moved(r) /\ req'[r] = s
  BY <1>2, <1>3, <1>4, <1>5, Becomes, Zenon
<1>7. PICK new : new = [quota |-> req[r].seen, used |-> 0]
  BY Zenon
<1>8. new \in QuotaRow /\ new.quota = req[r].seen /\ new.used = 0
  BY <1>2, <1>7 DEF QuotaRow, Request
<1>9. quota \in QuotaRows /\ quota' = IF quota[u] = None THEN [quota EXCEPT ![u] = new] ELSE quota
  BY <1>7 DEF TInv, TypeOK, QuotaRows, GrantInsert
<1>10. /\ RowChanged(u)
       /\ quota[u] # None => quota'[u] = quota[u]
       /\ quota[u] = None => quota'[u] = new
  BY <1>8, <1>9 DEF RowChanged, QuotaRows
<1>11. lock' = IF lock = r THEN None ELSE lock
  BY DEF GrantInsert
<1>12. TInv'
  BY <1>6, <1>10, <1>11 DEF TInv, TypeOK, Moved, RowChanged, QuotaRows, GrantInsert, accounts
<1> QED
  BY <1>3, <1>6, <1>8, <1>10, <1>11, <1>12

(* Charge: refused and over, or charged within the quota. *)
LEMMA ChargeStep ==
  ASSUME TInv, NEW r \in Uploads, NEW u \in Users, u = req[r].user, Charge(r),
         UNCHANGED accounts, UNCHANGED default_quota
  PROVE  /\ TInv' /\ Moved(r) /\ RowChanged(u)
         /\ \/ quota' = quota /\ req'[r] = Idle
            \/ /\ quota[u] \in QuotaRow /\ quota'[u] \in QuotaRow
               /\ quota'[u].quota = quota[u].quota
               /\ quota'[u].used = quota[u].used + req[r].amount
               /\ quota'[u].used <= quota'[u].quota
               /\ req'[r].op = "push" /\ req'[r].user = u
               /\ req'[r].amount = req[r].amount
<1>1. r \in Procs /\ req[r] \in Request /\ quota \in QuotaRows
  BY DEF TInv, TypeOK, Procs, QuotaRows
<1>2. PICK charged \in BOOLEAN : charged = (u \in Granted /\ Fits(quota[u], req[r].amount))
  BY Zenon
<1>3. CASE ~charged
  <2>1. quota' = quota /\ req' = [req EXCEPT ![r] = Idle]
    BY <1>2, <1>3, Zenon DEF Charge
  <2>2. Moved(r) /\ req'[r] = Idle
    BY <1>1, <2>1, IdleSound, Becomes, Zenon
  <2>3. TInv'
    BY <2>1, <2>2 DEF TInv, TypeOK, Moved, Charge, accounts
  <2>4. RowChanged(u)
    BY <1>1, <2>1, Zenon DEF RowChanged
  <2> QED
    BY <2>1, <2>2, <2>3, <2>4
<1>4. CASE charged
  <2>1. quota[u] \in QuotaRow /\ quota[u].used + req[r].amount <= quota[u].quota
    BY <1>1, <1>2, <1>4, Zenon DEF Granted, Fits, QuotaRows
  <2>2. PICK new : new = [quota[u] EXCEPT !.used = quota[u].used + req[r].amount]
    BY Zenon
  <2>3. /\ new \in QuotaRow /\ new.quota = quota[u].quota
        /\ new.used = quota[u].used + req[r].amount
    BY <1>1, <2>1, <2>2 DEF QuotaRow, Request
  <2>4. quota' = [quota EXCEPT ![u] = new]
    BY <1>2, <1>4, <2>2, Zenon DEF Charge
  <2>5. RowChanged(u) /\ quota'[u] = new
    BY <1>1, <2>3, <2>4 DEF RowChanged, QuotaRows
  <2>6. PICK s : s = [req[r] EXCEPT !.op = "push"]
    BY Zenon
  <2>7. s \in Request /\ s.op = "push" /\ s.user = u /\ s.amount = req[r].amount
    BY <1>1, <2>6, Zenon DEF Request, Ops
  <2>8. Sound(s)
    BY <2>7 DEF Sound
  <2>9. req' = [req EXCEPT ![r] = s]
    BY <1>2, <1>4, <2>6, Zenon DEF Charge
  <2>10. Moved(r) /\ req'[r] = s
    BY <1>1, <2>7, <2>8, <2>9, Becomes, Zenon
  <2>11. TInv'
    BY <2>5, <2>10 DEF TInv, TypeOK, Moved, RowChanged, QuotaRows, Charge, accounts
  <2> QED
    BY <2>1, <2>3, <2>5, <2>7, <2>10, <2>11, Zenon
<1> QED
  BY <1>2, <1>3, <1>4

(* PushStores: a file with a new id. *)
LEMMA PushStoresStep ==
  ASSUME TInv, NEW r \in Uploads, PushStores(r), UNCHANGED accounts, UNCHANGED default_quota
  PROVE  /\ TInv' /\ Moved(r) /\ req'[r] = Idle
         /\ minted' = minted + 1 /\ minted' \in FileIds
         /\ files'[minted'] \in FileRow
         /\ files'[minted'].user = req[r].user /\ files'[minted'].size = req[r].amount
         /\ \A f \in FileIds \ {minted'} : files'[f] = files[f]
<1>1. r \in Procs /\ req[r] \in Request /\ req[r].user \in Users
  BY Zenon DEF TInv, TypeOK, Procs, Sound, PushStores
<1>2. Moved(r) /\ req'[r] = Idle
  BY <1>1, IdleSound, Becomes, Zenon DEF PushStores
<1>3. PICK row : row = [user |-> req[r].user, size |-> req[r].amount]
  BY Zenon
<1>4. row \in FileRow /\ row.user = req[r].user /\ row.size = req[r].amount
  BY <1>1, <1>3 DEF FileRow, Request
<1>5. minted' = minted + 1 /\ minted' \in FileIds /\ files' = [files EXCEPT ![minted'] = row]
  BY <1>3 DEF PushStores
<1>6. /\ files' \in FileRows /\ files'[minted'] = row
      /\ \A f \in FileIds \ {minted'} : files'[f] = files[f]
  BY <1>4, <1>5 DEF TInv, TypeOK, FileRows
<1>7. minted' \in 0 .. MaxFiles
  BY <1>5, QuotaAssumption DEF FileIds
<1>8. TInv'
  BY <1>2, <1>6, <1>7, Zenon DEF TInv, TypeOK, Moved, FileRows, PushStores, accounts
<1> QED
  BY <1>2, <1>4, <1>5, <1>6, <1>8, Zenon

(* PushStoresNothing. *)
LEMMA PushStoresNothingStep ==
  ASSUME TInv, NEW r \in Uploads, PushStoresNothing(r), UNCHANGED accounts, UNCHANGED default_quota
  PROVE  /\ TInv' /\ Moved(r)
         /\ req'[r].op = "refund" /\ req'[r].user = req[r].user
         /\ req'[r].amount = req[r].amount
<1>1. r \in Procs /\ req[r] \in Request /\ req[r].user \in Users
  BY Zenon DEF TInv, TypeOK, Procs, Sound, PushStoresNothing
<1>2. PICK s : s = [req[r] EXCEPT !.op = "refund"]
  BY Zenon
<1>3. s \in Request /\ s.op = "refund" /\ s.user = req[r].user /\ s.amount = req[r].amount
  BY <1>1, <1>2, Zenon DEF Request, Ops
<1>4. Sound(s)
  BY <1>1, <1>3 DEF Sound
<1>5. req' = [req EXCEPT ![r] = s]
  BY <1>2 DEF PushStoresNothing
<1>6. Moved(r) /\ req'[r] = s
  BY <1>1, <1>3, <1>4, <1>5, Becomes, Zenon
<1>7. TInv'
  BY <1>6 DEF TInv, TypeOK, Moved, PushStoresNothing, accounts
<1> QED
  BY <1>3, <1>6, <1>7

(* adjust_user_used: usage goes down by n, to 0 at least. *)
LEMMA LessStep ==
  ASSUME NEW u \in Users, NEW n \in Nat, quota \in QuotaRows, quota' = Less(u, n)
  PROVE  /\ RowChanged(u)
         /\ quota[u] = None => quota'[u] = None
         /\ quota[u] # None =>
              /\ quota[u] \in QuotaRow /\ quota'[u] \in QuotaRow
              /\ quota'[u].quota = quota[u].quota
              /\ quota'[u].used <= quota[u].used
              /\ quota'[u].used >= quota[u].used - n
<1>1. CASE quota[u] = None
  <2>1. quota' = quota
    BY <1>1 DEF Less, Granted
  <2> QED
    BY <1>1, <2>1 DEF RowChanged
<1>2. CASE quota[u] # None
  <2>1. quota[u] \in QuotaRow /\ u \in Granted
    BY <1>2 DEF QuotaRows, Granted
  <2>2. PICK new : new = [quota[u] EXCEPT !.used = PlusZero(quota[u].used - n)]
    BY Zenon
  <2>3. /\ new \in QuotaRow /\ new.quota = quota[u].quota
        /\ new.used <= quota[u].used /\ new.used >= quota[u].used - n
    BY <2>1, <2>2 DEF QuotaRow, PlusZero
  <2>4. quota' = [quota EXCEPT ![u] = new]
    BY <2>1, <2>2 DEF Less
  <2>5. RowChanged(u) /\ quota'[u] = new
    BY <2>3, <2>4 DEF RowChanged, QuotaRows
  <2> QED
    BY <1>2, <2>1, <2>3, <2>5
<1> QED
  BY <1>1, <1>2

(* Refund and Credit. *)
LEMMA BackStep ==
  ASSUME TInv, NEW p \in Procs, NEW u \in Users, u = req[p].user, Refund(p) \/ Credit(p),
         UNCHANGED accounts, UNCHANGED default_quota
  PROVE  /\ TInv' /\ Moved(p) /\ req'[p] = Idle /\ RowChanged(u)
         /\ req[p].op \in {"refund", "credit"} /\ req[p].amount \in Nat
         /\ quota[u] = None => quota'[u] = None
         /\ quota[u] # None =>
              /\ quota[u] \in QuotaRow /\ quota'[u] \in QuotaRow
              /\ quota'[u].quota = quota[u].quota
              /\ quota'[u].used <= quota[u].used
              /\ quota'[u].used >= quota[u].used - req[p].amount
<1>1. req[p] \in Request /\ quota \in QuotaRows /\ req[p].amount \in Nat
  BY DEF TInv, TypeOK, QuotaRows, Request
<1>2. /\ quota' = Less(u, req[p].amount) /\ req' = [req EXCEPT ![p] = Idle]
      /\ req[p].op \in {"refund", "credit"} /\ UNCHANGED <<contributed, lock, files, minted>>
  BY DEF Refund, Credit
<1>3. Moved(p) /\ req'[p] = Idle
  BY <1>2, IdleSound, Becomes, Zenon
<1>4. /\ RowChanged(u)
      /\ quota[u] = None => quota'[u] = None
      /\ quota[u] # None =>
           /\ quota[u] \in QuotaRow /\ quota'[u] \in QuotaRow
           /\ quota'[u].quota = quota[u].quota
           /\ quota'[u].used <= quota[u].used
           /\ quota'[u].used >= quota[u].used - req[p].amount
  BY <1>1, <1>2, LessStep
<1>5. TInv'
  BY <1>2, <1>3, <1>4, Zenon DEF TInv, TypeOK, Moved, RowChanged, QuotaRows, accounts
<1> QED
  BY <1>1, <1>2, <1>3, <1>4, <1>5

(* PurgeRead. *)
LEMMA PurgeReadStep ==
  ASSUME TInv, NEW d \in Deleters, NEW f \in FileIds, PurgeRead(d, f),
         UNCHANGED accounts, UNCHANGED default_quota
  PROVE  /\ TInv' /\ Moved(d)
         /\ files[f] \in FileRow
         /\ req'[d].op = "purging" /\ req'[d].file = f
         /\ req'[d].user = files[f].user /\ req'[d].amount = files[f].size
<1>1. d \in Procs /\ files[f] \in FileRow
  BY DEF TInv, TypeOK, Procs, PurgeRead
<1>2. PICK s : s = [Idle EXCEPT !.op = "purging", !.file = f,
                                !.user = files[f].user, !.amount = files[f].size]
  OBVIOUS
<1>3. s = [op |-> "purging", user |-> files[f].user, amount |-> files[f].size, seen |-> 0,
           file |-> f, todo |-> {}]
  BY <1>2, Zenon DEF Idle
<1>4. s \in Request /\ Sound(s)
  BY <1>1, <1>3 DEF Request, Ops, Sound, FileRow
<1>5. Moved(d) /\ req'[d] = s
  BY <1>1, <1>2, <1>4, Becomes, Zenon DEF PurgeRead
<1>6. TInv'
  BY <1>5 DEF TInv, TypeOK, Moved, PurgeRead, accounts
<1> QED
  BY <1>1, <1>3, <1>5, <1>6

(* PurgeRow. *)
LEMMA PurgeRowStep ==
  ASSUME TInv, NEW d \in Deleters, NEW f \in FileIds, f = req[d].file, PurgeRow(d),
         UNCHANGED accounts, UNCHANGED default_quota
  PROVE  /\ TInv' /\ Moved(d)
         /\ files'[f] = None /\ \A g \in FileIds \ {f} : files'[g] = files[g]
         /\ req'[d].op = "credit" /\ req'[d].user = req[d].user
         /\ req'[d].amount = req[d].amount
<1>1. d \in Procs /\ req[d] \in Request /\ req[d].user \in Users
  BY Zenon DEF TInv, TypeOK, Procs, Sound, PurgeRow
<1>2. PICK s : s = [req[d] EXCEPT !.op = "credit", !.file = None]
  OBVIOUS
<1>3. s \in Request /\ s.op = "credit" /\ s.user = req[d].user /\ s.amount = req[d].amount
  BY <1>1, <1>2, Zenon DEF Request, Ops
<1>4. Sound(s)
  BY <1>1, <1>3 DEF Sound
<1>5. req' = [req EXCEPT ![d] = s]
  BY <1>2, Zenon DEF PurgeRow
<1>6. Moved(d) /\ req'[d] = s
  BY <1>1, <1>3, <1>4, <1>5, Becomes, Zenon
<1>7. /\ files' \in FileRows /\ files'[f] = None
      /\ \A g \in FileIds \ {f} : files'[g] = files[g]
  BY DEF TInv, TypeOK, FileRows, PurgeRow
<1>8. TInv'
  BY <1>6, <1>7, Zenon DEF TInv, TypeOK, Moved, FileRows, PurgeRow, accounts
<1> QED
  BY <1>3, <1>6, <1>7, <1>8

(* Sweep. *)
LEMMA SweepStep ==
  ASSUME TInv, NEW d \in Deleters, NEW u \in Users, NEW S \in SUBSET StoredOf(u), Sweep(d, u, S),
         UNCHANGED accounts, UNCHANGED default_quota
  PROVE  /\ TInv' /\ Moved(d)
         /\ files' = [f \in FileIds |-> IF f \in S THEN None ELSE files[f]]
         /\ req'[d].op = "credit" /\ req'[d].user = u
         /\ req'[d].amount = Bytes(S) /\ Bytes(S) \in Nat
         /\ Stored(files, u) = Stored(files', u) + Bytes(S)
         /\ \A v \in Users \ {u} : Stored(files', v) = Stored(files, v)
<1>1. d \in Procs /\ files \in FileRows
  BY DEF TInv, TypeOK, Procs, FileRows
<1>2. files' = [f \in FileIds |-> IF f \in S THEN None ELSE files[f]]
  BY DEF Sweep
<1>3. S \subseteq {g \in FileIds : files[g] # None /\ files[g].user = u}
  BY DEF StoredOf
<1>4. /\ Bytes(S) \in Nat
      /\ Stored(files, u) = Stored(files', u) + Bytes(S)
      /\ \A v \in Users \ {u} : Stored(files', v) = Stored(files, v)
  BY <1>1, <1>2, <1>3, StoredSplit DEF Bytes
<1>5. PICK n \in Nat : n = Bytes(S)
  BY <1>4
<1>6. PICK s : s = [Idle EXCEPT !.op = "credit", !.user = u, !.amount = n]
  OBVIOUS
<1>7. s = [op |-> "credit", user |-> u, amount |-> n, seen |-> 0, file |-> None, todo |-> {}]
  BY <1>6, Zenon DEF Idle
<1>8. s \in Request /\ Sound(s)
  BY <1>7 DEF Request, Ops, Sound
<1>9. Moved(d) /\ req'[d] = s
  BY <1>1, <1>5, <1>6, <1>8, Becomes, Zenon DEF Sweep
<1>10. files' \in FileRows
  BY <1>1, <1>2 DEF FileRows
<1>11. TInv'
  BY <1>9, <1>10 DEF TInv, TypeOK, Moved, FileRows, Sweep, accounts
<1> QED
  BY <1>2, <1>4, <1>5, <1>7, <1>9, <1>11

(* UserDeleted. *)
LEMMA UserDeletedStep ==
  ASSUME TInv, NEW d \in Deleters, NEW u \in Users, UserDeleted(d, u), UNCHANGED default_quota
  PROVE  /\ TInv' /\ Moved(d)
         /\ req'[d].op = "purge user" /\ req'[d].user = u /\ req'[d].todo = StoredOf(u)
         /\ account[u] = "open" /\ account'[u] = "deleted"
         /\ \A v \in Users \ {u} : account'[v] = account[v]
         /\ late' \in {late, late \cup {u}}
         /\ u \notin late' => \A p \in Procs : req[p].user # u
<1>1. d \in Procs
  BY DEF Procs
<1>2. PICK s : s = [Idle EXCEPT !.op = "purge user", !.user = u, !.todo = StoredOf(u)]
  OBVIOUS
<1>3. s = [op |-> "purge user", user |-> u, amount |-> 0, seen |-> 0, file |-> None,
           todo |-> StoredOf(u)]
  BY <1>2, Zenon DEF Idle
<1>4. StoredOf(u) \in SUBSET FileIds
  BY DEF StoredOf
<1>5. s \in Request /\ Sound(s)
  BY <1>3, <1>4, Zenon DEF Request, Ops, Sound
<1>6. Moved(d) /\ req'[d] = s
  BY <1>1, <1>2, <1>5, Becomes, Zenon DEF UserDeleted
<1>7. /\ account' \in [Users -> {"open", "deleted", "purged"}]
      /\ account[u] = "open" /\ account'[u] = "deleted"
      /\ \A v \in Users \ {u} : account'[v] = account[v]
  BY DEF TInv, TypeOK, UserDeleted
<1>8. late' \in {late, late \cup {u}} /\ (u \notin late' => \A p \in Procs : req[p].user # u)
  BY DEF UserDeleted
<1>9. late' \subseteq Users
  BY <1>8 DEF TInv, TypeOK
<1>10. TInv'
  BY <1>6, <1>7, <1>9 DEF TInv, TypeOK, Moved, UserDeleted
<1>11. s.op = "purge user" /\ s.user = u /\ s.todo = StoredOf(u)
  BY <1>3, Zenon
<1> QED
  BY <1>6, <1>7, <1>8, <1>10, <1>11, Zenon

(* PurgeUserFile. *)
LEMMA PurgeUserFileStep ==
  ASSUME TInv, NEW d \in Deleters, NEW f \in FileIds, PurgeUserFile(d, f), UNCHANGED default_quota
  PROVE  /\ TInv' /\ Moved(d)
         /\ req[d].op = "purge user" /\ req'[d].op = "purge user"
         /\ req'[d].user = req[d].user /\ req'[d].todo = req[d].todo \ {f}
         /\ \A g \in FileIds \ {f} : files'[g] = files[g]
         /\ skipped \subseteq skipped'
         /\ \/ files'[f] = None
            \/ files' = files /\ f \in skipped'
<1>1. d \in Procs /\ req[d] \in Request /\ req[d].user \in Users /\ req[d].op = "purge user"
  BY Zenon DEF TInv, TypeOK, Procs, Sound, PurgeUserFile
<1>2. PICK s : s = [req[d] EXCEPT !.todo = req[d].todo \ {f}]
  BY Zenon
<1>3. /\ s \in Request /\ s.op = "purge user" /\ s.user = req[d].user
      /\ s.todo = req[d].todo \ {f}
  BY <1>1, <1>2, Zenon DEF Request
<1>4. Sound(s)
  BY <1>1, <1>3 DEF Sound
<1>5. req' = [req EXCEPT ![d] = s]
  BY <1>2 DEF PurgeUserFile
<1>6. Moved(d) /\ req'[d] = s
  BY <1>1, <1>3, <1>4, <1>5, Becomes, Zenon
<1>7. /\ files' \in FileRows /\ skipped' \subseteq FileIds /\ skipped \subseteq skipped'
      /\ \A g \in FileIds \ {f} : files'[g] = files[g]
      /\ files'[f] = None \/ (files' = files /\ f \in skipped')
  BY Zenon DEF TInv, TypeOK, FileRows, PurgeUserFile
<1>8. TInv'
  BY <1>6, <1>7, Zenon DEF TInv, TypeOK, Moved, FileRows, PurgeUserFile
<1> QED
  BY <1>1, <1>3, <1>6, <1>7, <1>8, Zenon

(* PurgeUserQuota. *)
LEMMA PurgeUserQuotaStep ==
  ASSUME TInv, NEW d \in Deleters, NEW u \in Users, u = req[d].user, PurgeUserQuota(d),
         UNCHANGED default_quota
  PROVE  /\ TInv' /\ Moved(d) /\ req'[d] = Idle
         /\ req[d].op = "purge user" /\ req[d].todo = {}
         /\ RowChanged(u) /\ quota'[u] = None
         /\ account'[u] = "purged"
         /\ \A v \in Users \ {u} : account'[v] = account[v]
<1>1. d \in Procs
  BY Zenon DEF Procs
<1>2. Moved(d) /\ req'[d] = Idle
  BY <1>1, IdleSound, Becomes, Zenon DEF PurgeUserQuota
<1>3. RowChanged(u) /\ quota'[u] = None
  BY Zenon DEF TInv, TypeOK, QuotaRows, PurgeUserQuota, ReleaseQuota, RowChanged
<1>4. /\ account' \in [Users -> {"open", "deleted", "purged"}] /\ account'[u] = "purged"
      /\ \A v \in Users \ {u} : account'[v] = account[v]
  BY Zenon DEF TInv, TypeOK, PurgeUserQuota
<1>5. TInv'
  BY <1>2, <1>3, <1>4, Zenon DEF TInv, TypeOK, Moved, RowChanged, QuotaRows, PurgeUserQuota
<1>6. req[d].op = "purge user" /\ req[d].todo = {}
  BY Zenon DEF PurgeUserQuota
<1> QED
  BY <1>2, <1>3, <1>4, <1>5, <1>6, Zenon

(* SetQuotaBegin. *)
LEMMA SetQuotaBeginStep ==
  ASSUME TInv, NEW a \in Admins, NEW u \in Users, NEW q \in Quotas, SetQuotaBegin(a, u, q),
         UNCHANGED accounts, UNCHANGED default_quota
  PROVE  /\ TInv' /\ Moved(a)
         /\ req'[a].op = "quota" /\ req'[a].user = u /\ req'[a].seen = contributed
<1>1. a \in Procs /\ contributed \in Nat /\ q \in Nat
  BY QuotaAssumption DEF TInv, TypeOK, Procs
<1>2. PICK s : s = [Idle EXCEPT !.op = "quota", !.user = u, !.amount = q, !.seen = contributed]
  OBVIOUS
<1>3. s = [op |-> "quota", user |-> u, amount |-> q, seen |-> contributed, file |-> None,
           todo |-> {}]
  BY <1>2, Zenon DEF Idle
<1>4. s \in Request /\ Sound(s)
  BY <1>1, <1>3, Zenon DEF Request, Ops, Sound
<1>5. Moved(a) /\ req'[a] = s
  BY <1>1, <1>2, <1>4, Becomes, Zenon DEF SetQuotaBegin
<1>6. TInv'
  BY <1>5 DEF TInv, TypeOK, Moved, SetQuotaBegin, accounts
<1> QED
  BY <1>3, <1>5, <1>6

(* SetQuotaCheck. *)
LEMMA SetQuotaCheckStep ==
  ASSUME TInv, NEW a \in Admins, SetQuotaCheck(a), UNCHANGED accounts, UNCHANGED default_quota
  PROVE  /\ TInv' /\ Moved(a)
         /\ \/ req'[a] = Idle
            \/ /\ Others(req[a].user) + req[a].amount <= req[a].seen
               /\ req'[a].op = "set quota" /\ req'[a].user = req[a].user
               /\ req'[a].amount = req[a].amount
<1>1. a \in Procs /\ req[a] \in Request /\ req[a].user \in Users
  BY DEF TInv, TypeOK, Procs, Sound, SetQuotaCheck
<1>2. CASE req' = [req EXCEPT ![a] = Idle]
  <2>1. Moved(a) /\ req'[a] = Idle
    BY <1>1, <1>2, IdleSound, Becomes, Zenon
  <2>2. TInv'
    BY <2>1 DEF TInv, TypeOK, Moved, SetQuotaCheck, accounts
  <2> QED
    BY <2>1, <2>2
<1>3. CASE /\ Others(req[a].user) + req[a].amount <= req[a].seen
           /\ req' = [req EXCEPT ![a] = [req[a] EXCEPT !.op = "set quota"]]
  <2>1. PICK s : s = [req[a] EXCEPT !.op = "set quota"]
    OBVIOUS
  <2>2. s \in Request /\ s.op = "set quota" /\ s.user = req[a].user /\ s.amount = req[a].amount
    BY <1>1, <2>1, Zenon DEF Request, Ops
  <2>3. Sound(s)
    BY <1>1, <2>2 DEF Sound
  <2>4. Moved(a) /\ req'[a] = s
    BY <1>1, <1>3, <2>1, <2>2, <2>3, Becomes, Zenon
  <2>5. TInv'
    BY <2>4, Zenon DEF TInv, TypeOK, Moved, SetQuotaCheck, accounts
  <2> QED
    BY <1>3, <2>2, <2>4, <2>5
<1> QED
  BY <1>2, <1>3, Zenon DEF SetQuotaCheck

(* SetQuotaWrite. *)
LEMMA SetQuotaWriteStep ==
  ASSUME TInv, NEW a \in Admins, NEW u \in Users, u = req[a].user, SetQuotaWrite(a),
         UNCHANGED accounts, UNCHANGED default_quota
  PROVE  /\ TInv' /\ Moved(a) /\ req'[a] = Idle /\ RowChanged(u)
         /\ quota'[u] \in QuotaRow
         /\ quota'[u].quota = req[a].amount /\ quota'[u].used = Used(quota[u])
<1>1. a \in Procs /\ req[a] \in Request /\ quota \in QuotaRows
  BY Zenon DEF TInv, TypeOK, Procs, QuotaRows
<1>2. Moved(a) /\ req'[a] = Idle
  BY <1>1, IdleSound, Becomes, Zenon DEF SetQuotaWrite
<1>3. Used(quota[u]) \in Nat /\ req[a].amount \in Nat
  BY <1>1, TermTypes, Zenon DEF QuotaRows, Request
<1>4. PICK new : new = [quota |-> req[a].amount, used |-> Used(quota[u])]
  BY Zenon
<1>5. new \in QuotaRow /\ new.quota = req[a].amount /\ new.used = Used(quota[u])
  BY <1>3, <1>4 DEF QuotaRow
<1>6. quota' = [quota EXCEPT ![u] = new]
  BY <1>4 DEF SetQuotaWrite, Used
<1>7. RowChanged(u) /\ quota'[u] = new
  BY <1>1, <1>5, <1>6 DEF QuotaRows, RowChanged
<1>8. TInv'
  BY <1>2, <1>7 DEF TInv, TypeOK, Moved, RowChanged, QuotaRows, SetQuotaWrite, accounts
<1> QED
  BY <1>2, <1>5, <1>7, <1>8, Zenon

(* SetContributionCheck. *)
LEMMA SetContributionCheckStep ==
  ASSUME TInv, NEW a \in Admins, NEW b \in Contributions, SetContributionCheck(a, b),
         UNCHANGED accounts, UNCHANGED default_quota
  PROVE  /\ TInv' /\ Moved(a)
         /\ req'[a].op = "set contribution" /\ req'[a].amount = b /\ req'[a].user = None
         /\ b >= Allocated(Users)
<1>1. a \in Procs /\ b \in Nat
  BY QuotaAssumption DEF Procs
<1>2. PICK s : s = [Idle EXCEPT !.op = "set contribution", !.amount = b]
  OBVIOUS
<1>3. s = [op |-> "set contribution", user |-> None, amount |-> b, seen |-> 0, file |-> None,
           todo |-> {}]
  BY <1>2, Zenon DEF Idle
<1>4. s \in Request /\ Sound(s)
  BY <1>1, <1>3, Zenon DEF Request, Ops, Sound
<1>5. Moved(a) /\ req'[a] = s
  BY <1>1, <1>2, <1>4, Becomes, Zenon DEF SetContributionCheck
<1>6. TInv'
  BY <1>5 DEF TInv, TypeOK, Moved, SetContributionCheck, accounts
<1>7. b >= Allocated(Users)
  BY DEF SetContributionCheck
<1>8. s.op = "set contribution" /\ s.amount = b /\ s.user = None
  BY <1>3
<1> QED
  BY <1>5, <1>6, <1>7, <1>8, Zenon

(* SetContributionWrite. *)
LEMMA SetContributionWriteStep ==
  ASSUME TInv, NEW a \in Admins, SetContributionWrite(a),
         UNCHANGED accounts, UNCHANGED default_quota
  PROVE  TInv' /\ Moved(a) /\ req'[a] = Idle /\ contributed' = req[a].amount
<1>1. a \in Procs /\ req[a].amount \in Contributions
  BY Zenon DEF TInv, Sound, Procs, SetContributionWrite
<1>2. Moved(a) /\ req'[a] = Idle
  BY <1>1, IdleSound, Becomes, Zenon DEF SetContributionWrite
<1>3. TInv'
  BY <1>1, <1>2, Zenon DEF TInv, TypeOK, Moved, SetContributionWrite, accounts
<1> QED
  BY <1>2, <1>3 DEF SetContributionWrite

(* Abandon. *)
LEMMA AbandonStep ==
  ASSUME TInv, NEW p \in Procs, Abandon(p), UNCHANGED accounts, UNCHANGED default_quota
  PROVE  TInv' /\ Moved(p) /\ req'[p] = Idle /\ lock' = IF lock = p THEN None ELSE lock
<1>1. Moved(p) /\ req'[p] = Idle
  BY IdleSound, Becomes, Zenon DEF Abandon
<1>2. TInv'
  BY <1>1 DEF TInv, TypeOK, Moved, Abandon, accounts
<1> QED
  BY <1>1, <1>2, Zenon DEF Abandon
-----------------------------------------------------------------------------
(* Deleted accounts *)

(* A deleted account that had no request running has none but deletes; what is *)
(* stored for it is still to be purged or was skipped.                         *)
Released(u) ==
    /\ \A p \in Procs : req[p].user = u => req[p].op \in {"purging", "credit", "purge user"}
    /\ \A p \in Procs : req[p].user = u /\ req[p].op = "purge user" =>
                           StoredOf(u) \subseteq req[p].todo \cup skipped
    /\ account[u] = "purged" => quota[u] = None /\ StoredOf(u) \subseteq skipped

(* An account that is being purged is not open. *)
Closed == \A p \in Procs : req[p].op = "purge user" => account[req[p].user] # "open"

DInv ==
    /\ TInv
    /\ Closed
    /\ \A u \in Users \ late : account[u] # "open" => Released(u)

(* A step of the request of p that gives a deleted account nothing new. *)
Quiet(p) ==
    /\ TInv' /\ Moved(p) /\ UNCHANGED accounts
    /\ req'[p].op # "purge user"
    /\ \A u \in Users \ late : account[u] # "open" =>
          /\ req'[p].user = u => req'[p].op \in {"purging", "credit"}
          /\ StoredOf(u)' \subseteq StoredOf(u)
          /\ quota[u] = None => quota'[u] = None

(* Such a step keeps the invariant. *)
LEMMA QuietKeeps ==
  ASSUME DInv, NEW p \in Procs, Quiet(p)
  PROVE  DInv'
<1>0. Closed'
  BY Zenon DEF DInv, Closed, Quiet, Moved, accounts
<1> SUFFICES ASSUME NEW u \in Users \ late', account'[u] # "open"
             PROVE  Released(u)'
  BY <1>0, Zenon DEF DInv, Quiet
<1>1. account' = account /\ late' = late /\ skipped' = skipped
  BY Zenon DEF Quiet, accounts
<1>2. Released(u)
  BY <1>1, Zenon DEF DInv
<1>3. /\ req'[p].user = u => req'[p].op \in {"purging", "credit"}
      /\ StoredOf(u)' \subseteq StoredOf(u)
      /\ quota[u] = None => quota'[u] = None
      /\ req'[p].op # "purge user"
  BY <1>1, Zenon DEF Quiet
<1>4. \A q \in Procs : q # p => req'[q] = req[q]
  BY Zenon DEF Quiet, Moved
<1>5. \A q \in Procs : req'[q].user = u => req'[q].op \in {"purging", "credit", "purge user"}
  BY <1>2, <1>3, <1>4, Zenon DEF Released
<1>6. ASSUME NEW q \in Procs, req'[q].user = u, req'[q].op = "purge user"
      PROVE  StoredOf(u)' \subseteq req'[q].todo \cup skipped'
  <2>1. q # p /\ req'[q] = req[q]
    BY <1>3, <1>4, <1>6, Zenon
  <2>2. StoredOf(u) \subseteq req[q].todo \cup skipped
    BY <1>2, <1>6, <2>1, Zenon DEF Released
  <2> QED
    BY <1>1, <1>3, <2>1, <2>2, Zenon
<1>7. account'[u] = "purged" => quota'[u] = None /\ StoredOf(u)' \subseteq skipped'
  BY <1>1, <1>2, <1>3, Zenon DEF Released
<1> QED
  BY <1>5, <1>6, <1>7, Zenon DEF Released

(* The uploads, deletes and administrators' requests are such steps: what they *)
(* do for an account they began while it was open.                             *)
LEMMA UploadQuiet ==
  ASSUME DInv, NEW r \in Uploads, UNCHANGED accounts, UNCHANGED default_quota,
         \/ \E u \in Users, n \in Sizes : UploadBegin(r, u, n)
         \/ GrantDecide(r) \/ GrantInsert(r) \/ Charge(r)
         \/ PushStores(r) \/ PushStoresNothing(r) \/ Refund(r)
  PROVE  Quiet(r)
<1>0. TInv /\ r \in Procs /\ Sound(req[r])
  BY Zenon DEF DInv, TInv, Procs
<1>1. ASSUME NEW u \in Users, NEW n \in Sizes, UploadBegin(r, u, n) PROVE Quiet(r)
  <2>1. /\ TInv' /\ Moved(r) /\ req'[r].op \in {"grant", "charge"} /\ req'[r].user = u
    BY <1>0, <1>1, UploadBeginStep, Zenon
  <2>2. quota' = quota /\ files' = files /\ account[u] = "open"
    BY <1>1, Zenon DEF UploadBegin
  <2>3. \A v \in Users : StoredOf(v)' = StoredOf(v)
    BY <2>2, Zenon DEF StoredOf
  <2> QED
    BY <2>1, <2>2, <2>3, Zenon DEF Quiet
<1> DEFINE Busy == {"grant", "insert", "charge", "push", "refund"}
<1>2. ASSUME req[r].op \in Busy
      PROVE  /\ req[r].user \in Users
             /\ \A v \in Users \ late : account[v] # "open" => v # req[r].user
  BY <1>0, <1>2, Zenon DEF Sound, DInv, Released
<1>3. CASE GrantDecide(r)
  <2>1. /\ TInv' /\ Moved(r) /\ req'[r].op \in {"charge", "insert"} /\ req'[r].user = req[r].user
    BY <1>0, <1>3, GrantDecideStep, Zenon
  <2>2. quota' = quota /\ files' = files /\ req[r].op \in Busy
    BY <1>3, Zenon DEF GrantDecide
  <2>3. \A v \in Users : StoredOf(v)' = StoredOf(v)
    BY <2>2, Zenon DEF StoredOf
  <2> QED
    BY <1>2, <2>1, <2>2, <2>3, Zenon DEF Quiet
<1>4. CASE GrantInsert(r)
  <2>1. files' = files /\ req[r].op \in Busy
    BY <1>4, Zenon DEF GrantInsert
  <2>2. PICK u \in Users : u = req[r].user
    BY <1>2, <2>1, Zenon
  <2>3. TInv' /\ Moved(r) /\ RowChanged(u) /\ req'[r].op = "charge" /\ req'[r].user = u
    BY <1>0, <1>4, <2>2, GrantInsertStep, Zenon
  <2>4. \A v \in Users : StoredOf(v)' = StoredOf(v)
    BY <2>1, Zenon DEF StoredOf
  <2> QED
    BY <1>2, <2>1, <2>2, <2>3, <2>4, Zenon DEF Quiet, RowChanged
<1>5. CASE Charge(r)
  <2>1. files' = files /\ req[r].op \in Busy
    BY <1>5, Zenon DEF Charge
  <2>2. PICK u \in Users : u = req[r].user
    BY <1>2, <2>1, Zenon
  <2>3. /\ TInv' /\ Moved(r) /\ RowChanged(u)
        /\ req'[r] = Idle \/ (req'[r].op = "push" /\ req'[r].user = u)
    BY <1>0, <1>5, <2>2, ChargeStep, Zenon
  <2>4. \A v \in Users : StoredOf(v)' = StoredOf(v)
    BY <2>1 DEF StoredOf
  <2>5. \A v \in Users : req'[r].op # "purge user" /\ (req'[r].user = v => v = u)
    BY <2>3, IdleSound, QuotaAssumption, Zenon
  <2> QED
    BY <1>2, <2>1, <2>2, <2>3, <2>4, <2>5, Zenon DEF Quiet, RowChanged
<1>6. CASE PushStores(r)
  <2>1. quota' = quota /\ req[r].op \in Busy
    BY <1>6, Zenon DEF PushStores
  <2>2. PICK u \in Users : u = req[r].user
    BY <1>2, <2>1
  <2>3. /\ TInv' /\ Moved(r) /\ req'[r] = Idle
        /\ files'[minted'].user = u
        /\ \A f \in FileIds \ {minted'} : files'[f] = files[f]
    BY <1>0, <1>6, <2>2, PushStoresStep, Zenon
  <2>4. \A v \in Users \ {u} : StoredOf(v)' \subseteq StoredOf(v)
    BY <2>3, Zenon DEF StoredOf
  <2>5. req'[r].op # "purge user" /\ \A v \in Users : req'[r].user # v
    BY <2>3, IdleSound, QuotaAssumption, Zenon
  <2> QED
    BY <1>2, <2>1, <2>2, <2>3, <2>4, <2>5, Zenon DEF Quiet
<1>7. CASE PushStoresNothing(r)
  <2>1. quota' = quota /\ files' = files /\ req[r].op \in Busy
    BY <1>7, Zenon DEF PushStoresNothing
  <2>2. TInv' /\ Moved(r) /\ req'[r].op = "refund" /\ req'[r].user = req[r].user
    BY <1>0, <1>7, PushStoresNothingStep, Zenon
  <2>3. \A v \in Users : StoredOf(v)' = StoredOf(v)
    BY <2>1 DEF StoredOf
  <2> QED
    BY <1>2, <2>1, <2>2, <2>3, Zenon DEF Quiet
<1>8. CASE Refund(r)
  <2>1. files' = files /\ req[r].op \in Busy
    BY <1>8, Zenon DEF Refund
  <2>2. PICK u \in Users : u = req[r].user
    BY <1>2, <2>1
  <2>3. TInv' /\ Moved(r) /\ req'[r] = Idle /\ RowChanged(u)
    BY <1>0, <1>8, <2>2, BackStep, Zenon
  <2>4. \A v \in Users : StoredOf(v)' = StoredOf(v)
    BY <2>1 DEF StoredOf
  <2>5. req'[r].op # "purge user" /\ \A v \in Users : req'[r].user # v
    BY <2>3, IdleSound, QuotaAssumption, Zenon
  <2> QED
    BY <1>2, <2>1, <2>2, <2>3, <2>4, <2>5, Zenon DEF Quiet, RowChanged
<1> QED
  BY <1>1, <1>3, <1>4, <1>5, <1>6, <1>7, <1>8, Zenon
LEMMA DeleteQuiet ==
  ASSUME DInv, NEW d \in Deleters, UNCHANGED accounts, UNCHANGED default_quota,
         \/ \E f \in FileIds : PurgeRead(d, f)
         \/ \E u \in Users : \E S \in SUBSET StoredOf(u) : Sweep(d, u, S)
         \/ PurgeRow(d) \/ Credit(d)
  PROVE  Quiet(d)
<1>0. TInv /\ d \in Procs /\ Sound(req[d])
  BY Zenon DEF DInv, TInv, Procs
<1>1. ASSUME NEW f \in FileIds, PurgeRead(d, f) PROVE Quiet(d)
  <2>1. TInv' /\ Moved(d) /\ req'[d].op = "purging"
    BY <1>0, <1>1, PurgeReadStep, Zenon
  <2>2. quota' = quota /\ files' = files
    BY <1>1, Zenon DEF PurgeRead
  <2>3. \A v \in Users : StoredOf(v)' = StoredOf(v)
    BY <2>2, Zenon DEF StoredOf
  <2> QED
    BY <2>1, <2>2, <2>3, Zenon DEF Quiet
<1>2. ASSUME NEW u \in Users, NEW S \in SUBSET StoredOf(u), Sweep(d, u, S) PROVE Quiet(d)
  <2>1. /\ TInv' /\ Moved(d) /\ req'[d].op = "credit"
        /\ files' = [f \in FileIds |-> IF f \in S THEN None ELSE files[f]]
    BY <1>0, <1>2, SweepStep
  <2>2. quota' = quota
    BY <1>2, Zenon DEF Sweep
  <2>3. \A v \in Users : StoredOf(v)' \subseteq StoredOf(v)
    BY <2>1, Zenon DEF StoredOf
  <2> QED
    BY <2>1, <2>2, <2>3, Zenon DEF Quiet
<1>3. CASE PurgeRow(d)
  <2>1. PICK f \in FileIds : f = req[d].file
    BY <1>0, <1>3, Zenon DEF Sound, PurgeRow
  <2>2. /\ TInv' /\ Moved(d) /\ req'[d].op = "credit"
        /\ files'[f] = None /\ \A g \in FileIds \ {f} : files'[g] = files[g]
    BY <1>0, <1>3, <2>1, PurgeRowStep, Zenon
  <2>3. quota' = quota
    BY <1>3, Zenon DEF PurgeRow
  <2>4. \A v \in Users : StoredOf(v)' \subseteq StoredOf(v)
    BY <2>2, Zenon DEF StoredOf
  <2> QED
    BY <2>2, <2>3, <2>4, Zenon DEF Quiet
<1>4. CASE Credit(d)
  <2>1. files' = files /\ req[d].op = "credit"
    BY <1>4, Zenon DEF Credit
  <2>2. PICK u \in Users : u = req[d].user
    BY <1>0, <2>1, Zenon DEF Sound
  <2>3. /\ TInv' /\ Moved(d) /\ req'[d] = Idle /\ RowChanged(u)
        /\ quota[u] = None => quota'[u] = None
    BY <1>0, <1>4, <2>2, BackStep, Zenon
  <2>4. \A v \in Users : StoredOf(v)' = StoredOf(v)
    BY <2>1, Zenon DEF StoredOf
  <2>5. req'[d].op # "purge user" /\ \A v \in Users : req'[d].user # v
    BY <2>3, IdleSound, QuotaAssumption, Zenon
  <2>6. \A v \in Users : quota[v] = None => quota'[v] = None
    BY <2>3, Zenon DEF RowChanged
  <2> QED
    BY <2>3, <2>4, <2>5, <2>6, Zenon DEF Quiet
<1> QED
  BY <1>1, <1>2, <1>3, <1>4, Zenon

LEMMA AdminQuiet ==
  ASSUME DInv, NEW a \in Admins, UNCHANGED accounts, UNCHANGED default_quota,
         \/ \E u \in Users, q \in Quotas : SetQuotaBegin(a, u, q)
         \/ SetQuotaCheck(a) \/ SetQuotaWrite(a)
         \/ \E b \in Contributions : SetContributionCheck(a, b)
         \/ SetContributionWrite(a)
  PROVE  Quiet(a)
<1>0. TInv /\ a \in Procs /\ Sound(req[a])
  BY Zenon DEF DInv, TInv, Procs
<1>1. files' = files
  BY Zenon DEF SetQuotaBegin, SetQuotaCheck, SetQuotaWrite, SetContributionCheck, SetContributionWrite
<1>2. \A v \in Users : StoredOf(v)' = StoredOf(v)
  BY <1>1, Zenon DEF StoredOf
<1>3. ASSUME req[a].op \in {"quota", "set quota"}
      PROVE  /\ req[a].user \in Users
             /\ \A v \in Users \ late : account[v] # "open" => v # req[a].user
  BY <1>0, <1>3, Zenon DEF Sound, DInv, Released
<1>4. ASSUME req'[a] = Idle
      PROVE  req'[a].op # "purge user" /\ \A v \in Users : req'[a].user # v
  BY <1>4, IdleSound, QuotaAssumption, Zenon
<1>5. ASSUME NEW u \in Users, NEW q \in Quotas, SetQuotaBegin(a, u, q) PROVE Quiet(a)
  <2>1. TInv' /\ Moved(a) /\ req'[a].op = "quota" /\ req'[a].user = u
    BY <1>0, <1>5, SetQuotaBeginStep, Zenon
  <2>2. quota' = quota /\ account[u] = "open"
    BY <1>5, Zenon DEF SetQuotaBegin
  <2> QED
    BY <1>2, <2>1, <2>2, Zenon DEF Quiet
<1>6. CASE SetQuotaCheck(a)
  <2>1. /\ TInv' /\ Moved(a)
        /\ req'[a] = Idle \/ (req'[a].op = "set quota" /\ req'[a].user = req[a].user)
    BY <1>0, <1>6, SetQuotaCheckStep, Zenon
  <2>2. quota' = quota /\ req[a].op = "quota"
    BY <1>6, Zenon DEF SetQuotaCheck
  <2>3. /\ req'[a].op # "purge user"
        /\ \A v \in Users : req'[a].user = v => v = req[a].user
    BY <1>4, <2>1, Zenon
  <2> QED
    BY <1>2, <1>3, <2>1, <2>2, <2>3, Zenon DEF Quiet
<1>7. CASE SetQuotaWrite(a)
  <2>1. req[a].op = "set quota"
    BY <1>7, Zenon DEF SetQuotaWrite
  <2>2. PICK u \in Users : u = req[a].user
    BY <1>3, <2>1, Zenon
  <2>3. TInv' /\ Moved(a) /\ req'[a] = Idle /\ RowChanged(u)
    BY <1>0, <1>7, <2>2, SetQuotaWriteStep, Zenon
  <2> QED
    BY <1>2, <1>3, <1>4, <2>1, <2>2, <2>3, Zenon DEF Quiet, RowChanged
<1>8. ASSUME NEW b \in Contributions, SetContributionCheck(a, b) PROVE Quiet(a)
  <2>1. TInv' /\ Moved(a) /\ req'[a].op = "set contribution" /\ req'[a].user = None
    BY <1>0, <1>8, SetContributionCheckStep, Zenon
  <2>2. quota' = quota
    BY <1>8, Zenon DEF SetContributionCheck
  <2> QED
    BY <1>2, <2>1, <2>2, QuotaAssumption, Zenon DEF Quiet
<1>9. CASE SetContributionWrite(a)
  <2>1. TInv' /\ Moved(a) /\ req'[a] = Idle
    BY <1>0, <1>9, SetContributionWriteStep, Zenon
  <2>2. quota' = quota
    BY <1>9, Zenon DEF SetContributionWrite
  <2> QED
    BY <1>2, <1>4, <2>1, <2>2, Zenon DEF Quiet
<1> QED
  BY <1>5, <1>6, <1>7, <1>8, <1>9, Zenon

LEMMA AbandonQuiet ==
  ASSUME DInv, NEW p \in Procs, Abandon(p), UNCHANGED accounts, UNCHANGED default_quota
  PROVE  Quiet(p)
<1>1. TInv' /\ Moved(p) /\ req'[p] = Idle
  BY AbandonStep DEF DInv
<1>2. quota' = quota /\ files' = files
  BY DEF Abandon
<1>3. \A v \in Users : StoredOf(v)' = StoredOf(v)
  BY <1>2, Zenon DEF StoredOf
<1>4. req'[p].op # "purge user" /\ \A v \in Users : req'[p].user # v
  BY <1>1, IdleSound, QuotaAssumption, Zenon
<1> QED
  BY <1>1, <1>2, <1>3, <1>4, Zenon DEF Quiet

(* The steps of purge_user keep the invariant too. *)
LEMMA UserDeletedReleased ==
  ASSUME DInv, NEW d \in Deleters, NEW x \in Users, UserDeleted(d, x), UNCHANGED default_quota
  PROVE  DInv'
<1>1. TInv
  BY Zenon DEF DInv
<1>2. /\ TInv' /\ Moved(d)
      /\ req'[d].op = "purge user" /\ req'[d].user = x /\ req'[d].todo = StoredOf(x)
      /\ account[x] = "open" /\ account'[x] = "deleted"
      /\ \A v \in Users \ {x} : account'[v] = account[v]
      /\ late' \in {late, late \cup {x}}
      /\ x \notin late' => \A p \in Procs : req[p].user # x
  BY <1>1, UserDeletedStep, Zenon
<1>3. quota' = quota /\ files' = files /\ skipped' = skipped
  BY DEF UserDeleted
<1>4. \A v \in Users : StoredOf(v)' = StoredOf(v)
  BY <1>3 DEF StoredOf
<1>5. \A q \in Procs : q # d => req'[q] = req[q]
  BY <1>2, Zenon DEF Moved
<1>0. Closed'
  BY <1>2, <1>5, ZenonT(60) DEF DInv, Closed, TInv, Sound
<1> SUFFICES ASSUME NEW u \in Users \ late', account'[u] # "open"
             PROVE  Released(u)'
  BY <1>0, <1>2, Zenon DEF DInv
<1>6. CASE u = x
  <2>1. \A q \in Procs : req'[q].user = u => q = d
    BY <1>2, <1>5, <1>6, Zenon
  <2>2. StoredOf(u)' = req'[d].todo
    BY <1>2, <1>4, <1>6, Zenon
  <2> QED
    BY <1>2, <1>6, <2>1, <2>2, Zenon DEF Released
<1>7. CASE u # x
  <2>1. Released(u)
    BY <1>2, <1>7, Zenon DEF DInv
  <2>2. account'[u] = account[u] /\ req'[d].user # u
    BY <1>2, <1>7, Zenon
  <2> QED
    BY <1>3, <1>4, <1>5, <2>1, <2>2, Zenon DEF Released
<1> QED
  BY <1>6, <1>7, Zenon

LEMMA PurgeUserFileReleased ==
  ASSUME DInv, NEW d \in Deleters, NEW f \in FileIds, PurgeUserFile(d, f), UNCHANGED default_quota
  PROVE  DInv'
<1>1. TInv
  BY Zenon DEF DInv
<1>2. /\ TInv' /\ Moved(d)
      /\ req[d].op = "purge user" /\ req'[d].op = "purge user"
      /\ req'[d].user = req[d].user /\ req'[d].todo = req[d].todo \ {f}
      /\ \A g \in FileIds \ {f} : files'[g] = files[g]
      /\ skipped \subseteq skipped'
      /\ files'[f] = None \/ (files' = files /\ f \in skipped')
  BY <1>1, PurgeUserFileStep, Zenon
<1>3. quota' = quota /\ account' = account /\ late' = late
  BY Zenon DEF PurgeUserFile
<1>4. \A v \in Users : StoredOf(v)' \subseteq StoredOf(v)
  BY <1>2, Zenon DEF StoredOf
<1>5. \A v \in Users : f \in StoredOf(v)' => f \in skipped'
  BY <1>2, Zenon DEF StoredOf
<1>6. \A q \in Procs : q # d => req'[q] = req[q]
  BY <1>2, Zenon DEF Moved
<1>8. \A q \in Procs : req'[q].user = req[q].user /\ req'[q].op = req[q].op
  BY <1>2, <1>6, Zenon
<1>0. Closed'
  BY <1>3, <1>8, Zenon DEF DInv, Closed
<1> SUFFICES ASSUME NEW u \in Users \ late', account'[u] # "open"
             PROVE  Released(u)'
  BY <1>0, <1>2, Zenon DEF DInv
<1>7. Released(u)
  BY <1>3, Zenon DEF DInv
<1>9. ASSUME NEW q \in Procs, req'[q].user = u, req'[q].op = "purge user"
      PROVE  StoredOf(u)' \subseteq req'[q].todo \cup skipped'
  <2>1. StoredOf(u) \subseteq req[q].todo \cup skipped
    BY <1>7, <1>8, <1>9, Zenon DEF Released
  <2>2. \A g \in req[q].todo : g \in req'[q].todo \/ g = f
    BY <1>2, <1>6, Zenon
  <2> QED
    BY <1>2, <1>4, <1>5, <2>1, <2>2, Zenon
<1>10. account'[u] = "purged" => quota'[u] = None /\ StoredOf(u)' \subseteq skipped'
  BY <1>2, <1>3, <1>4, <1>7, Zenon DEF Released
<1>11. \A q \in Procs : req'[q].user = u => req'[q].op \in {"purging", "credit", "purge user"}
  BY <1>7, <1>8, Zenon DEF Released
<1> QED
  BY <1>9, <1>10, <1>11, Zenon DEF Released

LEMMA PurgeUserQuotaReleased ==
  ASSUME DInv, NEW d \in Deleters, PurgeUserQuota(d), UNCHANGED default_quota
  PROVE  DInv'
<1>1. TInv /\ d \in Procs /\ Sound(req[d])
  BY DEF DInv, TInv, Procs
<1>2. PICK x \in Users : x = req[d].user
  BY <1>1, Zenon DEF Sound, PurgeUserQuota
<1>3. /\ TInv' /\ Moved(d) /\ req'[d] = Idle
      /\ req[d].op = "purge user" /\ req[d].todo = {}
      /\ RowChanged(x) /\ quota'[x] = None
      /\ account'[x] = "purged"
      /\ \A v \in Users \ {x} : account'[v] = account[v]
  BY <1>1, <1>2, PurgeUserQuotaStep, Zenon
<1>4. files' = files /\ skipped' = skipped /\ late' = late
  BY Zenon DEF PurgeUserQuota
<1>5. \A v \in Users : StoredOf(v)' = StoredOf(v)
  BY <1>4 DEF StoredOf
<1>6. /\ \A q \in Procs : q # d => req'[q] = req[q]
      /\ \A v \in Users : req'[d].user # v
  BY <1>3, IdleSound, QuotaAssumption, Zenon DEF Moved
<1>0. Closed'
  BY <1>3, <1>6, IdleSound, Zenon DEF DInv, Closed, TInv, Sound
<1> SUFFICES ASSUME NEW u \in Users \ late', account'[u] # "open"
             PROVE  Released(u)'
  BY <1>0, <1>3, Zenon DEF DInv
<1>7. CASE u # x
  <2>1. Released(u) /\ account'[u] = account[u] /\ quota'[u] = quota[u]
    BY <1>3, <1>4, <1>7, Zenon DEF DInv, RowChanged
  <2> QED
    BY <1>4, <1>5, <1>6, <2>1, Zenon DEF Released
<1>8. CASE u = x
  <2>1. Released(x)
    BY <1>1, <1>2, <1>3, <1>4, <1>8, Zenon DEF DInv, Closed
  <2>2. StoredOf(x) \subseteq skipped
    BY <1>1, <1>2, <1>3, <2>1, Zenon DEF Released
  <2> QED
    BY <1>3, <1>4, <1>5, <1>6, <1>8, <2>1, <2>2, Zenon DEF Released
<1> QED
  BY <1>7, <1>8

(* Every step keeps the invariant. *)
LEMMA DeletedStep ==
  ASSUME DInv, [Next]_vars
  PROVE  DInv'
<1>1. CASE UNCHANGED vars
  BY <1>1, ZenonT(60) DEF vars, DInv, TInv, TypeOK, Closed, Released, StoredOf
<1>2. ASSUME UNCHANGED default_quota, Serve, UNCHANGED accounts
      PROVE  DInv'
  <2>1. ASSUME NEW r \in Uploads,
               \/ \E u \in Users, n \in Sizes : UploadBegin(r, u, n)
               \/ GrantDecide(r) \/ GrantInsert(r) \/ Charge(r)
               \/ PushStores(r) \/ PushStoresNothing(r) \/ Refund(r)
        PROVE  DInv'
    BY <1>2, <2>1, UploadQuiet, QuietKeeps DEF Procs
  <2>2. ASSUME NEW d \in Deleters,
               \/ \E f \in FileIds : PurgeRead(d, f)
               \/ \E u \in Users : \E S \in SUBSET StoredOf(u) : Sweep(d, u, S)
               \/ PurgeRow(d) \/ Credit(d)
        PROVE  DInv'
    BY <1>2, <2>2, DeleteQuiet, QuietKeeps DEF Procs
  <2>3. ASSUME NEW a \in Admins,
               \/ \E u \in Users, q \in Quotas : SetQuotaBegin(a, u, q)
               \/ SetQuotaCheck(a) \/ SetQuotaWrite(a)
               \/ \E b \in Contributions : SetContributionCheck(a, b)
               \/ SetContributionWrite(a)
        PROVE  DInv'
    BY <1>2, <2>3, AdminQuiet, QuietKeeps, Zenon DEF Procs
  <2>4. ASSUME NEW p \in Procs, Abandon(p) PROVE DInv'
    BY <1>2, <2>4, AbandonQuiet, QuietKeeps, Zenon
  <2> QED
    BY <1>2, <2>1, <2>2, <2>3, <2>4 DEF Serve
<1>3. ASSUME UNCHANGED default_quota, NEW d \in Deleters,
             \/ \E u \in Users : UserDeleted(d, u)
             \/ \E f \in FileIds : PurgeUserFile(d, f)
             \/ PurgeUserQuota(d)
      PROVE  DInv'
  BY <1>3, UserDeletedReleased, PurgeUserFileReleased, PurgeUserQuotaReleased
<1> QED
  BY <1>1, <1>2, <1>3, Zenon DEF Next

(* It holds when the server starts: no request runs and nothing is stored. *)
LEMMA DeletedInit ==
  ASSUME Init
  PROVE  DInv
<1>1. TypeOK
  BY IdleSound, QuotaAssumption DEF Init, TypeOK
<1>2. \A p \in Procs : req[p] = Idle /\ Sound(req[p]) /\ req[p].op = "idle"
  BY IdleSound DEF Init
<1> QED
  BY <1>1, <1>2, Zenon DEF Init, DInv, TInv, Closed

(* For any number of users, files and requests: once purge_user is through with *)
(* an account that had no request running when it was deleted, its quota row is *)
(* gone for good and only files that could not be purged are left               *)
(* (events/mod.rs), whatever the requests, the sweeps and the failures meanwhile. *)
THEOREM AccountsReleased == Spec => []DeletedReleased
<1>1. DInv => DeletedReleased
  BY Zenon DEF DInv, Released, DeletedReleased
<1>2. Init => DInv
  BY DeletedInit
<1>3. DInv /\ [Next]_vars => DInv'
  BY DeletedStep
<1> QED
  BY <1>1, <1>2, <1>3, PTL DEF Spec
-----------------------------------------------------------------------------
(* Usage *)

(* File ids are minted in order, and purge_file knows the row it read. *)
Filed == \A f \in FileIds : f > minted => files[f] = None
Read ==
    \A p \in Procs : req[p].op = "purging" =>
        /\ req[p].file <= minted
        /\ files[req[p].file] # None =>
             /\ files[req[p].file].user = req[p].user
             /\ files[req[p].file].size = req[p].amount

(* What is stored for an open account and in flight was charged. *)
Covered ==
    \A u \in Users : account[u] = "open" => Stored(files, u) + Flying(req, u) <= Used(quota[u])

UInv == DInv /\ Filed /\ Read /\ Covered

(* Requests that owe nothing. *)
LEMMA NotOwed ==
  ASSUME NEW r, r.op \notin {"push", "refund", "credit"}, NEW u
  PROVE  Owed(r, u) = 0
BY DEF Owed

LEMMA IdleOwes ==
  ASSUME NEW u
  PROVE  Owed(Idle, u) = 0
BY IdleSound, Zenon DEF Owed

(* A step that takes from the charge of u no more than from what it is for. *)
LEMMA CoveredStep ==
  ASSUME UInv, TInv', NEW p \in Procs, Moved(p), NEW u \in Users, account[u] = "open",
         Stored(files', u) + Owed(req'[p], u) + Used(quota[u])
           <= Stored(files, u) + Owed(req[p], u) + Used(quota'[u])
  PROVE  Stored(files', u) + Flying(req', u) <= Used(quota'[u])
<1>1. /\ files \in FileRows /\ files' \in FileRows /\ quota \in QuotaRows /\ quota' \in QuotaRows
      /\ req \in [Procs -> Request] /\ req' \in [Procs -> Request]
  BY DEF UInv, DInv, TInv, TypeOK, FileRows, QuotaRows
<1>2. Stored(files, u) \in Nat /\ Stored(files', u) \in Nat
  BY <1>1, BytesIs, Zenon
<1>3. Flying(req, u) \in Nat /\ Flying(req', u) \in Nat
  BY <1>1, InFlightIs, Zenon
<1>4. Used(quota[u]) \in Nat /\ Used(quota'[u]) \in Nat
  BY <1>1, TermTypes DEF QuotaRows
<1>5. Owed(req[p], u) \in Nat /\ Owed(req'[p], u) \in Nat
  BY <1>1, TermTypes, Zenon
<1>6. \A q \in Procs \ {p} : req'[q] = req[q]
  BY DEF Moved
<1>7. Flying(req', u) = Flying(req, u) - Owed(req[p], u) + Owed(req'[p], u)
  BY <1>1, <1>6, FlyingChange, Zenon
<1>8. Stored(files, u) + Flying(req, u) <= Used(quota[u])
  BY DEF UInv, Covered
<1> QED
  BY <1>2, <1>3, <1>4, <1>5, <1>7, <1>8

(* Files only go, and the request of p reads none. *)
Shrinks == minted' = minted /\ \A f \in FileIds : files'[f] = None \/ files'[f] = files[f]

LEMMA FiledKeeps ==
  ASSUME UInv, NEW p \in Procs, Moved(p), Shrinks, req'[p].op # "purging"
  PROVE  Filed' /\ Read'
<1>1. Filed'
  BY DEF UInv, Filed, Shrinks
<1>2. \A q \in Procs : req'[q].op = "purging" => req'[q] = req[q]
  BY Zenon DEF Moved
<1>3. \A q \in Procs : req[q].op = "purging" => req[q].file \in FileIds
  BY Zenon DEF UInv, DInv, TInv, Sound
<1>4. Read'
  BY <1>2, <1>3 DEF UInv, Read, Shrinks
<1> QED
  BY <1>1, <1>4, Zenon

(* A step of the request of p after which every open account is still covered. *)
Fair(p) ==
    /\ TInv' /\ Moved(p) /\ Shrinks /\ req'[p].op # "purging"
    /\ \A u \in Users : account'[u] = "open" =>
          /\ account[u] = "open"
          /\ Stored(files', u) + Owed(req'[p], u) + Used(quota[u])
               <= Stored(files, u) + Owed(req[p], u) + Used(quota'[u])

LEMMA FairKeeps ==
  ASSUME UInv, DInv', NEW p \in Procs, Fair(p)
  PROVE  UInv'
<1>1. Filed' /\ Read'
  BY FiledKeeps, Zenon DEF Fair
<1>2. Covered'
  <2> SUFFICES ASSUME NEW u \in Users, account'[u] = "open"
               PROVE  Stored(files', u) + Flying(req', u) <= Used(quota'[u])
    BY DEF Covered
  <2> QED
    BY CoveredStep DEF Fair
<1> QED
  BY <1>1, <1>2, Zenon DEF UInv

(* The terms of an account before a step are naturals. *)
LEMMA UsageTypes ==
  ASSUME TInv, NEW u \in Users
  PROVE  /\ Stored(files, u) \in Nat /\ Used(quota[u]) \in Nat
         /\ \A p \in Procs : Owed(req[p], u) \in Nat
<1>1. files \in FileRows /\ quota \in QuotaRows /\ req \in [Procs -> Request]
  BY DEF TInv, TypeOK, FileRows, QuotaRows
<1>2. Stored(files, u) \in Nat
  BY <1>1, BytesIs, Zenon
<1>3. Used(quota[u]) \in Nat
  BY <1>1, TermTypes DEF QuotaRows
<1>4. \A p \in Procs : Owed(req[p], u) \in Nat
  BY <1>1, TermTypes
<1> QED
  BY <1>2, <1>3, <1>4, Zenon

(* Uploads. *)
LEMMA UploadFair ==
  ASSUME UInv, NEW r \in Uploads, UNCHANGED accounts, UNCHANGED default_quota,
         \/ \E u \in Users, n \in Sizes : UploadBegin(r, u, n)
         \/ GrantDecide(r) \/ GrantInsert(r) \/ Charge(r)
         \/ PushStoresNothing(r)
  PROVE  Fair(r)
<1>0. TInv /\ r \in Procs /\ Sound(req[r]) /\ account' = account
  BY DEF UInv, DInv, TInv, Procs, accounts
<1>1. \A v \in Users : /\ Stored(files, v) \in Nat /\ Used(quota[v]) \in Nat
                       /\ Owed(req[r], v) \in Nat
  BY <1>0, UsageTypes, Zenon
<1>2. files' = files /\ minted' = minted /\ Shrinks
  BY Zenon DEF UploadBegin, GrantDecide, GrantInsert, Charge, PushStoresNothing, Shrinks
<1>3. ASSUME NEW u \in Users, NEW n \in Sizes, UploadBegin(r, u, n) PROVE Fair(r)
  <2>1. TInv' /\ Moved(r) /\ req'[r].op \in {"grant", "charge"}
    BY <1>0, <1>3, UploadBeginStep, Zenon
  <2>2. quota' = quota /\ req[r].op = "idle"
    BY <1>3, Zenon DEF UploadBegin
  <2>3. \A v \in Users : Owed(req'[r], v) = 0 /\ Owed(req[r], v) = 0
    BY <2>1, <2>2, Zenon DEF Owed
  <2> QED
    BY <1>0, <1>1, <1>2, <2>1, <2>2, <2>3 DEF Fair
<1>4. CASE GrantDecide(r)
  <2>1. TInv' /\ Moved(r) /\ req'[r].op \in {"charge", "insert"}
    BY <1>0, <1>4, GrantDecideStep, Zenon
  <2>2. quota' = quota /\ req[r].op = "grant"
    BY <1>4, Zenon DEF GrantDecide
  <2>3. \A v \in Users : Owed(req'[r], v) = 0 /\ Owed(req[r], v) = 0
    BY <2>1, <2>2, Zenon DEF Owed
  <2> QED
    BY <1>0, <1>1, <1>2, <2>1, <2>2, <2>3 DEF Fair
<1>5. CASE GrantInsert(r)
  <2>1. req[r].op = "insert"
    BY <1>5, Zenon DEF GrantInsert
  <2>2. PICK u \in Users : u = req[r].user
    BY <1>0, <2>1, Zenon DEF Sound
  <2>3. /\ TInv' /\ Moved(r) /\ RowChanged(u) /\ req'[r].op = "charge"
        /\ quota[u] # None => quota'[u] = quota[u]
        /\ quota[u] = None => quota'[u] \in QuotaRow /\ quota'[u].used = 0
    BY <1>0, <1>5, <2>2, GrantInsertStep, Zenon
  <2>4. \A v \in Users : Owed(req'[r], v) = 0 /\ Owed(req[r], v) = 0
    BY <2>1, <2>3, Zenon DEF Owed
  <2>5. \A v \in Users : Used(quota'[v]) = Used(quota[v])
    BY <2>3, NoneAssumption, Zenon DEF Used, RowChanged
  <2> QED
    BY <1>0, <1>1, <1>2, <2>3, <2>4, <2>5 DEF Fair
<1>6. CASE Charge(r)
  <2>1. req[r].op = "charge"
    BY <1>6, Zenon DEF Charge
  <2>2. PICK u \in Users : u = req[r].user
    BY <1>0, <2>1, Zenon DEF Sound
  <2>3. /\ TInv' /\ Moved(r) /\ RowChanged(u)
        /\ \/ quota' = quota /\ req'[r] = Idle
           \/ /\ quota[u] \in QuotaRow /\ quota'[u] \in QuotaRow
              /\ quota'[u].used = quota[u].used + req[r].amount
              /\ req'[r].op = "push" /\ req'[r].user = u
              /\ req'[r].amount = req[r].amount
    BY <1>0, <1>6, <2>2, ChargeStep, Zenon
  <2>4. \A v \in Users : Owed(req[r], v) = 0
    BY <2>1, Zenon DEF Owed
  <2>5. CASE quota' = quota /\ req'[r] = Idle
    BY <1>0, <1>1, <1>2, <2>3, <2>4, <2>5, IdleOwes, IdleSound DEF Fair
  <2>6. CASE /\ quota[u] \in QuotaRow /\ quota'[u] \in QuotaRow
             /\ quota'[u].used = quota[u].used + req[r].amount
             /\ req'[r].op = "push" /\ req'[r].user = u
             /\ req'[r].amount = req[r].amount
    <3>1. Used(quota[u]) = quota[u].used /\ Used(quota'[u]) = quota'[u].used
      BY <2>6, NoneAssumption, Zenon DEF Used
    <3>2. Owed(req'[r], u) = req[r].amount /\ \A v \in Users \ {u} : Owed(req'[r], v) = 0
      BY <2>6, Zenon DEF Owed
    <3>3. \A v \in Users \ {u} : quota'[v] = quota[v]
      BY <2>3, Zenon DEF RowChanged
    <3>4. req[r].amount \in Nat
      BY <1>0, Zenon DEF TInv, TypeOK, Request
    <3>5. ASSUME NEW v \in Users
          PROVE  Stored(files', v) + Owed(req'[r], v) + Used(quota[v])
                   <= Stored(files, v) + Owed(req[r], v) + Used(quota'[v])
      <4>1. CASE v = u
        BY <1>1, <1>2, <2>4, <2>6, <3>1, <3>2, <3>4, <4>1
      <4>2. CASE v # u
        BY <1>1, <1>2, <2>4, <3>2, <3>3, <4>2
      <4> QED
        BY <4>1, <4>2, Zenon
    <3> QED
      BY <1>0, <1>2, <2>3, <2>6, <3>5, Zenon DEF Fair
  <2> QED
    BY <2>3, <2>5, <2>6, Zenon
<1>7. CASE PushStoresNothing(r)
  <2>1. /\ TInv' /\ Moved(r) /\ req'[r].op = "refund" /\ req'[r].user = req[r].user
        /\ req'[r].amount = req[r].amount
    BY <1>0, <1>7, PushStoresNothingStep, Zenon
  <2>2. quota' = quota /\ req[r].op = "push"
    BY <1>7, Zenon DEF PushStoresNothing
  <2>3. \A v \in Users : Owed(req'[r], v) = Owed(req[r], v)
    BY <2>1, <2>2, Zenon DEF Owed
  <2> QED
    BY <1>0, <1>1, <1>2, <2>1, <2>2, <2>3 DEF Fair
<1> QED
  BY <1>3, <1>4, <1>5, <1>6, <1>7

(* Refund and Credit. *)
LEMMA BackFair ==
  ASSUME UInv, NEW p \in Procs, Refund(p) \/ Credit(p), UNCHANGED accounts, UNCHANGED default_quota
  PROVE  Fair(p)
<1>0. TInv /\ Sound(req[p]) /\ account' = account
  BY DEF UInv, DInv, TInv, accounts
<1>1. req[p].op \in {"refund", "credit"} /\ files' = files /\ minted' = minted /\ Shrinks
  BY DEF Refund, Credit, Shrinks
<1>2. PICK u \in Users : u = req[p].user
  BY <1>0, <1>1, Zenon DEF Sound
<1>3. /\ TInv' /\ Moved(p) /\ req'[p] = Idle /\ RowChanged(u) /\ req[p].amount \in Nat
      /\ quota[u] = None => quota'[u] = None
      /\ quota[u] # None =>
           /\ quota[u] \in QuotaRow /\ quota'[u] \in QuotaRow
           /\ quota'[u].used >= quota[u].used - req[p].amount
  BY <1>0, <1>2, BackStep, Zenon
<1>4. \A v \in Users : Stored(files, v) \in Nat /\ Used(quota[v]) \in Nat
  BY <1>0, UsageTypes, Zenon
<1>5. /\ Owed(req[p], u) = req[p].amount
      /\ \A v \in Users : Owed(req'[p], v) = 0 /\ (v # u => Owed(req[p], v) = 0)
  BY <1>1, <1>2, <1>3, IdleOwes, Zenon DEF Owed
<1>6. Used(quota'[u]) \in Nat /\ Used(quota[u]) <= req[p].amount + Used(quota'[u])
  BY <1>3, NoneAssumption DEF Used, QuotaRow
<1>7. ASSUME NEW v \in Users
      PROVE  Stored(files', v) + Owed(req'[p], v) + Used(quota[v])
               <= Stored(files, v) + Owed(req[p], v) + Used(quota'[v])
  <2>1. CASE v = u
    BY <1>1, <1>3, <1>4, <1>5, <1>6, <2>1
  <2>2. CASE v # u
    <3>1. quota'[v] = quota[v]
      BY <1>3, <2>2 DEF RowChanged
    <3> QED
      BY <1>1, <1>4, <1>5, <2>2, <3>1
  <2> QED
    BY <2>1, <2>2, Zenon
<1> QED
  BY <1>0, <1>1, <1>3, <1>7, IdleSound, Zenon DEF Fair

(* Administrators and requests that end: usage is left alone. *)
LEMMA AdminFair ==
  ASSUME UInv, NEW a \in Admins, UNCHANGED accounts, UNCHANGED default_quota,
         \/ \E u \in Users, q \in Quotas : SetQuotaBegin(a, u, q)
         \/ SetQuotaCheck(a) \/ SetQuotaWrite(a)
         \/ \E b \in Contributions : SetContributionCheck(a, b)
         \/ SetContributionWrite(a)
  PROVE  Fair(a)
<1>0. TInv /\ a \in Procs /\ Sound(req[a]) /\ account' = account
  BY Zenon DEF UInv, DInv, TInv, Procs, accounts
<1>1. files' = files /\ minted' = minted /\ Shrinks
  BY Zenon DEF SetQuotaBegin, SetQuotaCheck, SetQuotaWrite, SetContributionCheck, SetContributionWrite,
         Shrinks
<1>2. \A v \in Users : Stored(files, v) \in Nat /\ Used(quota[v]) \in Nat
  BY <1>0, UsageTypes, Zenon
<1>3. \A v \in Users : Owed(req[a], v) = 0
  BY Zenon DEF SetQuotaBegin, SetQuotaCheck, SetQuotaWrite, SetContributionCheck, SetContributionWrite,
         Owed
<1>4. ASSUME TInv', Moved(a), req'[a].op \notin {"push", "refund", "credit", "purging"},
             \A v \in Users : Used(quota'[v]) = Used(quota[v])
      PROVE  Fair(a)
  <2>1. \A v \in Users : Owed(req'[a], v) = 0
    BY <1>4, Zenon DEF Owed
  <2> QED
    BY <1>0, <1>1, <1>2, <1>3, <1>4, <2>1 DEF Fair
<1>5. ASSUME NEW u \in Users, NEW q \in Quotas, SetQuotaBegin(a, u, q) PROVE Fair(a)
  <2>1. TInv' /\ Moved(a) /\ req'[a].op = "quota"
    BY <1>0, <1>5, SetQuotaBeginStep, Zenon
  <2>2. quota' = quota
    BY <1>5, Zenon DEF SetQuotaBegin
  <2> QED
    BY <1>4, <2>1, <2>2, Zenon
<1>6. CASE SetQuotaCheck(a)
  <2>1. TInv' /\ Moved(a) /\ (req'[a] = Idle \/ req'[a].op = "set quota")
    BY <1>0, <1>6, SetQuotaCheckStep, Zenon
  <2>2. quota' = quota
    BY <1>6, Zenon DEF SetQuotaCheck
  <2> QED
    BY <1>4, <2>1, <2>2, IdleSound, Zenon
<1>7. CASE SetQuotaWrite(a)
  <2>1. req[a].op = "set quota"
    BY <1>7, Zenon DEF SetQuotaWrite
  <2>2. PICK u \in Users : u = req[a].user
    BY <1>0, <2>1, Zenon DEF Sound
  <2>3. /\ TInv' /\ Moved(a) /\ req'[a] = Idle /\ RowChanged(u)
        /\ quota'[u] \in QuotaRow /\ quota'[u].used = Used(quota[u])
    BY <1>0, <1>7, <2>2, SetQuotaWriteStep, Zenon
  <2>4. \A v \in Users : Used(quota'[v]) = Used(quota[v])
    BY <2>3, NoneAssumption, Zenon DEF RowChanged, Used
  <2> QED
    BY <1>4, <2>3, <2>4, IdleSound, Zenon
<1>8. ASSUME NEW b \in Contributions, SetContributionCheck(a, b) PROVE Fair(a)
  <2>1. TInv' /\ Moved(a) /\ req'[a].op = "set contribution"
    BY <1>0, <1>8, SetContributionCheckStep, Zenon
  <2>2. quota' = quota
    BY <1>8, Zenon DEF SetContributionCheck
  <2> QED
    BY <1>4, <2>1, <2>2, Zenon
<1>9. CASE SetContributionWrite(a)
  <2>1. TInv' /\ Moved(a) /\ req'[a] = Idle
    BY <1>0, <1>9, SetContributionWriteStep, Zenon
  <2>2. quota' = quota
    BY <1>9, Zenon DEF SetContributionWrite
  <2> QED
    BY <1>4, <2>1, <2>2, IdleSound, Zenon
<1> QED
  BY <1>5, <1>6, <1>7, <1>8, <1>9, Zenon

LEMMA AbandonFair ==
  ASSUME UInv, NEW p \in Procs, Abandon(p), UNCHANGED accounts, UNCHANGED default_quota
  PROVE  Fair(p)
<1>0. TInv /\ account' = account
  BY DEF UInv, DInv, accounts
<1>1. TInv' /\ Moved(p) /\ req'[p] = Idle
  BY <1>0, AbandonStep, Zenon
<1>2. quota' = quota /\ files' = files /\ minted' = minted /\ Shrinks
  BY Zenon DEF Abandon, Shrinks
<1>3. \A v \in Users : /\ Stored(files, v) \in Nat /\ Used(quota[v]) \in Nat
                       /\ Owed(req[p], v) \in Nat /\ Owed(req'[p], v) = 0
  BY <1>0, <1>1, UsageTypes, IdleOwes, Zenon
<1> QED
  BY <1>0, <1>1, <1>2, <1>3, IdleSound DEF Fair

(* Deletes: what goes is in flight until it is credited. *)
LEMMA PurgeRowFair ==
  ASSUME UInv, Undisturbed, NEW d \in Deleters, PurgeRow(d),
         UNCHANGED accounts, UNCHANGED default_quota
  PROVE  Fair(d)
<1>0. TInv /\ d \in Procs /\ Sound(req[d]) /\ account' = account /\ req[d].op = "purging"
  BY DEF UInv, DInv, TInv, Procs, accounts, PurgeRow
<1>1. PICK f \in FileIds : f = req[d].file
  BY <1>0, Zenon DEF Sound
<1>2. /\ TInv' /\ Moved(d)
      /\ files'[f] = None /\ \A g \in FileIds \ {f} : files'[g] = files[g]
      /\ req'[d].op = "credit" /\ req'[d].user = req[d].user
      /\ req'[d].amount = req[d].amount
  BY <1>0, <1>1, PurgeRowStep, Zenon
<1>3. files[f] # None /\ files[f].user = req[d].user /\ files[f].size = req[d].amount
  BY <1>0, <1>1 DEF UInv, Read, Undisturbed
<1>4. quota' = quota /\ minted' = minted
  BY Zenon DEF PurgeRow
<1>5. Shrinks
  BY <1>2, <1>4, Zenon DEF Shrinks
<1>6. files \in FileRows /\ files' \in FileRows
  BY <1>0, <1>2, Zenon DEF TInv, TypeOK, FileRows
<1>7. ASSUME NEW v \in Users
      PROVE  Stored(files', v) + Owed(req'[d], v) + Used(quota[v])
               <= Stored(files, v) + Owed(req[d], v) + Used(quota'[v])
  <2>1. Stored(files', v) = Stored(files, v) - Held(files[f], v) + Held(files'[f], v)
    BY <1>2, <1>6, StoredChange, Zenon
  <2>2. Held(files'[f], v) = 0 /\ Held(files[f], v) = Owed(req'[d], v) /\ Owed(req[d], v) = 0
    BY <1>0, <1>2, <1>3, Zenon DEF Held, Owed
  <2>3. /\ Stored(files, v) \in Nat /\ Used(quota[v]) \in Nat
        /\ Held(files[f], v) \in Nat
    BY <1>0, <1>6, UsageTypes, TermTypes, Zenon DEF FileRows
  <2> QED
    BY <1>4, <2>1, <2>2, <2>3
<1> QED
  BY <1>0, <1>2, <1>5, <1>7, Zenon DEF Fair

LEMMA SweepFair ==
  ASSUME UInv, NEW d \in Deleters, NEW u \in Users, NEW S \in SUBSET StoredOf(u), Sweep(d, u, S),
         UNCHANGED accounts, UNCHANGED default_quota
  PROVE  Fair(d)
<1>0. TInv /\ d \in Procs /\ account' = account
  BY Zenon DEF UInv, DInv, Procs, accounts
<1>1. /\ TInv' /\ Moved(d)
      /\ files' = [f \in FileIds |-> IF f \in S THEN None ELSE files[f]]
      /\ req'[d].op = "credit" /\ req'[d].user = u
      /\ req'[d].amount = Bytes(S) /\ Bytes(S) \in Nat
      /\ Stored(files, u) = Stored(files', u) + Bytes(S)
      /\ \A v \in Users \ {u} : Stored(files', v) = Stored(files, v)
  BY <1>0, SweepStep, Zenon
<1>2. quota' = quota /\ minted' = minted /\ req[d].op = "idle"
  BY Zenon DEF Sweep
<1>3. Shrinks
  BY <1>1, <1>2, Zenon DEF Shrinks
<1>4. \A v \in Users : Owed(req[d], v) = 0 /\ Owed(req'[d], v) = IF v = u THEN Bytes(S) ELSE 0
  BY <1>1, <1>2, Zenon DEF Owed
<1>5. \A v \in Users : Stored(files, v) \in Nat /\ Used(quota[v]) \in Nat
  BY <1>0, UsageTypes, Zenon
<1>6. Stored(files', u) \in Nat
  <2>1. files' \in FileRows
    BY <1>1 DEF TInv, TypeOK, FileRows
  <2> QED
    BY <2>1, BytesIs, Zenon
<1>7. ASSUME NEW v \in Users
      PROVE  Stored(files', v) + Owed(req'[d], v) + Used(quota[v])
               <= Stored(files, v) + Owed(req[d], v) + Used(quota'[v])
  <2>1. CASE v = u
    BY <1>1, <1>2, <1>4, <1>5, <1>6, <2>1
  <2>2. CASE v # u
    BY <1>1, <1>2, <1>4, <1>5, <2>2
  <2> QED
    BY <2>1, <2>2
<1> QED
  BY <1>0, <1>1, <1>3, <1>7 DEF Fair

(* purge_user: the account it takes from is no longer open, and no other loses more *)
(* than its files.                                                                  *)
LEMMA UserDeletedFair ==
  ASSUME UInv, NEW d \in Deleters, NEW u \in Users, UserDeleted(d, u), UNCHANGED default_quota
  PROVE  Fair(d)
<1>0. TInv /\ d \in Procs
  BY Zenon DEF UInv, DInv, Procs
<1>1. /\ TInv' /\ Moved(d) /\ req'[d].op = "purge user" /\ account'[u] = "deleted"
      /\ \A v \in Users \ {u} : account'[v] = account[v]
  BY <1>0, UserDeletedStep, Zenon
<1>2. quota' = quota /\ files' = files /\ minted' = minted /\ Shrinks /\ req[d].op = "idle"
  BY DEF UserDeleted, Shrinks
<1>3. \A v \in Users : /\ Stored(files, v) \in Nat /\ Used(quota[v]) \in Nat
                       /\ Owed(req[d], v) = 0 /\ Owed(req'[d], v) = 0
  BY <1>0, <1>1, <1>2, UsageTypes, Zenon DEF Owed
<1>4. ASSUME NEW v \in Users, account'[v] = "open"
      PROVE  /\ account[v] = "open"
             /\ Stored(files', v) + Owed(req'[d], v) + Used(quota[v])
                  <= Stored(files, v) + Owed(req[d], v) + Used(quota'[v])
  <2>1. v # u /\ account[v] = "open"
    BY <1>1, <1>4, Zenon
  <2> QED
    BY <1>2, <1>3, <2>1
<1> QED
  BY <1>1, <1>2, <1>4, Zenon DEF Fair

LEMMA PurgeUserFileFair ==
  ASSUME UInv, NEW d \in Deleters, NEW f \in FileIds, PurgeUserFile(d, f), UNCHANGED default_quota
  PROVE  Fair(d)
<1>0. TInv /\ d \in Procs
  BY Zenon DEF UInv, DInv, Procs
<1>1. /\ TInv' /\ Moved(d)
      /\ req[d].op = "purge user" /\ req'[d].op = "purge user"
      /\ \A g \in FileIds \ {f} : files'[g] = files[g]
      /\ files'[f] = None \/ files' = files
  BY <1>0, PurgeUserFileStep, Zenon
<1>2. quota' = quota /\ minted' = minted /\ account' = account
  BY Zenon DEF PurgeUserFile
<1>3. Shrinks
  BY <1>1, <1>2, Zenon DEF Shrinks
<1>4. files \in FileRows /\ files' \in FileRows
  BY <1>0, <1>1, Zenon DEF TInv, TypeOK, FileRows
<1>5. ASSUME NEW v \in Users
      PROVE  Stored(files', v) + Owed(req'[d], v) + Used(quota[v])
               <= Stored(files, v) + Owed(req[d], v) + Used(quota'[v])
  <2>1. Stored(files', v) = Stored(files, v) - Held(files[f], v) + Held(files'[f], v)
    BY <1>1, <1>4, StoredChange, Zenon
  <2>2. Owed(req[d], v) = 0 /\ Owed(req'[d], v) = 0
    BY <1>1, Zenon DEF Owed
  <2>3. /\ Stored(files, v) \in Nat /\ Used(quota[v]) \in Nat
        /\ Held(files[f], v) \in Nat
    BY <1>0, <1>4, UsageTypes, TermTypes, Zenon DEF FileRows
  <2>4. Held(files'[f], v) = 0 \/ Held(files'[f], v) = Held(files[f], v)
    BY <1>1 DEF Held
  <2> QED
    BY <1>2, <2>1, <2>2, <2>3, <2>4
<1> QED
  BY <1>1, <1>2, <1>3, <1>5, Zenon DEF Fair

LEMMA PurgeUserQuotaFair ==
  ASSUME UInv, NEW d \in Deleters, PurgeUserQuota(d), UNCHANGED default_quota
  PROVE  Fair(d)
<1>0. TInv /\ d \in Procs /\ Sound(req[d])
  BY Zenon DEF UInv, DInv, TInv, Procs
<1>1. req[d].op = "purge user" /\ files' = files /\ minted' = minted /\ Shrinks
  BY Zenon DEF PurgeUserQuota, Shrinks
<1>2. PICK u \in Users : u = req[d].user
  BY <1>0, <1>1, Zenon DEF Sound
<1>3. /\ TInv' /\ Moved(d) /\ req'[d] = Idle /\ RowChanged(u) /\ account'[u] = "purged"
      /\ \A v \in Users \ {u} : account'[v] = account[v]
  BY <1>0, <1>2, PurgeUserQuotaStep, Zenon
<1>4. \A v \in Users : /\ Stored(files, v) \in Nat /\ Used(quota[v]) \in Nat
                       /\ Owed(req[d], v) = 0 /\ Owed(req'[d], v) = 0
  BY <1>0, <1>1, <1>3, UsageTypes, IdleOwes, Zenon DEF Owed
<1>5. \A v \in Users \ {u} : quota'[v] = quota[v]
  BY <1>3, Zenon DEF RowChanged
<1>6. ASSUME NEW v \in Users, account'[v] = "open"
      PROVE  /\ account[v] = "open"
             /\ Stored(files', v) + Owed(req'[d], v) + Used(quota[v])
                  <= Stored(files, v) + Owed(req[d], v) + Used(quota'[v])
  <2>1. v # u /\ account[v] = "open"
    BY <1>3, <1>6, Zenon
  <2>2. Used(quota'[v]) = Used(quota[v]) /\ Stored(files', v) = Stored(files, v)
    BY <1>1, <1>5, <2>1, Zenon
  <2>3. Stored(files, v) \in Nat /\ Used(quota[v]) \in Nat
    BY <1>4, Zenon
  <2>4. Owed(req[d], v) = 0 /\ Owed(req'[d], v) = 0
    BY <1>4, Zenon
  <2> QED
    BY <2>1, <2>2, <2>3, <2>4
<1> QED
  BY <1>1, <1>3, <1>6, IdleSound, Zenon DEF Fair

(* purge_file's read. *)
LEMMA PurgeReadUsage ==
  ASSUME UInv, DInv', NEW d \in Deleters, NEW f \in FileIds, PurgeRead(d, f),
         UNCHANGED accounts, UNCHANGED default_quota
  PROVE  UInv'
<1>0. TInv /\ d \in Procs /\ account' = account
  BY Zenon DEF UInv, DInv, Procs, accounts
<1>1. /\ TInv' /\ Moved(d)
      /\ req'[d].op = "purging" /\ req'[d].file = f
      /\ req'[d].user = files[f].user /\ req'[d].amount = files[f].size
  BY <1>0, PurgeReadStep, Zenon
<1>2. /\ quota' = quota /\ files' = files /\ minted' = minted
      /\ req[d].op = "idle" /\ files[f] # None
  BY DEF PurgeRead
<1>3. Filed'
  BY <1>2, Zenon DEF UInv, Filed
<1>4. f <= minted
  BY <1>0, <1>2 DEF UInv, Filed, TInv, TypeOK, FileIds
<1>5. \A q \in Procs \ {d} : req'[q] = req[q]
  BY <1>1 DEF Moved
<1>6. Read'
  BY <1>1, <1>2, <1>4, <1>5, ZenonT(60) DEF UInv, Read
<1>7. Covered'
  <2> SUFFICES ASSUME NEW u \in Users, account'[u] = "open"
               PROVE  Stored(files', u) + Flying(req', u) <= Used(quota'[u])
    BY DEF Covered
  <2>1. /\ Stored(files, u) \in Nat /\ Used(quota[u]) \in Nat
        /\ Owed(req[d], u) = 0 /\ Owed(req'[d], u) = 0
    BY <1>0, <1>1, <1>2, UsageTypes, Zenon DEF Owed
  <2>2. Stored(files, u) + 0 + Used(quota[u]) <= Stored(files, u) + 0 + Used(quota[u])
    BY <2>1
  <2>3. Stored(files', u) + Owed(req'[d], u) + Used(quota[u])
           <= Stored(files, u) + Owed(req[d], u) + Used(quota'[u])
    BY <1>2, <2>1, <2>2, Zenon
  <2>4. account[u] = "open"
    BY <1>0, Zenon
  <2> QED
    BY <1>0, <1>1, <2>3, <2>4, CoveredStep, Zenon
<1> QED
  BY <1>3, <1>6, <1>7 DEF UInv

(* A stored version: the charge in flight becomes bytes held. *)
LEMMA PushStoresUsage ==
  ASSUME UInv, DInv', NEW r \in Uploads, PushStores(r),
         UNCHANGED accounts, UNCHANGED default_quota
  PROVE  UInv'
<1>0. TInv /\ r \in Procs /\ account' = account
  BY DEF UInv, DInv, Procs, accounts
<1>1. /\ TInv' /\ Moved(r) /\ req'[r] = Idle
      /\ minted' = minted + 1 /\ minted' \in FileIds
      /\ files'[minted'] \in FileRow
      /\ files'[minted'].user = req[r].user /\ files'[minted'].size = req[r].amount
      /\ \A g \in FileIds \ {minted'} : files'[g] = files[g]
  BY <1>0, PushStoresStep, Zenon
<1>2. PICK f \in FileIds : f = minted'
  BY <1>1, Zenon
<1>3. quota' = quota /\ req[r].op = "push" /\ minted \in Nat /\ f = minted + 1
  BY <1>0, <1>1, <1>2 DEF PushStores, TInv, TypeOK
<1>4. files[f] = None
  BY <1>3 DEF UInv, Filed, FileIds
<1>5. Filed'
  BY <1>1, <1>2, <1>3 DEF UInv, Filed, FileIds
<1>6. Read'
  <2> SUFFICES ASSUME NEW q \in Procs, req'[q].op = "purging"
               PROVE  /\ req'[q].file <= minted'
                      /\ files'[req'[q].file] # None =>
                           /\ files'[req'[q].file].user = req'[q].user
                           /\ files'[req'[q].file].size = req'[q].amount
    BY DEF Read
  <2>1. req'[q] = req[q] /\ req[q].op = "purging"
    BY <1>1, IdleSound, Zenon DEF Moved
  <2>2. PICK g \in FileIds : g = req[q].file
    BY <1>0, <2>1, Zenon DEF TInv, Sound
  <2>3. g <= minted
    BY <2>1, <2>2, Zenon DEF UInv, Read
  <2>4. g \in FileIds \ {minted'} /\ g <= minted'
    BY <1>2, <1>3, <2>3 DEF FileIds
  <2>5. files'[g] = files[g]
    BY <1>1, <2>4, Zenon
  <2> QED
    BY <2>1, <2>2, <2>4, <2>5, Zenon DEF UInv, Read
<1>7. files \in FileRows /\ files' \in FileRows
  BY <1>0, <1>1, Zenon DEF TInv, TypeOK, FileRows
<1>8. Covered'
  <2> SUFFICES ASSUME NEW u \in Users, account'[u] = "open"
               PROVE  Stored(files', u) + Flying(req', u) <= Used(quota'[u])
    BY Zenon DEF Covered
  <2>1. Stored(files', u) = Stored(files, u) - Held(files[f], u) + Held(files'[f], u)
    BY <1>1, <1>2, <1>7, StoredChange, Zenon
  <2>2. Held(files[f], u) = 0 /\ Held(files'[f], u) = Owed(req[r], u) /\ Owed(req'[r], u) = 0
    BY <1>1, <1>2, <1>3, <1>4, IdleOwes, NoneAssumption, Zenon DEF Held, Owed
  <2>3. Stored(files, u) \in Nat /\ Used(quota[u]) \in Nat /\ Owed(req[r], u) \in Nat
    BY <1>0, UsageTypes, Zenon
  <2>4. Stored(files', u) = Stored(files, u) + Owed(req[r], u) /\ quota' = quota
    BY <1>3, <2>1, <2>2, <2>3
  <2>5. Stored(files', u) + Owed(req'[r], u) + Used(quota[u])
           <= Stored(files, u) + Owed(req[r], u) + Used(quota'[u])
    BY <2>2, <2>3, <2>4
  <2>6. account[u] = "open"
    BY <1>0, Zenon
  <2> QED
    BY <1>0, <1>1, <2>5, <2>6, CoveredStep, Zenon
<1> QED
  BY <1>5, <1>6, <1>8 DEF UInv

(* Every step keeps it while no file goes between purge_file's read and its delete. *)
LEMMA UsageStep ==
  ASSUME UInv, Undisturbed, [Next]_vars
  PROVE  UInv'
<1>0. DInv'
  BY DeletedStep, Zenon DEF UInv
<1>1. CASE UNCHANGED vars
  BY <1>0, <1>1, Zenon DEF vars, UInv, Filed, Read, Covered
<1>2. ASSUME UNCHANGED default_quota, Serve, UNCHANGED accounts
      PROVE  UInv'
  <2>1. ASSUME NEW r \in Uploads,
               \/ \E u \in Users, n \in Sizes : UploadBegin(r, u, n)
               \/ GrantDecide(r) \/ GrantInsert(r) \/ Charge(r)
               \/ PushStores(r) \/ PushStoresNothing(r) \/ Refund(r)
        PROVE  UInv'
    BY <1>0, <1>2, <2>1, UploadFair, BackFair, PushStoresUsage, FairKeeps, Zenon DEF Procs
  <2>2. ASSUME NEW d \in Deleters,
               \/ \E f \in FileIds : PurgeRead(d, f)
               \/ \E u \in Users : \E S \in SUBSET StoredOf(u) : Sweep(d, u, S)
               \/ PurgeRow(d) \/ Credit(d)
        PROVE  UInv'
    BY <1>0, <1>2, <2>2, PurgeReadUsage, SweepFair, PurgeRowFair, BackFair, FairKeeps, Zenon DEF Procs
  <2>3. ASSUME NEW a \in Admins,
               \/ \E u \in Users, q \in Quotas : SetQuotaBegin(a, u, q)
               \/ SetQuotaCheck(a) \/ SetQuotaWrite(a)
               \/ \E b \in Contributions : SetContributionCheck(a, b)
               \/ SetContributionWrite(a)
        PROVE  UInv'
    BY <1>0, <1>2, <2>3, AdminFair, FairKeeps, Zenon DEF Procs
  <2>4. ASSUME NEW p \in Procs, Abandon(p) PROVE UInv'
    BY <1>0, <1>2, <2>4, AbandonFair, FairKeeps, Zenon
  <2> QED
    BY <1>2, <2>1, <2>2, <2>3, <2>4, Zenon DEF Serve
<1>3. ASSUME UNCHANGED default_quota, NEW d \in Deleters,
             \/ \E u \in Users : UserDeleted(d, u)
             \/ \E f \in FileIds : PurgeUserFile(d, f)
             \/ PurgeUserQuota(d)
      PROVE  UInv'
  BY <1>0, <1>3, UserDeletedFair, PurgeUserFileFair, PurgeUserQuotaFair, FairKeeps, Zenon DEF Procs
<1> QED
  BY <1>1, <1>2, <1>3, Zenon DEF Next

(* It holds when the server starts: every sum is one of zeros. *)
LEMMA UsageInit ==
  ASSUME Init
  PROVE  UInv
<1>1. DInv
  BY DeletedInit
<1>2. \A p \in Procs : req[p] = Idle
  BY DEF Init
<1>3. Filed /\ Read
  BY <1>2, IdleSound, Zenon DEF Init, Filed, Read
<1>4. ASSUME NEW u \in Users
      PROVE  Stored(files, u) = 0 /\ Flying(req, u) = 0 /\ Used(quota[u]) = 0
  <2>1. \A f \in FileIds : Held(files[f], u) = 0
    BY DEF Init, Held
  <2>2. \A p \in Procs : Owed(req[p], u) = 0
    BY <1>2, IdleOwes, Zenon
  <2>3. PICK h : h = [f \in FileIds |-> Held(files[f], u)]
    BY Zenon
  <2>4. PICK g : g = [p \in Procs |-> Owed(req[p], u)]
    BY Zenon
  <2>5. (\A f \in FileIds : h[f] = 0) /\ \A p \in Procs : g[p] = 0
    BY <2>1, <2>2, <2>3, <2>4, Zenon
  <2>6. SumFunctionOnSet(h, FileIds) = 0 /\ SumFunctionOnSet(g, Procs) = 0
    BY <2>5, Finite, ZeroSum, Zenon
  <2> QED
    BY <2>3, <2>4, <2>6, Zenon DEF Init, Stored, Flying, Used
<1> QED
  BY <1>1, <1>3, <1>4 DEF UInv, Covered

(* What the invariant says of the model's own sums. *)
LEMMA UsageSums ==
  ASSUME TInv
  PROVE  \A u \in Users : /\ Bytes(StoredOf(u)) = Stored(files, u)
                          /\ InFlight(u) = Flying(req, u)
                          /\ Stored(files, u) \in Nat /\ Flying(req, u) \in Nat
<1>1. files \in FileRows /\ req \in [Procs -> Request]
  BY DEF TInv, TypeOK, FileRows
<1> QED
  BY <1>1, BytesIs, InFlightIs, Zenon DEF Bytes, StoredOf, InFlight

LEMMA UsageImplies ==
  ASSUME UInv
  PROVE  UsageCovers
<1> SUFFICES ASSUME NEW u \in Users, account[u] = "open", Bytes(StoredOf(u)) > 0
             PROVE  /\ u \in Granted
                    /\ Bytes(StoredOf(u)) + InFlight(u) <= quota[u].used
  BY DEF UsageCovers, Accounts
<1>1. /\ Bytes(StoredOf(u)) = Stored(files, u) /\ InFlight(u) = Flying(req, u)
      /\ Stored(files, u) \in Nat /\ Flying(req, u) \in Nat
  BY UsageSums, Zenon DEF UInv, DInv
<1>2. Stored(files, u) + Flying(req, u) <= Used(quota[u])
  BY DEF UInv, Covered
<1>3. quota[u] # None
  BY <1>1, <1>2 DEF Used
<1> QED
  BY <1>1, <1>2, <1>3, Zenon DEF Granted, Used

(* For any number of users, files and requests: an open account is charged for  *)
(* at least what it stores and has in flight, through failed and unchanged      *)
(* uploads, sweeps, deletes and failures, as long as no file goes between       *)
(* purge_file's read of its row and its delete (handlers/files.rs).             *)
THEOREM UsageCovered == Spec /\ []Undisturbed => []UsageCovers
<1>1. UInv => UsageCovers
  BY UsageImplies
<1>2. Init => UInv
  BY UsageInit
<1>3. UInv /\ Undisturbed /\ [Next]_vars => UInv'
  BY UsageStep
<1> QED
  BY <1>1, <1>2, <1>3, PTL DEF Spec-----------------------------------------------------------------------------

(* Backing *)

(* What a request in the middle of ensure, set_quota or set_contribution relies on: *)
(* ensure on the lock it holds, an administrator on being alone.                    *)
Pending(p) ==
    /\ req[p].op \in {"grant", "insert"} => default_quota > 0
    /\ req[p].op = "insert" =>
          p \in Uploads /\ lock = p /\ Shares(quota, Users) + req[p].seen <= contributed
    /\ req[p].op = "quota" => req[p].seen = contributed
    /\ req[p].op = "set quota" =>
          Shares(quota, Users) - Part(quota[req[p].user]) + req[p].amount <= contributed
    /\ req[p].op = "set contribution" => Shares(quota, Users) <= req[p].amount

(* While a default is granted, no account is charged for more than its quota. *)
Ceiling ==
    default_quota > 0 => \A u \in Users : quota[u] # None => quota[u].used <= quota[u].quota

BInv ==
    /\ TInv /\ Ceiling
    /\ \A p \in Procs : Pending(p)
    /\ Shares(quota, Users) <= contributed

(* The quantities are naturals. *)
LEMMA BackingTypes ==
  ASSUME TInv
  PROVE  /\ Shares(quota, Users) \in Nat /\ contributed \in Nat /\ default_quota \in Nat
         /\ \A u \in Users : Part(quota[u]) \in Nat
         /\ \A p \in Procs : req[p].seen \in Nat /\ req[p].amount \in Nat
         /\ Allocated(Users) = Shares(quota, Users)
<1>1. quota \in QuotaRows /\ req \in [Procs -> Request]
  BY DEF TInv, TypeOK, QuotaRows
<1>2. /\ contributed \in Nat /\ default_quota \in Nat
      /\ \A p \in Procs : req[p].seen \in Nat /\ req[p].amount \in Nat
  BY <1>1, QuotaAssumption, Zenon DEF TInv, TypeOK, Request
<1>3. \A u \in Users : Part(quota[u]) \in Nat
  BY <1>1, TermTypes, Zenon DEF QuotaRows
<1>4. Allocated(Users) = Shares(quota, Users) /\ Shares(quota, Users) \in Nat
  BY <1>1, AllocatedIs, Zenon DEF Allocated, Granted
<1> QED
  BY <1>2, <1>3, <1>4, Zenon

(* The quotas of the other users. *)
LEMMA OthersIs ==
  ASSUME TInv, NEW u \in Users
  PROVE  Others(u) = Shares(quota, Users) - Part(quota[u])
<1>1. quota \in QuotaRows
  BY DEF TInv, TypeOK, QuotaRows
<1>2. PICK f : f = [v \in Users |-> Part(quota[v])]
  BY Zenon
<1>3. \A v \in Users : f[v] \in Int
  BY <1>1, <1>2, TermTypes DEF QuotaRows
<1>4. SumFunctionOnSet(f, Users) = f[u] + SumFunctionOnSet(f, Users \ {u})
  BY <1>3, Finite, SumRemove
<1>5. Others(u) = Shares(quota, Users \ {u}) /\ Others(u) \in Nat
  BY <1>1, AllocatedIs DEF Others, Allocated, Granted
<1>6. Shares(quota, Users) = Part(quota[u]) + Others(u)
  BY <1>2, <1>4, <1>5, Zenon DEF Shares
<1>7. Part(quota[u]) \in Nat
  BY <1>1, TermTypes, Zenon DEF QuotaRows
<1> QED
  BY <1>5, <1>6, <1>7

(* Rows whose quotas are as they were allocate as much. *)
LEMMA SharesSame ==
  ASSUME NEW q, NEW r, \A u \in Users : Part(r[u]) = Part(q[u])
  PROVE  Shares(r, Users) = Shares(q, Users)
<1>1. [u \in Users |-> Part(r[u])] = [u \in Users |-> Part(q[u])]
  OBVIOUS
<1> QED
  BY <1>1 DEF Shares

(* A step that allocates no more and leaves the lock of others alone. *)
LEMMA BackedKeeps ==
  ASSUME BInv, TInv', Ceiling', NEW p \in Procs, Moved(p), Pending(p)',
         contributed' = contributed, default_quota' = default_quota,
         Shares(quota', Users) <= Shares(quota, Users),
         \A u \in Users : Shares(quota', Users) - Part(quota'[u])
                            <= Shares(quota, Users) - Part(quota[u]),
         \A q \in Uploads \ {p} : lock = q => lock' = q
  PROVE  BInv'
<1>1. TInv /\ Shares(quota, Users) <= contributed
  BY DEF BInv
<1>2. /\ Shares(quota, Users) \in Nat /\ contributed \in Nat
      /\ \A u \in Users : Part(quota[u]) \in Nat
      /\ \A q \in Procs : req[q].seen \in Nat /\ req[q].amount \in Nat
  BY <1>1, BackingTypes, Zenon
<1>3. quota' \in QuotaRows
  BY DEF TInv, TypeOK, QuotaRows
<1>4. Shares(quota', Users) \in Nat /\ \A u \in Users : Part(quota'[u]) \in Nat
  BY <1>3, AllocatedIs, TermTypes, Zenon DEF QuotaRows
<1>5. Shares(quota', Users) <= contributed'
  BY <1>1, <1>2, <1>4
<1>6. ASSUME NEW q \in Procs, q # p PROVE Pending(q)'
  <2>1. req'[q] = req[q] /\ Pending(q) /\ Sound(req[q])
    BY <1>6, Zenon DEF BInv, Moved, TInv
  <2>2. req[q].op \in {"grant", "insert"} => default_quota' > 0
    BY <2>1, Zenon DEF Pending
  <2>3. ASSUME req[q].op = "insert"
        PROVE  q \in Uploads /\ lock' = q /\ Shares(quota', Users) + req[q].seen <= contributed'
    <3>1. q \in Uploads /\ lock = q /\ Shares(quota, Users) + req[q].seen <= contributed
      BY <2>1, <2>3, Zenon DEF Pending
    <3>2. lock' = q
      BY <1>6, <3>1, Zenon
    <3>3. req[q].seen \in Nat
      BY <1>2, Zenon
    <3> QED
      BY <1>2, <1>4, <3>1, <3>2, <3>3
  <2>4. req[q].op = "quota" => req[q].seen = contributed'
    BY <2>1, Zenon DEF Pending
  <2>5. ASSUME req[q].op = "set quota"
        PROVE  Shares(quota', Users) - Part(quota'[req[q].user]) + req[q].amount <= contributed'
    <3>1. PICK u \in Users : u = req[q].user
      BY <2>1, <2>5, Zenon DEF Sound
    <3>2. Shares(quota, Users) - Part(quota[u]) + req[q].amount <= contributed
      BY <2>1, <2>5, <3>1, Zenon DEF Pending
    <3>3. Shares(quota', Users) - Part(quota'[u]) + req[q].amount <= contributed'
      BY <1>2, <1>4, <3>2
    <3> QED
      BY <3>1, <3>3, Zenon
  <2>6. ASSUME req[q].op = "set contribution"
        PROVE  Shares(quota', Users) <= req[q].amount
    <3>1. Shares(quota, Users) <= req[q].amount
      BY <2>1, <2>6, Zenon DEF Pending
    <3>2. req[q].amount \in Nat
      BY <1>2, Zenon
    <3> QED
      BY <1>2, <1>4, <3>1, <3>2
  <2> QED
    BY <2>1, <2>2, <2>3, <2>4, <2>5, <2>6, Zenon DEF Pending
<1> QED
  BY <1>5, <1>6, Zenon DEF BInv

(* A step that leaves every quota alone, and leads to a request that relies on nothing. *)
Plain(p) ==
    /\ TInv' /\ Moved(p) /\ contributed' = contributed
    /\ \A q \in Uploads \ {p} : lock = q => lock' = q
    /\ \A u \in Users : Part(quota'[u]) = Part(quota[u])

LEMMA PlainKeeps ==
  ASSUME BInv, NEW p \in Procs, Plain(p), Ceiling', Pending(p)', default_quota' = default_quota
  PROVE  BInv'
<1>1. Shares(quota', Users) = Shares(quota, Users)
  BY SharesSame, Zenon DEF Plain
<1>2. Shares(quota, Users) \in Nat /\ \A u \in Users : Part(quota[u]) \in Nat
  BY BackingTypes, Zenon DEF BInv
<1>3. \A u \in Users : Shares(quota', Users) - Part(quota'[u])
                         <= Shares(quota, Users) - Part(quota[u])
  BY <1>1, <1>2 DEF Plain
<1>4. Shares(quota', Users) <= Shares(quota, Users)
  BY <1>1, <1>2
<1> QED
  BY <1>3, <1>4, BackedKeeps, Zenon DEF Plain

(* A request that is in none of those statements relies on nothing. *)
LEMMA Relies ==
  ASSUME NEW p,
         req'[p].op \notin {"grant", "insert", "quota", "set quota", "set contribution"}
  PROVE  Pending(p)'
BY Zenon DEF Pending

LEMMA CeilingSame ==
  ASSUME BInv, quota' = quota, default_quota' = default_quota
  PROVE  Ceiling' /\ \A u \in Users : Part(quota'[u]) = Part(quota[u])
BY DEF BInv, Ceiling
(* Uploads before and after the insert. *)
LEMMA UploadBacked ==
  ASSUME BInv, NEW r \in Uploads, UNCHANGED accounts, UNCHANGED default_quota,
         \/ \E u \in Users, n \in Sizes : UploadBegin(r, u, n)
         \/ GrantDecide(r) \/ PushStores(r) \/ PushStoresNothing(r)
  PROVE  BInv'
<1>0. TInv /\ r \in Procs /\ Ceiling
  BY Zenon DEF BInv, Procs
<1>1. contributed' = contributed /\ quota' = quota
  BY Zenon DEF UploadBegin, GrantDecide, PushStores, PushStoresNothing
<1>2. Ceiling' /\ \A u \in Users : Part(quota'[u]) = Part(quota[u])
  BY <1>1, CeilingSame, Zenon
<1>3. ASSUME TInv', Moved(r), \A q \in Uploads \ {r} : lock = q => lock' = q, Pending(r)'
      PROVE  BInv'
  BY <1>0, <1>1, <1>2, <1>3, PlainKeeps, Zenon DEF Plain
<1>4. ASSUME NEW u \in Users, NEW n \in Sizes, UploadBegin(r, u, n) PROVE BInv'
  <2>1. /\ TInv' /\ Moved(r) /\ req'[r].op \in {"grant", "charge"}
        /\ req'[r].op = "grant" => default_quota > 0
    BY <1>0, <1>4, UploadBeginStep, Zenon
  <2>2. lock' = lock
    BY <1>4, Zenon DEF UploadBegin
  <2>3. Pending(r)'
    BY <2>1, Zenon DEF Pending
  <2> QED
    BY <1>3, <2>1, <2>2, <2>3, Zenon
<1>5. CASE GrantDecide(r)
  <2>1. /\ TInv' /\ Moved(r) /\ req'[r].op \in {"charge", "insert"}
        /\ req'[r].op = "insert" => lock' = r /\ req'[r].seen = Grant /\ Grant # 0
    BY <1>0, <1>5, GrantDecideStep, Zenon
  <2>2. lock = None /\ req[r].op = "grant"
    BY <1>5, Zenon DEF GrantDecide
  <2>3. \A q \in Uploads \ {r} : lock # q
    BY <2>2, QuotaAssumption, Zenon
  <2>4. default_quota > 0
    BY <1>0, <2>2, Zenon DEF BInv, Pending
  <2>5. /\ Shares(quota, Users) \in Nat /\ contributed \in Nat /\ default_quota \in Nat
        /\ Allocated(Users) = Shares(quota, Users)
    BY <1>0, BackingTypes, Zenon
  <2>6. Grant # 0 => Shares(quota, Users) + Grant <= contributed
    BY <2>5 DEF Grant, Least, PlusZero
  <2>7. Pending(r)'
    BY <1>1, <2>1, <2>4, <2>6, Zenon DEF Pending
  <2> QED
    BY <1>3, <2>1, <2>3, <2>7, Zenon
<1>6. CASE PushStores(r)
  <2>1. TInv' /\ Moved(r) /\ req'[r] = Idle
    BY <1>0, <1>6, PushStoresStep, Zenon
  <2>2. lock' = lock
    BY <1>6, Zenon DEF PushStores
  <2>3. Pending(r)'
    BY <2>1, IdleSound, Relies, Zenon
  <2> QED
    BY <1>3, <2>1, <2>2, <2>3, Zenon
<1>7. CASE PushStoresNothing(r)
  <2>1. TInv' /\ Moved(r) /\ req'[r].op = "refund"
    BY <1>0, <1>7, PushStoresNothingStep, Zenon
  <2>2. lock' = lock
    BY <1>7, Zenon DEF PushStoresNothing
  <2>3. Pending(r)'
    BY <2>1, Relies, Zenon
  <2> QED
    BY <1>3, <2>1, <2>2, <2>3, Zenon
<1> QED
  BY <1>4, <1>5, <1>6, <1>7, Zenon

(* The grant: it was decided under the lock, which its request still holds, and no *)
(* administrator is at work.                                                       *)
LEMMA GrantInsertBacked ==
  ASSUME BInv, Apart, NEW r \in Uploads, GrantInsert(r), UNCHANGED accounts, UNCHANGED default_quota
  PROVE  BInv'
<1>0. TInv /\ r \in Procs /\ Sound(req[r]) /\ Pending(r) /\ req[r].op = "insert"
  BY Zenon DEF BInv, TInv, Procs, GrantInsert
<1>1. PICK u \in Users : u = req[r].user
  BY <1>0, Zenon DEF Sound
<1>2. /\ TInv' /\ Moved(r) /\ RowChanged(u) /\ req'[r].op = "charge"
      /\ quota[u] # None => quota'[u] = quota[u]
      /\ quota[u] = None =>
           quota'[u] \in QuotaRow /\ quota'[u].quota = req[r].seen /\ quota'[u].used = 0
  BY <1>0, <1>1, GrantInsertStep, Zenon
<1>3. /\ default_quota > 0 /\ lock = r
      /\ Shares(quota, Users) + req[r].seen <= contributed
      /\ contributed' = contributed
  BY <1>0, Zenon DEF Pending, GrantInsert
<1>4. \A q \in Procs : req[q].op \notin {"quota", "set quota", "set contribution"}
  BY <1>3, Zenon DEF Apart, Administering
<1>5. \A q \in Procs \ {r} : req'[q] = req[q] /\ req[q].op # "insert"
  BY <1>2, <1>3, Zenon DEF BInv, Pending, Moved
<1>6. \A q \in Procs : Pending(q)'
  <2>1. Pending(r)'
    BY <1>2, Relies, Zenon
  <2>2. \A q \in Procs \ {r} : Pending(q)'
    BY <1>3, <1>4, <1>5, Zenon DEF Pending
  <2> QED
    BY <2>1, <2>2, Zenon
<1>7. quota \in QuotaRows /\ quota' \in QuotaRows
  BY <1>0, <1>2, Zenon DEF TInv, TypeOK, QuotaRows
<1>8. \A v \in Users \ {u} : quota'[v] = quota[v]
  BY <1>2, Zenon DEF RowChanged
<1>9. Shares(quota', Users) = Shares(quota, Users) - Part(quota[u]) + Part(quota'[u])
  BY <1>7, <1>8, SharesChange, Zenon
<1>10. /\ Shares(quota, Users) \in Nat /\ contributed \in Nat /\ Part(quota[u]) \in Nat
       /\ req[r].seen \in Nat /\ Shares(quota, Users) <= contributed
  BY <1>0, BackingTypes, Zenon DEF BInv
<1>11. Shares(quota', Users) <= contributed'
  <2>1. CASE quota[u] = None
    <3>1. Part(quota[u]) = 0 /\ Part(quota'[u]) = req[r].seen
      BY <1>2, <2>1, NoneAssumption, Zenon DEF Part
    <3> QED
      BY <1>3, <1>9, <1>10, <3>1
  <2>2. CASE quota[u] # None
    <3>1. Part(quota'[u]) = Part(quota[u])
      BY <1>2, <2>2, Zenon
    <3> QED
      BY <1>3, <1>9, <1>10, <3>1
  <2> QED
    BY <2>1, <2>2, Zenon
<1>12. Ceiling'
  <2>1. quota[u] = None => quota'[u].used <= quota'[u].quota
    BY <1>2, <1>10
  <2> QED
    BY <1>2, <1>8, <2>1, Zenon DEF BInv, Ceiling
<1> QED
  BY <1>2, <1>6, <1>11, <1>12, Zenon DEF BInv

(* Charges, refunds and credits move used, never the quota. *)
LEMMA ChargeBacked ==
  ASSUME BInv, NEW p \in Procs, UNCHANGED accounts, UNCHANGED default_quota,
         (p \in Uploads /\ Charge(p)) \/ Refund(p) \/ Credit(p)
  PROVE  BInv'
<1>0. TInv /\ Sound(req[p]) /\ contributed' = contributed /\ lock' = lock
  BY Zenon DEF BInv, TInv, Charge, Refund, Credit
<1>1. req[p].op \in {"charge", "refund", "credit"}
  BY DEF Charge, Refund, Credit
<1>2. PICK u \in Users : u = req[p].user
  BY <1>0, <1>1, Zenon DEF Sound
<1>3. ASSUME TInv', Moved(p), RowChanged(u), req'[p].op \in {"idle", "push"},
             Part(quota'[u]) = Part(quota[u]),
             default_quota > 0 /\ quota'[u] # None => quota'[u].used <= quota'[u].quota
      PROVE  BInv'
  <2>1. \A v \in Users \ {u} : quota'[v] = quota[v]
    BY <1>3 DEF RowChanged
  <2>2. \A v \in Users : Part(quota'[v]) = Part(quota[v])
    BY <1>3, <2>1, Zenon
  <2>3. Ceiling'
    BY <1>3, <2>1, Zenon DEF BInv, Ceiling
  <2>4. Pending(p)'
    BY <1>3, Relies, Zenon
  <2> QED
    BY <1>0, <1>3, <2>2, <2>3, <2>4, PlainKeeps, Zenon DEF Plain
<1>4. CASE p \in Uploads /\ Charge(p)
  <2>1. /\ TInv' /\ Moved(p) /\ RowChanged(u)
        /\ \/ quota' = quota /\ req'[p] = Idle
           \/ /\ quota[u] \in QuotaRow /\ quota'[u] \in QuotaRow
              /\ quota'[u].quota = quota[u].quota
              /\ quota'[u].used <= quota'[u].quota
              /\ req'[p].op = "push"
    BY <1>0, <1>2, <1>4, ChargeStep, Zenon
  <2>2. req'[p].op \in {"idle", "push"}
    BY <2>1, IdleSound, Zenon
  <2>3. Part(quota'[u]) = Part(quota[u])
    BY <2>1, NoneAssumption, Zenon DEF Part
  <2>4. default_quota > 0 /\ quota'[u] # None => quota'[u].used <= quota'[u].quota
    BY <2>1, Zenon DEF BInv, Ceiling
  <2> QED
    BY <1>3, <2>1, <2>2, <2>3, <2>4, Zenon
<1>5. CASE Refund(p) \/ Credit(p)
  <2>1. /\ TInv' /\ Moved(p) /\ req'[p] = Idle /\ RowChanged(u)
        /\ quota[u] = None => quota'[u] = None
        /\ quota[u] # None =>
             /\ quota[u] \in QuotaRow /\ quota'[u] \in QuotaRow
             /\ quota'[u].quota = quota[u].quota
             /\ quota'[u].used <= quota[u].used
    BY <1>0, <1>2, <1>5, BackStep, Zenon
  <2>2. req'[p].op \in {"idle", "push"}
    BY <2>1, IdleSound, Zenon
  <2>3. Part(quota'[u]) = Part(quota[u])
    BY <2>1, NoneAssumption, Zenon DEF Part
  <2>4. default_quota > 0 /\ quota'[u] # None => quota'[u].used <= quota'[u].quota
    BY <2>1 DEF BInv, Ceiling, QuotaRow
  <2> QED
    BY <1>3, <2>1, <2>2, <2>3, <2>4, Zenon
<1> QED
  BY <1>4, <1>5, Zenon

(* Deletes, and requests that end, leave the rows alone. *)
LEMMA DeleteBacked ==
  ASSUME BInv, NEW d \in Deleters, UNCHANGED default_quota,
         \/ /\ UNCHANGED accounts
            /\ \/ \E f \in FileIds : PurgeRead(d, f)
               \/ \E u \in Users : \E S \in SUBSET StoredOf(u) : Sweep(d, u, S)
               \/ PurgeRow(d)
         \/ \E u \in Users : UserDeleted(d, u)
         \/ \E f \in FileIds : PurgeUserFile(d, f)
  PROVE  BInv'
<1>0. TInv /\ d \in Procs
  BY Zenon DEF BInv, Procs
<1>1. contributed' = contributed /\ quota' = quota /\ lock' = lock
  BY Zenon DEF PurgeRead, Sweep, PurgeRow, UserDeleted, PurgeUserFile
<1>2. Ceiling' /\ \A u \in Users : Part(quota'[u]) = Part(quota[u])
  BY <1>1, CeilingSame, Zenon
<1>3. TInv' /\ Moved(d) /\ req'[d].op \in {"purging", "credit", "purge user"}
  <2>1. ASSUME NEW f \in FileIds, PurgeRead(d, f), UNCHANGED accounts
        PROVE  TInv' /\ Moved(d) /\ req'[d].op = "purging"
    BY <1>0, <2>1, PurgeReadStep, Zenon
  <2>2. ASSUME NEW u \in Users, NEW S \in SUBSET StoredOf(u), Sweep(d, u, S), UNCHANGED accounts
        PROVE  TInv' /\ Moved(d) /\ req'[d].op = "credit"
    BY <1>0, <2>2, SweepStep, Zenon
  <2>3. ASSUME PurgeRow(d), UNCHANGED accounts
        PROVE  TInv' /\ Moved(d) /\ req'[d].op = "credit"
    <3>1. req[d].op = "purging" /\ Sound(req[d])
      BY <1>0, <2>3, Zenon DEF TInv, PurgeRow
    <3>2. PICK f \in FileIds : f = req[d].file
      BY <3>1, Zenon DEF Sound
    <3> QED
      BY <1>0, <2>3, <3>2, PurgeRowStep, Zenon
  <2>4. ASSUME NEW u \in Users, UserDeleted(d, u)
        PROVE  TInv' /\ Moved(d) /\ req'[d].op = "purge user"
    BY <1>0, <2>4, UserDeletedStep, Zenon
  <2>5. ASSUME NEW f \in FileIds, PurgeUserFile(d, f)
        PROVE  TInv' /\ Moved(d) /\ req'[d].op = "purge user"
    BY <1>0, <2>5, PurgeUserFileStep, Zenon
  <2> QED
    BY <2>1, <2>2, <2>3, <2>4, <2>5, Zenon
<1>4. Pending(d)'
  BY <1>3, Relies, Zenon
<1> QED
  BY <1>0, <1>1, <1>2, <1>3, <1>4, PlainKeeps, Zenon DEF Plain

LEMMA AbandonBacked ==
  ASSUME BInv, NEW p \in Procs, Abandon(p), UNCHANGED accounts, UNCHANGED default_quota
  PROVE  BInv'
<1>1. TInv' /\ Moved(p) /\ req'[p] = Idle /\ lock' = IF lock = p THEN None ELSE lock
  BY AbandonStep, Zenon DEF BInv
<1>2. contributed' = contributed /\ quota' = quota
  BY DEF Abandon
<1>3. Ceiling' /\ \A u \in Users : Part(quota'[u]) = Part(quota[u])
  BY <1>2, CeilingSame, Zenon
<1>4. Pending(p)'
  BY <1>1, IdleSound, Relies, Zenon
<1>5. \A q \in Uploads \ {p} : lock = q => lock' = q
  BY <1>1, Zenon
<1> QED
  BY <1>1, <1>2, <1>3, <1>4, <1>5, PlainKeeps, Zenon DEF Plain

(* A deleted account's capacity is given back. *)
LEMMA PurgeUserQuotaBacked ==
  ASSUME BInv, NEW d \in Deleters, PurgeUserQuota(d), UNCHANGED default_quota
  PROVE  BInv'
<1>0. TInv /\ d \in Procs /\ Sound(req[d]) /\ req[d].op = "purge user"
  BY Zenon DEF BInv, TInv, Procs, PurgeUserQuota
<1>1. contributed' = contributed /\ lock' = lock
  BY Zenon DEF PurgeUserQuota
<1>2. PICK u \in Users : u = req[d].user
  BY <1>0, Zenon DEF Sound
<1>3. TInv' /\ Moved(d) /\ req'[d] = Idle /\ RowChanged(u) /\ quota'[u] = None
  BY <1>0, <1>2, PurgeUserQuotaStep, Zenon
<1>4. \A v \in Users \ {u} : quota'[v] = quota[v]
  BY <1>3, Zenon DEF RowChanged
<1>5. quota \in QuotaRows /\ quota' \in QuotaRows
  BY <1>0, <1>3, Zenon DEF TInv, TypeOK, QuotaRows
<1>6. Shares(quota', Users) = Shares(quota, Users) - Part(quota[u]) + Part(quota'[u])
  BY <1>4, <1>5, SharesChange, Zenon
<1>7. Shares(quota, Users) \in Nat /\ \A v \in Users : Part(quota[v]) \in Nat
  BY <1>0, BackingTypes, Zenon
<1>8. Part(quota'[u]) = 0
  BY <1>3, Zenon DEF Part
<1>9. Shares(quota', Users) <= Shares(quota, Users)
  BY <1>6, <1>7, <1>8
<1>10. ASSUME NEW v \in Users
       PROVE  Shares(quota', Users) - Part(quota'[v]) <= Shares(quota, Users) - Part(quota[v])
  <2>1. CASE v = u
    BY <1>6, <1>7, <1>8, <2>1
  <2>2. CASE v # u
    <3>1. Part(quota'[v]) = Part(quota[v])
      BY <1>4, <2>2, Zenon
    <3> QED
      BY <1>6, <1>7, <1>8, <3>1
  <2> QED
    BY <2>1, <2>2, Zenon
<1>11. Ceiling'
  BY <1>3, <1>4, Zenon DEF BInv, Ceiling
<1>12. Pending(d)'
  BY <1>3, IdleSound, Relies, Zenon
<1> QED
  BY <1>0, <1>1, <1>3, <1>9, <1>10, <1>11, <1>12, BackedKeeps, Zenon

(* Administrators: what one read still stands when it writes, since it is alone. *)
LEMMA AdminBacked ==
  ASSUME BInv, NEW a \in Admins, UNCHANGED accounts, UNCHANGED default_quota,
         \/ \E u \in Users, q \in Quotas : SetQuotaBegin(a, u, q)
         \/ SetQuotaCheck(a)
         \/ \E b \in Contributions : SetContributionCheck(a, b)
  PROVE  BInv'
<1>0. TInv /\ a \in Procs /\ Sound(req[a]) /\ Pending(a)
  BY Zenon DEF BInv, TInv, Procs
<1>1. contributed' = contributed /\ quota' = quota /\ lock' = lock
  BY Zenon DEF SetQuotaBegin, SetQuotaCheck, SetContributionCheck
<1>2. Ceiling' /\ \A u \in Users : Part(quota'[u]) = Part(quota[u])
  BY <1>1, CeilingSame, Zenon
<1>3. ASSUME TInv', Moved(a), Pending(a)' PROVE BInv'
  BY <1>0, <1>1, <1>2, <1>3, PlainKeeps, Zenon DEF Plain
<1>4. ASSUME NEW u \in Users, NEW q \in Quotas, SetQuotaBegin(a, u, q) PROVE BInv'
  <2>1. TInv' /\ Moved(a) /\ req'[a].op = "quota" /\ req'[a].seen = contributed
    BY <1>0, <1>4, SetQuotaBeginStep, Zenon
  <2>2. Pending(a)'
    BY <1>1, <2>1, Zenon DEF Pending
  <2> QED
    BY <1>3, <2>1, <2>2, Zenon
<1>5. CASE SetQuotaCheck(a)
  <2>1. req[a].op = "quota" /\ req[a].seen = contributed
    BY <1>0, <1>5, Zenon DEF SetQuotaCheck, Pending
  <2>2. PICK u \in Users : u = req[a].user
    BY <1>0, <2>1, Zenon DEF Sound
  <2>3. /\ TInv' /\ Moved(a)
        /\ \/ req'[a] = Idle
           \/ /\ Others(u) + req[a].amount <= contributed
              /\ req'[a].op = "set quota" /\ req'[a].user = u
              /\ req'[a].amount = req[a].amount
    BY <1>0, <1>5, <2>1, <2>2, SetQuotaCheckStep, Zenon
  <2>4. Others(u) = Shares(quota, Users) - Part(quota[u])
    BY <1>0, OthersIs, Zenon
  <2>5. CASE req'[a] = Idle
    BY <1>3, <2>3, <2>5, IdleSound, Relies, Zenon
  <2>6. CASE /\ Others(u) + req[a].amount <= contributed
             /\ req'[a].op = "set quota" /\ req'[a].user = u
             /\ req'[a].amount = req[a].amount
    <3>1. Shares(quota', Users) - Part(quota'[req'[a].user]) + req'[a].amount <= contributed'
      BY <1>1, <2>4, <2>6, Zenon
    <3>2. Pending(a)'
      BY <2>6, <3>1, Zenon DEF Pending
    <3> QED
      BY <1>3, <2>3, <3>2, Zenon
  <2> QED
    BY <2>3, <2>5, <2>6, Zenon
<1>6. ASSUME NEW b \in Contributions, SetContributionCheck(a, b) PROVE BInv'
  <2>1. /\ TInv' /\ Moved(a) /\ req'[a].op = "set contribution" /\ req'[a].amount = b
        /\ b >= Allocated(Users)
    BY <1>0, <1>6, SetContributionCheckStep, Zenon
  <2>2. Allocated(Users) = Shares(quota, Users) /\ Shares(quota, Users) \in Nat /\ b \in Nat
    BY <1>0, BackingTypes, QuotaAssumption, Zenon
  <2>3. Shares(quota', Users) <= req'[a].amount
    BY <1>1, <2>1, <2>2, Zenon
  <2>4. Pending(a)'
    BY <2>1, <2>3, Zenon DEF Pending
  <2> QED
    BY <1>3, <2>1, <2>4, Zenon
<1> QED
  BY <1>4, <1>5, <1>6, Zenon

LEMMA AdminWriteBacked ==
  ASSUME BInv, Apart, NEW a \in Admins, UNCHANGED accounts, UNCHANGED default_quota,
         SetQuotaWrite(a) \/ SetContributionWrite(a)
  PROVE  BInv'
<1>0. TInv /\ a \in Procs /\ Sound(req[a]) /\ Pending(a)
  BY Zenon DEF BInv, TInv, Procs
<1>1. a \in Administering
  BY <1>0, Zenon DEF SetQuotaWrite, SetContributionWrite, Administering
<1>2. default_quota = 0
  BY <1>0, <1>1, BackingTypes DEF Apart
<1>3. \A q \in Procs \ {a} :
         req[q].op \notin {"grant", "insert", "quota", "set quota", "set contribution"}
  <2>1. ASSUME NEW q \in Procs PROVE req[q].op \notin {"grant", "insert"}
    <3>1. req[q].op \in {"grant", "insert"} => default_quota > 0
      BY Zenon DEF BInv, Pending
    <3> QED
      BY <1>2, <3>1
  <2> QED
    BY <1>1, <2>1, Zenon DEF Apart, Administering
<1>4. ASSUME TInv', Moved(a), req'[a] = Idle, Shares(quota', Users) <= contributed'
      PROVE  BInv'
  <2>1. \A q \in Procs :
           req'[q].op \notin {"grant", "insert", "quota", "set quota", "set contribution"}
    BY <1>3, <1>4, IdleSound, Zenon DEF Moved
  <2>2. \A q \in Procs : Pending(q)'
    BY <2>1, Relies, Zenon
  <2>3. Ceiling'
    BY <1>2 DEF Ceiling
  <2> QED
    BY <1>4, <2>2, <2>3, Zenon DEF BInv
<1>5. CASE SetQuotaWrite(a)
  <2>1. req[a].op = "set quota" /\ contributed' = contributed
    BY <1>5, Zenon DEF SetQuotaWrite
  <2>2. PICK u \in Users : u = req[a].user
    BY <1>0, <2>1, Zenon DEF Sound
  <2>3. /\ TInv' /\ Moved(a) /\ req'[a] = Idle /\ RowChanged(u)
        /\ quota'[u] \in QuotaRow /\ quota'[u].quota = req[a].amount
    BY <1>0, <1>5, <2>2, SetQuotaWriteStep, Zenon
  <2>4. \A v \in Users \ {u} : quota'[v] = quota[v]
    BY <2>3, Zenon DEF RowChanged
  <2>5. quota \in QuotaRows /\ quota' \in QuotaRows
    BY <1>0, <2>3, Zenon DEF TInv, TypeOK, QuotaRows
  <2>6. Shares(quota', Users) = Shares(quota, Users) - Part(quota[u]) + Part(quota'[u])
    BY <2>4, <2>5, SharesChange, Zenon
  <2>7. Part(quota'[u]) = req[a].amount
    BY <2>3, NoneAssumption, Zenon DEF Part
  <2>8. Shares(quota, Users) - Part(quota[u]) + req[a].amount <= contributed
    BY <1>0, <2>1, <2>2, Zenon DEF Pending
  <2> QED
    BY <1>4, <2>1, <2>3, <2>6, <2>7, <2>8, Zenon
<1>6. CASE SetContributionWrite(a)
  <2>1. TInv' /\ Moved(a) /\ req'[a] = Idle /\ contributed' = req[a].amount
    BY <1>0, <1>6, SetContributionWriteStep, Zenon
  <2>2. req[a].op = "set contribution" /\ quota' = quota
    BY <1>6, Zenon DEF SetContributionWrite
  <2>3. Shares(quota, Users) <= req[a].amount
    BY <1>0, <2>2, Zenon DEF Pending
  <2> QED
    BY <1>4, <2>1, <2>2, <2>3, Zenon
<1> QED
  BY <1>5, <1>6, Zenon

(* Every step keeps it while administrators keep apart. *)
LEMMA BackingStep ==
  ASSUME BInv, Apart, [Next]_vars
  PROVE  BInv'
<1>1. CASE UNCHANGED vars
  BY <1>1, Zenon DEF vars, BInv, TInv, TypeOK, Ceiling, Pending
<1>2. ASSUME UNCHANGED default_quota, Serve, UNCHANGED accounts
      PROVE  BInv'
  <2>1. ASSUME NEW r \in Uploads,
               \/ \E u \in Users, n \in Sizes : UploadBegin(r, u, n)
               \/ GrantDecide(r) \/ GrantInsert(r) \/ Charge(r)
               \/ PushStores(r) \/ PushStoresNothing(r) \/ Refund(r)
        PROVE  BInv'
    BY <1>2, <2>1, UploadBacked, GrantInsertBacked, ChargeBacked, Zenon DEF Procs
  <2>2. ASSUME NEW d \in Deleters,
               \/ \E f \in FileIds : PurgeRead(d, f)
               \/ \E u \in Users : \E S \in SUBSET StoredOf(u) : Sweep(d, u, S)
               \/ PurgeRow(d) \/ Credit(d)
        PROVE  BInv'
    BY <1>2, <2>2, DeleteBacked, ChargeBacked, Zenon DEF Procs
  <2>3. ASSUME NEW a \in Admins,
               \/ \E u \in Users, q \in Quotas : SetQuotaBegin(a, u, q)
               \/ SetQuotaCheck(a) \/ SetQuotaWrite(a)
               \/ \E b \in Contributions : SetContributionCheck(a, b)
               \/ SetContributionWrite(a)
        PROVE  BInv'
    BY <1>2, <2>3, AdminBacked, AdminWriteBacked, Zenon
  <2>4. ASSUME NEW p \in Procs, Abandon(p) PROVE BInv'
    BY <1>2, <2>4, AbandonBacked, Zenon
  <2> QED
    BY <1>2, <2>1, <2>2, <2>3, <2>4, Zenon DEF Serve
<1>3. ASSUME UNCHANGED default_quota, NEW d \in Deleters,
             \/ \E u \in Users : UserDeleted(d, u)
             \/ \E f \in FileIds : PurgeUserFile(d, f)
             \/ PurgeUserQuota(d)
      PROVE  BInv'
  BY <1>3, DeleteBacked, PurgeUserQuotaBacked, Zenon
<1> QED
  BY <1>1, <1>2, <1>3, Zenon DEF Next

(* It holds when the server starts: no row, no request. *)
LEMMA BackingInit ==
  ASSUME Init
  PROVE  BInv
<1>1. TInv
  BY DeletedInit, Zenon DEF DInv
<1>2. Ceiling
  BY DEF Init, Ceiling
<1>3. \A p \in Procs : Pending(p)
  BY IdleSound, Zenon DEF Init, Pending
<1>4. PICK f : f = [u \in Users |-> Part(quota[u])]
  BY Zenon
<1>5. \A u \in Users : f[u] = 0
  BY <1>4 DEF Init, Part
<1>6. Shares(quota, Users) = 0
  BY <1>4, <1>5, Finite, ZeroSum DEF Shares
<1>7. contributed \in Nat
  BY <1>1, BackingTypes, Zenon
<1> QED
  BY <1>1, <1>2, <1>3, <1>6, <1>7 DEF BInv

(* For any number of users and requests: the quotas granted by concurrent first *)
(* uploads (ensure, quotas.rs) and by set_quota never add up to more than the   *)
(* contribution, as long as administrators act one at a time and only on a node *)
(* that grants no default quota.                                                *)
THEOREM GrantsBacked == Spec /\ []Apart => []QuotasBacked
<1>1. BInv => QuotasBacked
  BY BackingTypes DEF BInv, QuotasBacked
<1>2. Init => BInv
  BY BackingInit, Zenon
<1>3. BInv /\ Apart /\ [Next]_vars => BInv'
  BY BackingStep, Zenon
<1> QED
  BY <1>1, <1>2, <1>3, PTL DEF Spec

(* The two invariants together: what is stored was charged, and what is charged fits. *)
LEMMA WithinImplies ==
  ASSUME UInv, BInv
  PROVE  WithinQuota
<1> SUFFICES ASSUME default_quota > 0, NEW u \in Users, account[u] = "open",
                    Bytes(StoredOf(u)) > 0
             PROVE  Bytes(StoredOf(u)) <= quota[u].quota
  BY DEF WithinQuota, Accounts
<1>1. UsageCovers
  BY UsageImplies, Zenon
<1>2. quota[u] # None /\ Bytes(StoredOf(u)) + InFlight(u) <= quota[u].used
  BY <1>1, Zenon DEF UsageCovers, Accounts, Granted
<1>3. quota[u].used <= quota[u].quota
  BY <1>2, Zenon DEF BInv, Ceiling
<1>4. Bytes(StoredOf(u)) \in Nat /\ InFlight(u) \in Nat
  BY UsageSums, Zenon DEF UInv, DInv
<1>5. quota[u].used \in Nat /\ quota[u].quota \in Nat
  BY <1>2 DEF BInv, TInv, TypeOK, QuotaRow
<1> QED
  BY <1>2, <1>3, <1>4, <1>5

(* For any number of users, files and requests: on a node that grants a default  *)
(* quota, what is stored for an account stays within its quota however uploads,  *)
(* refunds, deletes and failures interleave (charge, quotas.rs), as long as      *)
(* administrators leave quotas alone there and no file goes between purge_file's *)
(* read and its delete.                                                          *)
THEOREM QuotaNotExceeded == Spec /\ [](Apart /\ Undisturbed) => []WithinQuota
<1>1. UInv /\ BInv => WithinQuota
  BY WithinImplies
<1>2. Init => UInv /\ BInv
  BY UsageInit, BackingInit, Zenon
<1>3. (UInv /\ BInv) /\ (Apart /\ Undisturbed) /\ [Next]_vars => (UInv /\ BInv)'
  BY UsageStep, BackingStep
<1> QED
  BY <1>1, <1>2, <1>3, PTL DEF Spec
=============================================================================
