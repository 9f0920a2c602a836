-------------------------------- MODULE Quota -------------------------------
(***************************************************************************)
(* Per-user quotas (server/src/quotas.rs, the upload and purge handlers of *)
(* handlers/files.rs, set_quota and set_contribution of handlers/admin.rs, *)
(* and the purge of a deleted account, events/mod.rs).                     *)
(*                                                                         *)
(* The control plane has three engines; the weakest one (read committed,   *)
(* row locks) is modelled: each statement is one step, and a transaction   *)
(* holds the lock on the node_local row that it took with FOR UPDATE.      *)
(***************************************************************************)
EXTENDS Integers, FiniteSets, Functions

CONSTANTS
    Users,
    Uploads,        \* upload requests in flight
    Deleters,       \* purge requests, retention sweeps and events in flight
    Admins,         \* administrator requests in flight
    Sizes,          \* sizes of uploaded files
    MaxFiles,       \* bound: files ever stored
    Contributions,  \* values of contributed_bytes
    Quotas,         \* values an administrator sets
    MaxDeleted,     \* bound: accounts deleted
    DefaultQuotas,  \* values of default_quota_bytes; 0 when none is configured
    None

ASSUME QuotaAssumption ==
    /\ MaxFiles \in Nat /\ MaxDeleted \in Nat /\ DefaultQuotas \subseteq Nat
    /\ Sizes \subseteq Nat /\ Contributions \subseteq Nat /\ Quotas \subseteq Nat
    /\ IsFiniteSet(Users) /\ IsFiniteSet(Uploads \cup Deleters \cup Admins)
    /\ None \notin Nat /\ None \notin Users /\ None \notin Uploads

FileIds == 1 .. MaxFiles
Procs == Uploads \cup Deleters \cup Admins

VARIABLES
    default_quota,  \* the instance's default_quota_bytes
    contributed,  \* node_local.contributed_bytes
    quota,        \* user_quota: Users -> row or None
    lock,         \* the transaction that locked the node_local row, or None
    files,        \* stored versions, retired ones included: FileIds -> row or None
    minted,       \* file ids minted
    req,          \* what each request is doing
    account,      \* Users -> "open", "deleted", or "purged" by purge_user
    late,         \* history: users deleted while a request of theirs was running
    skipped       \* history: files purge_user failed to purge

vars == <<default_quota, contributed, quota, lock, files, minted, req, account, late, skipped>>
accounts == <<account, late, skipped>>

QuotaRow == [quota: Nat, used: Nat]
FileRow == [user: Users, size: Nat]

ASSUME NoneAssumption == None \notin QuotaRow /\ None \notin FileRow

Ops == {"idle", "grant", "insert", "charge", "push", "refund",
        "purging", "credit", "quota", "set quota", "set contribution", "purge user"}

(* amount: bytes of the upload or credit, or the value being set;           *)
(* seen: what an earlier statement of the request read or decided;          *)
(* todo: the files purge_user has listed and not yet come to.               *)
Request == [op: Ops, user: Users \cup {None}, amount: Nat, seen: Nat,
            file: FileIds \cup {None}, todo: SUBSET FileIds]
Idle == [op |-> "idle", user |-> None, amount |-> 0, seen |-> 0, file |-> None, todo |-> {}]

PlusZero(x) == IF x < 0 THEN 0 ELSE x     \* GREATEST(x, 0)
Least(x, y) == IF x < y THEN x ELSE y
Granted == {u \in Users : quota[u] # None}
Allocated(U) == SumFunction([u \in U \cap Granted |-> quota[u].quota])
StoredOf(u) == {f \in FileIds : files[f] # None /\ files[f].user = u}
Bytes(S) == SumFunction([f \in S |-> files[f].size])

Accounts == {u \in Users : account[u] = "open"}

Init ==
    /\ default_quota \in DefaultQuotas
    /\ contributed \in Contributions
    /\ quota = [u \in Users |-> None]
    /\ lock = None
    /\ files = [f \in FileIds |-> None]
    /\ minted = 0
    /\ req = [p \in Procs |-> Idle]
    /\ account = [u \in Users |-> "open"]
    /\ late = {} /\ skipped = {}

-----------------------------------------------------------------------------
(* Uploads *)

(* ensure, first statement: an account with a row is charged against it. *)
UploadBegin(r, u, n) ==
    /\ req[r].op = "idle" /\ account[u] = "open"
    /\ req' = [req EXCEPT ![r] =
                  [Idle EXCEPT !.op = IF quota[u] = None /\ default_quota > 0
                                      THEN "grant" ELSE "charge",
                               !.user = u, !.amount = n]]
    /\ UNCHANGED <<contributed, quota, lock, files, minted>>

Grant == Least(default_quota, PlusZero(contributed - Allocated(Users)))

(* Faulty variant: the row lock is not taken. *)
GrantDecide_unlocked(r) ==
    /\ req[r].op = "grant"
    /\ req' = [req EXCEPT ![r].op = IF quota[req[r].user] # None \/ Grant = 0
                                    THEN "charge" ELSE "insert",
                          ![r].seen = IF quota[req[r].user] # None THEN 0 ELSE Grant]
    /\ UNCHANGED <<contributed, quota, lock, files, minted>>

(* The transaction: lock node_local, read the row again, decide the grant. *)
GrantDecide(r) ==
    LET settled == quota[req[r].user] # None \/ Grant = 0
    IN  /\ req[r].op = "grant"
        /\ lock = None
        /\ lock' = IF settled THEN None ELSE r
        /\ req' = [req EXCEPT ![r].op = IF settled THEN "charge" ELSE "insert",
                              ![r].seen = IF settled THEN 0 ELSE Grant]
        /\ UNCHANGED <<contributed, quota, files, minted>>

(* INSERT ... ON CONFLICT DO NOTHING, commit. *)
GrantInsert(r) ==
    LET u == req[r].user
    IN  /\ req[r].op = "insert"
        /\ quota' = IF quota[u] = None
                    THEN [quota EXCEPT ![u] = [quota |-> req[r].seen, used |-> 0]]
                    ELSE quota
        /\ lock' = IF lock = r THEN None ELSE lock
        /\ req' = [req EXCEPT ![r].op = "charge", ![r].seen = 0]
        /\ UNCHANGED <<contributed, files, minted>>

(* Faulty variant: the ceiling is compared with the usage before the upload. *)
Fits_before(row, n) == row.used < row.quota

Fits(row, n) == row.used + n <= row.quota

(* Check and charge in one statement; a refused upload ends here. *)
Charge(r) ==
    LET u == req[r].user
        n == req[r].amount
        charged == u \in Granted /\ Fits(quota[u], n)
    IN  /\ req[r].op = "charge"
        /\ quota' = IF charged THEN [quota EXCEPT ![u].used = @ + n] ELSE quota
        /\ req' = [req EXCEPT ![r] = IF charged THEN [@ EXCEPT !.op = "push"] ELSE Idle]
        /\ UNCHANGED <<contributed, lock, files, minted>>

(* push stores a new version. *)
PushStores(r) ==
    LET f == minted + 1
    IN  /\ req[r].op = "push"
        /\ f \in FileIds
        /\ minted' = f
        /\ files' = [files EXCEPT ![f] = [user |-> req[r].user, size |-> req[r].amount]]
        /\ req' = [req EXCEPT ![r] = Idle]
        /\ UNCHANGED <<contributed, quota, lock>>

(* push fails, or finds the same bytes already there. *)
PushStoresNothing(r) ==
    /\ req[r].op = "push"
    /\ req' = [req EXCEPT ![r].op = "refund"]
    /\ UNCHANGED <<contributed, quota, lock, files, minted>>

Less(u, n) == IF u \in Granted THEN [quota EXCEPT ![u].used = PlusZero(@ - n)] ELSE quota

(* adjust_user_used *)
Refund(r) ==
    /\ req[r].op = "refund"
    /\ quota' = Less(req[r].user, req[r].amount)
    /\ req' = [req EXCEPT ![r] = Idle]
    /\ UNCHANGED <<contributed, lock, files, minted>>

-----------------------------------------------------------------------------
(* Permanent deletes *)

(* purge_file reads the row ... *)
PurgeRead(d, f) ==
    /\ req[d].op = "idle"
    /\ files[f] # None
    /\ req' = [req EXCEPT ![d] = [Idle EXCEPT !.op = "purging", !.file = f,
                                     !.user = files[f].user, !.amount = files[f].size]]
    /\ UNCHANGED <<contributed, quota, lock, files, minted>>

(* ... deletes it, whether or not it is still there ... *)
PurgeRow(d) ==
    /\ req[d].op = "purging"
    /\ files' = [files EXCEPT ![req[d].file] = None]
    /\ req' = [req EXCEPT ![d].op = "credit", ![d].file = None]
    /\ UNCHANGED <<contributed, quota, lock, minted>>

(* empty_trash and purge_retired read and delete in one transaction. *)
Sweep(d, u, S) ==
    /\ req[d].op = "idle"
    /\ S # {}
    /\ files' = [f \in FileIds |-> IF f \in S THEN None ELSE files[f]]
    /\ req' = [req EXCEPT ![d] = [Idle EXCEPT !.op = "credit", !.user = u, !.amount = Bytes(S)]]
    /\ UNCHANGED <<contributed, quota, lock, minted>>

(* Faulty variant: the freed bytes are credited twice. *)
Credit_twice(d) ==
    /\ req[d].op = "credit"
    /\ quota' = Less(req[d].user, 2 * req[d].amount)
    /\ req' = [req EXCEPT ![d] = Idle]
    /\ UNCHANGED <<contributed, lock, files, minted>>

(* ... and credits the account (credit_freed_space). *)
Credit(d) ==
    /\ req[d].op = "credit"
    /\ quota' = Less(req[d].user, req[d].amount)
    /\ req' = [req EXCEPT ![d] = Idle]
    /\ UNCHANGED <<contributed, lock, files, minted>>

-----------------------------------------------------------------------------
(* A deleted account: purge_user *)

(* The UserDeleted event arrives; every version of the account is listed. *)
UserDeleted(d, u) ==
    /\ req[d].op = "idle" /\ account[u] = "open"
    /\ Cardinality(Users \ Accounts) < MaxDeleted
    /\ account' = [account EXCEPT ![u] = "deleted"]
    /\ late' = IF \E p \in Procs : req[p].user = u THEN late \cup {u} ELSE late
    /\ req' = [req EXCEPT ![d] = [Idle EXCEPT !.op = "purge user", !.user = u,
                                     !.todo = StoredOf(u)]]
    /\ UNCHANGED <<contributed, quota, lock, files, minted, skipped>>

(* purge_file of the next one; one that fails is logged and left. *)
PurgeUserFile(d, f) ==
    /\ req[d].op = "purge user"
    /\ f \in req[d].todo
    /\ req' = [req EXCEPT ![d].todo = @ \ {f}]
    /\ \/ files' = [files EXCEPT ![f] = None] /\ UNCHANGED skipped
       \/ skipped' = skipped \cup {f} /\ UNCHANGED files
    /\ UNCHANGED <<contributed, quota, lock, minted, account, late>>

(* Faulty variant: the row stays when a file could not be purged. *)
ReleaseQuota_all(u) == IF StoredOf(u) = {} THEN [quota EXCEPT ![u] = None] ELSE quota

(* DELETE FROM user_quota *)
ReleaseQuota(u) == [quota EXCEPT ![u] = None]

PurgeUserQuota(d) ==
    /\ req[d].op = "purge user"
    /\ req[d].todo = {}
    /\ quota' = ReleaseQuota(req[d].user)
    /\ account' = [account EXCEPT ![req[d].user] = "purged"]
    /\ req' = [req EXCEPT ![d] = Idle]
    /\ UNCHANGED <<contributed, lock, files, minted, late, skipped>>

-----------------------------------------------------------------------------
(* Administration *)

(* set_quota: read the contribution, then the other quotas, then write. *)
SetQuotaBegin(a, u, q) ==
    /\ req[a].op = "idle" /\ account[u] = "open"
    /\ req' = [req EXCEPT ![a] = [Idle EXCEPT !.op = "quota", !.user = u,
                                     !.amount = q, !.seen = contributed]]
    /\ UNCHANGED <<contributed, quota, lock, files, minted>>

(* Faulty variant: the quotas of the other users are not added. *)
Others_none(u) == 0

Others(u) == Allocated(Users \ {u})

SetQuotaCheck(a) ==
    LET fits == Others(req[a].user) + req[a].amount <= req[a].seen
    IN  /\ req[a].op = "quota"
        /\ req' = [req EXCEPT ![a] = IF fits THEN [@ EXCEPT !.op = "set quota"] ELSE Idle]
        /\ UNCHANGED <<contributed, quota, lock, files, minted>>

SetQuotaWrite(a) ==
    LET u == req[a].user
        used == IF quota[u] = None THEN 0 ELSE quota[u].used
    IN  /\ req[a].op = "set quota"
        /\ quota' = [quota EXCEPT ![u] = [quota |-> req[a].amount, used |-> used]]
        /\ req' = [req EXCEPT ![a] = Idle]
        /\ UNCHANGED <<contributed, lock, files, minted>>

(* set_contribution.  Its other test, against the node's used_bytes, can only *)
(* refuse more.                                                               *)
SetContributionCheck(a, b) ==
    /\ req[a].op = "idle"
    /\ b >= Allocated(Users)
    /\ req' = [req EXCEPT ![a] = [Idle EXCEPT !.op = "set contribution", !.amount = b]]
    /\ UNCHANGED <<contributed, quota, lock, files, minted>>

SetContributionWrite(a) ==
    /\ req[a].op = "set contribution"
    /\ lock = None
    /\ contributed' = req[a].amount
    /\ req' = [req EXCEPT ![a] = Idle]
    /\ UNCHANGED <<quota, lock, files, minted>>

-----------------------------------------------------------------------------
(* A statement fails, the client hangs up or the server dies: what the request *)
(* had not yet written is never written (a failed credit is only logged).     *)
Abandon(p) ==
    /\ req[p] # Idle
    /\ req' = [req EXCEPT ![p] = Idle]
    /\ lock' = IF lock = p THEN None ELSE lock
    /\ UNCHANGED <<contributed, quota, files, minted>>

(* Every step but those of purge_user. *)
Serve ==
    \/ \E r \in Uploads :
          \/ \E u \in Users, n \in Sizes : UploadBegin(r, u, n)
          \/ GrantDecide(r) \/ GrantInsert(r) \/ Charge(r)
          \/ PushStores(r) \/ PushStoresNothing(r) \/ Refund(r)
    \/ \E d \in Deleters :
          \/ \E f \in FileIds : PurgeRead(d, f)
          \/ \E u \in Users : \E S \in SUBSET StoredOf(u) : Sweep(d, u, S)
          \/ PurgeRow(d) \/ Credit(d)
    \/ \E a \in Admins :
          \/ \E u \in Users, q \in Quotas : SetQuotaBegin(a, u, q)
          \/ SetQuotaCheck(a) \/ SetQuotaWrite(a)
          \/ \E b \in Contributions : SetContributionCheck(a, b)
          \/ SetContributionWrite(a)
    \/ \E p \in Procs : Abandon(p)

Next ==
    /\ UNCHANGED default_quota
    /\ \/ Serve /\ UNCHANGED accounts
       \/ \E d \in Deleters :
             \/ \E u \in Users : UserDeleted(d, u)
             \/ \E f \in FileIds : PurgeUserFile(d, f)
             \/ PurgeUserQuota(d)

Spec == Init /\ [][Next]_vars

-----------------------------------------------------------------------------
(* Properties *)

(* Every cell holds a value of its column. *)
TypeOK ==
    /\ default_quota \in DefaultQuotas
    /\ contributed \in Contributions
    /\ quota \in [Users -> QuotaRow \cup {None}]
    /\ lock \in Uploads \cup {None}
    /\ files \in [FileIds -> FileRow \cup {None}]
    /\ minted \in 0 .. MaxFiles
    /\ req \in [Procs -> Request]
    /\ account \in [Users -> {"open", "deleted", "purged"}]
    /\ late \subseteq Users /\ skipped \subseteq FileIds

(* set_quota and set_contribution take no lock and exclude neither each other  *)
(* nor ensure.  Apart: administrators act one at a time, and only on a node    *)
(* that grants no default quota.                                               *)
Administering ==
    {p \in Procs : req[p].op \in {"quota", "set quota", "set contribution"}}
Apart ==
    /\ default_quota > 0 => Administering = {}
    /\ \A p, q \in Administering : p = q

(* purge_file credits what it read, whether or not its DELETE finds the row.   *)
(* Undisturbed: no file goes between purge_file's read and its delete.         *)
Undisturbed ==
    \A d \in Procs : req[d].op = "purging" => files[req[d].file] # None

(* Bytes a request has charged and not stored, or deleted and not credited. *)
InFlight(u) ==
    SumFunction([p \in {q \in Procs : req[q].user = u /\ req[q].op \in {"push", "refund", "credit"}}
                    |-> req[p].amount])

(* An account is never charged less than what is stored for it: failed and   *)
(* unchanged uploads, deletes, sweeps and failures may leave it charged for   *)
(* too much, never for too little.                                           *)
UsageCovers ==
    \A u \in Accounts : Bytes(StoredOf(u)) > 0 =>
        /\ u \in Granted
        /\ Bytes(StoredOf(u)) + InFlight(u) <= quota[u].used

(* "quotas that concurrent uploads cannot exceed" (README): on a node that    *)
(* grants a default quota and whose administrators leave it alone, what is    *)
(* stored for a user never exceeds it, however uploads, refunds and deletes   *)
(* interleave.                                                                *)
WithinQuota ==
    default_quota > 0 =>
        \A u \in Accounts : Bytes(StoredOf(u)) > 0 => Bytes(StoredOf(u)) <= quota[u].quota

(* Every grant is backed: the quotas add up to no more than the contribution. *)
(* ensure keeps this among concurrent first uploads; set_quota and            *)
(* set_contribution, one at a time, keep it where no default is granted.      *)
QuotasBacked == Allocated(Users) <= contributed

(* "one unreadable file must not leave the quota row behind" (events/mod.rs):  *)
(* once purge_user is through with an account that had no request running when *)
(* it was deleted, its capacity is given back for good and nothing is stored   *)
(* for it but the files that could not be purged.                              *)
DeletedReleased ==
    \A u \in Users \ late :
        account[u] = "purged" => quota[u] = None /\ StoredOf(u) \subseteq skipped
=============================================================================
