------------------------------ MODULE Versions ------------------------------
(***************************************************************************)
(* The life cycle of a user's files in the manifest                        *)
(* (server/crates/store/src/{service,manifest}.rs): uploads, the trash,    *)
(* version histories, restore, rename, and the retention sweep.            *)
(*                                                                         *)
(* One user is modelled: every statement of the code is scoped by user_id, *)
(* and the node-wide sweep partitions its rules by user.  A manifest       *)
(* transaction is one step (SQLite transactions are serializable; a busy   *)
(* one rolls back, which is no step at all).  `trash`, which reads and     *)
(* writes in two autocommitted statements, is two steps.                   *)
(***************************************************************************)
EXTENDS Integers, Sequences, FiniteSets

CONSTANTS
    Paths,         \* non-empty sequences of names: the paths that are used
    CaseVariants,  \* pairs of different names SQL's LIKE does not tell apart
    PathOrder,     \* pairs of paths <<p, q>> where ORDER BY path puts p before q
    MaxFiles,      \* bound: how many uploads the model performs
    MaxTime,       \* bound: the last day of the clock
    TrashDays,     \* RetentionPolicy::trash_days
    VersionDays,   \* RetentionPolicy::version_days
    KeepVersions,  \* RetentionPolicy::keep_versions
    Clients,       \* requests that may be inside `trash` at the same time
    None           \* SQL NULL, and "no such row"

FileIds == 1 .. MaxFiles
Time == 0 .. MaxTime

(* The tombstone a retired row parks its path on. *)
retired_key(f) == <<"retired", f>>
Tombstones == {retired_key(f) : f \in FileIds}

ASSUME BoundsAssumption ==
    /\ MaxFiles \in Nat
    /\ MaxTime \in Nat
    /\ TrashDays \in Nat
    /\ VersionDays \in Nat
    /\ KeepVersions \in Nat
ASSUME PathsAssumption ==
    /\ Paths \cap Tombstones = {}
    /\ None \notin Paths
    /\ None \notin Tombstones
    /\ None \notin Nat
ASSUME PathShape ==
    /\ \A p \in Paths : p \in Seq({p[i] : i \in DOMAIN p}) /\ Len(p) > 0
    /\ \A p \in Paths : \A n \in 1 .. Len(p) - 1 : SubSeq(p, 1, n) \in Paths

VARIABLES
    files,     \* the `files` table: FileIds -> row or None
    folders,   \* the explicit rows of the `folders` table
    minted,    \* how many file ids were minted; ids follow created_at
    trashing,  \* per client, the row a `trash` call has read and not stamped
    now        \* the day

vars == <<files, folders, minted, trashing, now>>

(* `path` is the column; a retired row holds a tombstone there and the path *)
(* the user knows in `retired_path`.                                        *)
Row == [path         : Paths \cup Tombstones,
        retired_path : Paths \cup Tombstones \cup {None},
        deleted_at   : Time \cup {None},
        superseded_at: Time \cup {None},
        lineage      : FileIds]

ASSUME RowAssumption == None \notin Row

Rows == {f \in FileIds : files[f] # None}
is_live(r) == r.deleted_at = None /\ r.superseded_at = None
LiveRows == {f \in Rows : is_live(files[f])}
Trashed == {f \in Rows : files[f].deleted_at # None}
Superseded == {f \in Rows : files[f].superseded_at # None}

(* COALESCE(retired_path, path): the path every read of a row reports. *)
VisiblePath(r) == IF r.retired_path # None THEN r.retired_path ELSE r.path

-----------------------------------------------------------------------------
(* Paths *)

dirname(p) == SubSeq(p, 1, Len(p) - 1)

(* A path and every ancestor of it: what insert_folder makes sure exists. *)
WithAncestors(p) == {SubSeq(p, 1, n) : n \in 1 .. Len(p)}

LikeName(a, b) == a = b \/ <<a, b>> \in CaseVariants

(* `path = p OR path LIKE 'p/%'` *)
AtOrUnder(p, q) ==
    \/ q = p
    \/ /\ Len(q) > Len(p)
       /\ \A i \in 1 .. Len(p) : LikeName(p[i], q[i])

Rebase(from, to, p) == to \o SubSeq(p, Len(from) + 1, Len(p))

get_file_by_path(p) ==
    IF \E f \in LiveRows : files[f].path = p
    THEN CHOOSE f \in LiveRows : files[f].path = p
    ELSE None

files_under(p) == {f \in LiveRows : AtOrUnder(p, files[f].path)}
folders_under(p) == {q \in folders : AtOrUnder(p, q)}

-----------------------------------------------------------------------------
(* Row updates *)

(* retire_row: stamp a column that is NULL, park the path. *)
retire_row(f, r, column) ==
    IF r[column] # None THEN r
    ELSE [[r EXCEPT ![column] = now]
            EXCEPT !.retired_path = VisiblePath(r), !.path = retired_key(f)]

trash_file(f, r) == retire_row(f, r, "deleted_at")
supersede_file(f, r) == retire_row(f, r, "superseded_at")

(* Faulty variant: only the trash stamp is cleared. *)
restore_file_one_stamp(r, p) ==
    [r EXCEPT !.path = p, !.retired_path = None, !.deleted_at = None]

restore_file(r, p) ==
    [r EXCEPT !.path = p, !.retired_path = None,
              !.deleted_at = None, !.superseded_at = None]

(* Faulty variant: a first version whose lineage stays NULL. *)
NewRow_null_lineage(f, p, lineage) ==
    [path |-> p, retired_path |-> None, deleted_at |-> None,
     superseded_at |-> None, lineage |-> IF lineage = f THEN None ELSE lineage]

NewRow(f, p, lineage) ==
    [path |-> p, retired_path |-> None, deleted_at |-> None,
     superseded_at |-> None, lineage |-> lineage]

Init ==
    /\ files = [f \in FileIds |-> None]
    /\ folders = {}
    /\ minted = 0
    /\ trashing = [c \in Clients |-> None]
    /\ now = 0

-----------------------------------------------------------------------------
(* Operations *)

(* Faulty variants: the previous version is dropped, as before versions were *)
(* kept; the new version starts a lineage of its own.                        *)
Push_replaces(p) ==
    LET f == minted + 1
        prev == get_file_by_path(p)
    IN  /\ f \in FileIds
        /\ minted' = f
        /\ files' = [g \in FileIds |->
                        IF g = f THEN NewRow(f, p, f)
                        ELSE IF g = prev THEN None
                        ELSE files[g]]
        /\ UNCHANGED <<folders, trashing, now>>

Push_own_lineage(p) ==
    LET f == minted + 1
        prev == get_file_by_path(p)
    IN  /\ f \in FileIds
        /\ minted' = f
        /\ files' = [g \in FileIds |->
                        IF g = f THEN NewRow(f, p, f)
                        ELSE IF g = prev THEN supersede_file(g, files[g])
                        ELSE files[g]]
        /\ UNCHANGED <<folders, trashing, now>>

(* push: supersede what is live at p, insert the new version into the same *)
(* lineage.  An upload of unchanged bytes returns early and is no step.    *)
Push(p) ==
    LET f == minted + 1
        prev == get_file_by_path(p)
        lineage == IF prev = None THEN f ELSE files[prev].lineage
    IN  /\ f \in FileIds
        /\ minted' = f
        /\ files' = [g \in FileIds |->
                        IF g = f THEN NewRow(f, p, lineage)
                        ELSE IF g = prev THEN supersede_file(g, files[g])
                        ELSE files[g]]
        /\ UNCHANGED <<folders, trashing, now>>

(* trash, first statement: read the row; an already trashed row or an old *)
(* version ends the call.                                                  *)
TrashRead(c, f) ==
    /\ trashing[c] = None
    /\ f \in LiveRows
    /\ trashing' = [trashing EXCEPT ![c] = f]
    /\ UNCHANGED <<files, folders, minted, now>>

(* trash, second statement: UPDATE ... WHERE deleted_at IS NULL. *)
TrashStamp(c) ==
    LET f == trashing[c]
    IN  /\ f # None
        /\ files' = IF f \in Rows
                    THEN [files EXCEPT ![f] = trash_file(f, files[f])]
                    ELSE files
        /\ trashing' = [trashing EXCEPT ![c] = None]
        /\ UNCHANGED <<folders, minted, now>>

(* Faulty variant: a trashed row remembers the deleted folder, not its path. *)
TrashPath_parks_folder(p) ==
    LET file == get_file_by_path(p)
        doomed == IF file # None THEN {file} ELSE files_under(p)
    IN  /\ doomed # {} \/ p \in folders
        /\ files' = [f \in FileIds |->
                        IF f \in doomed
                        THEN [trash_file(f, files[f]) EXCEPT !.retired_path = p]
                        ELSE files[f]]
        /\ folders' = IF file # None THEN folders ELSE folders \ folders_under(p)
        /\ UNCHANGED <<minted, trashing, now>>

(* trash_path: the file at p, or else the subtree and its folder rows. *)
TrashPath(p) ==
    LET file == get_file_by_path(p)
        doomed == IF file # None THEN {file} ELSE files_under(p)
    IN  /\ doomed # {} \/ p \in folders
        /\ files' = [f \in FileIds |->
                        IF f \in doomed THEN trash_file(f, files[f]) ELSE files[f]]
        /\ folders' = IF file # None THEN folders ELSE folders \ folders_under(p)
        /\ UNCHANGED <<minted, trashing, now>>

(* Faulty variant: the occupant of the target is not stepped aside. *)
Restore_over(f, target) ==
    /\ f \in Rows \ LiveRows
    /\ files' = [files EXCEPT ![f] = restore_file(@, target)]
    /\ folders' = folders \cup WithAncestors(dirname(target))
    /\ UNCHANGED <<minted, trashing, now>>

(* restore: supersede the occupant of the target, re-create its folder, *)
(* clear both stamps.                                                    *)
Restore(f, target) ==
    LET occupant == get_file_by_path(target)
    IN  /\ f \in Rows \ LiveRows
        /\ files' = [g \in FileIds |->
                        IF g = f THEN restore_file(files[g], target)
                        ELSE IF g = occupant THEN supersede_file(g, files[g])
                        ELSE files[g]]
        /\ folders' = folders \cup WithAncestors(dirname(target))
        /\ UNCHANGED <<minted, trashing, now>>

Forget(S) == files' = [f \in FileIds |-> IF f \in S THEN None ELSE files[f]]

(* purge_file: one row, whatever its state. *)
Purge(f) ==
    /\ f \in Rows
    /\ Forget({f})
    /\ UNCHANGED <<folders, minted, trashing, now>>

(* empty_trash: every row list_trashed returns. *)
EmptyTrash ==
    /\ Forget(Trashed)
    /\ UNCHANGED <<folders, minted, trashing, now>>

(* mkdir inserts the ancestors one by one; stopped half-way, it is a mkdir of *)
(* an ancestor.                                                               *)
mkdir(p) ==
    /\ folders' = folders \cup WithAncestors(p)
    /\ UNCHANGED <<files, minted, trashing, now>>

(* The rows a rename rewrites: the file itself, or else the subtree. *)
RenamedRows(from) ==
    LET file == get_file_by_path(from)
    IN  IF file # None THEN {file} ELSE files_under(from)

(* rename: the keys of both tables make a clash roll back, and so does one   *)
(* that lasts only from one row's UPDATE to the next, in path order.         *)
Rename(from, to) ==
    LET file == get_file_by_path(from)
        moved == RenamedRows(from)
        parents == folders \cup WithAncestors(dirname(to))
        movedDirs == IF file # None THEN {} ELSE {q \in parents : AtOrUnder(from, q)}
        newDirs == {Rebase(from, to, q) : q \in movedDirs}
        oldPaths == {files[f].path : f \in moved}
        clashesMidway(P) ==
            \E p, q \in P : <<p, q>> \in PathOrder /\ Rebase(from, to, p) = q
    IN  /\ from # to
        /\ moved # {} \/ movedDirs # {}
        /\ \A f \in moved : Rebase(from, to, files[f].path) \in Paths
        /\ newDirs \subseteq Paths
        /\ ~clashesMidway(oldPaths) /\ ~clashesMidway(movedDirs)
        /\ files' = [f \in FileIds |->
                        IF f \in moved
                        THEN [files[f] EXCEPT !.path = Rebase(from, to, @)]
                        ELSE files[f]]
        /\ \A f \in moved : \A g \in Rows \ {f} : files'[f].path # files'[g].path
        /\ newDirs \cap (parents \ movedDirs) = {}
        /\ Cardinality(newDirs) = Cardinality(movedDirs)
        /\ folders' = (parents \ movedDirs) \cup newDirs
                         \cup (IF file # None THEN {} ELSE WithAncestors(to))
        /\ UNCHANGED <<minted, trashing, now>>

-----------------------------------------------------------------------------
(* Retention *)

Expired(stamp, days) == stamp # None /\ stamp < now - days

trashed_before == {f \in Trashed : Expired(files[f].deleted_at, TrashDays)}
superseded_before ==
    {f \in Superseded : Expired(files[f].superseded_at, VersionDays)}

SameLineage(f, g) == files[f].lineage = files[g].lineage

(* ROW_NUMBER() OVER (PARTITION BY lineage ORDER BY created_at DESC) > keep *)
superseded_beyond ==
    {f \in Superseded :
        Cardinality({g \in Superseded : SameLineage(f, g) /\ g > f}) >= KeepVersions}

superseded_orphans ==
    {f \in Superseded : \A g \in Rows \ Superseded : ~SameLineage(f, g)}

(* Faulty variant: the rule about lineages with nothing left is forgotten. *)
Candidates_no_orphans == trashed_before \cup superseded_before \cup superseded_beyond

Candidates ==
    trashed_before \cup superseded_before \cup superseded_beyond \cup superseded_orphans

(* purge_retired: every candidate of one snapshot, in one transaction. *)
PurgeRetired ==
    /\ Candidates # {}
    /\ Forget(Candidates)
    /\ UNCHANGED <<folders, minted, trashing, now>>

Tick ==
    /\ now < MaxTime
    /\ now' = now + 1
    /\ UNCHANGED <<files, folders, minted, trashing>>

Next ==
    \/ \E p \in Paths : Push(p)
    \/ \E c \in Clients, f \in FileIds : TrashRead(c, f)
    \/ \E c \in Clients : TrashStamp(c)
    \/ \E p \in Paths : TrashPath(p)
    \/ \E f \in FileIds, p \in Paths : Restore(f, p)
    \/ \E f \in FileIds : Purge(f)
    \/ EmptyTrash
    \/ \E p \in Paths : mkdir(p)
    \/ \E from, to \in Paths : Rename(from, to)
    \/ PurgeRetired
    \/ Tick

Spec == Init /\ [][Next]_vars

(* The gc_trash ticker of main.rs enqueues a sweep every hour. *)
FairSpec == Spec /\ WF_vars(PurgeRetired)
-----------------------------------------------------------------------------
(* Properties *)

(* Every table cell holds a value of its column. *)
TypeOK ==
    /\ files \in [FileIds -> Row \cup {None}]
    /\ folders \subseteq Paths
    /\ minted \in 0 .. MaxFiles
    /\ trashing \in [Clients -> FileIds \cup {None}]
    /\ now \in Time

(* UNIQUE (user_id, path) guards exactly the live namespace: a row holds a  *)
(* real path if and only if it is live, whatever order of trash, supersede, *)
(* rename and restore it went through; a retired row remembers a real path. *)
RetiredParked ==
    \A f \in Rows :
        /\ f \in LiveRows <=> files[f].path \in Paths
        /\ f \in LiveRows <=> files[f].retired_path = None
        /\ VisiblePath(files[f]) \in Paths

(* push and restore have no check of their own for a clash with another row: *)
(* stepping the occupant aside first is what keeps the UNIQUE constraint     *)
(* from failing them.                                                        *)
PathsDistinct ==
    \A f, g \in Rows : f # g => files[f].path # files[g].path

(* Retiring a row, even a second time by the other column, never changes the *)
(* path the user knows it by (COALESCE(retired_path, path) in retire_row).   *)
VisiblePathKept ==
    [][\A f \in Rows : (files'[f] # None /\ ~is_live(files'[f]))
          => VisiblePath(files'[f]) = VisiblePath(files[f])]_vars

(* A step of the user that neither restores nor destroys a row (an upload, a *)
(* delete, a rename, a mkdir) puts nothing within reach of the sweep, except *)
(* versions that the keep_versions cap pushes out.                           *)
OnlyTheCapDooms ==
    [][ (now' = now /\ Rows \subseteq Rows' /\ (LiveRows' \cap Rows) \subseteq LiveRows)
            => Candidates' \subseteq Candidates \cup superseded_beyond' ]_vars

(* History behind no current file and nothing in the trash is reclaimed (or *)
(* comes back into reach) without waiting for its retention window.         *)
HistoryNotStranded ==
    \A f \in FileIds :
        (f \in Superseded /\ ~\E g \in Rows \ Superseded : SameLineage(f, g))
            ~> (f \notin Superseded \/ \E g \in Rows \ Superseded : SameLineage(f, g))

(* The manifest implements the tree its user is promised. *)
Tree == INSTANCE UserTree WITH
    Ids <- FileIds,
    tree <- [p \in Paths |-> get_file_by_path(p)],
    kept <- Rows \ LiveRows,
    used <- 1 .. minted
ImplementsTree == Tree!Spec

(* "a restore can never be the thing that loses data" (service.rs:344): no   *)
(* step that brings a row back puts one within reach of the sweep.           *)
RestoreLosesNothing ==
    [][ (LiveRows' \cap Rows) \ LiveRows # {}
            => Candidates' \subseteq Candidates \cup superseded_beyond' ]_vars
=============================================================================
