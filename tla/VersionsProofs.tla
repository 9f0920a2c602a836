--------------------------- MODULE VersionsProofs ---------------------------
(***************************************************************************)
(* Proofs about the manifest life cycle of Versions, for every set of      *)
(* paths, every number of files and clients and every retention policy.    *)
(***************************************************************************)
EXTENDS Versions, SequenceTheorems, TLAPS

-----------------------------------------------------------------------------
(* Rows, one at a time *)

(* What a row of the table always is: parked on its own tombstone, with the *)
(* user's path beside it, or live and on a real path.                        *)
GoodRow(f, r) ==
    /\ r \in Row
    /\ is_live(r) => r.path \in Paths /\ r.retired_path = None
    /\ ~is_live(r) => r.path = retired_key(f) /\ r.retired_path \in Paths

(* A tombstone is no path, and tells its row. *)
LEMMA TombstoneFacts ==
    /\ \A f \in FileIds : retired_key(f) \in Tombstones
    /\ \A f \in FileIds : retired_key(f) \notin Paths
    /\ \A f, g \in FileIds : retired_key(f) = retired_key(g) => f = g
BY PathsAssumption DEF Tombstones, retired_key

(* A good row shows its user a real path. *)
LEMMA GoodRowVisible ==
    ASSUME NEW f \in FileIds, NEW r, GoodRow(f, r)
    PROVE  /\ VisiblePath(r) \in Paths
           /\ is_live(r) <=> r.path \in Paths
           /\ is_live(r) <=> r.retired_path = None
           /\ is_live(r) => VisiblePath(r) = r.path
           /\ ~is_live(r) => VisiblePath(r) = r.retired_path
BY TombstoneFacts, PathsAssumption DEF GoodRow, VisiblePath

(* A row whose stamp is set in one column, parked on its tombstone with the *)
(* path its user knows, is good and retired.                                 *)
LEMMA ParkedGood ==
    ASSUME NEW f \in FileIds, NEW r, GoodRow(f, r), NEW t \in Row,
           t.path = retired_key(f), t.retired_path = VisiblePath(r), ~is_live(t)
    PROVE  GoodRow(f, t) /\ VisiblePath(t) = VisiblePath(r)
BY GoodRowVisible, PathsAssumption DEF GoodRow, VisiblePath

(* retire_row keeps a row good and the path its user knows, and retires it. *)
LEMMA TrashGood ==
    ASSUME NEW f \in FileIds, NEW r, GoodRow(f, r), now \in Time
    PROVE  /\ GoodRow(f, trash_file(f, r))
           /\ ~is_live(trash_file(f, r))
           /\ VisiblePath(trash_file(f, r)) = VisiblePath(r)
<1>1. CASE r.deleted_at # None
  BY <1>1 DEF trash_file, retire_row, is_live
<1>2. CASE r.deleted_at = None
  <2> DEFINE t == [r EXCEPT !.deleted_at = now, !.retired_path = VisiblePath(r),
                            !.path = retired_key(f)]
  <2>1. trash_file(f, r) = t
    BY <1>2 DEF trash_file, retire_row, GoodRow, Row
  <2>2. now # None
    BY PathsAssumption, BoundsAssumption DEF Time
  <2>3. VisiblePath(r) \in Paths
    BY GoodRowVisible
  <2>4. t \in Row /\ t.path = retired_key(f) /\ t.retired_path = VisiblePath(r) /\ t.deleted_at = now
    BY <2>3, TombstoneFacts DEF GoodRow, Row
  <2>5. ~is_live(t)
    BY <2>2, <2>4 DEF is_live
  <2> HIDE DEF t
  <2> QED
    BY <2>1, <2>4, <2>5, ParkedGood
<1> QED
  BY <1>1, <1>2

(* Superseding (push, restore) keeps a row good and its user's path, and retires it. *)
LEMMA SupersedeGood ==
    ASSUME NEW f \in FileIds, NEW r, GoodRow(f, r), now \in Time
    PROVE  /\ GoodRow(f, supersede_file(f, r))
           /\ ~is_live(supersede_file(f, r))
           /\ VisiblePath(supersede_file(f, r)) = VisiblePath(r)
<1>1. CASE r.superseded_at # None
  BY <1>1 DEF supersede_file, retire_row, is_live
<1>2. CASE r.superseded_at = None
  <2> DEFINE t == [r EXCEPT !.superseded_at = now, !.retired_path = VisiblePath(r),
                            !.path = retired_key(f)]
  <2>1. supersede_file(f, r) = t
    BY <1>2 DEF supersede_file, retire_row, GoodRow, Row
  <2>2. now # None
    BY PathsAssumption, BoundsAssumption DEF Time
  <2>3. VisiblePath(r) \in Paths
    BY GoodRowVisible
  <2>4. t \in Row /\ t.path = retired_key(f) /\ t.retired_path = VisiblePath(r) /\ t.superseded_at = now
    BY <2>3, TombstoneFacts DEF GoodRow, Row
  <2>5. ~is_live(t)
    BY <2>2, <2>4 DEF is_live
  <2> HIDE DEF t
  <2> QED
    BY <2>1, <2>4, <2>5, ParkedGood
<1> QED
  BY <1>1, <1>2

(* restore_file brings a row back to life on the given path. *)
LEMMA RestoreGood ==
    ASSUME NEW f \in FileIds, NEW r, GoodRow(f, r), NEW p \in Paths
    PROVE  /\ GoodRow(f, restore_file(r, p))
           /\ is_live(restore_file(r, p))
           /\ restore_file(r, p).path = p
BY DEF GoodRow, Row, is_live, restore_file

(* The row a push inserts is good and live. *)
LEMMA NewRowGood ==
    ASSUME NEW f \in FileIds, NEW p \in Paths, NEW l \in FileIds
    PROVE  /\ GoodRow(f, NewRow(f, p, l))
           /\ is_live(NewRow(f, p, l))
           /\ NewRow(f, p, l).path = p
BY DEF GoodRow, Row, is_live, NewRow

-----------------------------------------------------------------------------
(* Paths *)

(* A prefix of a path is a shorter sequence of the same names (dirname). *)
LEMMA PrefixLen ==
    ASSUME NEW S, NEW s \in Seq(S), NEW n \in 0 .. Len(s)
    PROVE  Len(SubSeq(s, 1, n)) = n
<1>1. CASE n = 0
  BY <1>1, SubSeqEmpty
<1>2. CASE n > 0
  <2>1. n \in 1 .. Len(s)
    BY <1>2
  <2> QED
    BY <2>1, SMT
<1> QED
  BY <1>1, <1>2

(* The folders that mkdir, restore and rename create are paths. *)
LEMMA AncestorsArePaths ==
    ASSUME NEW p \in Paths
    PROVE  WithAncestors(p) \subseteq Paths /\ WithAncestors(dirname(p)) \subseteq Paths
<1> DEFINE S == {p[i] : i \in DOMAIN p}
<1>1. p \in Seq(S) /\ Len(p) \in Nat /\ Len(p) > 0
  BY PathShape
<1>2. ASSUME NEW n \in 1 .. Len(p)
      PROVE  SubSeq(p, 1, n) \in Paths
  <2>1. CASE n = Len(p)
    BY <1>1, <2>1, SubSeqFull
  <2>2. CASE n # Len(p)
    <3>1. n \in 1 .. Len(p) - 1
      BY <1>1, <2>2
    <3> QED
      BY <3>1, PathShape
  <2> QED
    BY <2>1, <2>2
<1>3. WithAncestors(p) \subseteq Paths
  BY <1>2 DEF WithAncestors
<1>4. WithAncestors(dirname(p)) \subseteq Paths
  <2> DEFINE d == SubSeq(p, 1, Len(p) - 1)
  <2>1. Len(d) = Len(p) - 1
    <3>1. Len(p) - 1 \in 0 .. Len(p)
      BY <1>1
    <3> HIDE DEF S
    <3> QED
      BY <1>1, <3>1, PrefixLen, Zenon
  <2>2. ASSUME NEW n \in 1 .. Len(d)
        PROVE  SubSeq(d, 1, n) \in Paths
    <3>1. SubSeq(d, 1, n) = SubSeq(p, 1, n)
      BY <1>1, <2>1, SubSeqOfSubSeq
    <3>2. n \in 1 .. Len(p)
      BY <1>1, <2>1
    <3>3. SubSeq(p, 1, n) \in Paths
      BY <1>2, <3>2
    <3> QED
      BY <3>1, <3>3
  <2> QED
    BY <2>2 DEF WithAncestors, dirname
<1> QED
  BY <1>3, <1>4
-----------------------------------------------------------------------------
(* The inductive invariant *)

GoodFiles == \A f \in Rows : GoodRow(f, files[f])
LiveDistinct == \A f, g \in LiveRows : files[f].path = files[g].path => f = g
Fresh == \A f \in FileIds : f > minted => files[f] = None

(* TypeOK, each row good, one live row per path, and no row beyond the ids *)
(* minted: it implies RetiredParked and PathsDistinct.                      *)
IInv == TypeOK /\ GoodFiles /\ LiveDistinct /\ Fresh

(* None names no file. *)
LEMMA NoneIsNoFile == None \notin FileIds
BY PathsAssumption, BoundsAssumption DEF FileIds

(* get_file_by_path finds the live row of a path, if there is one. *)
LEMMA GetFile ==
    ASSUME LiveDistinct, NEW p
    PROVE  /\ get_file_by_path(p) # None =>
                  get_file_by_path(p) \in LiveRows /\ files[get_file_by_path(p)].path = p
           /\ \A h \in LiveRows : files[h].path = p => get_file_by_path(p) = h
<1>1. CASE \E f \in LiveRows : files[f].path = p
  <2>1. PICK f \in LiveRows : files[f].path = p
    BY <1>1
  <2>2. get_file_by_path(p) = CHOOSE g \in LiveRows : files[g].path = p
    BY <1>1 DEF get_file_by_path
  <2>3. get_file_by_path(p) \in LiveRows /\ files[get_file_by_path(p)].path = p
    BY <2>1, <2>2
  <2> QED
    BY <2>3 DEF LiveDistinct
<1>2. CASE ~\E f \in LiveRows : files[f].path = p
  BY <1>2 DEF get_file_by_path
<1> QED
  BY <1>1, <1>2

(* The inductive invariant implies the two invariants about paths. *)
LEMMA IInvImplies ==
    IInv => TypeOK /\ RetiredParked /\ PathsDistinct
<1> SUFFICES ASSUME IInv
             PROVE  RetiredParked /\ PathsDistinct
  BY DEF IInv
<1>1. RetiredParked
  BY GoodRowVisible DEF IInv, GoodFiles, RetiredParked, LiveRows, Rows
<1>2. ASSUME NEW f \in Rows, NEW g \in Rows, f # g
      PROVE  files[f].path # files[g].path
  <2>1. GoodRow(f, files[f]) /\ GoodRow(g, files[g]) /\ f \in FileIds /\ g \in FileIds
    BY DEF IInv, GoodFiles, Rows
  <2>2. CASE f \in LiveRows /\ g \in LiveRows
    BY <1>2, <2>2 DEF IInv, LiveDistinct
  <2>3. CASE f \notin LiveRows \/ g \notin LiveRows
    BY <1>2, <2>1, <2>3, TombstoneFacts DEF GoodRow, LiveRows
  <2> QED
    BY <2>2, <2>3
<1> QED
  BY <1>1, <1>2 DEF PathsDistinct

(* A table whose rows are all good is well typed. *)
LEMMA GoodTable ==
    ASSUME NEW F, F = [f \in FileIds |-> F[f]],
           \A f \in FileIds : F[f] = None \/ GoodRow(f, F[f])
    PROVE  F \in [FileIds -> Row \cup {None}]
BY DEF GoodRow

(* The empty manifest satisfies the inductive invariant. *)
LEMMA InitIInv == Init => IInv
BY BoundsAssumption DEF Init, IInv, TypeOK, GoodFiles, LiveDistinct, Fresh, Rows, LiveRows, Time

-----------------------------------------------------------------------------
(* Steps *)

(* Steps that leave each row alone, retire it or delete it. *)
LEMMA RetiringStep ==
    ASSUME IInv, files' = [f \in FileIds |-> files'[f]], minted' = minted,
           \A f \in FileIds :
              \/ files'[f] = None
              \/ files'[f] = files[f]
              \/ f \in Rows /\ GoodRow(f, files'[f]) /\ ~is_live(files'[f])
    PROVE  /\ files' \in [FileIds -> Row \cup {None}]
           /\ GoodFiles' /\ LiveDistinct' /\ Fresh'
<1>1. \A f \in FileIds : files'[f] = None \/ GoodRow(f, files'[f])
  BY DEF IInv, GoodFiles, Rows
<1>2. files' \in [FileIds -> Row \cup {None}]
  BY <1>1, GoodTable
<1>3. GoodFiles'
  BY <1>1 DEF GoodFiles, Rows, GoodRow, Row, is_live
<1>4. \A f \in LiveRows' : f \in LiveRows /\ files'[f] = files[f]
  BY DEF LiveRows, Rows
<1>5. LiveDistinct'
  BY <1>4 DEF IInv, LiveDistinct
<1>6. Fresh'
  BY DEF IInv, Fresh, Rows
<1> QED
  BY <1>2, <1>3, <1>5, <1>6

(* Deleting rows (purge_file_row) preserves the inductive invariant. *)
LEMMA ForgetStep ==
    ASSUME IInv, NEW S, Forget(S), UNCHANGED <<folders, minted, trashing, now>>
    PROVE  IInv'
<1>1. files' = [f \in FileIds |-> files'[f]] /\ \A f \in FileIds : files'[f] = None \/ files'[f] = files[f]
  BY DEF Forget
<1>2. files' \in [FileIds -> Row \cup {None}] /\ GoodFiles' /\ LiveDistinct' /\ Fresh'
  BY <1>1, RetiringStep
<1> QED
  BY <1>2 DEF IInv, TypeOK

(* purge_file preserves the inductive invariant. *)
LEMMA PurgeIInv == ASSUME IInv, NEW f \in FileIds, Purge(f) PROVE IInv'
BY ForgetStep DEF Purge

(* empty_trash preserves the inductive invariant. *)
LEMMA EmptyTrashIInv == ASSUME IInv, EmptyTrash PROVE IInv'
BY ForgetStep DEF EmptyTrash

(* The retention sweep preserves the inductive invariant. *)
LEMMA PurgeRetiredIInv == ASSUME IInv, PurgeRetired PROVE IInv'
BY ForgetStep DEF PurgeRetired

(* The read half of trash preserves the inductive invariant. *)
LEMMA TrashReadIInv ==
    ASSUME IInv, NEW c \in Clients, NEW f \in FileIds, TrashRead(c, f)
    PROVE  IInv'
<1>1. files' = files /\ folders' = folders /\ minted' = minted /\ now' = now
  BY DEF TrashRead
<1>2. trashing' \in [Clients -> FileIds \cup {None}]
  BY DEF TrashRead, IInv, TypeOK
<1> QED
  BY <1>1, <1>2 DEF IInv, TypeOK, GoodFiles, LiveDistinct, Fresh, Rows, LiveRows

(* The stamp of trash preserves it, even on a row that changed since it was read. *)
LEMMA TrashStampIInv ==
    ASSUME IInv, NEW c \in Clients, TrashStamp(c)
    PROVE  IInv'
<1> DEFINE f == trashing[c]
<1>1. f \in FileIds /\ now \in Time /\ files \in [FileIds -> Row \cup {None}]
  BY DEF IInv, TypeOK, TrashStamp
<1>2. files' = IF f \in Rows THEN [files EXCEPT ![f] = trash_file(f, files[f])] ELSE files
  BY DEF TrashStamp
<1>3. f \in Rows => GoodRow(f, trash_file(f, files[f])) /\ ~is_live(trash_file(f, files[f]))
  BY <1>1, TrashGood DEF IInv, GoodFiles
<1>4. files' = [g \in FileIds |-> files'[g]]
  BY <1>1, <1>2
<1>5. \A g \in FileIds :
         \/ files'[g] = files[g]
         \/ g \in Rows /\ GoodRow(g, files'[g]) /\ ~is_live(files'[g])
  BY <1>1, <1>2, <1>3
<1>6. files' \in [FileIds -> Row \cup {None}] /\ GoodFiles' /\ LiveDistinct' /\ Fresh'
  BY <1>4, <1>5, RetiringStep DEF TrashStamp
<1>7. trashing' \in [Clients -> FileIds \cup {None}]
  BY DEF TrashStamp, IInv, TypeOK
<1> QED
  BY <1>6, <1>7 DEF IInv, TypeOK, TrashStamp

(* trash_path preserves the inductive invariant. *)
LEMMA TrashPathIInv ==
    ASSUME IInv, NEW p \in Paths, TrashPath(p)
    PROVE  IInv'
<1> DEFINE file == get_file_by_path(p)
           doomed == IF file # None THEN {file} ELSE files_under(p)
<1>1. doomed \subseteq Rows
  BY GetFile DEF IInv, files_under, LiveRows
<1>2. files' = [f \in FileIds |-> IF f \in doomed THEN trash_file(f, files[f]) ELSE files[f]]
  BY DEF TrashPath
<1>3. \A f \in doomed : GoodRow(f, trash_file(f, files[f])) /\ ~is_live(trash_file(f, files[f]))
  BY <1>1, TrashGood DEF IInv, TypeOK, GoodFiles, Rows
<1> HIDE DEF doomed
<1>4. \A f \in FileIds :
         \/ files'[f] = files[f]
         \/ f \in Rows /\ GoodRow(f, files'[f]) /\ ~is_live(files'[f])
  BY <1>1, <1>2, <1>3
<1>5. files' = [f \in FileIds |-> files'[f]]
  BY <1>2
<1>6. files' \in [FileIds -> Row \cup {None}] /\ GoodFiles' /\ LiveDistinct' /\ Fresh'
  BY <1>4, <1>5, RetiringStep DEF TrashPath
<1>7. folders' \subseteq Paths
  BY DEF TrashPath, IInv, TypeOK
<1> QED
  BY <1>6, <1>7 DEF IInv, TypeOK, TrashPath

(* mkdir preserves the inductive invariant. *)
LEMMA MkdirIInv == ASSUME IInv, NEW p \in Paths, mkdir(p) PROVE IInv'
<1>1. files' = files /\ minted' = minted /\ trashing' = trashing /\ now' = now
  BY DEF mkdir
<1>2. folders' \subseteq Paths
  BY AncestorsArePaths DEF mkdir, IInv, TypeOK
<1> QED
  BY <1>1, <1>2 DEF IInv, TypeOK, GoodFiles, LiveDistinct, Fresh, Rows, LiveRows

(* The clock preserves the inductive invariant. *)
LEMMA TickIInv == ASSUME IInv, Tick PROVE IInv'
<1>1. files' = files /\ folders' = folders /\ minted' = minted /\ trashing' = trashing
  BY DEF Tick
<1>2. now' \in Time
  BY BoundsAssumption DEF Tick, IInv, TypeOK, Time
<1> QED
  BY <1>1, <1>2 DEF IInv, TypeOK, GoodFiles, LiveDistinct, Fresh, Rows, LiveRows

(* So does a step that changes nothing. *)
LEMMA StutterIInv == ASSUME IInv, UNCHANGED vars PROVE IInv'
BY DEF IInv, TypeOK, GoodFiles, LiveDistinct, Fresh, Rows, LiveRows, vars
(* Steps that make one row, f, live on p, and retire the row that was live  *)
(* there.                                                                   *)
LEMMA OccupyingStep ==
    ASSUME IInv, NEW p \in Paths, NEW f \in FileIds, NEW r,
           f \notin LiveRows, GoodRow(f, r), is_live(r), r.path = p,
           files' = [g \in FileIds |->
                        IF g = f THEN r
                        ELSE IF g = get_file_by_path(p) THEN supersede_file(g, files[g])
                        ELSE files[g]]
    PROVE  /\ files' \in [FileIds -> Row \cup {None}]
           /\ GoodFiles' /\ LiveDistinct'
           /\ \A g \in FileIds \ {f} : files[g] = None => files'[g] = None
<1> DEFINE prev == get_file_by_path(p)
<1>1. prev = None \/ prev \in LiveRows
  BY GetFile DEF IInv
<1>2. prev \in LiveRows => GoodRow(prev, supersede_file(prev, files[prev]))
                             /\ ~is_live(supersede_file(prev, files[prev]))
  BY SupersedeGood DEF IInv, TypeOK, GoodFiles, LiveRows, Rows
<1>3. \A h \in LiveRows : files[h].path = p => h = prev
  BY GetFile DEF IInv
<1>4. None \notin FileIds /\ \A h \in LiveRows : h \in FileIds /\ files[h] # None
  BY NoneIsNoFile DEF LiveRows, Rows
<1> HIDE DEF prev
<1>5. /\ files'[f] = r
      /\ \A g \in FileIds : g # f /\ g # prev => files'[g] = files[g]
      /\ prev \in FileIds /\ prev # f => files'[prev] = supersede_file(prev, files[prev])
  BY DEF prev
<1>6. \A g \in FileIds : files'[g] = None \/ GoodRow(g, files'[g])
  <2> SUFFICES ASSUME NEW g \in FileIds
               PROVE  files'[g] = None \/ GoodRow(g, files'[g])
    OBVIOUS
  <2>1. CASE g = f
    BY <1>5, <2>1
  <2>2. CASE g # f /\ g = prev
    BY <1>1, <1>2, <1>4, <1>5, <2>2
  <2>3. CASE g # f /\ g # prev
    BY <1>5, <2>3 DEF IInv, GoodFiles, Rows
  <2> QED
    BY <2>1, <2>2, <2>3
<1>7. files' \in [FileIds -> Row \cup {None}]
  <2>1. files' = [g \in FileIds |-> files'[g]]
    OBVIOUS
  <2> QED
    BY <1>6, <2>1, GoodTable
<1>8. GoodFiles'
  BY <1>6 DEF GoodFiles, Rows, GoodRow, Row, is_live
<1>9. \A g \in LiveRows' : g # f => g \in LiveRows /\ g # prev /\ files'[g] = files[g]
  BY <1>1, <1>2, <1>4, <1>5 DEF LiveRows, Rows
<1>10. LiveDistinct'
  <2> SUFFICES ASSUME NEW g \in LiveRows', NEW h \in LiveRows', files'[g].path = files'[h].path, g # h
               PROVE  FALSE
    BY DEF LiveDistinct
  <2>1. CASE g # f /\ h # f
    BY <1>9, <2>1 DEF IInv, LiveDistinct
  <2>2. CASE g = f
    BY <1>3, <1>5, <1>9, <2>2
  <2>3. CASE h = f
    BY <1>3, <1>5, <1>9, <2>3
  <2> QED
    BY <2>1, <2>2, <2>3
<1>11. \A g \in FileIds \ {f} : files[g] = None => files'[g] = None
  BY <1>1, <1>4, <1>5
<1> QED
  BY <1>7, <1>8, <1>10, <1>11

(* push preserves the inductive invariant. *)
LEMMA PushIInv == ASSUME IInv, NEW p \in Paths, Push(p) PROVE IInv'
<1> DEFINE f == minted + 1
           prev == get_file_by_path(p)
           lineage == IF prev = None THEN f ELSE files[prev].lineage
<1>1. f \in FileIds /\ minted' = f /\ minted \in Nat
  BY DEF Push, IInv, TypeOK
<1>2. files[f] = None
  BY <1>1 DEF IInv, Fresh
<1>3. f \notin LiveRows
  BY <1>2 DEF LiveRows, Rows
<1>4. lineage \in FileIds
  <2>1. CASE prev = None
    BY <1>1, <2>1
  <2>2. CASE prev # None
    <3>1. GoodRow(prev, files[prev])
      BY <2>2, GetFile DEF IInv, GoodFiles, LiveRows
    <3> QED
      BY <2>2, <3>1 DEF GoodRow, Row
  <2> QED
    BY <2>1, <2>2
<1>5. GoodRow(f, NewRow(f, p, lineage)) /\ is_live(NewRow(f, p, lineage))
        /\ NewRow(f, p, lineage).path = p
  BY <1>1, <1>4, NewRowGood
<1>6. files' = [g \in FileIds |->
                   IF g = f THEN NewRow(f, p, lineage)
                   ELSE IF g = prev THEN supersede_file(g, files[g])
                   ELSE files[g]]
  BY DEF Push
<1>7. /\ files' \in [FileIds -> Row \cup {None}] /\ GoodFiles' /\ LiveDistinct'
      /\ \A g \in FileIds \ {f} : files[g] = None => files'[g] = None
  <2> HIDE DEF f, lineage
  <2> QED
    BY <1>1, <1>3, <1>5, <1>6, OccupyingStep
<1>8. Fresh'
  BY <1>1, <1>7 DEF IInv, Fresh, FileIds
<1>9. minted' \in 0 .. MaxFiles
  BY <1>1, BoundsAssumption DEF FileIds
<1> QED
  BY <1>7, <1>8, <1>9 DEF IInv, TypeOK, Push

(* restore preserves the inductive invariant. *)
LEMMA RestoreIInv ==
    ASSUME IInv, NEW f \in FileIds, NEW p \in Paths, Restore(f, p)
    PROVE  IInv'
<1>1. f \in Rows /\ f \notin LiveRows /\ GoodRow(f, files[f])
  BY DEF Restore, IInv, GoodFiles
<1>2. GoodRow(f, restore_file(files[f], p)) /\ is_live(restore_file(files[f], p))
        /\ restore_file(files[f], p).path = p
  BY <1>1, RestoreGood
<1>3. files' = [g \in FileIds |->
                   IF g = f THEN restore_file(files[f], p)
                   ELSE IF g = get_file_by_path(p) THEN supersede_file(g, files[g])
                   ELSE files[g]]
  BY DEF Restore
<1>4. /\ files' \in [FileIds -> Row \cup {None}] /\ GoodFiles' /\ LiveDistinct'
      /\ \A g \in FileIds \ {f} : files[g] = None => files'[g] = None
  BY <1>1, <1>2, <1>3, OccupyingStep
<1>5. Fresh'
  BY <1>1, <1>4 DEF IInv, Fresh, Rows, Restore
<1>6. folders' \subseteq Paths
  BY AncestorsArePaths DEF Restore, IInv, TypeOK
<1> QED
  BY <1>4, <1>5, <1>6 DEF IInv, TypeOK, Restore
(* rename preserves it: a rename that would collide rolls back. *)
LEMMA RenameIInv ==
    ASSUME IInv, NEW from \in Paths, NEW to \in Paths, Rename(from, to)
    PROVE  IInv'
<1> DEFINE file == get_file_by_path(from)
           moved == RenamedRows(from)
           parents == folders \cup WithAncestors(dirname(to))
           movedDirs == IF file # None THEN {} ELSE {q \in parents : AtOrUnder(from, q)}
           newDirs == {Rebase(from, to, q) : q \in movedDirs}
           NewPath(f) == Rebase(from, to, files[f].path)
<1>1. moved \subseteq LiveRows
  BY GetFile DEF IInv, RenamedRows, files_under
<1>2. /\ \A f \in moved : NewPath(f) \in Paths
      /\ files' = [f \in FileIds |-> IF f \in moved
                                     THEN [files[f] EXCEPT !.path = NewPath(f)] ELSE files[f]]
      /\ \A f \in moved : \A g \in Rows \ {f} : files'[f].path # files'[g].path
      /\ UNCHANGED <<minted, trashing, now>>
  BY DEF Rename
<1>3. folders' \subseteq Paths
  <2>1. newDirs \subseteq Paths
    BY DEF Rename
  <2>2. parents \subseteq Paths /\ WithAncestors(to) \subseteq Paths
    BY AncestorsArePaths DEF IInv, TypeOK
  <2>3. folders' = (parents \ movedDirs) \cup newDirs
                      \cup (IF file # None THEN {} ELSE WithAncestors(to))
    BY DEF Rename
  <2> HIDE DEF newDirs, movedDirs, parents, file
  <2> QED
    BY <2>1, <2>2, <2>3
<1> HIDE DEF moved, NewPath
<1>4. \A f \in moved : GoodRow(f, files'[f]) /\ is_live(files'[f]) /\ f \in FileIds
  <2> SUFFICES ASSUME NEW f \in moved
               PROVE  GoodRow(f, files'[f]) /\ is_live(files'[f]) /\ f \in FileIds
    OBVIOUS
  <2>1. f \in FileIds /\ GoodRow(f, files[f]) /\ is_live(files[f])
    BY <1>1 DEF IInv, GoodFiles, LiveRows, Rows
  <2>2. files'[f] = [files[f] EXCEPT !.path = NewPath(f)]
    BY <1>2, <2>1
  <2>3. NewPath(f) \in Paths
    BY <1>2
  <2> QED
    BY <2>1, <2>2, <2>3 DEF GoodRow, is_live, Row
<1>5. \A f \in FileIds : f \notin moved => files'[f] = files[f]
  BY <1>2
<1>6. \A f \in FileIds : files'[f] = None \/ GoodRow(f, files'[f])
  BY <1>4, <1>5 DEF IInv, GoodFiles, Rows
<1>7. files' \in [FileIds -> Row \cup {None}]
  <2>1. files' = [f \in FileIds |-> files'[f]]
    BY <1>2
  <2> QED
    BY <1>6, <2>1, GoodTable
<1>8. GoodFiles'
  BY <1>6 DEF GoodFiles, Rows, GoodRow, Row, is_live
<1>9. LiveRows' \subseteq LiveRows
  BY <1>1, <1>5 DEF LiveRows, Rows
<1>10. LiveDistinct'
  <2> SUFFICES ASSUME NEW f \in LiveRows', NEW g \in LiveRows', files'[f].path = files'[g].path, f # g
               PROVE  FALSE
    BY DEF LiveDistinct
  <2>1. f \in LiveRows /\ g \in LiveRows /\ f \in Rows /\ g \in Rows /\ f \in FileIds /\ g \in FileIds
    BY <1>9 DEF LiveRows, Rows
  <2>2. f \notin moved /\ g \notin moved
    BY <1>2, <2>1
  <2> QED
    BY <1>5, <2>1, <2>2 DEF IInv, LiveDistinct
<1>11. Fresh'
  BY <1>1, <1>2, <1>5 DEF IInv, Fresh, LiveRows, Rows
<1> QED
  BY <1>2, <1>3, <1>7, <1>8, <1>10, <1>11 DEF IInv, TypeOK

(* Every step preserves the inductive invariant. *)
LEMMA NextIInv == ASSUME IInv, [Next]_vars PROVE IInv'
<1>1. ASSUME NEW p \in Paths, Push(p) PROVE IInv'
  BY <1>1, PushIInv
<1>2. ASSUME NEW c \in Clients, NEW f \in FileIds, TrashRead(c, f) PROVE IInv'
  BY <1>2, TrashReadIInv
<1>3. ASSUME NEW c \in Clients, TrashStamp(c) PROVE IInv'
  BY <1>3, TrashStampIInv
<1>4. ASSUME NEW p \in Paths, TrashPath(p) PROVE IInv'
  BY <1>4, TrashPathIInv
<1>5. ASSUME NEW f \in FileIds, NEW p \in Paths, Restore(f, p) PROVE IInv'
  BY <1>5, RestoreIInv
<1>6. ASSUME NEW f \in FileIds, Purge(f) PROVE IInv'
  BY <1>6, PurgeIInv
<1>7. ASSUME NEW p \in Paths, mkdir(p) PROVE IInv'
  BY <1>7, MkdirIInv
<1>8. ASSUME NEW from \in Paths, NEW to \in Paths, Rename(from, to) PROVE IInv'
  BY <1>8, RenameIInv
<1> QED
  BY <1>1, <1>2, <1>3, <1>4, <1>5, <1>6, <1>7, <1>8,
     EmptyTrashIInv, PurgeRetiredIInv, TickIInv, StutterIInv DEF Next

-----------------------------------------------------------------------------
(* Theorems *)

(* The inductive invariant holds in every reachable state of the manifest. *)
THEOREM Invariance == Spec => []IInv
BY InitIInv, NextIInv, PTL DEF Spec

(* Every table cell holds a value of its column. *)
THEOREM TypeCorrect == Spec => []TypeOK
BY Invariance, IInvImplies, PTL

(* A row is on a real path exactly when it is live (retire_row, restore_file). *)
THEOREM RetiredRowsParked == Spec => []RetiredParked
BY Invariance, IInvImplies, PTL

(* No upload, restore or rename ever violates UNIQUE (user_id, path). *)
THEOREM PathsUnique == Spec => []PathsDistinct
BY Invariance, IInvImplies, PTL
-----------------------------------------------------------------------------
(* Retiring keeps the path the user knows *)

KeepsVisiblePath ==
    \A f \in Rows : (files'[f] # None /\ ~is_live(files'[f]))
        => VisiblePath(files'[f]) = VisiblePath(files[f])

(* Steps whose rows are each kept, deleted, made live, or retired by one of *)
(* the two columns.                                                          *)
LEMMA RowwiseVisible ==
    ASSUME IInv,
           \A f \in Rows : \/ files'[f] = None
                           \/ files'[f] = files[f]
                           \/ is_live(files'[f])
                           \/ files'[f] = trash_file(f, files[f])
                           \/ files'[f] = supersede_file(f, files[f])
    PROVE  KeepsVisiblePath
<1> SUFFICES ASSUME NEW f \in Rows, files'[f] # None, ~is_live(files'[f])
             PROVE  VisiblePath(files'[f]) = VisiblePath(files[f])
  BY DEF KeepsVisiblePath
<1>1. f \in FileIds /\ GoodRow(f, files[f]) /\ now \in Time
  BY DEF IInv, TypeOK, GoodFiles, Rows
<1> QED
  BY <1>1, TrashGood, SupersedeGood

(* Every step keeps the path a user knows for a row that it retires. *)
LEMMA NextVisible == ASSUME IInv, [Next]_vars PROVE KeepsVisiblePath
<1>0. Rows \subseteq FileIds /\ files = [g \in FileIds |-> files[g]]
  BY DEF Rows, IInv, TypeOK
<1>1. ASSUME NEW p \in Paths, Push(p) PROVE KeepsVisiblePath
  <2>1. minted + 1 \notin Rows
    BY <1>1 DEF Push, IInv, TypeOK, Fresh, Rows
  <2> QED
    BY <1>0, <1>1, <2>1, RowwiseVisible DEF Push
<1>2. ASSUME NEW c \in Clients, TrashStamp(c) PROVE KeepsVisiblePath
  BY <1>0, <1>2, RowwiseVisible DEF TrashStamp
<1>3. ASSUME NEW p \in Paths, TrashPath(p) PROVE KeepsVisiblePath
  BY <1>0, <1>3, RowwiseVisible DEF TrashPath
<1>4. ASSUME NEW f \in FileIds, NEW p \in Paths, Restore(f, p) PROVE KeepsVisiblePath
  <2>1. is_live(restore_file(files[f], p))
    BY <1>4, RestoreGood DEF Restore, IInv, GoodFiles
  <2> QED
    BY <1>0, <1>4, <2>1, RowwiseVisible DEF Restore
<1>5. ASSUME NEW S, Forget(S) PROVE KeepsVisiblePath
  BY <1>0, <1>5, RowwiseVisible DEF Forget
<1>6. ASSUME NEW from \in Paths, NEW to \in Paths, Rename(from, to) PROVE KeepsVisiblePath
  <2>1. RenamedRows(from) \subseteq LiveRows
    BY GetFile DEF IInv, RenamedRows, files_under
  <2>2. \A f \in Rows : IF f \in RenamedRows(from)
                        THEN files'[f] = [files[f] EXCEPT !.path = Rebase(from, to, @)]
                        ELSE files'[f] = files[f]
    BY <1>0, <1>6 DEF Rename
  <2>3. \A f \in RenamedRows(from) : is_live(files[f]) /\ files[f] \in Row
    BY <2>1 DEF LiveRows, IInv, GoodFiles, GoodRow
  <2>4. \A f \in Rows : is_live(files'[f]) \/ files'[f] = files[f]
    BY <2>2, <2>3 DEF is_live, Row
  <2> QED
    BY <2>4, RowwiseVisible
<1>7. ASSUME files' = files PROVE KeepsVisiblePath
  BY <1>7, RowwiseVisible
<1> QED
  BY <1>1, <1>2, <1>3, <1>4, <1>5, <1>6, <1>7
  DEF Next, TrashRead, Purge, EmptyTrash, mkdir, PurgeRetired, Tick, vars

(* A retired row keeps the path its user knows, through every retirement. *)
THEOREM VisiblePathsKept == Spec => VisiblePathKept
<1>1. IInv /\ [Next]_vars => [KeepsVisiblePath]_vars
  BY NextVisible
<1> QED
  BY <1>1, Invariance, PTL DEF Spec, VisiblePathKept, KeepsVisiblePath
-----------------------------------------------------------------------------
(* The manifest implements the user's tree *)

(* get_file_by_path, as the abstract tree reads it. *)
TreeFacts ==
    \A p \in Paths :
        /\ get_file_by_path(p) \in FileIds \cup {None}
        /\ \A f \in FileIds : get_file_by_path(p) = f <=> f \in LiveRows /\ files[f].path = p

(* With one live row per path, the tree holds exactly the live rows. *)
LEMMA TreeCharacterised == LiveDistinct => TreeFacts
BY GetFile, NoneIsNoFile DEF TreeFacts, LiveRows, Rows

(* The empty manifest maps to the empty tree. *)
LEMMA InitTree == Init => Tree!Init
<1> SUFFICES ASSUME Init
             PROVE  Tree!Init
  OBVIOUS
<1>1. Rows = {} /\ LiveRows = {}
  BY DEF Init, Rows, LiveRows
<1>2. \A p \in Paths : get_file_by_path(p) = None
  BY <1>1 DEF get_file_by_path
<1> QED
  BY <1>1, <1>2 DEF Init, Tree!Init

(* What a step that makes f live on p does to the abstract tree. *)
LEMMA OccupyingTree ==
    ASSUME IInv, TreeFacts, TreeFacts', NEW p \in Paths, NEW f \in FileIds, NEW r,
           f \notin LiveRows, GoodRow(f, r), is_live(r), r.path = p,
           files' = [g \in FileIds |->
                        IF g = f THEN r
                        ELSE IF g = get_file_by_path(p) THEN supersede_file(g, files[g])
                        ELSE files[g]]
    PROVE  /\ get_file_by_path(p)' = f
           /\ \A q \in Paths \ {p} : get_file_by_path(q)' = get_file_by_path(q)
           /\ (Rows \ LiveRows)' = ((Rows \ LiveRows) \ {f}) \cup ({get_file_by_path(p)} \ {None})
<1> DEFINE prev == get_file_by_path(p)
<1>1. prev \in FileIds \cup {None} /\ LiveRows \subseteq Rows /\ Rows \subseteq FileIds
  BY DEF TreeFacts, Rows, LiveRows
<1>2. prev # None => prev \in LiveRows /\ prev # f /\ files[prev].path = p
  BY <1>1 DEF TreeFacts
<1>3. files'[f] = r /\ r # None
  BY RowAssumption DEF GoodRow
<1>4. prev # None => ~is_live(files'[prev]) /\ files'[prev] # None
  <2>1. prev # None => files'[prev] = supersede_file(prev, files[prev])
    BY <1>1, <1>2
  <2> QED
    BY <1>1, <1>2, <2>1, SupersedeGood, RowAssumption DEF IInv, TypeOK, GoodFiles, GoodRow
<1>5. \A g \in FileIds : g # f /\ g # prev => files'[g] = files[g]
  OBVIOUS
<1> HIDE DEF prev
<1>6. ASSUME NEW g \in FileIds
      PROVE  /\ files'[g] # None <=> g \in Rows \/ g = f
             /\ files'[g] # None /\ is_live(files'[g]) <=> (g \in LiveRows /\ g # prev) \/ g = f
  <2>1. CASE g = f
    BY <1>3, <2>1
  <2>2. CASE g = prev
    BY <1>1, <1>2, <1>4, <2>2, NoneIsNoFile DEF Rows
  <2>3. CASE g # f /\ g # prev
    BY <1>5, <2>3 DEF Rows, LiveRows
  <2> QED
    BY <2>1, <2>2, <2>3
<1>7. Rows' = Rows \cup {f}
  BY <1>1, <1>6 DEF Rows
<1>8. LiveRows' = (LiveRows \ {prev}) \cup {f}
  <2>1. LiveRows' = {g \in FileIds : files'[g] # None /\ is_live(files'[g])}
    BY DEF LiveRows, Rows, is_live
  <2> QED
    BY <1>1, <1>6, <2>1
<1>9. get_file_by_path(p)' = f
  BY <1>3, <1>8 DEF TreeFacts
<1>10. ASSUME NEW q \in Paths \ {p}
       PROVE  get_file_by_path(q)' = get_file_by_path(q)
  <2>1. \A g \in FileIds : get_file_by_path(q)' = g <=> get_file_by_path(q) = g
    BY <1>1, <1>2, <1>3, <1>5, <1>8 DEF TreeFacts
  <2> QED
    BY <2>1, NoneIsNoFile DEF TreeFacts
<1>11. (Rows \ LiveRows)' = ((Rows \ LiveRows) \ {f}) \cup ({prev} \ {None})
  BY <1>1, <1>2, <1>7, <1>8, NoneIsNoFile
<1> QED
  BY <1>9, <1>10, <1>11 DEF prev

(* push is a write of the tree. *)
LEMMA PushTree ==
    ASSUME IInv, TreeFacts, TreeFacts', NEW p \in Paths, Push(p)
    PROVE  Tree!Next
<1> DEFINE f == minted + 1
           prev == get_file_by_path(p)
           lineage == IF prev = None THEN f ELSE files[prev].lineage
<1>1. f \in FileIds /\ minted' = f /\ minted \in Nat /\ files[f] = None
  BY DEF Push, IInv, TypeOK, Fresh
<1>2. f \notin Rows /\ f \notin LiveRows
  BY <1>1 DEF Rows, LiveRows
<1>3. lineage \in FileIds
  BY <1>1 DEF IInv, GoodFiles, GoodRow, Row, LiveRows, TreeFacts
<1>4. GoodRow(f, NewRow(f, p, lineage)) /\ is_live(NewRow(f, p, lineage))
        /\ NewRow(f, p, lineage).path = p
  BY <1>1, <1>3, NewRowGood
<1>5. files' = [g \in FileIds |->
                   IF g = f THEN NewRow(f, p, lineage)
                   ELSE IF g = prev THEN supersede_file(g, files[g])
                   ELSE files[g]]
  BY DEF Push
<1>6. (1 .. minted)' = (1 .. minted) \cup {f} /\ f \notin 1 .. minted
  BY <1>1
<1> HIDE DEF f, lineage
<1>7. /\ get_file_by_path(p)' = f
      /\ \A q \in Paths \ {p} : get_file_by_path(q)' = get_file_by_path(q)
      /\ (Rows \ LiveRows)' = ((Rows \ LiveRows) \ {f}) \cup ({prev} \ {None})
  BY <1>1, <1>2, <1>4, <1>5, OccupyingTree
<1>8. Tree!Write(p, f)
  BY <1>2, <1>6, <1>7 DEF Tree!Write
<1> QED
  BY <1>1, <1>8 DEF Tree!Next

(* restore brings a retained file back into the tree. *)
LEMMA RestoreTree ==
    ASSUME IInv, TreeFacts, TreeFacts', NEW f \in FileIds, NEW p \in Paths, Restore(f, p)
    PROVE  Tree!Next
<1>1. f \in Rows /\ f \notin LiveRows /\ GoodRow(f, files[f]) /\ minted' = minted
  BY DEF Restore, IInv, GoodFiles
<1>2. GoodRow(f, restore_file(files[f], p)) /\ is_live(restore_file(files[f], p))
        /\ restore_file(files[f], p).path = p
  BY <1>1, RestoreGood
<1>3. files' = [g \in FileIds |->
                   IF g = f THEN restore_file(files[f], p)
                   ELSE IF g = get_file_by_path(p) THEN supersede_file(g, files[g])
                   ELSE files[g]]
  BY DEF Restore
<1>4. /\ get_file_by_path(p)' = f
      /\ \A q \in Paths \ {p} : get_file_by_path(q)' = get_file_by_path(q)
      /\ (Rows \ LiveRows)' = ((Rows \ LiveRows) \ {f}) \cup ({get_file_by_path(p)} \ {None})
  BY <1>1, <1>2, <1>3, OccupyingTree
<1>5. Tree!Bring(f, p)
  BY <1>1, <1>4 DEF Tree!Bring
<1> QED
  BY <1>5 DEF Tree!Next

(* What a step that retires or deletes rows does to the abstract tree: the *)
(* rows of D leave it.                                                      *)
LEMMA LeavingTree ==
    ASSUME TreeFacts, TreeFacts', NEW D,
           \A f \in LiveRows : f \notin D => f \in LiveRows' /\ files'[f] = files[f],
           \A f \in LiveRows' : f \in LiveRows /\ f \notin D /\ files'[f] = files[f]
    PROVE  \A q \in Paths : get_file_by_path(q)' =
                IF get_file_by_path(q) \in D THEN None ELSE get_file_by_path(q)
<1> SUFFICES ASSUME NEW q \in Paths
             PROVE  get_file_by_path(q)' =
                        IF get_file_by_path(q) \in D THEN None ELSE get_file_by_path(q)
  OBVIOUS
<1>1. get_file_by_path(q) \in FileIds \cup {None} /\ get_file_by_path(q)' \in FileIds \cup {None}
  BY DEF TreeFacts
<1>2. \A f \in FileIds : get_file_by_path(q)' = f <=> get_file_by_path(q) = f /\ f \notin D
  BY DEF TreeFacts
<1> QED
  BY <1>1, <1>2, NoneIsNoFile
(* Retiring the rows of D removes the live ones of them from the tree. *)
LEMMA RetiringTree ==
    ASSUME TreeFacts, TreeFacts', GoodFiles, minted' = minted, NEW D, D \subseteq Rows,
           \A f \in D : files'[f] # None /\ ~is_live(files'[f]),
           \A f \in FileIds : f \notin D => files'[f] = files[f]
    PROVE  Tree!Next
<1> DEFINE L == D \cap LiveRows
           P == {files[f].path : f \in L}
<1>1. LiveRows \subseteq Rows /\ Rows \subseteq FileIds
  BY DEF Rows, LiveRows
<1>2. Rows' = Rows
  BY <1>1 DEF Rows
<1>3. LiveRows' = LiveRows \ D
  BY <1>1 DEF Rows, LiveRows
<1>4. \A q \in Paths : get_file_by_path(q)' =
            IF get_file_by_path(q) \in D THEN None ELSE get_file_by_path(q)
  BY <1>1, <1>3, LeavingTree
<1>5. \A f \in L : f \in FileIds /\ files[f].path \in Paths /\ get_file_by_path(files[f].path) = f
  BY <1>1 DEF TreeFacts, GoodFiles, GoodRow, LiveRows
<1>6. P \subseteq Paths
  BY <1>5
<1>7. \A q \in Paths : q \in P <=> get_file_by_path(q) \in D
  <2> SUFFICES ASSUME NEW q \in Paths
               PROVE  q \in P <=> get_file_by_path(q) \in D
    OBVIOUS
  <2>1. ASSUME q \in P PROVE get_file_by_path(q) \in D
    BY <1>5, <2>1
  <2>2. ASSUME get_file_by_path(q) \in D PROVE q \in P
    BY <1>1, <2>2 DEF TreeFacts
  <2> QED
    BY <2>1, <2>2
<1>8. {get_file_by_path(q) : q \in P} \ {None} = L
  BY <1>1, <1>5, NoneIsNoFile
<1>9. (Rows \ LiveRows)' = (Rows \ LiveRows) \cup L
  BY <1>1, <1>2, <1>3
<1>10. {[p \in Paths |-> get_file_by_path(p)][q] : q \in P} = {get_file_by_path(q) : q \in P}
  BY <1>6
<1> HIDE DEF L, P
<1>11. Tree!Remove(P)
  BY <1>4, <1>6, <1>7, <1>8, <1>9, <1>10 DEF Tree!Remove
<1> QED
  BY <1>6, <1>11 DEF Tree!Next

(* The stamp of trash removes one file from the tree, or none. *)
LEMMA TrashStampTree ==
    ASSUME IInv, TreeFacts, TreeFacts', NEW c \in Clients, TrashStamp(c)
    PROVE  Tree!Next
<1> DEFINE f == trashing[c]
           D == {f} \cap Rows
<1>1. Rows \subseteq FileIds /\ now \in Time /\ files = [g \in FileIds |-> files[g]]
  BY DEF Rows, IInv, TypeOK
<1>2. f \in Rows => /\ files' = [files EXCEPT ![f] = trash_file(f, files[f])]
                   /\ ~is_live(trash_file(f, files[f]))
                   /\ trash_file(f, files[f]) # None
  BY <1>1, TrashGood, RowAssumption DEF TrashStamp, IInv, GoodFiles, GoodRow
<1>3. f \notin Rows => files' = files
  BY DEF TrashStamp
<1>4. minted' = minted /\ GoodFiles
  BY DEF TrashStamp, IInv
<1>5. \A g \in D : files'[g] # None /\ ~is_live(files'[g])
  BY <1>1, <1>2
<1>6. \A g \in FileIds : g \notin D => files'[g] = files[g]
  BY <1>1, <1>2, <1>3
<1> HIDE DEF D
<1> QED
  BY <1>4, <1>5, <1>6, RetiringTree DEF D

(* trash_path removes files from the tree. *)
LEMMA TrashPathTree ==
    ASSUME IInv, TreeFacts, TreeFacts', NEW p \in Paths, TrashPath(p)
    PROVE  Tree!Next
<1> DEFINE file == get_file_by_path(p)
           D == IF file # None THEN {file} ELSE files_under(p)
<1>1. D \subseteq Rows /\ Rows \subseteq FileIds
  BY GetFile DEF IInv, files_under, LiveRows, Rows
<1>2. files' = [f \in FileIds |-> IF f \in D THEN trash_file(f, files[f]) ELSE files[f]]
  BY DEF TrashPath
<1>3. minted' = minted /\ GoodFiles
  BY DEF TrashPath, IInv
<1> HIDE DEF D
<1>4. \A f \in D : files'[f] # None /\ ~is_live(files'[f])
  BY <1>1, <1>2, TrashGood, RowAssumption DEF IInv, TypeOK, GoodFiles, GoodRow
<1>5. \A f \in FileIds : f \notin D => files'[f] = files[f]
  BY <1>2
<1> QED
  BY <1>1, <1>3, <1>4, <1>5, RetiringTree

(* Deleting retired rows takes nothing out of the tree. *)
LEMMA ForgetTree ==
    ASSUME TreeFacts, TreeFacts', NEW S, S \subseteq Rows \ LiveRows, Forget(S), minted' = minted
    PROVE  Tree!Next
<1>1. LiveRows \subseteq Rows /\ Rows \subseteq FileIds
  BY DEF Rows, LiveRows
<1>2. \A f \in FileIds : files'[f] = IF f \in S THEN None ELSE files[f]
  BY DEF Forget
<1>3. Rows' = Rows \ S /\ LiveRows' = LiveRows
  BY <1>1, <1>2 DEF Rows, LiveRows
<1>4. \A q \in Paths : get_file_by_path(q)' = get_file_by_path(q)
  <2> DEFINE D == {}
  <2>1. /\ \A f \in LiveRows : f \notin D => f \in LiveRows' /\ files'[f] = files[f]
        /\ \A f \in LiveRows' : f \in LiveRows /\ f \notin D /\ files'[f] = files[f]
    BY <1>1, <1>2, <1>3
  <2>2. \A q : q \notin D
    OBVIOUS
  <2> HIDE DEF D
  <2>3. \A q \in Paths : get_file_by_path(q)' =
            IF get_file_by_path(q) \in D THEN None ELSE get_file_by_path(q)
    BY <2>1, LeavingTree
  <2> QED
    BY <2>2, <2>3
<1>5. (Rows \ LiveRows)' = (Rows \ LiveRows) \ S
  BY <1>3
<1>6. Tree!Forget(S)
  BY <1>4, <1>5 DEF Tree!Forget
<1> QED
  BY <1>6 DEF Tree!Next

(* purge_file destroys a file of the tree or a retained one. *)
LEMMA PurgeTree ==
    ASSUME TreeFacts, TreeFacts', GoodFiles, NEW f \in FileIds, Purge(f)
    PROVE  Tree!Next
<1>1. LiveRows \subseteq Rows /\ Rows \subseteq FileIds /\ f \in Rows /\ minted' = minted
  BY DEF Rows, LiveRows, Purge
<1>2. \A g \in FileIds : files'[g] = IF g = f THEN None ELSE files[g]
  BY DEF Purge, Forget
<1>3. Rows' = Rows \ {f} /\ LiveRows' = LiveRows \ {f}
  BY <1>1, <1>2 DEF Rows, LiveRows
<1>4. \A q \in Paths : get_file_by_path(q)' =
            IF get_file_by_path(q) \in {f} THEN None ELSE get_file_by_path(q)
  BY <1>1, <1>2, <1>3, LeavingTree
<1>5. f \in LiveRows => files[f].path \in Paths /\ get_file_by_path(files[f].path) = f
  BY DEF TreeFacts, GoodFiles, GoodRow, LiveRows
<1>6. f \in ({[p \in Paths |-> get_file_by_path(p)][q] : q \in Paths} \ {None}) \cup (Rows \ LiveRows)
  <2>1. CASE f \in LiveRows
    <3>1. [p \in Paths |-> get_file_by_path(p)][files[f].path] = f
      BY <1>5, <2>1
    <3> QED
      BY <1>5, <2>1, <3>1, NoneIsNoFile
  <2> QED
    BY <1>1, <2>1
<1>7. (Rows \ LiveRows)' = (Rows \ LiveRows) \ {f}
  BY <1>3
<1>8. Tree!Destroy(f)
  BY <1>1, <1>4, <1>6, <1>7 DEF Tree!Destroy, Tree!Visible
<1> QED
  BY <1>8 DEF Tree!Next
(* The files a user sees are the live rows. *)
LEMMA VisibleIsLive ==
    GoodFiles /\ TreeFacts =>
        {[p \in Paths |-> get_file_by_path(p)][q] : q \in Paths} \ {None} = LiveRows
<1> SUFFICES ASSUME GoodFiles, TreeFacts
             PROVE  {[p \in Paths |-> get_file_by_path(p)][q] : q \in Paths} \ {None} = LiveRows
  OBVIOUS
<1>1. LiveRows \subseteq FileIds
  BY DEF Rows, LiveRows
<1>2. \A f \in LiveRows : files[f].path \in Paths /\ get_file_by_path(files[f].path) = f /\ f # None
  BY <1>1, NoneIsNoFile DEF TreeFacts, GoodFiles, GoodRow, LiveRows
<1>3. \A q \in Paths : get_file_by_path(q) # None => get_file_by_path(q) \in LiveRows
  BY DEF TreeFacts
<1>4. {[p \in Paths |-> get_file_by_path(p)][q] : q \in Paths} = {get_file_by_path(q) : q \in Paths}
  OBVIOUS
<1> QED
  BY <1>2, <1>3, <1>4

(* rename moves files of the tree without hiding one. *)
LEMMA RenameTree ==
    ASSUME IInv, TreeFacts, TreeFacts', GoodFiles', NEW from \in Paths, NEW to \in Paths, Rename(from, to)
    PROVE  Tree!Next
<1> DEFINE moved == RenamedRows(from)
           tree == [p \in Paths |-> get_file_by_path(p)]
<1>1. moved \subseteq LiveRows /\ LiveRows \subseteq Rows /\ Rows \subseteq FileIds
  BY GetFile DEF IInv, RenamedRows, files_under, LiveRows, Rows
<1>2. \A f \in FileIds : files'[f] = IF f \in moved
                                   THEN [files[f] EXCEPT !.path = Rebase(from, to, @)] ELSE files[f]
  BY DEF Rename
<1>3. \A f \in moved : files[f] \in Row /\ is_live(files[f]) /\ Rebase(from, to, files[f].path) \in Paths
  BY <1>1 DEF IInv, GoodFiles, GoodRow, LiveRows, Rename
<1> HIDE DEF moved
<1>4. \A f \in moved : files'[f] # None /\ is_live(files'[f])
  <2> SUFFICES ASSUME NEW f \in moved
               PROVE  files'[f] # None /\ is_live(files'[f])
    OBVIOUS
  <2>1. files'[f] = [files[f] EXCEPT !.path = Rebase(from, to, files[f].path)]
    BY <1>1, <1>2
  <2>2. files'[f] \in Row /\ is_live(files'[f])
    BY <1>3, <2>1 DEF Row, is_live
  <2> QED
    BY <2>2, RowAssumption
<1>5. Rows' = Rows /\ LiveRows' = LiveRows
  BY <1>1, <1>2, <1>4 DEF Rows, LiveRows
<1>6. {tree[q] : q \in Paths} \ {None} = LiveRows
  BY VisibleIsLive DEF IInv
<1>7. {tree'[q] : q \in Paths} \ {None} = LiveRows
  <2>1. ({[p \in Paths |-> get_file_by_path(p)][q] : q \in Paths} \ {None} = LiveRows)'
    BY VisibleIsLive, PTL
  <2> QED
    BY <1>5, <2>1
<1>8. tree' \in [Paths -> LiveRows \cup {None}]
  BY <1>5 DEF TreeFacts
<1>9. \A p, q \in Paths : p # q /\ tree'[p] = tree'[q] => tree'[p] = None
  BY DEF TreeFacts
<1>10. minted' = minted
  BY DEF Rename
<1> HIDE DEF tree
<1>11. Tree!Move
  BY <1>5, <1>6, <1>7, <1>8, <1>9, <1>10 DEF Tree!Move, Tree!Visible, tree
<1> QED
  BY <1>11 DEF Tree!Next
(* Steps the user's tree does not see. *)
LEMMA UnseenTree ==
    ASSUME files' = files, minted' = minted
    PROVE  UNCHANGED Tree!tvars
BY DEF Tree!tvars, get_file_by_path, Rows, LiveRows, is_live

(* empty_trash and the retention sweep choose retired rows only. *)
LEMMA RetiredOnly ==
    ASSUME IInv
    PROVE  Trashed \subseteq Rows \ LiveRows /\ Candidates \subseteq Rows \ LiveRows
<1>1. Trashed \subseteq Rows \ LiveRows /\ Superseded \subseteq Rows \ LiveRows
  BY DEF Trashed, Superseded, LiveRows, is_live
<1> QED
  BY <1>1 DEF Candidates, trashed_before, superseded_before, superseded_beyond, superseded_orphans

(* Every step of the manifest is a step of the tree, or leaves it alone. *)
LEMMA NextTree ==
    ASSUME IInv, IInv', TreeFacts, TreeFacts', [Next]_vars
    PROVE  [Tree!Next]_(Tree!tvars)
<1>0. GoodFiles /\ GoodFiles'
  BY DEF IInv
<1>1. ASSUME NEW p \in Paths, Push(p) PROVE Tree!Next
  BY <1>1, PushTree
<1>2. ASSUME NEW c \in Clients, TrashStamp(c) PROVE Tree!Next
  BY <1>2, TrashStampTree
<1>3. ASSUME NEW p \in Paths, TrashPath(p) PROVE Tree!Next
  BY <1>3, TrashPathTree
<1>4. ASSUME NEW f \in FileIds, NEW p \in Paths, Restore(f, p) PROVE Tree!Next
  BY <1>4, RestoreTree
<1>5. ASSUME NEW f \in FileIds, Purge(f) PROVE Tree!Next
  BY <1>0, <1>5, PurgeTree
<1>6. ASSUME EmptyTrash \/ PurgeRetired PROVE Tree!Next
  BY <1>6, RetiredOnly, ForgetTree DEF EmptyTrash, PurgeRetired
<1>7. ASSUME NEW from \in Paths, NEW to \in Paths, Rename(from, to) PROVE Tree!Next
  BY <1>0, <1>7, RenameTree
<1>8. ASSUME \/ \E c \in Clients, f \in FileIds : TrashRead(c, f)
             \/ \E p \in Paths : mkdir(p)
             \/ Tick
             \/ UNCHANGED vars
      PROVE  UNCHANGED Tree!tvars
  BY <1>8, UnseenTree DEF TrashRead, mkdir, Tick, vars
<1> QED
  BY <1>1, <1>2, <1>3, <1>4, <1>5, <1>6, <1>7, <1>8 DEF Next

(* The manifest implements the user's tree: what an operation takes out of  *)
(* sight is retained, and only an explicit permanent delete destroys a file *)
(* the user still sees.                                                     *)
THEOREM Refinement == Spec => ImplementsTree
<1>1. IInv => TreeFacts
  BY TreeCharacterised DEF IInv
<1>2. IInv /\ IInv' /\ TreeFacts /\ TreeFacts' /\ [Next]_vars => [Tree!Next]_(Tree!tvars)
  BY NextTree
<1> QED
  BY <1>1, <1>2, InitTree, Invariance, PTL DEF Spec, ImplementsTree, Tree!Spec
=============================================================================
