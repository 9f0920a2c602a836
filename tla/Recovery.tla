------------------------------ MODULE Recovery ------------------------------
(***************************************************************************)
(* How a node gets its manifest back (server/src/manifest_backup.rs,       *)
(* store/src/backup.rs, store/src/identity.rs): the daily backup to peers, *)
(* the restore from them, the cold bundle, and the start-up that loads or  *)
(* creates the identity, with crashes, lost disks and lost answers.        *)
(*                                                                         *)
(* A manifest is its key and a number for its content, 0 for no files.     *)
(* Every build of a backup is a blob of its own (VACUUM INTO draws a fresh *)
(* salt).  Fragment ids are (peer_id, version, index), and peer_id comes   *)
(* from the identity.  One administrator request runs at a time, beside    *)
(* the worker's backup pass and the users' uploads.                        *)
(***************************************************************************)
EXTENDS Integers, Sequences, FiniteSets, SequencesExt

CONSTANTS
    Peers,          \* peer ids, in their sort order
    Data, Total, Unreadable,
    Keep,           \* KEEP_VERSIONS
    Depth,          \* SWEEP_DEPTH
    Lookback,       \* lookback_days
    RestoreFirst,   \* a replacement node is restored before its first backup
    Quiet,          \* no upload between a restore's check and its write
    MaxDay, MaxBlobs, MaxEdits, MaxIds, MaxFaults,   \* bounds
    Torn,           \* an identity.key that was created and not written
    None

ASSUME RecoveryAssumption ==
    /\ Peers \subseteq Nat
    /\ Keep \in Nat /\ Depth \in Nat /\ Lookback \in Nat
    /\ RestoreFirst \in BOOLEAN /\ Quiet \in BOOLEAN
    /\ MaxDay \in Nat /\ MaxBlobs \in Nat /\ MaxEdits \in Nat
    /\ MaxIds \in Nat \ {0} /\ MaxFaults \in Nat
    /\ None \notin Nat /\ Torn \notin Nat /\ Unreadable \notin Nat /\ Torn # None

INSTANCE BackupShards

Ids == 1 .. MaxIds
Days == 0 .. MaxDay

VARIABLES
    day,       \* manifest_backup_version_now
    man,       \* manifest.db: its key and content, or None
    key_file,  \* identity.key: an identity, None or Torn
    proc,      \* the identity the running process loaded, None when it is down
    ids,       \* identities generated
    edits,     \* contents the manifest has had
    bundle,    \* the cold bundle the administrator downloaded, or None (bound: one)
    blobs,     \* the backups built
    held,      \* backup shards on the peers
    events,    \* `manifest_backup` events: the version, and (history) whose it was
    pass,      \* the backup pass
    adm,       \* the administrator's request
    faults,    \* crashes, lost disks, lost answers, failed statements
    safe       \* history: identities that once had files in a recoverable backup

disk == <<man, key_file, proc, ids, edits, bundle>>
network == <<blobs, held, events>>
vars == <<day, disk, network, pass, adm, faults, safe>>

Manifest == [key: Ids, content: 0 .. MaxEdits]
Blob == [id: Ids, version: Days, content: 0 .. MaxEdits]
Shard == [peer: Peers, id: Ids, version: Days, index: Indexes, blob: 1 .. MaxBlobs]
Pass == [op: {"idle", "place"}, version: Days, peers: Seq(Peers),
         blob: 0 .. MaxBlobs, next: 0 .. Total, placed: 0 .. Total]
NoPass == [op |-> "idle", version |-> 0, peers |-> <<>>, blob |-> 0, next |-> 0, placed |-> 0]

(* `v` is the version being tried and `oldest` the last one to try. *)
Admin == [op: {"idle", "import", "manifest", "removed", "created", "scan", "check", "write"},
          v: Days, oldest: Days, blob: 0 .. MaxBlobs]
NoAdmin == [op |-> "idle", v |-> 0, oldest |-> 0, blob |-> 0]

(* Manifest::connect with the process's key. *)
Opens == proc # None /\ man # None /\ man.key = proc
HoldsFiles == Opens /\ man.content > 0

(* Backups and bundles made; MaxBlobs bounds them together. *)
Copied == Len(blobs) + IF bundle = None THEN 0 ELSE 1

(* A new node, or the replacement of a lost one that exported a bundle. *)
Init ==
    /\ day = 0
    /\ \/ ids = 1 /\ edits = 0 /\ bundle = None
       \/ ids = 2 /\ edits = 1 /\ bundle = [key |-> 1, man |-> [key |-> 1, content |-> 1]]
    /\ man = [key |-> ids, content |-> 0]
    /\ key_file = ids /\ proc = ids
    /\ blobs = <<>> /\ held = {} /\ events = {}
    /\ pass = NoPass /\ adm = NoAdmin
    /\ faults = 0 /\ safe = {}

-----------------------------------------------------------------------------
(* The world: uploads, days, crashes, lost disks, start-up *)

(* An upload commits to the manifest. *)
Upload ==
    /\ Opens
    /\ edits < MaxEdits
    /\ Quiet => adm.op \notin {"import", "write"}
    /\ edits' = edits + 1
    /\ man' = [man EXCEPT !.content = edits + 1]
    /\ UNCHANGED <<day, key_file, proc, ids, bundle, network, pass, adm, faults, safe>>

Midnight ==
    /\ day < MaxDay
    /\ day' = day + 1
    /\ UNCHANGED <<disk, network, pass, adm, faults, safe>>

(* The process dies. *)
Crash ==
    /\ proc # None
    /\ faults < MaxFaults
    /\ faults' = faults + 1
    /\ proc' = None
    /\ pass' = NoPass /\ adm' = NoAdmin
    /\ UNCHANGED <<day, man, key_file, ids, edits, bundle, network, safe>>

(* "restart the module": after an import, to load the identity. *)
Restart ==
    /\ proc # None /\ key_file \in Ids \ {proc}
    /\ adm.op = "idle"
    /\ proc' = None
    /\ pass' = NoPass
    /\ UNCHANGED <<day, man, key_file, ids, edits, bundle, network, adm, faults, safe>>

(* The disk is lost and the machine replaced: identity.key may have been kept *)
(* elsewhere, and the control plane may have survived.                        *)
Disaster ==
    /\ faults < MaxFaults
    /\ faults' = faults + 1
    /\ man' = None /\ proc' = None
    /\ key_file' \in {key_file, None}
    /\ events' \in {events, {}}
    /\ pass' = NoPass /\ adm' = NoAdmin
    /\ UNCHANGED <<day, ids, edits, bundle, blobs, held, safe>>

(* NodeIdentity::load_or_create; an ill-sized key file stops the start-up. *)
(* The first connect creates a manifest that is not there.                 *)
Start ==
    /\ proc = None
    /\ \/ key_file \in Ids /\ proc' = key_file /\ UNCHANGED <<key_file, ids>>
       \/ /\ key_file = None /\ ids < MaxIds
          /\ ids' = ids + 1
          /\ key_file' = ids + 1 /\ proc' = ids + 1
    /\ man' = IF man = None THEN [key |-> proc', content |-> 0] ELSE man
    /\ UNCHANGED <<day, edits, bundle, network, pass, adm, faults, safe>>

-----------------------------------------------------------------------------
(* The daily backup: run_backup *)

(* Today's version is recorded, by whichever identity. *)
already_placed == \E e \in events : e[2] = day

(* The peers that may answer a ping; with none the pass ends. *)
reachable_peers == (SUBSET Peers) \ {{}}

(* The manifest snapshotted and sealed. *)
build_manifest_backup == [id |-> proc, version |-> day, content |-> man.content]

(* Unless today's version is recorded (a failed read counts as "not            *)
(* recorded"), a backup is built and erasure-coded for the peers that answer.  *)
(* A manifest that does not open ends the pass with an error.                  *)
BackupBegin(reachable) ==
    /\ Opens
    /\ pass.op = "idle"
    /\ RestoreFirst => (man.content > 0 \/ edits = 0)
    /\ already_placed => faults < MaxFaults
    /\ faults' = IF already_placed THEN faults + 1 ELSE faults
    /\ Copied < MaxBlobs
    /\ blobs' = Append(blobs, build_manifest_backup)
    /\ pass' = [op |-> "place", version |-> day, peers |-> SetToSortSeq(reachable, <),
                blob |-> Len(blobs) + 1, next |-> 0, placed |-> 0]
    /\ UNCHANGED <<day, disk, held, events, adm, safe>>

(* Round-robin; a StoreShard of the same id replaces the shard on that peer. *)
Target == pass.peers[(pass.next % Len(pass.peers)) + 1]
Stored ==
    {s \in held : ~(s.peer = Target /\ s.id = proc
                    /\ s.version = pass.version /\ s.index = pass.next)}
    \cup {[peer |-> Target, id |-> proc, version |-> pass.version,
           index |-> pass.next, blob |-> pass.blob]}

(* The loop over the shards. *)
ShardLeft == pass.next < Total

(* place: the shard is stored and acknowledged, stored without the answer    *)
(* getting back, or refused.                                                 *)
PlaceShard ==
    /\ pass.op = "place"
    /\ ShardLeft
    /\ \/ held' = Stored /\ pass' = [pass EXCEPT !.next = @ + 1, !.placed = @ + 1]
          /\ UNCHANGED faults
       \/ held' = Stored /\ pass' = [pass EXCEPT !.next = @ + 1]
          /\ faults < MaxFaults /\ faults' = faults + 1
       \/ pass' = [pass EXCEPT !.next = @ + 1] /\ UNCHANGED <<held, faults>>
    /\ UNCHANGED <<day, disk, blobs, events, adm, safe>>

(* Faulty variant: the window keeps one version less. *)
Stale_early(current) == {v \in Days : v <= current - Keep + 1 /\ v >= current - Keep - Depth}

(* The versions sweep_old_versions asks the reachable peers to drop. *)
Stale(current) == {v \in Days : v <= current - Keep /\ v >= current - Keep - Depth}

(* Faulty variant: one acknowledgement too few counts as recoverable. *)
Recoverable_early(placed) == placed >= Data - 1

Recoverable(placed) == placed >= Data

(* What is left on the peers when these of them have answered the deletes. *)
sweep_old_versions(answering) ==
    held \ {s \in held : s.id = proc /\ s.version \in Stale(pass.version) /\ s.peer \in answering}

(* The event is recorded, or the insert fails and is logged. *)
emit ==
    \/ events' = events \cup {<<proc, pass.version>>} /\ UNCHANGED faults
    \/ faults < MaxFaults /\ faults' = faults + 1 /\ UNCHANGED events

(* The end of the pass: record the version, then sweep. *)
BackupEnd ==
    /\ pass.op = "place"
    /\ pass.next = Total
    /\ IF Recoverable(pass.placed)
       THEN /\ emit
            /\ \E answering \in SUBSET Range(pass.peers) : held' = sweep_old_versions(answering)
       ELSE UNCHANGED <<events, faults, held>>
    /\ safe' = IF Recoverable(pass.placed) /\ blobs[pass.blob].content > 0
               THEN safe \cup {proc} ELSE safe
    /\ pass' = NoPass
    /\ UNCHANGED <<day, disk, blobs, adm>>

-----------------------------------------------------------------------------
(* The restore from peers: restore *)

(* Faulty variant: a manifest that does not open is taken for a live one. *)
Fresh_strict == Opens /\ man.content = 0

(* Faulty variant: no check. *)
Fresh_unchecked == TRUE

(* ensure_fresh_node: a manifest that cannot be opened counts as empty. *)
Fresh == ~HoldsFiles

(* The newest `Lookback` versions, or one that is pinned. *)
RestoreBegin(oldest, v) ==
    /\ proc # None /\ adm.op = "idle"
    /\ Fresh
    /\ v <= day
    /\ \/ v = day /\ oldest = Max({0, day - Lookback})
       \/ oldest = v
    /\ adm' = [NoAdmin EXCEPT !.op = "scan", !.v = v, !.oldest = oldest]
    /\ UNCHANGED <<day, disk, network, pass, faults, safe>>

(* Faulty variant: fragment_id leaves the version out. *)
Copies_any_day(id, v) == {s \in held : s.id = id}

(* probe_version keeps one host per index, and some of them answer. *)
Copies(id, v) == {s \in held : s.id = id /\ s.version = v}
OnePerIndex(S) == \A s, t \in S : s.index = t.index => s = t
probe_version(id, v) == {S \in SUBSET Copies(id, v) : OnePerIndex(S)}
fetch_and_open(order) ==
    reassemble([n \in DOMAIN order |-> Envelope(order[n].index, order[n].blob)])

(* The next candidate: rebuilt and opened, or else an older one. *)
RestoreScan(answers) ==
    /\ adm.op = "scan"
    /\ \E order \in SetToSeqs(answers) :
          LET blob == fetch_and_open(order)
          IN  adm' = IF blob # Unreadable THEN [adm EXCEPT !.op = "check", !.blob = blob]
                     ELSE IF adm.v > adm.oldest THEN [adm EXCEPT !.v = @ - 1]
                     ELSE NoAdmin
    /\ UNCHANGED <<day, disk, network, pass, faults, safe>>

(* restore_manifest_db checks again ... *)
RestoreCheck ==
    /\ adm.op = "check"
    /\ adm' = IF Fresh THEN [adm EXCEPT !.op = "write"] ELSE NoAdmin
    /\ UNCHANGED <<day, disk, network, pass, faults, safe>>

(* ... and renames the snapshot into place. *)
RestoreWrite ==
    /\ adm.op = "write"
    /\ man' = [key |-> blobs[adm.blob].id, content |-> blobs[adm.blob].content]
    /\ adm' = NoAdmin
    /\ UNCHANGED <<day, key_file, proc, ids, edits, bundle, network, pass, faults, safe>>

-----------------------------------------------------------------------------
(* The cold bundle: export and import *)

Export ==
    /\ adm.op = "idle"
    /\ bundle = None /\ Copied < MaxBlobs
    /\ Opens /\ key_file \in Ids
    /\ bundle' = [key |-> key_file, man |-> man]
    /\ UNCHANGED <<day, man, key_file, proc, ids, edits, network, pass, adm, faults, safe>>

(* import checks first, then opens the bundle ... *)
ImportBegin ==
    /\ proc # None /\ adm.op = "idle"
    /\ bundle # None
    /\ Fresh
    /\ adm' = [NoAdmin EXCEPT !.op = "import"]
    /\ UNCHANGED <<day, disk, network, pass, faults, safe>>

(* ... writes the manifest ... *)
ImportManifest ==
    /\ adm.op = "import"
    /\ man' = bundle.man
    /\ adm' = [adm EXCEPT !.op = "manifest"]
    /\ UNCHANGED <<day, key_file, proc, ids, edits, bundle, network, pass, faults, safe>>

(* ... and the identity: remove, create, write. *)
ImportIdentity(from, to, file) ==
    /\ adm.op = from
    /\ key_file' = file
    /\ adm' = IF to = "idle" THEN NoAdmin ELSE [adm EXCEPT !.op = to]
    /\ UNCHANGED <<day, man, proc, ids, edits, bundle, network, pass, faults, safe>>

ImportRemove == ImportIdentity("manifest", "removed", None)
ImportCreate == ImportIdentity("removed", "created", Torn)
ImportWrite == bundle # None /\ ImportIdentity("created", "idle", bundle.key)

Import == ImportManifest \/ ImportRemove \/ ImportCreate \/ ImportWrite
Restore == (\E S \in probe_version(proc, adm.v) : RestoreScan(S)) \/ RestoreCheck \/ RestoreWrite

Next ==
    \/ Upload \/ Midnight \/ Crash \/ Restart \/ Disaster \/ Start
    \/ \E reachable \in reachable_peers : BackupBegin(reachable)
    \/ PlaceShard \/ BackupEnd
    \/ \E oldest, v \in Days : RestoreBegin(oldest, v)
    \/ Restore
    \/ Export \/ ImportBegin \/ Import

Spec == Init /\ [][Next]_vars

(* Requests run to their end, the service manager restarts the process, and   *)
(* the administrator asks again until the node has its files.                 *)
Fairness ==
    /\ WF_vars(Start) /\ WF_vars(Restore) /\ WF_vars(Import)
    /\ SF_vars(Restart) /\ SF_vars(ImportBegin)
FairSpec == Spec /\ Fairness

-----------------------------------------------------------------------------
(* Properties *)

(* Every variable holds a value of its type. *)
TypeOK ==
    /\ day \in Days
    /\ man \in Manifest \cup {None}
    /\ key_file \in Ids \cup {None, Torn}
    /\ proc \in Ids \cup {None}
    /\ ids \in Ids
    /\ edits \in 0 .. MaxEdits
    /\ bundle \in [key: Ids, man: Manifest] \cup {None}
    /\ blobs \in Seq(Blob) /\ Len(blobs) <= MaxBlobs
    /\ held \subseteq Shard
    /\ events \subseteq Ids \X Days
    /\ pass \in Pass /\ adm \in Admin
    /\ faults \in 0 .. MaxFaults
    /\ safe \subseteq Ids

IndexesOf(S) == {s.index : s \in S}

(* All the shards of a version come from one build of it. *)
Unmixed(id, v) == \A s, t \in Copies(id, v) : s.blob = t.blob

(* Whichever copies answer first, every index answering, the restore rebuilds it. *)
Restorable(id, v) ==
    \A S \in probe_version(id, v) :
        IndexesOf(S) = IndexesOf(Copies(id, v))
            => fetch_and_open(SetToSeq(S)) # Unreadable

(* "the point from which this version is actually recoverable"               *)
(* (manifest_backup.rs:86): a version recorded as placed and not yet aged out *)
(* can be rebuilt from its peers, unless shards of an earlier, failed build   *)
(* of the same day are still on other peers.                                  *)
RecordedRestorable ==
    \A e \in events :
        (e[2] > day - Keep /\ Unmixed(e[1], e[2])) => Restorable(e[1], e[2])

(* "Only prune once THIS version is safely out there" (manifest_backup.rs:205): *)
(* once a backup with files in it was recoverable, there is one on the peers at *)
(* any later time, through crashes, lost disks, restores and sweeps, provided   *)
(* that a replacement node is restored before its own first backup and that no  *)
(* day mixed two builds.                                                        *)
Protected ==
    \A id \in safe :
        (\A v \in Days : Unmixed(id, v)) =>
            \E s \in held :
                /\ s.id = id /\ blobs[s.blob].content > 0
                /\ Restorable(id, s.version)

(* A restore installs a snapshot this identity took for the version it names, *)
(* never shards of two builds or of another day.                              *)
RestoreExact ==
    [][(adm.op = "write" /\ adm'.op = "idle" /\ proc' # None) =>
          [id |-> proc, version |-> adm.v, content |-> man'.content] \in Range(blobs)]_vars

(* "a restore can never clobber a live node" (backup.rs:170): a manifest with *)
(* files in it changes only by an upload or with the disk, provided no upload *)
(* commits between the check and the write.                                   *)
NoClobber ==
    [][(HoldsFiles /\ man' # man) => (edits' = edits + 1 \/ man' = None)]_vars

(* Where a bundle with files exists, the node ends up holding files again,    *)
(* whatever crash interrupted its imports; the one exception is an            *)
(* identity.key that was created and not written, with which no start-up      *)
(* succeeds.                                                                  *)
Recovers ==
    (bundle # None /\ bundle.man.content > 0) ~> (HoldsFiles \/ key_file = Torn)
=============================================================================
