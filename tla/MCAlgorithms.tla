---------------------------- MODULE MCAlgorithms ----------------------------
(***************************************************************************)
(* The pure algorithms, each on every small input: packs and their plans   *)
(* (PackFormat), the reassembly of a manifest backup (BackupShards), the   *)
(* order of a repair pass (RepairQueue), the gathering of a file's shards  *)
(* (Download), shard placement (Placement) and one bucket of the DHT's     *)
(* table (RoutingTable); the last three have steps of their own.  `topic`  *)
(* is the algorithm and `input` its input, which grows by one element per  *)
(* step.                                                                   *)
(***************************************************************************)
EXTENDS PackFormat, BackupShards, RepairQueue, Placement, TLC

CONSTANTS
    IdSet,        \* file ids: sequences of cells
    DataSet,      \* member contents: sequences of cells
    Margins,      \* margins of degraded chunks
    MaxEntries,   \* bound: members of one pack
    MaxShards,    \* bound: shards handed to reassemble
    MaxDegraded,  \* bound: degraded chunks met by a pass
    Window,       \* READ_CHUNK_WINDOW
    MaxChunks     \* bound: chunks of a downloaded file

(* Contents that contain the magic cells and small lengths. *)
MagicCells == <<2, 1>>
FileIds == {<<1>>, <<2, 1>>, <<1, 1, 2>>}
Contents == {<<>>, <<1>>, <<2, 1>>, <<0, 1>>, <<1, 2, 1>>, <<0, 2, 1>>, <<1, 1, 2, 2>>}
ZoneSymmetry == Permutations(Zones)

(* What the locations of a chunk's shards may have to offer. *)
Offers ==
    {<<"good", "good", "good">>, <<"good", "gone", "good">>, <<"bad", "good", "good">>,
     <<"shunned", "good", "good">>, <<"shunned", "good", "gone">>, <<"good", "bad", "gone">>}
Plans == UNION {[1 .. n -> {[i \in 0 .. 2 |-> o[i + 1]] : o \in Offers}] : n \in 1 .. MaxChunks}

VARIABLES topic, input, plan, flying, queue, heard, present, fetched, result, table

DL == INSTANCE Download WITH Total <- 3, Failed <- Unreadable

Zeros == <<0, 0, 0>>
RT == INSTANCE RoutingTable WITH Bits <- 3, Self <- Zeros, K <- 2, STALE_AFTER <- 1, MaxAge <- 3

dlvars == <<plan, flying, queue, heard, present, fetched, result>>
mcvars == <<vars, topic, input, dlvars, table>>

(* The placement of the other topics is one that is never started. *)
Unplaced ==
    /\ peers = [p \in Peers |-> CHOOSE c \in PeerCandidate : c.zone = Unknown]
    /\ self_zone = Unknown
    /\ total = CHOOSE t \in Totals : TRUE
    /\ peer_count = [l \in Locations |-> 0]
    /\ zone_count = [k \in Keys |-> 0]
    /\ out = <<>>

MCInit ==
    /\ input = <<>>
    /\ table = RT!EmptyTable
    /\ \/ topic \in {"pack", "shards", "queue", "table"} /\ Unplaced /\ DL!Start(<<>>)
       \/ topic = "placement" /\ Init /\ DL!Start(<<>>)
       \/ topic = "download" /\ Unplaced /\ \E p \in Plans : DL!Start(p)

Add(t, max, element) ==
    /\ topic = t
    /\ Len(input) < max
    /\ input' = Append(input, element)
    /\ UNCHANGED <<vars, topic, dlvars, table>>

AddMember ==
    \E id \in IdSet, data \in DataSet : Add("pack", MaxEntries, [file_id |-> id, data |-> data])

(* A shard of the backup (blob 1), a damaged or a truncated copy of it, or a *)
(* shard of another build.                                                   *)
AddShard ==
    \E i \in Indexes :
        \E s \in {Envelope(i, 1), [Envelope(i, 1) EXCEPT !.good = FALSE],
                  [Envelope(i, 1) EXCEPT !.good = FALSE, !.len = 2], Envelope(i, 2)} :
            Add("shards", MaxShards, s)

AddDegraded ==
    \E m \in Margins : Add("queue", MaxDegraded, [chunk |-> Len(input) + 1, margin |-> m])

PlaceStep == topic = "placement" /\ Next /\ UNCHANGED <<topic, input, dlvars, table>>
DownloadStep == topic = "download" /\ DL!Next /\ UNCHANGED <<topic, input, vars, table>>

(* Sightings of this node and of the four nodes of one bucket, at two addresses. *)
Sighting ==
    \E id \in {i \in RT!NodeIds : i[1] = 1 \/ i = Zeros}, at \in {1, 2}, verified \in BOOLEAN :
        table' = RT!add(table, RT!Entry(id, at, verified))
TableStep ==
    /\ topic = "table"
    /\ \/ Sighting
       \/ \E at \in {1, 2} : table' = RT!mark_verified(table, at)
       \/ table' = RT!Aged(table)
    /\ UNCHANGED <<vars, topic, input, dlvars>>

MCNext == AddMember \/ AddShard \/ AddDegraded \/ PlaceStep \/ DownloadStep \/ TableStep

MCSpec == MCInit /\ [][MCNext]_mcvars

-----------------------------------------------------------------------------
(* Packs *)

entries == IF topic = "pack" THEN input ELSE <<>>
Plain == build_pack(entries)

(* Re-inventorying a pack from its bytes alone (parse_pack_index, "a recovery *)
(* net if the manifest's member rows are ever lost") gives every member and   *)
(* its range, even when contents contain the magic or look like an index.     *)
IndexRoundTrips ==
    parse_pack_index(Plain) =
        [i \in DOMAIN entries |->
            [file_id |-> entries[i].file_id] @@ PackRanges(entries)[i]]

(* The range recorded for a member (assign_to_pack) slices out exactly the  *)
(* bytes that went in, empty members included.                              *)
SlicesExact ==
    \A i \in DOMAIN entries :
        LET r == PackRanges(entries)[i]
        IN  member_slice(Plain, r.off, r.len) = entries[i].data

Candidates == [i \in DOMAIN entries |-> [id |-> i, size |-> Len(entries[i].data)]]
Plan == plan_packs(Candidates)
GroupBytes(g) == FoldLeft(LAMBDA sum, f : sum + f.size, 0, g)

(* plan_packs groups neighbours in order, at least two at a time and never   *)
(* beyond the target; a file is left out only if it and the file after it    *)
(* would exceed the target together.                                         *)
PlanIsGreedy ==
    LET flat == FlattenSeq(Plan)
        left == {i \in DOMAIN entries : ~\E j \in DOMAIN flat : flat[j].id = i}
    IN  /\ \A j, k \in DOMAIN flat : j < k => flat[j].id < flat[k].id
        /\ \A n \in DOMAIN Plan :
              /\ Len(Plan[n]) >= 2
              /\ GroupBytes(Plan[n]) <= PackTarget
              /\ \A k \in 1 .. Len(Plan[n]) - 1 : Plan[n][k + 1].id = Plan[n][k].id + 1
        /\ \A i \in left :
              i + 1 \in DOMAIN entries =>
                  Candidates[i].size + Candidates[i + 1].size > PackTarget

(* The three together: a pack gives back what went into it, and packs are *)
(* made of the groups that plan_packs is meant to form.                   *)
PacksExact == SlicesExact /\ IndexRoundTrips /\ PlanIsGreedy

-----------------------------------------------------------------------------
(* Manifest backups *)

shards == IF topic = "shards" THEN input ELSE <<>>
GoodIndexes(b) ==
    {shards[n].index : n \in {k \in DOMAIN shards : shards[k].blob = b /\ shards[k].good}}

(* "The result is checked against `blob_hash` before it is ever decrypted"    *)
(* (backup.rs:518): reassemble_manifest_backup returns a blob only from       *)
(* DATA_SHARDS undamaged shards of that very build, whatever is mixed in.     *)
ReassembledExact ==
    LET blob == reassemble(shards)
    IN  blob # Unreadable => Cardinality(GoodIndexes(blob)) >= Data

(* "recovers from one bad copy" (backup.rs:520): with one disagreeing or      *)
(* damaged copy among the answers and DATA_SHARDS undamaged shards of other   *)
(* indexes, the backup is rebuilt, in whatever order they arrive; a copy of   *)
(* the wrong length must not be the first of the list, whose length decides.  *)
OneBadCopy ==
    LET bad == {n \in DOMAIN shards : shards[n].blob # 1 \/ ~shards[n].good}
    IN  (/\ Cardinality(bad) <= 1
         /\ shards # <<>> => shards[1].len = 1
         /\ Cardinality(GoodIndexes(1) \ {shards[n].index : n \in bad}) >= Data)
        => reassemble(shards) = 1

(* Both: reassemble_manifest_backup returns the backup or nothing, and one *)
(* bad copy does not keep it from doing so.                                *)
BackupRebuilt == ReassembledExact /\ OneBadCopy

-----------------------------------------------------------------------------
(* Downloads *)

(* A download ends with all the chunks in file order exactly when each chunk *)
(* has enough undamaged shards within reach, whatever answers first, and     *)
(* file_health promises the same, damaged shards and hosts flagged `down`    *)
(* aside.                                                                    *)
DownloadSound == DL!GatherExact /\ DL!HealthAgrees

-----------------------------------------------------------------------------
(* The order of a repair pass *)

degraded == IF topic = "queue" THEN input ELSE <<>>

(* "keeping the most endangered ones when the buffer is full": what a pass   *)
(* defers is counted and is never more endangered than anything it repairs,  *)
(* and the repairs go from the smallest margin up.                           *)
MostEndangeredFirst ==
    LET pass == Sweep(degraded)
        order == RepairOrder(degraded)
        dropped == Range(degraded) \ pass.pending
    IN  /\ Cardinality(dropped) = pass.deferred
        /\ dropped # {} => Cardinality(pass.pending) = MaxPending
        /\ \A d \in dropped, e \in pass.pending : e.margin <= d.margin
        /\ \A i, j \in DOMAIN order : i < j => order[i].margin <= order[j].margin

-----------------------------------------------------------------------------
(* The table of the DHT *)

(* A node is forgotten only when it has been silent for longer than          *)
(* STALE_AFTER, and then no other entry of its bucket may be both silent and *)
(* a better victim: unverified where it is verified, or as verified and      *)
(* silent for longer.  An entry that stays also stays verified               *)
(* (RoutingTable::add).                                                      *)
EvictsOnlySilent ==
    [][\A n \in RT!Entries(table) :
          IF RT!contains(table', n.id)
          THEN n.verified => \E m \in RT!Entries(table') : m.id = n.id /\ m.verified
          ELSE /\ n.age > 1
               /\ \A m \in RT!Entries(table) :
                     m.age > 1 => /\ n.verified => m.verified
                                  /\ m.verified = n.verified => m.age <= n.age]_mcvars
=============================================================================
