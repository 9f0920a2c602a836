---------------------------- MODULE BackupShards ----------------------------
(***************************************************************************)
(* The shards of a manifest backup (store/src/backup.rs): the envelope a   *)
(* peer stores, and reassemble_manifest_backup, which rebuilds the sealed  *)
(* blob from whatever the peers answered, in the order of the answers.     *)
(*                                                                         *)
(* A sealed blob is an opaque value; its length and hash identify it.      *)
(***************************************************************************)
EXTENDS Integers, Sequences, FiniteSets, SequencesExt

CONSTANTS
    Data,     \* DATA_SHARDS
    Total,    \* TOTAL_SHARDS
    Unreadable   \* an error

ASSUME ShardsAssumption == Total \in Nat /\ Data \in 1 .. Total

Indexes == 0 .. Total - 1

(* ManifestBackupShard: `blob` is (blob_len, blob_hash), `len` the length of *)
(* the payload, and `good` says whether the payload is the blob's.           *)
Envelope(i, blob) == [index |-> i, blob |-> blob, len |-> 1, good |-> TRUE]

BlobsOf(shards) == {shards[n].blob : n \in DOMAIN shards}
Votes(shards, b) == Cardinality({n \in DOMAIN shards : shards[n].blob = b})
FirstVote(shards, b) == Min({n \in DOMAIN shards : shards[n].blob = b})

(* Faulty variant: the first envelope decides. *)
majority_first(shards) == shards[1].blob

(* max_by_key keeps the last of several maxima, in order of appearance. *)
majority(shards) ==
    CHOOSE b \in BlobsOf(shards) :
        \A c \in BlobsOf(shards) \ {b} :
            \/ Votes(shards, c) < Votes(shards, b)
            \/ Votes(shards, c) = Votes(shards, b) /\ FirstVote(shards, c) < FirstVote(shards, b)

(* The slots: shards of the majority blob, of the length of the first of     *)
(* them, the first one of each index.                                        *)
PresentSlots(shards) ==
    LET mine == SelectSeq(shards, LAMBDA s : s.blob = majority(shards))
        sized == SelectSeq(mine, LAMBDA s : s.len = mine[1].len)
        indexes == {sized[n].index : n \in DOMAIN sized}
    IN  {sized[Min({n \in DOMAIN sized : sized[n].index = i})] : i \in indexes}

(* try_rebuild: erasure::reconstruct computes the blob from the first DATA  *)
(* shards it is given; any of them damaged, the hash does not match.        *)
Rebuilds(slots) ==
    /\ Cardinality(slots) >= Data
    /\ \A s \in slots :
          Cardinality({t \in slots : t.index < s.index}) < Data => s.good

(* Faulty variant: the damaged copy is not looked for. *)
reassemble_once(shards) ==
    IF Len(shards) < Data THEN Unreadable
    ELSE LET slots == PresentSlots(shards)
         IN  IF Cardinality(slots) < Data THEN Unreadable
             ELSE IF Rebuilds(slots) THEN majority(shards)
             ELSE Unreadable

(* reassemble_manifest_backup: all the slots, then all but one. *)
reassemble(shards) ==
    IF Len(shards) < Data THEN Unreadable
    ELSE LET slots == PresentSlots(shards)
         IN  IF Cardinality(slots) < Data THEN Unreadable
             ELSE IF Rebuilds(slots) THEN majority(shards)
             ELSE IF Cardinality(slots) > Data /\ \E s \in slots : Rebuilds(slots \ {s})
             THEN majority(shards)
             ELSE Unreadable
=============================================================================
