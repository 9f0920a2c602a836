------------------------------ MODULE Download ------------------------------
(***************************************************************************)
(* How the chunks of one file are fetched (server/src/handlers/files.rs):  *)
(* a window of chunks in flight, all the shards of a chunk asked for at    *)
(* once, the first `Data` verified answers kept, and the chunks put back   *)
(* in file order; and what file_health says of the same file.              *)
(*                                                                         *)
(* `plan[c][i]` is what the location of shard i of chunk c has to offer:   *)
(* the shard, a damaged copy, nothing, or the shard on a peer that answers *)
(* and is flagged `down`.                                                  *)
(***************************************************************************)
EXTENDS Integers, Sequences, FiniteSets, SequencesExt

CONSTANTS
    Data, Total,   \* DATA_SHARDS, TOTAL_SHARDS
    Window,        \* READ_CHUNK_WINDOW
    Failed         \* an error

VARIABLES
    plan,      \* per chunk, per shard: "good", "bad", "gone" or "shunned"
    flying,    \* chunks in flight
    queue,     \* the next chunk to start
    heard,     \* per chunk, the shards whose task has ended
    present,   \* per chunk, the shards kept
    fetched,   \* chunks in the order they completed
    result     \* the chunks of the plaintext in order, Failed, or <<>> so far

vars == <<plan, flying, queue, heard, present, fetched, result>>

Shards == 0 .. Total - 1
Chunks == DOMAIN plan
Started(n) == {c \in Chunks : c < n}

Start(p) ==
    /\ plan = p
    /\ queue = 1 + IF Len(p) < Window THEN Len(p) ELSE Window
    /\ flying = Started(queue)
    /\ heard = [c \in Chunks |-> {}]
    /\ present = [c \in Chunks |-> {}]
    /\ fetched = <<>>
    /\ result = <<>>

(* Faulty variant: the answer is not checked against the manifest's hash. *)
Verified_unchecked(c, i) == plan[c][i] \in {"good", "bad"}

(* fetch_shard_for_read: a damaged shard is a lost one; a peer flagged `down` *)
(* is not in the address table.                                               *)
Verified(c, i) == plan[c][i] = "good"

(* A task of chunk c ends.  With the last task, or the last shard needed, the *)
(* chunk is complete and the next one starts (fetch_chunk_shards,             *)
(* spawn_chunk_fetch); tasks still in flight are dropped.                     *)
Answer(c, i) ==
    LET kept == IF Verified(c, i) THEN present[c] \cup {i} ELSE present[c]
        complete == Cardinality(kept) >= Data \/ heard[c] \cup {i} = Shards
    IN  /\ c \in flying
        /\ i \in Shards \ heard[c]
        /\ heard' = [heard EXCEPT ![c] = @ \cup {i}]
        /\ present' = [present EXCEPT ![c] = kept]
        /\ IF complete
           THEN /\ fetched' = Append(fetched, c)
                /\ flying' = (flying \ {c}) \cup ({queue} \cap Chunks)
                /\ queue' = queue + Cardinality({queue} \cap Chunks)
           ELSE UNCHANGED <<fetched, flying, queue>>
        /\ UNCHANGED <<plan, result>>

(* Faulty variant: the chunks are taken in the order they arrived. *)
FileOrder_arrival(s) == s

(* sort_by_key *)
FileOrder(s) == SortSeq(s, <)

(* erasure::reconstruct needs `Data` shards, and open_chunk undamaged ones. *)
Opens(c) == Cardinality(present[c]) >= Data /\ \A i \in present[c] : plan[c][i] = "good"

(* reassemble: the chunks one after the other, or an error. *)
Reassemble ==
    /\ flying = {} /\ result = <<>> /\ Chunks # {}
    /\ result' = IF \A c \in Range(fetched) : Opens(c) THEN FileOrder(fetched) ELSE Failed
    /\ UNCHANGED <<plan, flying, queue, heard, present, fetched>>

Next == (\E c \in Chunks, i \in Shards : Answer(c, i)) \/ Reassemble

(* file_health: HasShard, or a local file that exists, whatever its content;  *)
(* every peer that answers a ping counts.                                     *)
reachable(c) == Cardinality({i \in Shards : plan[c][i] # "gone"})
min_reachable == Min({Total} \cup {reachable(c) : c \in Chunks})

recoverable == min_reachable >= Data

-----------------------------------------------------------------------------
(* Properties *)

(* "any 10 of the 14 reconstruct the chunk": a download that ends returns all *)
(* the chunks in file order if each has `Data` undamaged shards within reach, *)
(* whatever the order of the answers and whichever come first, and an error   *)
(* if one has not (fetch_and_reassemble).                                     *)
GatherExact ==
    LET enough == \A c \in Chunks : Cardinality({i \in Shards : plan[c][i] = "good"}) >= Data
    IN  result # <<>> => result = IF enough THEN [c \in Chunks |-> c] ELSE Failed

(* What file_health reports agrees with what a download does: a file that     *)
(* downloads is reported recoverable, and one reported recoverable downloads  *)
(* unless a shard is damaged or its host is flagged `down`.                   *)
HealthAgrees ==
    LET plainly == \A c \in Chunks, i \in Shards : plan[c][i] \in {"good", "gone"}
    IN  result # <<>> =>
            /\ result # Failed => recoverable
            /\ recoverable /\ plainly => result # Failed
=============================================================================
