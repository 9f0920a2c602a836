---------------------------- MODULE RoutingTable ----------------------------
(***************************************************************************)
(* The k-bucket routing table of the embedded Kademlia node                *)
(* (crates/p2p/src/dht.rs), as operators on a table value.                 *)
(*                                                                         *)
(* A table is a sequence of Bits buckets, each a sequence of entries.  An  *)
(* entry is [id, at, verified, age]: `at` stands for the pair of ports and *)
(* the address a node announces, and `age` is the time since last_seen, in *)
(* ticks of the model's clock; ages stop at MaxAge.                        *)
(***************************************************************************)
EXTENDS Integers, Sequences, SequencesExt

CONSTANTS
    Bits,         \* width of an identifier (160 in the code)
    Self,         \* this node's identifier, a sequence of Bits bits
    K,            \* entries per bucket, and fan-out
    STALE_AFTER,  \* an entry older than this may be evicted
    MaxAge        \* ages saturate here

ASSUME TableAssumption ==
    /\ Bits \in Nat \ {0}
    /\ Self \in [1 .. Bits -> {0, 1}]
    /\ K \in Nat \ {0}
    /\ STALE_AFTER \in Nat
    /\ MaxAge \in Nat /\ MaxAge > STALE_AFTER

NodeIds == [1 .. Bits -> {0, 1}]

xor(a, b) == [i \in 1 .. Bits |-> IF a[i] = b[i] THEN 0 ELSE 1]

\* The most significant bit of a distance; a node has none to itself.
bucket_index(distance) ==
    CHOOSE i \in 1 .. Bits : distance[i] = 1 /\ \A j \in 1 .. i - 1 : distance[j] = 0

Bucket(id) == bucket_index(xor(Self, id))

Entry(id, at, verified) == [id |-> id, at |-> at, verified |-> verified, age |-> 0]

EmptyTable == [i \in 1 .. Bits |-> << >>]

all(t) == FlattenSeq(t)

Entries(t) == UNION {ToSet(t[i]) : i \in DOMAIN t}

contains(t, id) ==
    id # Self /\ \E n \in ToSet(t[Bucket(id)]) : n.id = id

is_verified_source(t, site) ==
    \E n \in Entries(t) : n.at = site /\ n.verified

\* A sighting refreshes the entry and moves it to the back of its bucket; it
\* rewrites the address only when the sighting is itself a proof.
Refreshed(old, node) ==
    IF node.verified THEN node ELSE [old EXCEPT !.age = node.age]

\* Slip: the oldest entry goes, silent or not.
Victims_any(b) == DOMAIN b

\* Among the entries that have gone silent, unverified before verified, then
\* the longest silent, then the first.
Victims(b) == {j \in DOMAIN b : b[j].age > STALE_AFTER}

EvictBefore(b, j, k) ==
    \/ ~b[j].verified /\ b[k].verified
    \/ b[j].verified = b[k].verified /\ b[j].age > b[k].age
    \/ b[j].verified = b[k].verified /\ b[j].age = b[k].age /\ j <= k

Victim(b) == CHOOSE j \in Victims(b) : \A k \in Victims(b) : EvictBefore(b, j, k)

AddToBucket(b, node) ==
    IF \E n \in ToSet(b) : n.id = node.id
    THEN LET old == CHOOSE n \in ToSet(b) : n.id = node.id
         IN  Append(SelectSeq(b, LAMBDA n : n.id # node.id), Refreshed(old, node))
    ELSE IF Len(b) < K THEN Append(b, node)
    ELSE IF Victims(b) # {} THEN [j \in DOMAIN b |-> IF j = Victim(b) THEN node ELSE b[j]]
    ELSE b

add(t, node) ==
    IF node.id = Self THEN t
    ELSE [t EXCEPT ![Bucket(node.id)] = AddToBucket(@, node)]

\* Every entry at an address that has just answered us, whatever its id.
mark_verified(t, site) ==
    [i \in DOMAIN t |-> [j \in DOMAIN t[i] |->
        IF t[i][j].at = site THEN [t[i][j] EXCEPT !.verified = TRUE, !.age = 0]
                             ELSE t[i][j]]]

Aged(t) ==
    [i \in DOMAIN t |-> [j \in DOMAIN t[i] |->
        [t[i][j] EXCEPT !.age = IF @ = MaxAge THEN @ ELSE @ + 1]]]

Closer(a, b, target) ==
    LET d == xor(a, target)
        e == xor(b, target)
    IN  \E i \in 1 .. Bits : d[i] < e[i] /\ \A j \in 1 .. i - 1 : d[j] = e[j]

Take(s, n) == SubSeq(s, 1, IF n < Len(s) THEN n ELSE Len(s))

closest(t, target, count) ==
    Take(SortSeq(all(t), LAMBDA m, n : Closer(m.id, n.id, target)), count)

\* The shape every table has: each entry in its bucket, no id twice, no bucket
\* over K, and never this node itself.
WellFormed(t, sites) ==
    /\ DOMAIN t = 1 .. Bits
    /\ \A i \in 1 .. Bits :
        /\ Len(t[i]) <= K
        /\ IsInjective([j \in DOMAIN t[i] |-> t[i][j].id])
        /\ \A n \in ToSet(t[i]) :
            /\ n \in [id : NodeIds \ {Self}, at : sites, verified : BOOLEAN, age : 0 .. MaxAge]
            /\ Bucket(n.id) = i
=============================================================================
