------------------------------ MODULE Placement -----------------------------
(***************************************************************************)
(* Where a chunk's shards go (server/src/placement.rs): the greedy of      *)
(* plan_placement_zoned, which fills locations and failure zones up to     *)
(* `parity` shards each and relaxes the zone cap, then the cap on the      *)
(* owner's own store, when it runs out of room.  One step places one shard.*)
(*                                                                         *)
(* Location 0 is the owner (None in the code), location i is peers[i].     *)
(***************************************************************************)
EXTENDS Integers, FiniteSets, FiniteSetsExt, Sequences

CONSTANTS
    N,             \* how many peers answered a ping
    Zones,         \* zone labels
    Unknown,       \* a peer whose zone is not known, an owner without a zone
    Rtts,          \* round-trip times, in milliseconds
    Reliabilities, \* reliability scores, 0 .. 100
    Totals,        \* how many shards there are to place
    Parity         \* PARITY_SHARDS

ASSUME PlacementAssumption ==
    /\ N \in Nat
    /\ Unknown \notin Zones
    /\ Rtts \subseteq Nat /\ Reliabilities \subseteq 0 .. 100
    /\ Totals \subseteq Nat /\ Parity \in Nat \ {0}

Peers == 1 .. N
Self == 0
Locations == {Self} \cup Peers

VARIABLES
    peers,       \* the candidates
    self_zone,   \* the owner's zone
    total,       \* shards to place: TOTAL_SHARDS
    peer_count,  \* shards placed on each location, the owner included
    zone_count,  \* shards placed in each zone
    out          \* the plan so far: shard i goes to out[i + 1]

vars == <<peers, self_zone, total, peer_count, zone_count, out>>

PeerCandidate == [rtt_ms: Rtts, zone: Zones \cup {Unknown}, reliability: Reliabilities]

(* A location without a zone is a zone of its own. *)
Keys == Zones \cup {<<l>> : l \in Locations}
zone_key(l) ==
    LET zone == IF l = Self THEN self_zone ELSE peers[l].zone
    IN  IF zone = Unknown THEN <<l>> ELSE zone

Init ==
    /\ peers \in [Peers -> PeerCandidate]
    /\ self_zone \in Zones \cup {Unknown}
    /\ total \in Totals
    /\ peer_count = [l \in Locations |-> 0]
    /\ zone_count = [k \in Keys |-> 0]
    /\ out = <<>>

-----------------------------------------------------------------------------

max_rtt == Max({1} \cup {peers[p].rtt_ms : p \in Peers})

(* rtt / max_rtt + count / parity + 0.5 * (1 - reliability / 100), on the     *)
(* common denominator 200 * max_rtt * parity.                                 *)
score(l) ==
    200 * max_rtt * peer_count[l]
    + IF l = Self THEN 0
      ELSE 200 * Parity * peers[l].rtt_ms + max_rtt * Parity * (100 - peers[l].reliability)

(* Faulty variant: a zone cap that only counts the peer itself. *)
ZoneOpen_own(l) == peer_count[l] < Parity

Open(l) == peer_count[l] < Parity
ZoneOpen(l) == zone_count[zone_key(l)] < Parity

(* The first of the lowest scores; the owner is looked at first. *)
Best(S) ==
    {l \in S : \A m \in S : score(l) < score(m) \/ (score(l) = score(m) /\ l <= m)}

(* Both caps, then the location's cap only, then the owner. *)
choice ==
    LET open == {l \in Locations : Open(l)}
        within == {l \in open : ZoneOpen(l)}
    IN  IF within # {} THEN Best(within)
        ELSE IF open # {} THEN Best(open)
        ELSE {Self}

(* Faulty variant: the zone is not charged. *)
Place_uncounted(l) ==
    /\ peer_count' = [peer_count EXCEPT ![l] = @ + 1]
    /\ out' = Append(out, l)
    /\ UNCHANGED <<peers, self_zone, total, zone_count>>

Place(l) ==
    /\ peer_count' = [peer_count EXCEPT ![l] = @ + 1]
    /\ zone_count' = [zone_count EXCEPT ![zone_key(l)] = @ + 1]
    /\ out' = Append(out, l)
    /\ UNCHANGED <<peers, self_zone, total>>

plan_placement_zoned ==
    /\ Len(out) < total
    /\ \E l \in choice : Place(l)

(* The plan is returned. *)
Done == Len(out) = total /\ UNCHANGED vars

Next == plan_placement_zoned \/ Done

Spec == Init /\ [][Next]_vars

-----------------------------------------------------------------------------
(* Properties *)

(* Every variable holds a value of its type. *)
TypeOK ==
    /\ peers \in [Peers -> PeerCandidate]
    /\ self_zone \in Zones \cup {Unknown}
    /\ total \in Totals
    /\ peer_count \in [Locations -> Nat]
    /\ zone_count \in [Keys -> Nat]
    /\ out \in Seq(Locations)

(* "Only when every peer has reached its per-peer cap does the surplus stay *)
(* local": no peer ever holds more than `parity` shards, and the owner does *)
(* only when every peer is full.                                            *)
LocationCap ==
    /\ \A p \in Peers : peer_count[p] <= Parity
    /\ peer_count[Self] > Parity => \A p \in Peers : peer_count[p] = Parity

(* The zone cap is relaxed only when nothing else is left: a zone holds more *)
(* than `parity` shards only once the zone of every location is full.        *)
ZoneCap ==
    (\E k \in Keys : zone_count[k] > Parity)
        => \A l \in Locations : zone_count[zone_key(l)] >= Parity

(* Both caps at once: what plan_placement_zoned promises of every plan, *)
(* complete or under construction.                                      *)
CapsKept == LocationCap /\ ZoneCap

(* What placement is for: where there are zones enough, losing any one zone *)
(* leaves at least total - parity shards, so the chunk can be rebuilt.       *)
SurvivesAZone ==
    LET keys == {zone_key(l) : l \in Locations}
    IN  (Len(out) = total /\ Cardinality(keys) * Parity >= total) =>
            \A k \in keys :
                Cardinality({i \in 1 .. total : zone_key(out[i]) # k}) >= total - Parity
=============================================================================
