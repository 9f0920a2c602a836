--------------------------- MODULE PlacementProofs --------------------------
(***************************************************************************)
(* The caps of plan_placement_zoned, for any number of peers, shards and   *)
(* zones, any latencies and any reliability scores.                        *)
(***************************************************************************)
EXTENDS Placement, TLAPS

(* A location's shards are in its zone. *)
Charged == \A l \in Locations : peer_count[l] <= zone_count[zone_key(l)]

IInv == TypeOK /\ Charged /\ LocationCap /\ ZoneCap

(* Every location has a zone with a counter. *)
LEMMA KeyOfLocation ==
    ASSUME TypeOK, NEW l \in Locations
    PROVE  zone_key(l) \in Keys
  BY DEF TypeOK, Locations, Peers, Self, PeerCandidate, zone_key, Keys

(* The greedy picks a location that is within its caps while there is one. *)
LEMMA ChoiceWithinCaps ==
    ASSUME NEW l \in choice
    PROVE  /\ l \in Locations
           /\ (\E m \in Locations : Open(m)) => Open(l)
           /\ (\E m \in Locations : Open(m) /\ ZoneOpen(m)) => ZoneOpen(l)
           /\ (\A m \in Locations : ~Open(m)) => l = Self
  BY DEF choice, Best, Locations

(* The empty plan respects the caps. *)
LEMMA InitIInv == Init => IInv
  <1> SUFFICES ASSUME Init PROVE IInv
    OBVIOUS
  <1>1. TypeOK
    BY DEF Init, TypeOK
  <1>2. \A l \in Locations : peer_count[l] = 0 /\ zone_count[zone_key(l)] = 0
    BY <1>1, KeyOfLocation DEF Init
  <1>3. \A k \in Keys : zone_count[k] = 0
    BY DEF Init
  <1>4. Charged
    BY <1>2 DEF Charged
  <1>5. LocationCap
    <2>1. Self \in Locations /\ Peers \subseteq Locations /\ Parity \in Nat
      BY PlacementAssumption DEF Locations
    <2> QED
      BY <1>2, <2>1 DEF LocationCap
  <1>6. ZoneCap
    BY <1>3, PlacementAssumption DEF ZoneCap
  <1> QED
    BY <1>1, <1>4, <1>5, <1>6 DEF IInv

(* Placing one shard keeps the caps. *)
LEMMA StepIInv == IInv /\ [Next]_vars => IInv'
  <1> SUFFICES ASSUME IInv, [Next]_vars PROVE IInv'
    OBVIOUS
  <1> USE PlacementAssumption
  <1>1. CASE UNCHANGED vars
    BY <1>1 DEF vars, IInv, TypeOK, Charged, LocationCap, ZoneCap, zone_key
  <1>2. CASE plan_placement_zoned
    <2>1. PICK l \in choice : Place(l)
      BY <1>2 DEF plan_placement_zoned
    <2> DEFINE k == zone_key(l)
    <2>2. l \in Locations /\ k \in Keys
      BY <2>1, ChoiceWithinCaps, KeyOfLocation DEF IInv
    <2>3. /\ peer_count' = [peer_count EXCEPT ![l] = @ + 1]
          /\ zone_count' = [zone_count EXCEPT ![k] = @ + 1]
          /\ out' = Append(out, l)
          /\ UNCHANGED <<peers, self_zone, total>>
      BY <2>1 DEF Place
    <2>4. TypeOK'
      BY <2>2, <2>3 DEF IInv, TypeOK
    <2>5. \A m \in Locations : zone_key(m)' = zone_key(m) /\ zone_key(m) \in Keys
      BY <2>3, KeyOfLocation DEF zone_key, IInv
    <2>6. /\ peer_count \in [Locations -> Nat] /\ zone_count \in [Keys -> Nat]
          /\ Parity \in Nat
      BY DEF IInv, TypeOK
    <2> HIDE DEF k
    <2>7. /\ \A m \in Locations : peer_count'[m] = IF m = l THEN peer_count[m] + 1
                                                   ELSE peer_count[m]
          /\ \A j \in Keys : zone_count'[j] = IF j = k THEN zone_count[j] + 1
                                              ELSE zone_count[j]
      BY <2>2, <2>3, <2>6
    <2>8. Charged'
      <3>1. SUFFICES ASSUME NEW m \in Locations
                     PROVE  peer_count'[m] <= zone_count'[zone_key(m)]
        BY <2>5 DEF Charged
      <3>2. peer_count[m] <= zone_count[zone_key(m)]
        BY DEF IInv, Charged
      <3>3. m = l => zone_key(m) = k
        BY DEF k
      <3> QED
        BY <2>5, <2>6, <2>7, <3>2, <3>3
    <2>9. LocationCap'
      <3>1. CASE Open(l)
        BY <2>2, <2>6, <2>7, <3>1 DEF Open, IInv, LocationCap, Locations, Self, Peers
      <3>2. CASE ~Open(l)
        <4>1. l = Self /\ \A m \in Locations : ~Open(m)
          BY <2>1, <3>2, ChoiceWithinCaps
        <4> QED
          BY <2>2, <2>6, <2>7, <4>1 DEF Open, IInv, LocationCap, Locations, Self, Peers
      <3> QED
        BY <3>1, <3>2
    <2>10. ZoneCap'
      <3>1. CASE ZoneOpen(l)
        <4>1. zone_count[k] < Parity
          BY <3>1 DEF ZoneOpen, k
        <4>2. \A j \in Keys : zone_count[j] <= Parity
          BY <2>2, <2>6, <4>1 DEF IInv, ZoneCap, k
        <4>3. \A j \in Keys : zone_count'[j] <= Parity
          BY <2>6, <2>7, <4>1, <4>2
        <4> QED
          BY <2>4, <2>6, <4>3 DEF ZoneCap, TypeOK
      <3>2. CASE ~ZoneOpen(l)
        <4>1. ASSUME NEW m \in Locations
              PROVE  zone_count[zone_key(m)] >= Parity
          <5>1. ~Open(m) \/ ~ZoneOpen(m)
            BY <2>1, <3>2, ChoiceWithinCaps
          <5>2. peer_count[m] <= zone_count[zone_key(m)]
            BY DEF IInv, Charged
          <5> QED
            BY <2>5, <2>6, <5>1, <5>2 DEF Open, ZoneOpen
        <4>2. \A m \in Locations : zone_count'[zone_key(m)] >= Parity
          BY <2>5, <2>6, <2>7, <4>1
        <4> QED
          BY <2>5, <4>2 DEF ZoneCap
      <3> QED
        BY <3>1, <3>2
    <2> QED
      BY <2>4, <2>8, <2>9, <2>10 DEF IInv
  <1>3. CASE Done
    BY <1>1, <1>3 DEF Done
  <1> QED
    BY <1>1, <1>2, <1>3 DEF Next

(* The inductive invariant holds of every plan under construction. *)
LEMMA AlwaysIInv == Spec => []IInv
  BY InitIInv, StepIInv, PTL DEF Spec

(* No peer is given more than `parity` shards of a chunk, the owner keeps     *)
(* more than that only when every peer is full, and a zone is given more only *)
(* once every zone is full (the "graceful degradation" of                     *)
(* plan_placement_zoned).                                                     *)
THEOREM PlacementCapped == Spec => []CapsKept
  <1>1. IInv => CapsKept
    BY DEF IInv, CapsKept
  <1> QED
    BY AlwaysIInv, <1>1, PTL
=============================================================================
