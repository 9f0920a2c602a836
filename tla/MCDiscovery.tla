---------------------------- MODULE MCDiscovery ----------------------------
(***************************************************************************)
(* Discovery: the DHT node, and the peers table that the transports write. *)
(* The table is open to any address at any time, whatever the overlay has  *)
(* verified, so the two are checked side by side and not as a product: in  *)
(* a behaviour one of them runs and the other is off, as in a node that    *)
(* has the DHT disabled, or one whose transports have found nobody yet.    *)
(***************************************************************************)
EXTENDS Overlay, PeerRegistry, TLC

CONSTANTS a, b, c, me, p, q, k1, k2

Zero == <<0, 0>>
One == <<1, 0>>
Two == <<1, 1>>
TwoNodes == {One, Two}
TwoHosts(s) == IF s = c THEN 2 ELSE 1
OldSnapshots == {<< >>, <<[id |-> One, at |-> b]>>}
StaleGossip == {[id |-> One, at |-> b]}

SomeResidents ==
    {[id |-> p, key |-> k1], [id |-> p, key |-> k2], [id |-> q, key |-> None], [id |-> me, key |-> k2]}

OverlayOff ==
    /\ where = [n \in Nodes |-> Nowhere]
    /\ table = EmptyTable
    /\ learned = [ip \in Ips |-> 0]
    /\ pending = [s \in Sites |-> NotAsked]
    /\ pinged = {} /\ step = "off" /\ plan = NoPlan /\ answered = {}
    /\ file = << >> /\ net = {} /\ events = MaxEvents

RegistryOff ==
    /\ peers = [i \in Ids |-> None]
    /\ calls = [t \in Tasks |-> Idle]
    /\ resident = [at \in Places |-> None]
    /\ surfaced = {} /\ proved = {} /\ faults = MaxFaults

MCInit ==
    \/ OverlayInit /\ RegistryOff
    \/ OverlayOff /\ RegistryInit

MCNext ==
    \/ OverlayNext /\ UNCHANGED rvars
    \/ RegistryNext /\ UNCHANGED vars

MCSpec == MCInit /\ [][MCNext]_<<vars, rvars>> /\ OverlayFairness
=============================================================================
