---------------------------- MODULE PeerRegistry ----------------------------
(***************************************************************************)
(* The peers table as discovery, the administrator and the liveness probe  *)
(* write it: register_peer and upsert_peer_guarded (discovery/mod.rs),     *)
(* fed by mDNS and by the harvest of the DHT, add_peer and remove_peer     *)
(* (handlers/admin.rs), and the probe of a repair pass (repair.rs).        *)
(*                                                                         *)
(* A step is what happens between two awaits.  A handshake's result is     *)
(* held across the transaction that applies it; the transaction reads the  *)
(* row, locking it if there is one, and writes in a later step, so two     *)
(* callers may both find that a peer is new: the primary key then fails    *)
(* the second insert.  last_seen is kept as `recent`: within two minutes.  *)
(***************************************************************************)
EXTENDS Integers, FiniteSets

CONSTANTS
    Ids,         \* peer ids, ours included
    Me,          \* this node's peer id
    Places,      \* addresses
    Residents,   \* the [id, key] found at an address; key None: no signed handshake
    Tasks,       \* callers of register_peer and add_peer
    Strict,      \* P2PNAS_STRICT_PEER_AUTH
    None,
    MaxFaults    \* bound: residents that change, failed requests and statements, administrators

VARIABLES
    peers,     \* p2pnas.peers: None or [addr, key, recent]
    calls,     \* where each task is
    resident,  \* who answers at each address
    surfaced,  \* the addresses that mDNS or the DHT have come up with
    proved,    \* ghost: every [id, key, at] a signed handshake has shown
    faults     \* how many of the bounded events have happened

rvars == <<peers, calls, resident, surfaced, proved, faults>>

Idle == [pc |-> "idle", via |-> None, at |-> None, id |-> None, key |-> None]

Keys == {r.key : r \in Residents} \cup {None}
Row == [addr : Places, key : Keys, recent : BOOLEAN]
Call == [pc : {"idle", "shake", "read", "insert", "update"}, via : {"discovery", "admin", None},
         at : Places \cup {None}, id : Ids \cup {None}, key : Keys]

ASSUME RegistryAssumption ==
    /\ Residents \subseteq [id : Ids, key : Keys]
    /\ None \notin Residents /\ None \notin Row
    /\ MaxFaults \in Nat

RegistryTypeOK ==
    /\ peers \in [Ids -> Row \cup {None}]
    /\ calls \in [Tasks -> Call]
    /\ resident \in [Places -> Residents \cup {None}]
    /\ surfaced \subseteq Places
    /\ proved \subseteq [id : Ids, key : Keys, at : Places]
    /\ faults \in 0 .. MaxFaults

Fault == faults < MaxFaults /\ faults' = faults + 1

Go(t, call) == calls' = [calls EXCEPT ![t] = call]
Is(t, pc) == calls[t].pc = pc

\* A row is locked from the read of a transaction that found it to its end.
Locked(i) == \E t \in Tasks : Is(t, "update") /\ calls[t].id = i

(***************************************************************************)
(* register_peer, and add_peer with its handshake.                         *)
(***************************************************************************)

\* A peer seen recently at this address makes the handshake superfluous.
SeenAt(at) == \E i \in Ids : peers[i] # None /\ peers[i].addr = at /\ peers[i].recent

register_peer(t, at) ==
    /\ Is(t, "idle") /\ at \in surfaced /\ ~SeenAt(at)
    /\ Go(t, [Idle EXCEPT !.pc = "shake", !.via = "discovery", !.at = at])
    /\ UNCHANGED <<peers, resident, surfaced, proved, faults>>

add_peer(t, at) ==
    /\ Fault
    /\ Is(t, "idle")
    /\ Go(t, [Idle EXCEPT !.pc = "shake", !.via = "admin", !.at = at])
    /\ UNCHANGED <<peers, resident, surfaced, proved>>

\* Registration of a peer that may be offline: an id without a handshake.
add_peer_offline(t, at, i) ==
    /\ Fault
    /\ Is(t, "idle")
    /\ Go(t, [Idle EXCEPT !.pc = "read", !.via = "admin", !.at = at, !.id = i])
    /\ UNCHANGED <<peers, resident, surfaced, proved>>

\* What register_peer takes from a handshake; add_peer takes whatever it gets.
Accepts(t, i, key) ==
    calls[t].via = "discovery" => i # Me /\ (Strict => key # None)

\* handshake_verified: the signed exchange, or, when it fails otherwise than by
\* a wrong signature, the plain one, whose result carries no key.
handshake_verified(t) ==
    /\ Is(t, "shake")
    /\ LET who == resident[calls[t].at]
           Result(key) ==
               Go(t, IF Accepts(t, who.id, key)
                     THEN [calls[t] EXCEPT !.pc = "read", !.id = who.id, !.key = key]
                     ELSE Idle)
       IN  \/ who = None /\ Go(t, Idle) /\ UNCHANGED <<proved, faults>>
           \/ /\ who # None
              /\ Result(who.key)
              /\ proved' = proved \cup {[id |-> who.id, key |-> k, at |-> calls[t].at] : k \in {who.key} \ {None}}
              /\ UNCHANGED faults
           \/ who # None /\ Fault /\ Result(None) /\ UNCHANGED proved
           \/ who # None /\ Fault /\ Go(t, Idle) /\ UNCHANGED proved
    /\ UNCHANGED <<peers, resident, surfaced>>

(***************************************************************************)
(* The guarded upsert: upsert_peer_guarded, and the same transaction once  *)
(* more in add_peer.                                                       *)
(***************************************************************************)

\* Slip: whoever answers may move the peer.
Allowed_any(pinned, key) == TRUE

\* A pinned key admits only its own proof.
Allowed(pinned, key) == pinned = None \/ pinned = key

\* Read the row and decide.
UpsertRead(t) ==
    /\ Is(t, "read")
    /\ LET call == calls[t]
           row == peers[call.id]
       IN  /\ ~Locked(call.id)
           /\ Go(t, IF row = None THEN [call EXCEPT !.pc = "insert"]
                    ELSE IF Allowed(row.key, call.key) THEN [call EXCEPT !.pc = "update"]
                    ELSE Idle)
    /\ UNCHANGED <<peers, resident, surfaced, proved, faults>>

\* Slip: an insert that finds the row replaces it.
Insert_replaces(t) ==
    LET call == calls[t]
    IN  peers' = [peers EXCEPT ![call.id] = [addr |-> call.at, key |-> call.key, recent |-> TRUE]]

Insert(t) ==
    LET call == calls[t]
    IN  IF peers[call.id] = None
        THEN peers' = [peers EXCEPT ![call.id] = [addr |-> call.at, key |-> call.key, recent |-> TRUE]]
        ELSE UNCHANGED peers

Update(t) ==
    LET call == calls[t]
    IN  peers' = [peers EXCEPT ![call.id] =
            [addr |-> call.at, key |-> IF @.key = None THEN call.key ELSE @.key, recent |-> TRUE]]

UpsertWrite(t) ==
    /\ \/ Is(t, "insert") /\ ~Locked(calls[t].id) /\ Insert(t)
       \/ Is(t, "update") /\ Update(t)
    /\ Go(t, Idle)
    /\ UNCHANGED <<resident, surfaced, proved, faults>>

\* A statement fails: the transaction is rolled back and its lock released.
UpsertFail(t) ==
    /\ Fault
    /\ calls[t].pc \in {"read", "insert", "update"}
    /\ Go(t, Idle)
    /\ UNCHANGED <<peers, resident, surfaced, proved>>

remove_peer(i) ==
    /\ Fault
    /\ peers[i] # None /\ ~Locked(i)
    /\ peers' = [peers EXCEPT ![i] = None]
    /\ UNCHANGED <<calls, resident, surfaced, proved>>

\* The probe of a repair pass: whoever answers at its address, the peer has
\* been seen.  The row is found by its id, so a move meanwhile changes nothing.
record_peer_health(i) ==
    /\ i # Me /\ peers[i] # None /\ ~Locked(i)
    /\ resident[peers[i].addr] # None
    /\ peers' = [peers EXCEPT ![i].recent = TRUE]
    /\ UNCHANGED <<calls, resident, surfaced, proved, faults>>

(***************************************************************************)
(* The world.                                                              *)
(***************************************************************************)

TwoMinutes ==
    /\ peers' = [i \in Ids |-> IF peers[i] = None THEN None ELSE [peers[i] EXCEPT !.recent = FALSE]]
    /\ UNCHANGED <<calls, resident, surfaced, proved, faults>>

\* A peer moves, stops, is upgraded or reinstalled; a transport sees it.
Change(at, who) ==
    /\ Fault
    /\ who # resident[at]
    /\ resident' = [resident EXCEPT ![at] = who]
    /\ surfaced' = surfaced \cup (IF who = None THEN {} ELSE {at})
    /\ UNCHANGED <<peers, calls, proved>>

RegistryInit ==
    /\ peers = [i \in Ids |-> None]
    /\ calls = [t \in Tasks |-> Idle]
    /\ resident \in [Places -> Residents \cup {None}]
    /\ surfaced = {at \in Places : resident[at] # None}
    /\ proved = {}
    /\ faults = 0

RegistryNext ==
    \/ \E t \in Tasks, at \in Places : register_peer(t, at) \/ add_peer(t, at)
    \/ \E t \in Tasks, at \in Places, i \in Ids \ {Me} : add_peer_offline(t, at, i)
    \/ \E t \in Tasks :
        handshake_verified(t) \/ UpsertRead(t) \/ UpsertWrite(t) \/ UpsertFail(t)
    \/ \E i \in Ids : remove_peer(i) \/ record_peer_health(i)
    \/ TwoMinutes
    \/ \E at \in Places, who \in Residents \cup {None} : Change(at, who)

RegistrySpec == RegistryInit /\ [][RegistryNext]_rvars

(***************************************************************************)
(* Properties.                                                             *)
(***************************************************************************)

\* What a transaction decided on the row it read still holds when it writes:
\* the row is there, and its key is either free or the one just proved.
DecisionStands ==
    \A t \in Tasks :
        Is(t, "update") => peers[calls[t].id] # None /\ Allowed(peers[calls[t].id].key, calls[t].key)

\* A task that has an id to write holds the proof of the key it would pin.
ProofInHand ==
    \A t \in Tasks :
        /\ calls[t].pc # "idle" => calls[t].at \in Places
        /\ calls[t].pc \in {"read", "insert", "update"} =>
            /\ calls[t].id \in Ids
            /\ calls[t].key # None => [id |-> calls[t].id, key |-> calls[t].key, at |-> calls[t].at] \in proved

\* At most one transaction holds the lock of a row.
LockExclusive ==
    \A t, u \in Tasks : Is(t, "update") /\ Is(u, "update") /\ calls[t].id = calls[u].id => t = u

\* A peer with a pinned key is recorded at an address where that very key has
\* been proved for it, however handshakes, plain ones included, administrators
\* and removals overlap: the shards meant for it go nowhere else.
PinnedAddrProved ==
    \A i \in Ids :
        peers[i] # None /\ peers[i].key # None
        => [id |-> i, key |-> peers[i].key, at |-> peers[i].addr] \in proved

\* While its row exists, a pinned key is neither replaced nor erased, not even
\* by a caller that found the peer to be new.
PinKept ==
    [][\A i \in Ids :
        peers[i] # None /\ peers[i].key # None /\ peers'[i] # None
        => peers'[i].key = peers[i].key]_rvars
=============================================================================
