------------------------- MODULE PeerRegistryProofs -------------------------
(***************************************************************************)
(* Key pinning, proved for any peers, addresses, keys and callers.  That a *)
(* pinned address was proved survives an update only if the caller's proof *)
(* is real (ProofInHand) and the row is still the one it decided on        *)
(* (DecisionStands), which in turn rests on the row's lock                 *)
(* (LockExclusive).                                                        *)
(***************************************************************************)
EXTENDS PeerRegistry, TLAPS

IInv ==
    /\ RegistryTypeOK
    /\ ProofInHand
    /\ LockExclusive
    /\ DecisionStands
    /\ PinnedAddrProved

\* What every step that moves one task and leaves the rows alone has to show.
CallStep(t, call) ==
    /\ Go(t, call)
    /\ UNCHANGED peers
    /\ proved \subseteq proved'
    /\ proved' \subseteq [id : Ids, key : Keys, at : Places]
    /\ faults' \in 0 .. MaxFaults
    /\ surfaced' = surfaced /\ resident' = resident

\* The registry starts empty, so nothing is pinned and nobody holds a lock.
THEOREM InitIInv == RegistryInit => IInv
  BY RegistryAssumption DEF RegistryInit, IInv, RegistryTypeOK, ProofInHand, LockExclusive, DecisionStands,
     PinnedAddrProved, Idle, Call, Keys, Is

\* A task that moves on without writing keeps the invariant when what it now
\* holds is proved and, if it is about to update, the row admits it and is
\* nobody else's.
LEMMA CallStepIInv ==
  ASSUME IInv, NEW t \in Tasks, NEW call \in Call, CallStep(t, call),
         call.pc # "idle" => call.at \in Places,
         call.pc \in {"read", "insert", "update"} =>
            /\ call.id \in Ids
            /\ call.key # None => [id |-> call.id, key |-> call.key, at |-> call.at] \in proved',
         call.pc = "update" =>
            /\ peers[call.id] # None /\ Allowed(peers[call.id].key, call.key)
            /\ \A u \in Tasks \ {t} : ~(Is(u, "update") /\ calls[u].id = call.id)
  PROVE  IInv'
<1>0. /\ calls' = [calls EXCEPT ![t] = call]
      /\ \A u \in Tasks : calls'[u] = IF u = t THEN call ELSE calls[u]
  BY DEF IInv, RegistryTypeOK, CallStep, Go
<1>1. RegistryTypeOK'
  BY <1>0 DEF IInv, RegistryTypeOK, CallStep
<1>2. ProofInHand'
  BY <1>0 DEF IInv, ProofInHand, CallStep
<1>3. LockExclusive'
  BY <1>0 DEF IInv, LockExclusive, Is
<1>4. DecisionStands'
  BY <1>0 DEF IInv, DecisionStands, CallStep, Is
<1>5. PinnedAddrProved'
  BY DEF IInv, PinnedAddrProved, CallStep
<1> QED
  BY <1>1, <1>2, <1>3, <1>4, <1>5 DEF IInv

\* A task begins: register_peer past its dedup test, or an administrator.
LEMMA BeginIInv ==
  ASSUME IInv, NEW t \in Tasks, NEW at \in Places, register_peer(t, at) \/ add_peer(t, at)
  PROVE  IInv'
<1> USE DEF IInv, RegistryTypeOK, CallStep
<1> DEFINE call(via) == [Idle EXCEPT !.pc = "shake", !.via = via, !.at = at]
<1>1. PICK via \in {"discovery", "admin"} : Go(t, call(via))
  BY DEF register_peer, add_peer
<1>2. call(via) \in Call /\ call(via).pc = "shake" /\ call(via).at = at
  BY DEF Idle, Call, Keys
<1>3. CallStep(t, call(via))
  BY <1>1, RegistryAssumption DEF register_peer, add_peer, Fault
<1> HIDE DEF call
<1> QED
  BY <1>2, <1>3, CallStepIInv

\* An administrator names a peer that may be offline: there is no key to pin.
LEMMA OfflineIInv ==
  ASSUME IInv, NEW t \in Tasks, NEW at \in Places, NEW i \in Ids, add_peer_offline(t, at, i)
  PROVE  IInv'
<1> USE DEF IInv, RegistryTypeOK, CallStep
<1> DEFINE call == [Idle EXCEPT !.pc = "read", !.via = "admin", !.at = at, !.id = i]
<1>1. call \in Call /\ call.pc = "read" /\ call.at = at /\ call.id = i /\ call.key = None
  BY DEF Idle, Call, Keys
<1>2. CallStep(t, call)
  BY RegistryAssumption DEF add_peer_offline, Fault
<1> HIDE DEF call
<1> QED
  BY <1>1, <1>2, CallStepIInv

\* Steps of a task before its write: the handshake, the read, a failure.
LEMMA TaskIInv ==
  ASSUME IInv, NEW t \in Tasks, handshake_verified(t) \/ UpsertRead(t) \/ UpsertFail(t)
  PROVE  IInv'
<1> USE DEF IInv, RegistryTypeOK, CallStep
<1>0. /\ calls[t] \in Call /\ Idle \in Call
      /\ calls[t].pc # "idle" => calls[t].at \in Places
  BY DEF Idle, Call, Keys, ProofInHand
<1>1. CASE handshake_verified(t)
  <2> DEFINE who == resident[calls[t].at]
             call(key) == [calls[t] EXCEPT !.pc = "read", !.id = who.id, !.key = key]
  <2>1. calls[t].at \in Places /\ who \in Residents \cup {None}
    BY <1>0, <1>1 DEF handshake_verified, Is
  <2>2. CASE who = None \/ Go(t, Idle)
    <3>1. CallStep(t, Idle)
      BY <1>1, <2>1, <2>2, RegistryAssumption DEF handshake_verified, Fault, Keys
    <3> QED
      BY <1>0, <3>1, CallStepIInv DEF Idle
  <2>3. CASE who # None /\ ~Go(t, Idle)
    <3>1. who.id \in Ids /\ who.key \in Keys
      BY <2>1, <2>3, RegistryAssumption
    <3>2. PICK key \in {who.key, None} :
            /\ Go(t, call(key))
            /\ key # None => proved' = proved \cup {[id |-> who.id, key |-> key, at |-> calls[t].at]}
            /\ key = None => proved' = proved
            /\ faults' \in 0 .. MaxFaults
            /\ UNCHANGED <<peers, resident, surfaced>>
      <4>1. UNCHANGED <<peers, resident, surfaced>>
        BY <1>1 DEF handshake_verified
      <4>2. \/ /\ Go(t, call(who.key))
               /\ proved' = proved \cup {[id |-> who.id, key |-> k, at |-> calls[t].at] : k \in {who.key} \ {None}}
               /\ UNCHANGED faults
            \/ Go(t, call(None)) /\ UNCHANGED proved /\ Fault
        BY <1>1, <2>3, Zenon DEF handshake_verified
      <4>3. CASE Go(t, call(None)) /\ UNCHANGED proved /\ Fault
        BY <4>1, <4>3, RegistryAssumption DEF Fault
      <4>4. CASE /\ Go(t, call(who.key))
                 /\ proved' = proved \cup {[id |-> who.id, key |-> k, at |-> calls[t].at] : k \in {who.key} \ {None}}
                 /\ UNCHANGED faults
        <5>1. who.key # None => proved' = proved \cup {[id |-> who.id, key |-> who.key, at |-> calls[t].at]}
          BY <4>4
        <5>2. who.key = None => proved' = proved
          BY <4>4
        <5> HIDE DEF call, who
        <5> QED
          BY <4>1, <4>4, <5>1, <5>2
      <4> QED
        BY <4>2, <4>3, <4>4
    <3>3. /\ call(key) \in Call /\ call(key).pc = "read" /\ call(key).at = calls[t].at
          /\ call(key).id = who.id /\ call(key).key = key
      BY <1>0, <3>1 DEF Call, Keys
    <3>4. CallStep(t, call(key))
      BY <2>1, <3>1, <3>2
    <3> HIDE DEF call
    <3> QED
      BY <2>1, <3>1, <3>2, <3>3, <3>4, CallStepIInv
  <2> QED
    BY <2>2, <2>3
<1>2. CASE UpsertRead(t)
  <2> DEFINE row == peers[calls[t].id]
             call(pc) == [calls[t] EXCEPT !.pc = pc]
  <2>1. calls[t].pc = "read" /\ calls[t].id \in Ids /\ ~Locked(calls[t].id)
    BY <1>2 DEF UpsertRead, Is, ProofInHand
  <2>2. CASE Go(t, Idle)
    <3>1. CallStep(t, Idle)
      BY <1>2, <2>2 DEF UpsertRead
    <3> QED
      BY <1>0, <3>1, CallStepIInv DEF Idle
  <2>3. CASE ~Go(t, Idle)
    <3>1. PICK pc \in {"insert", "update"} :
            CallStep(t, call(pc)) /\ (pc = "update" => row # None /\ Allowed(row.key, calls[t].key))
      BY <1>2, <2>3 DEF UpsertRead
    <3>2. /\ call(pc) \in Call /\ call(pc).pc = pc /\ call(pc).at = calls[t].at
          /\ call(pc).id = calls[t].id /\ call(pc).key = calls[t].key
      BY <1>0 DEF Call
    <3>3. proved' = proved
      BY <1>2 DEF UpsertRead
    <3> HIDE DEF call
    <3> QED
      BY <1>0, <2>1, <3>1, <3>2, <3>3, CallStepIInv DEF ProofInHand, Locked
  <2> QED
    BY <2>2, <2>3
<1>3. CASE UpsertFail(t)
  <2>1. CallStep(t, Idle)
    BY <1>3, RegistryAssumption DEF UpsertFail, Fault
  <2> QED
    BY <1>0, <2>1, CallStepIInv DEF Idle
<1> QED
  BY <1>1, <1>2, <1>3

\* The write of the guarded upsert: an insert that finds the row does nothing,
\* and an update writes the row its caller has locked.
LEMMA WriteIInv ==
  ASSUME IInv, NEW t \in Tasks, UpsertWrite(t)
  PROVE  IInv'
<1> DEFINE call == calls[t]
<1> USE DEF IInv
<1>1. /\ call \in Call /\ call.id \in Ids /\ call.at \in Places /\ call.key \in Keys
      /\ call.pc \in {"insert", "update"}
      /\ call.key # None => [id |-> call.id, key |-> call.key, at |-> call.at] \in proved
  BY DEF UpsertWrite, Is, ProofInHand, RegistryTypeOK, Call
<1>2. /\ \A u \in Tasks : calls'[u] = IF u = t THEN Idle ELSE calls[u]
      /\ calls' \in [Tasks -> Call]
      /\ UNCHANGED <<resident, surfaced, proved, faults>>
  BY DEF UpsertWrite, Go, RegistryTypeOK, Idle, Call, Keys
<1>3. PICK row \in Row :
        /\ peers' = [peers EXCEPT ![call.id] = row] \/ peers' = peers
        /\ row.key # None => [id |-> call.id, key |-> row.key, at |-> row.addr] \in proved
  <2>1. CASE Insert(t) /\ call.pc = "insert"
    <3> DEFINE new == [addr |-> call.at, key |-> call.key, recent |-> TRUE]
    <3>1. new \in Row /\ new.key = call.key /\ new.addr = call.at
      BY <1>1 DEF Row
    <3>2. peers' = [peers EXCEPT ![call.id] = new] \/ peers' = peers
      BY <2>1 DEF Insert
    <3> HIDE DEF new
    <3> QED
      BY <1>1, <3>1, <3>2
  <2>2. CASE Update(t) /\ call.pc = "update"
    <3> DEFINE old == peers[call.id]
               new == [addr |-> call.at, key |-> IF old.key = None THEN call.key ELSE old.key, recent |-> TRUE]
    <3>1. old \in Row /\ (old.key = None \/ old.key = call.key)
      BY <1>1, <2>2 DEF DecisionStands, Is, Allowed, RegistryTypeOK
    <3>2. new \in Row /\ new.key = call.key /\ new.addr = call.at
      BY <1>1, <3>1 DEF Row
    <3>3. peers' = [peers EXCEPT ![call.id] = new]
      BY <1>1, <2>2 DEF Update, RegistryTypeOK
    <3> HIDE DEF new
    <3> QED
      BY <1>1, <3>2, <3>3
  <2> QED
    BY <2>1, <2>2 DEF UpsertWrite, Is
<1>4. \A i \in Ids : peers'[i] = peers[i] \/ (i = call.id /\ peers'[i] = row)
  BY <1>3 DEF RegistryTypeOK
<1>5. peers' \in [Ids -> Row \cup {None}]
  BY <1>3 DEF RegistryTypeOK
<1>6. \A u \in Tasks \ {t} : Is(u, "update") => calls[u].id # call.id
  BY <1>1 DEF UpsertWrite, Is, LockExclusive, Locked
<1>7. RegistryTypeOK' /\ PinnedAddrProved'
  BY <1>2, <1>3, <1>4, <1>5 DEF RegistryTypeOK, PinnedAddrProved
<1>8. ProofInHand' /\ LockExclusive'
  BY <1>2 DEF ProofInHand, LockExclusive, Is, Idle
<1>9. DecisionStands'
  <2> SUFFICES ASSUME NEW u \in Tasks, Is(u, "update")'
               PROVE  peers'[calls'[u].id] # None /\ Allowed(peers'[calls'[u].id].key, calls'[u].key)
    BY DEF DecisionStands
  <2>1. u # t /\ calls'[u] = calls[u] /\ Is(u, "update")
    BY <1>2 DEF Is, Idle
  <2>2. calls[u].id \in Ids /\ peers'[calls[u].id] = peers[calls[u].id]
    BY <1>4, <1>6, <2>1 DEF ProofInHand, Is
  <2> QED
    BY <2>1, <2>2 DEF DecisionStands
<1> QED
  BY <1>7, <1>8, <1>9

\* Steps that no task takes: a row is seen again, all grow old, or one that
\* nobody has locked is removed.
LEMMA RowIInv ==
  ASSUME IInv, UNCHANGED <<calls, proved>>,
         peers' \in [Ids -> Row \cup {None}],
         resident' \in [Places -> Residents \cup {None}],
         surfaced' \subseteq Places, faults' \in 0 .. MaxFaults,
         \A i \in Ids :
            \/ peers'[i] = None /\ (peers[i] = None \/ ~Locked(i))
            \/ /\ peers[i] # None /\ peers'[i] # None
               /\ peers'[i].key = peers[i].key /\ peers'[i].addr = peers[i].addr
  PROVE  IInv'
<1> USE DEF IInv
<1>1. RegistryTypeOK' /\ ProofInHand' /\ LockExclusive'
  BY DEF RegistryTypeOK, ProofInHand, LockExclusive, Is
<1>2. DecisionStands'
  BY DEF DecisionStands, Is, Locked, ProofInHand
<1>3. PinnedAddrProved'
  BY DEF PinnedAddrProved
<1> QED
  BY <1>1, <1>2, <1>3

\* Every step of the registry preserves the invariant.
THEOREM NextIInv == IInv /\ [RegistryNext]_rvars => IInv'
<1> SUFFICES ASSUME IInv, [RegistryNext]_rvars PROVE IInv'
  OBVIOUS
<1> USE DEF IInv
<1>1. CASE UNCHANGED rvars
  BY <1>1 DEF rvars, RegistryTypeOK, ProofInHand, LockExclusive, DecisionStands, PinnedAddrProved, Is
<1>2. ASSUME NEW t \in Tasks, NEW at \in Places, register_peer(t, at) \/ add_peer(t, at) PROVE IInv'
  BY <1>2, BeginIInv
<1>3. ASSUME NEW t \in Tasks, NEW at \in Places, NEW i \in Ids \ {Me}, add_peer_offline(t, at, i) PROVE IInv'
  BY <1>3, OfflineIInv
<1>4. ASSUME NEW t \in Tasks, handshake_verified(t) \/ UpsertRead(t) \/ UpsertFail(t) PROVE IInv'
  BY <1>4, TaskIInv
<1>5. ASSUME NEW t \in Tasks, UpsertWrite(t) PROVE IInv'
  BY <1>5, WriteIInv
<1>6. ASSUME NEW i \in Ids, remove_peer(i) PROVE IInv'
  BY <1>6, RowIInv, RegistryAssumption DEF remove_peer, Fault, RegistryTypeOK
<1>7. ASSUME NEW i \in Ids, record_peer_health(i) PROVE IInv'
  <2>1. peers[i] \in Row /\ peers' = [peers EXCEPT ![i] = [peers[i] EXCEPT !.recent = TRUE]]
    BY <1>7 DEF record_peer_health, RegistryTypeOK
  <2>2. [peers[i] EXCEPT !.recent = TRUE] \in Row
    BY <2>1 DEF Row
  <2>3. /\ peers'[i].key = peers[i].key /\ peers'[i].addr = peers[i].addr /\ peers'[i] # None
        /\ peers' \in [Ids -> Row \cup {None}] /\ \A j \in Ids \ {i} : peers'[j] = peers[j]
    BY <2>1, <2>2, RegistryAssumption DEF RegistryTypeOK, Row
  <2> QED
    BY <1>7, <2>3, RowIInv DEF record_peer_health, RegistryTypeOK
<1>8. CASE TwoMinutes
  <2>1. \A i \in Ids : peers[i] # None => [peers[i] EXCEPT !.recent = FALSE] \in Row
    BY DEF RegistryTypeOK, Row
  <2>2. \A i \in Ids :
          /\ peers'[i] \in Row \cup {None}
          /\ peers[i] = None => peers'[i] = None
          /\ peers[i] # None => /\ peers'[i].key = peers[i].key /\ peers'[i].addr = peers[i].addr
                                /\ peers'[i] # None
    BY <1>8, <2>1, RegistryAssumption DEF TwoMinutes, RegistryTypeOK, Row
  <2>3. peers' \in [Ids -> Row \cup {None}]
    BY <1>8, <2>2 DEF TwoMinutes
  <2> QED
    BY <1>8, <2>2, <2>3, RowIInv DEF TwoMinutes, RegistryTypeOK
<1>9. ASSUME NEW at \in Places, NEW who \in Residents \cup {None}, Change(at, who) PROVE IInv'
  BY <1>9, RowIInv, RegistryAssumption DEF Change, Fault, RegistryTypeOK
<1> QED
  BY <1>1, <1>2, <1>3, <1>4, <1>5, <1>6, <1>7, <1>8, <1>9 DEF RegistryNext

\* The inductive invariant holds in every behaviour of the registry.
THEOREM RegistryInvariance == RegistrySpec => []IInv
<1> QED
  BY InitIInv, NextIInv, PTL DEF RegistrySpec

\* A pinned peer is always recorded at an address where its key was proved, for
\* any number of peers, addresses and concurrent callers.
THEOREM PinnedAddrsProved == RegistrySpec => []PinnedAddrProved
<1>1. IInv => PinnedAddrProved
  BY DEF IInv
<1> QED
  BY <1>1, RegistryInvariance, PTL

\* What the guard of the upsert decided still holds at its write: no removal,
\* insert or other update comes between, because the row stays locked.
THEOREM DecisionsStand == RegistrySpec => []DecisionStands
<1>1. IInv => DecisionStands
  BY DEF IInv
<1> QED
  BY <1>1, RegistryInvariance, PTL

\* No step but a removal takes a pinned key away or replaces it.
THEOREM PinsKept == RegistrySpec => PinKept
<1>1. ASSUME IInv, [RegistryNext]_rvars, NEW i \in Ids,
             peers[i] # None, peers[i].key # None, peers'[i] # None
      PROVE  peers'[i].key = peers[i].key
  <2> USE <1>1 DEF IInv, RegistryTypeOK
  <2>1. CASE \E t \in Tasks : UpsertWrite(t) /\ Is(t, "insert")
    BY <2>1 DEF UpsertWrite, Insert, Is, Call
  <2>2. CASE \E t \in Tasks : UpsertWrite(t) /\ Is(t, "update")
    BY <2>2 DEF UpsertWrite, Update, Is, Call, Row
  <2>3. CASE TwoMinutes \/ (\E j \in Ids : record_peer_health(j) \/ remove_peer(j))
    BY <2>3 DEF TwoMinutes, record_peer_health, remove_peer, Row
  <2>4. CASE UNCHANGED peers
    BY <2>4
  <2> QED
    BY <2>1, <2>2, <2>3, <2>4 DEF RegistryNext, rvars, register_peer, add_peer, add_peer_offline,
       handshake_verified, UpsertRead, UpsertWrite, UpsertFail, Change
<1>2. IInv /\ [RegistryNext]_rvars =>
        [\A i \in Ids : peers[i] # None /\ peers[i].key # None /\ peers'[i] # None
            => peers'[i].key = peers[i].key]_rvars
  BY <1>1
<1> QED
  BY <1>2, RegistryInvariance, PTL DEF RegistrySpec, PinKept
=============================================================================
