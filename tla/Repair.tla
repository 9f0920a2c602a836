-------------------------------- MODULE Repair ------------------------------
(***************************************************************************)
(* The life of one chunk's shards on the network: spread over the peers    *)
(* after an upload (distribute_shards, handlers/files.rs), moved toward    *)
(* nearer hosts (rebalance.rs) and rebuilt when lost (repair.rs), while    *)
(* hosts come and go, disks rot and the node itself crashes.               *)
(*                                                                         *)
(* A step is what happens between two awaits, except that a pass probes    *)
(* all peers, or audits all shards of the chunk, in one step, and that the *)
(* tasks of an upload read their shards as they are spawned.  Layouts are  *)
(* any that the module Placement shows plan_placement_zoned to produce.    *)
(***************************************************************************)
EXTENDS Integers, FiniteSets, FiniteSetsExt, Sequences

CONSTANTS
    Peers,
    Data, Parity,    \* DATA_SHARDS, PARITY_SHARDS
    CriticalMargin,  \* CRITICAL_MARGIN
    DownThreshold,   \* peer_down_threshold
    Buckets,         \* passes in a scrub cycle
    Full,            \* peers that answer but refuse to store
    MaxEvents,       \* bound: faults, damage and rebalance passes together
    Overlap,         \* whether uploads, repair and rebalance run together
    None

ASSUME RepairAssumption ==
    /\ Data \in Nat \ {0} /\ Parity \in Nat \ {0} /\ CriticalMargin \in Nat
    /\ DownThreshold \in Nat \ {0} /\ Buckets \in Nat \ {0}
    /\ Full \subseteq Peers /\ Overlap \in BOOLEAN
    /\ MaxEvents \in Nat
    /\ IsFiniteSet(Peers) /\ "local" \notin Peers

Total == Data + Parity
Shards == 0 .. Total - 1
Locations == {"local"} \cup Peers
Copy == {"none", "good", "bad"}

VARIABLES
    location,    \* the manifest: where each shard is said to be
    disk,        \* what each location holds of each shard
    up,          \* peers that answer
    peers,       \* the peer table: status and consecutive failures, or None
    uploaded,    \* distribute_shards has been called
    task,        \* per shard, its distribution task
    move,        \* the rebalance pass
    pass,        \* the repair pass
    bucket,      \* the scrub sample of the next repair pass
    rebalances,  \* rebalance passes so far
    faults,      \* hosts gone, requests lost, crashes, peers removed so far
    damage       \* copies damaged and manifest writes failed so far

vars == <<location, disk, up, peers, uploaded, task, move, pass, bucket, rebalances, faults, damage>>
movers == <<uploaded, task, move, pass, bucket, rebalances>>

PeerRow == [status: {"active", "down"}, failures: 0 .. DownThreshold]
Move == [shard: Shards, from: Locations, dest: Locations]
Task == [pc: {"idle", "send", "record", "drop"}, bytes: Copy,
         queue: UNION {[1 .. n -> Peers] : n \in 0 .. 3}]
Rebalance == [pc: {"idle", "fetch", "place", "record", "drop"},
              todo: SUBSET Move, hand: Move \cup {None}]
Pass == [pc: {"idle", "plan", "assess", "fetch", "place", "record"},
         reachable: SUBSET Peers, down: SUBSET Peers, known: SUBSET Peers,
         shard_at: [Shards -> Locations] \cup {None},
         live: SUBSET Shards, grace: SUBSET Shards, missing: SUBSET Shards,
         loc_count: [Locations -> Nat] \cup {None}, target: Locations \cup {None}]

NoTask == [pc |-> "idle", bytes |-> "none", queue |-> <<>>]
NoRebalance == [pc |-> "idle", todo |-> {}, hand |-> None]
NoPass == [pc |-> "idle", reachable |-> {}, down |-> {}, known |-> {}, shard_at |-> None,
           live |-> {}, grace |-> {}, missing |-> {}, loc_count |-> None, target |-> None]

(* An upload has written every shard to the local store. *)
Init ==
    /\ location = [s \in Shards |-> "local"]
    /\ disk = [l \in Locations |-> [s \in Shards |-> IF l = "local" THEN "good" ELSE "none"]]
    /\ up = Peers
    /\ peers = [p \in Peers |-> [status |-> "active", failures |-> 0]]
    /\ uploaded = FALSE
    /\ task = [s \in Shards |-> NoTask]
    /\ move = NoRebalance
    /\ pass = NoPass
    /\ bucket = 0
    /\ rebalances = 0 /\ faults = 0 /\ damage = 0

-----------------------------------------------------------------------------
(* What all three do *)

AllIdle == (\A s \in Shards : task[s] = NoTask) /\ move = NoRebalance /\ pass = NoPass
MayStart == Overlap \/ AllIdle

MoreEvents == rebalances + faults + damage < MaxEvents

known == {p \in Peers : peers[p] # None}
alive == {p \in known \cap up : peers[p].status # "down"}
On(f, l) == {s \in DOMAIN f : f[s] = l}

(* What LocationCap of the module Placement says of a plan. *)
Layouts(live) ==
    {f \in [Shards -> {"local"} \cup live] :
        /\ \A p \in live : Cardinality(On(f, p)) <= Parity
        /\ Cardinality(On(f, "local")) > Parity
              => \A p \in live : Cardinality(On(f, p)) = Parity}

(* The bytes are gone from a location that cannot be reached, or are not what *)
(* the manifest's hash says (fetch_shard).                                    *)
Fetchable(s, l) == disk[l][s] = "good" /\ l \in {"local"} \cup up

(* place_shard or StoreShard, confirmed ... *)
accepts(l) == l \in {"local"} \cup (up \ Full)
Stored(s, l, bytes) ==
    /\ accepts(l)
    /\ disk' = [disk EXCEPT ![l][s] = bytes]
    /\ UNCHANGED <<faults, damage>>

(* ... or not: refused or out of reach; lost with or without effect; or torn *)
(* by a crash of the writer.                                                 *)
Unconfirmed(s, l, bytes) ==
    \/ ~accepts(l) /\ UNCHANGED <<disk, faults, damage>>
    \/ /\ accepts(l) /\ MoreEvents
       /\ disk' \in {disk, [disk EXCEPT ![l][s] = bytes]}
       /\ faults' = faults + 1 /\ UNCHANGED damage
    \/ /\ accepts(l) /\ MoreEvents
       /\ disk' = [disk EXCEPT ![l][s] = "bad"]
       /\ damage' = damage + 1 /\ UNCHANGED faults

(* set_location, whose error every caller ignores. *)
set_location(s, l) ==
    \/ location' = [location EXCEPT ![s] = l] /\ UNCHANGED damage
    \/ MoreEvents /\ damage' = damage + 1 /\ UNCHANGED location

(* drop_shard: a peer that is out of reach keeps an orphan. *)
drop_shard(s, l) ==
    disk' = IF l \in {"local"} \cup up THEN [disk EXCEPT ![l][s] = "none"] ELSE disk

-----------------------------------------------------------------------------
(* distribute_shards: the tasks of an upload *)

(* The peers a task tries, from its primary outward. *)
Failover(order, primary) ==
    LET n == Len(order)
        i == CHOOSE k \in 1 .. n : order[k] = primary
    IN  [k \in 1 .. (IF n < 3 THEN n ELSE 3) |-> order[((i + k - 2) % n) + 1]]

(* Jurisdiction may rule some of the peers out, and a ping may fail.  Each    *)
(* task reads its shard (read_local: whatever is there, unverified).          *)
Distribute ==
    /\ ~uploaded /\ MayStart
    /\ uploaded' = TRUE
    /\ \E live \in SUBSET alive :
          \E order \in Bijection(1 .. Cardinality(live), live), layout \in Layouts(live) :
             task' = [s \in Shards |->
                         IF layout[s] = "local" \/ disk["local"][s] = "none" THEN NoTask
                         ELSE [pc |-> "send", bytes |-> disk["local"][s],
                               queue |-> Failover(order, layout[s])]]
    /\ UNCHANGED <<location, disk, up, peers, move, pass, bucket, rebalances, faults, damage>>

TaskSend(s) ==
    LET l == Head(task[s].queue)
        rest == Tail(task[s].queue)
    IN  /\ task[s].pc = "send"
        /\ \/ /\ Stored(s, l, task[s].bytes)
              /\ task' = [task EXCEPT ![s] = [@ EXCEPT !.pc = "record", !.queue = <<l>>]]
           \/ /\ Unconfirmed(s, l, task[s].bytes)
              /\ task' = [task EXCEPT ![s] = IF rest = <<>> THEN NoTask
                                             ELSE [@ EXCEPT !.queue = rest]]
        /\ UNCHANGED <<location, up, peers, uploaded, move, pass, bucket, rebalances>>

TaskRecord(s) ==
    /\ task[s].pc = "record"
    /\ set_location(s, Head(task[s].queue))
    /\ task' = [task EXCEPT ![s] = [NoTask EXCEPT !.pc = "drop"]]
    /\ UNCHANGED <<disk, up, peers, uploaded, move, pass, bucket, rebalances, faults>>

TaskDrop(s) ==
    /\ task[s].pc = "drop"
    /\ drop_shard(s, "local")
    /\ task' = [task EXCEPT ![s] = NoTask]
    /\ UNCHANGED <<location, up, peers, uploaded, move, pass, bucket, rebalances, faults, damage>>

-----------------------------------------------------------------------------
(* rebalance_all *)

(* Who goes where: from reachable locations with more shards than the layout *)
(* wants to those with fewer, until either runs out.                         *)
Moves(reachable, layout) ==
    LET places == {"local"} \cup reachable
        excess(l) == Cardinality(On(location, l)) - Cardinality(On(layout, l))
        donors == [l \in Locations |-> IF l \in places THEN Max({0, excess(l)}) ELSE 0]
        wanted == [l \in places |-> Max({0, -excess(l)})]
        Sum(f) == MapThenSumSet(LAMBDA l : f[l], DOMAIN f)
    IN  {f \in [Shards -> places \cup {None}] :
            /\ \A l \in places : Cardinality(On(f, l)) <= wanted[l]
            /\ \A l \in Locations : Cardinality(On(location, l) \ On(f, None)) <= donors[l]
            /\ Cardinality(Shards \ On(f, None)) = Min({Sum(donors), Sum(wanted)})}

RebalanceBegin ==
    /\ MoreEvents /\ MayStart
    /\ move = NoRebalance
    /\ alive # {}
    /\ rebalances' = rebalances + 1
    /\ \E layout \in Layouts(alive) : \E f \in Moves(alive, layout) :
          LET todo == {[shard |-> s, from |-> location[s], dest |-> f[s]] :
                          s \in Shards \ On(f, None)}
          IN  move' = IF todo = {} THEN NoRebalance
                      ELSE [pc |-> "fetch", todo |-> todo, hand |-> None]
    /\ UNCHANGED <<location, disk, up, peers, uploaded, task, pass, bucket, faults, damage>>

NextMove == IF move.todo = {} THEN NoRebalance ELSE [move EXCEPT !.pc = "fetch", !.hand = None]

(* move_shard: fetch, verified ...  The local store receives first. *)
MoveFetch ==
    /\ move.pc = "fetch"
    /\ \E m \in move.todo :
          /\ m.dest = "local" \/ \A n \in move.todo : n.dest # "local"
          /\ LET rest == move.todo \ {m}
             IN  move' = IF Fetchable(m.shard, m.from)
                         THEN [move EXCEPT !.pc = "place", !.todo = rest, !.hand = m]
                         ELSE IF rest = {} THEN NoRebalance
                         ELSE [move EXCEPT !.todo = rest]
    /\ UNCHANGED <<location, disk, up, peers, uploaded, task, pass, bucket, rebalances, faults, damage>>

(* ... place ... *)
MovePlace ==
    /\ move.pc = "place"
    /\ \/ /\ Stored(move.hand.shard, move.hand.dest, "good")
          /\ move' = [move EXCEPT !.pc = "record"]
       \/ /\ Unconfirmed(move.hand.shard, move.hand.dest, "good")
          /\ move' = NextMove
    /\ UNCHANGED <<location, up, peers, uploaded, task, pass, bucket, rebalances>>

(* Faulty variant: the old copy is dropped before the manifest is updated. *)
MoveRecord_drops_first ==
    /\ move.pc = "record"
    /\ drop_shard(move.hand.shard, move.hand.from)
    /\ move' = [move EXCEPT !.pc = "drop"]
    /\ UNCHANGED <<location, up, peers, uploaded, task, pass, bucket, rebalances, faults, damage>>

(* ... manifest ... *)
MoveRecord ==
    /\ move.pc = "record"
    /\ set_location(move.hand.shard, move.hand.dest)
    /\ move' = [move EXCEPT !.pc = "drop"]
    /\ UNCHANGED <<disk, up, peers, uploaded, task, pass, bucket, rebalances, faults>>

(* ... drop the old copy. *)
MoveDrop ==
    /\ move.pc = "drop"
    /\ drop_shard(move.hand.shard, move.hand.from)
    /\ move' = NextMove
    /\ UNCHANGED <<location, up, peers, uploaded, task, pass, bucket, rebalances, faults, damage>>

-----------------------------------------------------------------------------
(* repair_all *)

(* record_peer_health *)
Health(row, answered) ==
    LET failures == IF row.failures < DownThreshold THEN row.failures + 1 ELSE DownThreshold
    IN  IF answered THEN [status |-> "active", failures |-> 0]
        ELSE [status |-> IF failures >= DownThreshold THEN "down" ELSE row.status,
              failures |-> failures]

RepairProbe ==
    /\ pass = NoPass /\ MayStart
    /\ LET reachable == known \cap up
           health == [p \in Peers |-> IF p \in known THEN Health(peers[p], p \in reachable)
                                      ELSE None]
       IN  /\ peers' = health
           /\ pass' = [NoPass EXCEPT
                          !.pc = "plan", !.known = known, !.reachable = reachable,
                          !.down = {p \in known \ reachable : health[p].status = "down"}]
    /\ UNCHANGED <<location, disk, up, uploaded, task, move, bucket, rebalances, faults, damage>>

(* pull_plan *)
RepairPlan ==
    /\ pass.pc = "plan"
    /\ pass' = [pass EXCEPT !.pc = "assess", !.shard_at = location]
    /\ UNCHANGED <<location, disk, up, peers, uploaded, task, move, bucket, rebalances, faults, damage>>

(* ScrubPlan: the fragments of one bucket in each pass. *)
due(s) == s % Buckets = bucket

(* Faulty variant: the hosts that may come back are never given up on. *)
classify_shard_patient(s) ==
    LET l == pass.shard_at[s]
        held == disk[l][s]
    IN  IF l = "local"
        THEN IF held = "good" \/ (held = "bad" /\ ~due(s)) THEN "live" ELSE "lost"
        ELSE IF l \in pass.reachable
        THEN IF held = "good" /\ l \in up THEN "live" ELSE "lost"
        ELSE "grace"

(* Local shards are hashed when their bucket is due, else only looked for;   *)
(* shards of a host that answered the ping are audited, and an audit that    *)
(* gets no answer is a loss.                                                 *)
classify_shard(s) ==
    LET l == pass.shard_at[s]
        held == disk[l][s]
    IN  IF l = "local"
        THEN IF held = "good" \/ (held = "bad" /\ ~due(s)) THEN "live" ELSE "lost"
        ELSE IF l \in pass.reachable
        THEN IF held = "good" /\ l \in up THEN "live" ELSE "lost"
        ELSE IF l \in pass.down \/ l \notin pass.known THEN "lost" ELSE "grace"

EndPass ==
    /\ pass' = NoPass
    /\ bucket' = (bucket + 1) % Buckets

(* assess_chunk and plan_chunk: the shards on hosts that are merely silent *)
(* wait, unless the margin is critical.                                    *)
RepairAssess ==
    LET live == {s \in Shards : classify_shard(s) = "live"}
        grace == {s \in Shards : classify_shard(s) = "grace"}
        lost == Shards \ (live \cup grace)
        critical == Cardinality(live) < Data + CriticalMargin
        missing == IF critical THEN lost \cup grace ELSE lost
    IN  /\ pass.pc = "assess"
        /\ IF missing = {} \/ Cardinality(live) < Data
           THEN EndPass
           ELSE /\ pass' = [pass EXCEPT !.pc = "fetch", !.live = live, !.grace = grace,
                                        !.missing = missing, !.down = {}, !.known = {}]
                /\ UNCHANGED bucket
        /\ UNCHANGED <<location, disk, up, peers, uploaded, task, move, rebalances, faults, damage>>

(* repair_chunk: fetch Data live shards, verified; regenerate them all. *)
RepairFetch ==
    LET got == {s \in pass.live : Fetchable(s, pass.shard_at[s])}
        kept == pass.live \cup pass.grace
    IN  /\ pass.pc = "fetch"
        /\ IF Cardinality(got) < Data
           THEN EndPass
           ELSE /\ pass' = [pass EXCEPT
                               !.pc = "place", !.live = {}, !.grace = {}, !.shard_at = None,
                               !.loc_count = [l \in Locations |->
                                                 Cardinality({s \in kept : pass.shard_at[s] = l})]]
                /\ UNCHANGED bucket
        /\ UNCHANGED <<location, disk, up, peers, uploaded, task, move, rebalances, faults, damage>>

(* choose_target: a location below Parity first, the fewest shards first;  *)
(* reliability scores and names break the tie.                             *)
choose_target ==
    LET candidates == {"local"} \cup pass.reachable
        n(l) == pass.loc_count[l]
    IN  {l \in candidates : \A m \in candidates : n(l) <= n(m)}

(* One missing shard, the lowest first; what cannot be placed waits for the *)
(* next pass.                                                               *)
RepairPlace ==
    LET s == Min(pass.missing)
        rest == pass.missing \ {s}
    IN  /\ pass.pc = "place"
        /\ \E l \in choose_target :
              \/ /\ Stored(s, l, "good")
                 /\ pass' = [pass EXCEPT !.pc = "record", !.target = l]
                 /\ UNCHANGED bucket
              \/ /\ Unconfirmed(s, l, "good")
                 /\ IF rest = {} THEN EndPass
                    ELSE pass' = [pass EXCEPT !.missing = rest] /\ UNCHANGED bucket
        /\ UNCHANGED <<location, up, peers, uploaded, task, move, rebalances>>

RepairRecord ==
    LET s == Min(pass.missing)
        rest == pass.missing \ {s}
    IN  /\ pass.pc = "record"
        /\ set_location(s, pass.target)
        /\ IF rest = {} THEN EndPass
           ELSE /\ pass' = [pass EXCEPT !.pc = "place", !.missing = rest, !.target = None,
                                        !.loc_count[pass.target] = @ + 1]
                /\ UNCHANGED bucket
        /\ UNCHANGED <<disk, up, peers, uploaded, task, move, rebalances, faults>>

-----------------------------------------------------------------------------
(* The world *)

PeerDown(p) ==
    /\ p \in up /\ MoreEvents
    /\ up' = up \ {p} /\ faults' = faults + 1
    /\ UNCHANGED <<location, disk, peers, damage, movers>>

PeerUp(p) ==
    /\ p \notin up
    /\ up' = up \cup {p}
    /\ UNCHANGED <<location, disk, peers, faults, damage, movers>>

(* The administrator removes a peer; its next announce brings it back. *)
RemovePeer(p) ==
    /\ peers[p] # None /\ MoreEvents
    /\ peers' = [peers EXCEPT ![p] = None] /\ faults' = faults + 1
    /\ UNCHANGED <<location, disk, up, damage, movers>>

Announce(p) ==
    /\ peers[p] = None /\ p \in up
    /\ peers' = [peers EXCEPT ![p] = [status |-> "active", failures |-> 0]]
    /\ UNCHANGED <<location, disk, up, faults, damage, movers>>

(* A recorded copy rots, or is lost with its disk or to its host's retention. *)
Damage(s) ==
    LET l == location[s]
    IN  /\ disk[l][s] = "good" /\ MoreEvents
        /\ \E held \in {"none", "bad"} : disk' = [disk EXCEPT ![l][s] = held]
        /\ damage' = damage + 1
        /\ UNCHANGED <<location, up, peers, faults, movers>>

(* The node stops and starts again: nothing of what it was doing is resumed. *)
Crash ==
    /\ ~AllIdle /\ MoreEvents
    /\ faults' = faults + 1
    /\ task' = [s \in Shards |-> NoTask] /\ move' = NoRebalance /\ pass' = NoPass
    /\ UNCHANGED <<location, disk, up, peers, uploaded, bucket, rebalances, damage>>

(* What the node does of its own accord, once asked to. *)
Work ==
    \/ \E s \in Shards : TaskSend(s) \/ TaskRecord(s) \/ TaskDrop(s)
    \/ MoveFetch \/ MovePlace \/ MoveRecord \/ MoveDrop
    \/ RepairProbe \/ RepairPlan \/ RepairAssess \/ RepairFetch \/ RepairPlace \/ RepairRecord

Next ==
    \/ Distribute
    \/ RebalanceBegin
    \/ Work
    \/ \E p \in Peers : PeerDown(p) \/ PeerUp(p) \/ RemovePeer(p) \/ Announce(p)
    \/ \E s \in Shards : Damage(s)
    \/ Crash

Spec == Init /\ [][Next]_vars

(* Tasks and passes that have begun go on, and the ticker starts repair passes *)
(* for ever.                                                                   *)
FairSpec == Spec /\ WF_vars(Work)

-----------------------------------------------------------------------------
(* Properties *)

(* Every variable holds a value of its type. *)
TypeOK ==
    /\ location \in [Shards -> Locations]
    /\ disk \in [Locations -> [Shards -> Copy]]
    /\ up \subseteq Peers
    /\ peers \in [Peers -> PeerRow \cup {None}]
    /\ uploaded \in BOOLEAN
    /\ task \in [Shards -> Task]
    /\ move \in Rebalance
    /\ pass \in Pass
    /\ bucket \in 0 .. Buckets - 1
    /\ rebalances \in Nat /\ faults \in Nat /\ damage \in Nat
    /\ rebalances + faults + damage <= MaxEvents

Backed(s) == disk[location[s]][s] = "good"

(* Moving shards loses none: every shard is where the manifest says, whole,    *)
(* but for one per damaged copy or failed manifest write.  Crashes at any      *)
(* point, lost acknowledgements, hosts that come and go and the passes         *)
(* themselves cost nothing: "a crash mid-way leaves either the old or both     *)
(* copies, never zero" (rebalance.rs:157).                                     *)
MovesLoseNothing == Cardinality({s \in Shards : ~Backed(s)}) <= damage

InReach(s) == Backed(s) /\ location[s] \in {"local"} \cup (known \cap up)
Recoverable == Cardinality({s \in Shards : InReach(s)}) >= Data

(* "as long as at least DATA_SHARDS of a chunk's 14 shards are still reachable *)
(* - reconstructs the chunk and re-replicates the lost shards" (repair.rs:2-4):*)
(* once the world is quiet, a chunk that can be rebuilt is whole again for     *)
(* good, although passes wait for silent hosts and look at local copies only   *)
(* in turn.                                                                    *)
Heals == <>[]Recoverable => <>[](\A s \in Shards : InReach(s))
=============================================================================
