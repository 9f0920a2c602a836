----------------------------- MODULE RepairProofs ---------------------------
(***************************************************************************)
(* The shards of a chunk, for any number of peers, any erasure code and    *)
(* any number of faults: as long as upload, rebalance and repair do not    *)
(* overlap, each damaged copy and each failed manifest write costs at most *)
(* one shard, and nothing else costs any.                                  *)
(*                                                                         *)
(* The count of lost shards is not inductive: a shard can be doomed while  *)
(* its copy is still good, when a bad copy of it is about to be sent, or   *)
(* when its manifest write failed and the copy it names is next to be      *)
(* dropped.  Clean says that none of this awaits a shard, and Charged that *)
(* the shards that are not clean are no more than the damage done.         *)
(***************************************************************************)
EXTENDS Repair, FiniteSetTheorems, TLAPS

USE RepairAssumption

(* The state, as far as the argument needs it. *)
Formed ==
    /\ location \in [Shards -> Locations]
    /\ disk \in [Locations -> [Shards -> Copy]]
    /\ damage \in Nat

TaskRec == [pc: {"idle", "send", "record", "drop"}, bytes: Copy, queue: Seq(Peers)]

(* A task that sends or records has a peer to do it at. *)
TaskFormed(t) == t \in TaskRec /\ (t.pc \in {"send", "record"} => t.queue # <<>>)

(* A shard is moved from one location to another. *)
MoveFormed(m) == m \in Move /\ m.from # m.dest

RebalanceFormed(r) ==
    /\ r \in Rebalance
    /\ \A m \in r.todo : MoveFormed(m)
    /\ r.pc \in {"place", "record", "drop"} => MoveFormed(r.hand)

PassFormed(r) ==
    /\ r \in Pass
    /\ r.pc \in {"place", "record"} => r.loc_count \in [Locations -> Nat]
    /\ r.pc = "record" => r.target \in Locations

MoversFormed ==
    /\ task \in [Shards -> TaskRec]
    /\ \A s \in Shards : TaskFormed(task[s])
    /\ RebalanceFormed(move)
    /\ PassFormed(pass)

TasksIdle == \A s \in Shards : task[s].pc = "idle"

(* Only one of the three is at work. *)
OneAtATime ==
    /\ move.pc # "idle" => TasksIdle /\ pass.pc = "idle"
    /\ pass.pc # "idle" => TasksIdle /\ move.pc = "idle"

(* The shard is whole, no copy of it is bad, and no step under way changes that. *)
Clean(s) ==
    /\ disk[location[s]][s] = "good"
    /\ \A l \in Locations : disk[l][s] # "bad"
    /\ task[s].pc = "send" => task[s].bytes = "good"
    /\ task[s].pc = "record" => disk[Head(task[s].queue)][s] = "good"
    /\ task[s].pc = "drop" => location[s] # "local"
    /\ move.pc = "record" /\ move.hand.shard = s => disk[move.hand.dest][s] = "good"
    /\ move.pc = "drop" /\ move.hand.shard = s => location[s] # move.hand.from
    /\ pass.pc = "record" /\ Min(pass.missing) = s => disk[pass.target][s] = "good"

Charged == Cardinality({s \in Shards : ~Clean(s)}) <= damage

(* The inductive invariant. *)
IInv == Formed /\ MoversFormed /\ OneAtATime /\ Charged

-----------------------------------------------------------------------------
(* The shards of a chunk are finitely many, and so is any part of them. *)
LEMMA ShardsFinite == IsFiniteSet(Shards) /\ \A S \in SUBSET Shards : IsFiniteSet(S)
<1>1. IsFiniteSet(Shards)
  BY FS_Interval DEF Shards, Total
<1> QED
  BY <1>1, FS_Subset

(* No shard is lost beyond the damage done. *)
LEMMA ChargedCovers == ASSUME IInv PROVE MovesLoseNothing
<1>1. PICK A : A = {s \in Shards : ~Backed(s)}
  BY Zenon
<1>2. PICK B : B = {s \in Shards : ~Clean(s)}
  BY Zenon
<1>3. A \subseteq B /\ IsFiniteSet(B)
  BY <1>1, <1>2, ShardsFinite DEF Backed, Clean
<1>4. Cardinality(A) <= Cardinality(B) /\ Cardinality(A) \in Nat /\ Cardinality(B) \in Nat
  BY <1>3, FS_Subset, FS_CardinalityType
<1> QED
  BY <1>1, <1>2, <1>4 DEF MovesLoseNothing, IInv, Charged, Formed

(* A step that does no damage leaves every clean shard clean. *)
LEMMA HarmlessStep ==
  ASSUME Formed, Charged, damage' = damage,
         \A s \in Shards : Clean(s) => Clean(s)'
  PROVE  Charged'
<1>1. PICK A : A = {s \in Shards : ~Clean(s)'}
  BY Zenon
<1>2. PICK B : B = {s \in Shards : ~Clean(s)}
  BY Zenon
<1>3. A \subseteq B /\ IsFiniteSet(B)
  BY <1>1, <1>2, ShardsFinite
<1>4. Cardinality(A) <= Cardinality(B) /\ Cardinality(A) \in Nat /\ Cardinality(B) \in Nat
  BY <1>3, FS_Subset, FS_CardinalityType
<1> QED
  BY <1>1, <1>2, <1>4 DEF Charged, Formed

(* A step that does damage costs one shard at most. *)
LEMMA DamagingStep ==
  ASSUME Formed, Charged, damage' = damage + 1, NEW x,
         \A s \in Shards : s # x /\ Clean(s) => Clean(s)'
  PROVE  Charged'
<1>1. PICK A : A = {s \in Shards : ~Clean(s)'}
  BY Zenon
<1>2. PICK B : B = {s \in Shards : ~Clean(s)}
  BY Zenon
<1>3. A \subseteq B \cup {x} /\ IsFiniteSet(B)
  BY <1>1, <1>2, ShardsFinite
<1>4. /\ IsFiniteSet(B \cup {x})
      /\ Cardinality(B \cup {x}) <= Cardinality(B) + 1
      /\ Cardinality(B) \in Nat
  <2>1. Cardinality(B) \in Nat
    BY <1>3, FS_CardinalityType
  <2>2. /\ IsFiniteSet(B \cup {x})
        /\ Cardinality(B \cup {x}) = IF x \in B THEN Cardinality(B) ELSE Cardinality(B) + 1
    BY <1>3, FS_AddElement
  <2> QED
    BY <2>1, <2>2
<1>5. Cardinality(A) <= Cardinality(B \cup {x})
  BY <1>3, <1>4, FS_Subset
<1>6. Cardinality(A) \in Nat /\ Cardinality(B \cup {x}) \in Nat
  BY <1>3, <1>4, FS_Subset, FS_CardinalityType
<1> QED
  BY <1>1, <1>2, <1>4, <1>5, <1>6 DEF Charged, Formed

(* An idle task, rebalance or pass has nothing in hand. *)
LEMMA IdleFormed ==
  /\ TaskFormed(NoTask) /\ NoTask \in TaskRec /\ NoTask.pc = "idle"
  /\ RebalanceFormed(NoRebalance) /\ NoRebalance.pc = "idle"
  /\ PassFormed(NoPass) /\ NoPass.pc = "idle"
<1>1. <<>> \in Seq(Peers)
  OBVIOUS
<1>2. NoTask \in TaskRec /\ NoTask.pc = "idle"
  BY <1>1 DEF NoTask, TaskRec, Copy
<1>3. NoRebalance \in Rebalance /\ NoRebalance.pc = "idle" /\ NoRebalance.todo = {}
  BY DEF NoRebalance, Rebalance
<1>4. NoPass \in Pass /\ NoPass.pc = "idle"
  BY DEF NoPass, Pass
<1> QED
  BY <1>2, <1>3, <1>4 DEF TaskFormed, RebalanceFormed, PassFormed

(* An upload starts with every shard whole, in the local store. *)
LEMMA InitIInv == Init => IInv
<1> SUFFICES ASSUME Init PROVE IInv
  OBVIOUS
<1>1. Formed
  <2>1. location \in [Shards -> Locations]
    BY DEF Init, Locations
  <2>2. disk \in [Locations -> [Shards -> Copy]]
    BY DEF Init, Copy
  <2> QED
    BY <2>1, <2>2 DEF Init, Formed
<1>2. MoversFormed
  <2>1. \A s \in Shards : TaskFormed(task[s])
    BY IdleFormed DEF Init
  <2>2. task \in [Shards -> TaskRec]
    BY IdleFormed DEF Init
  <2> QED
    BY <2>1, <2>2, IdleFormed DEF Init, MoversFormed
<1>3. OneAtATime
  BY DEF Init, OneAtATime, NoRebalance, NoPass
<1>4. \A s \in Shards : Clean(s)
  BY DEF Init, Clean, Locations, NoTask, NoRebalance, NoPass
<1>5. Charged
  <2>1. {s \in Shards : ~Clean(s)} = {}
    BY <1>4
  <2>2. Cardinality({s \in Shards : ~Clean(s)}) = 0
    BY <2>1, FS_EmptySet
  <2> QED
    BY <2>2 DEF Charged, Init
<1> QED
  BY <1>1, <1>2, <1>3, <1>5 DEF IInv

-----------------------------------------------------------------------------
(* Only copies of that shard change, to what was sent unless it is damage. *)
LEMMA StoreEffect ==
  ASSUME Formed, NEW s, NEW l \in Locations, NEW bytes \in Copy,
         Stored(s, l, bytes) \/ Unconfirmed(s, l, bytes)
  PROVE  /\ disk' \in [Locations -> [Shards -> Copy]]
         /\ damage' \in {damage, damage + 1}
         /\ \A k \in Locations, x \in Shards : x # s => disk'[k][x] = disk[k][x]
         /\ damage' = damage =>
               \A k \in Locations, x \in Shards : disk'[k][x] \in {disk[k][x], bytes}
         /\ Stored(s, l, bytes) => \A x \in Shards : x = s => disk'[l][x] = bytes
<1>1. \A b \in Copy :
        LET d == [disk EXCEPT ![l][s] = b]
        IN  /\ d \in [Locations -> [Shards -> Copy]]
            /\ \A k \in Locations, x \in Shards : x # s => d[k][x] = disk[k][x]
            /\ \A k \in Locations, x \in Shards : d[k][x] \in {disk[k][x], b}
            /\ \A x \in Shards : x = s => d[l][x] = b
  BY Zenon DEF Formed
<1>2. "bad" \in Copy /\ damage # damage + 1
  BY DEF Copy, Formed
<1>3. Stored(s, l, bytes) => \A x \in Shards : x = s => disk'[l][x] = bytes
  BY <1>1 DEF Stored
<1>4. CASE disk' = disk /\ damage' = damage
  BY <1>3, <1>4 DEF Formed
<1>5. CASE disk' = [disk EXCEPT ![l][s] = bytes] /\ damage' = damage
  BY <1>1, <1>3, <1>5
<1>6. CASE disk' = [disk EXCEPT ![l][s] = "bad"] /\ damage' = damage + 1
  BY <1>1, <1>2, <1>3, <1>6
<1> QED
  BY <1>4, <1>5, <1>6 DEF Unconfirmed, Stored

(* The manifest write happens, or is damage. *)
LEMMA SetLocationEffect ==
  ASSUME Formed, NEW s, NEW l \in Locations, set_location(s, l)
  PROVE  /\ location' \in [Shards -> Locations]
         /\ damage' \in {damage, damage + 1}
         /\ \A x \in Shards : x # s => location'[x] = location[x]
         /\ damage' = damage => \A x \in Shards : x = s => location'[x] = l
<1>1. damage # damage + 1
  BY DEF Formed
<1>2. CASE location' = [location EXCEPT ![s] = l] /\ UNCHANGED damage
  BY <1>2, Zenon DEF Formed
<1>3. CASE damage' = damage + 1 /\ UNCHANGED location
  BY <1>1, <1>3 DEF Formed
<1> QED
  BY <1>2, <1>3 DEF set_location

(* A dropped copy is gone or, out of reach, still there. *)
LEMMA DropEffect ==
  ASSUME Formed, NEW s, NEW l \in Locations, drop_shard(s, l)
  PROVE  /\ disk' \in [Locations -> [Shards -> Copy]]
         /\ \A k \in Locations, x \in Shards : x # s \/ k # l => disk'[k][x] = disk[k][x]
         /\ \A k \in Locations, x \in Shards : disk'[k][x] \in {disk[k][x], "none"}
<1>1. "none" \in Copy
  BY DEF Copy
<1>2. CASE disk' = disk
  BY <1>2 DEF Formed
<1>3. CASE disk' = [disk EXCEPT ![l][s] = "none"]
  BY <1>1, <1>3, Zenon DEF Formed
<1> QED
  BY <1>2, <1>3 DEF drop_shard

-----------------------------------------------------------------------------
(* While a task is under way neither pass is. *)
LEMMA TaskStep ==
  ASSUME MoversFormed, OneAtATime, NEW s \in Shards, NEW t \in TaskRec, TaskFormed(t),
         task[s].pc # "idle", task' = [task EXCEPT ![s] = t], move' = move, pass' = pass
  PROVE  /\ MoversFormed' /\ OneAtATime'
         /\ move.pc = "idle" /\ pass.pc = "idle"
         /\ \A x \in Shards : task'[x] = IF x = s THEN t ELSE task[x]
<1>1. /\ \A x \in Shards : task'[x] = IF x = s THEN t ELSE task[x]
      /\ task' \in [Shards -> TaskRec]
  BY DEF MoversFormed
<1>2. move.pc = "idle" /\ pass.pc = "idle"
  BY DEF OneAtATime, TasksIdle
<1>3. \A x \in Shards : TaskFormed(task'[x])
  BY <1>1 DEF MoversFormed
<1>4. MoversFormed'
  BY <1>1, <1>3 DEF MoversFormed, TaskFormed, RebalanceFormed, MoveFormed, PassFormed
<1>5. OneAtATime'
  BY <1>2 DEF OneAtATime
<1> QED
  BY <1>1, <1>2, <1>4, <1>5

(* The shards of the other tasks do not notice. *)
LEMMA OtherShards ==
  ASSUME MoversFormed, Formed, NEW s, NEW x \in Shards, x # s, Clean(x),
         location'[x] = location[x], task'[x] = task[x],
         \A k \in Locations : disk'[k][x] = disk[k][x],
         move'.pc \in {"record", "drop"} => move'.hand.shard # x,
         pass'.pc = "record" => Min(pass'.missing) # x
  PROVE  Clean(x)'
<1>1. location[x] \in Locations
  BY DEF Formed
<1>2. task[x].pc = "record" => Head(task[x].queue) \in Locations
  <2>1. task[x].queue \in Seq(Peers) /\ (task[x].pc = "record" => task[x].queue # <<>>)
    BY DEF MoversFormed, TaskFormed, TaskRec
  <2> QED
    BY <2>1 DEF Locations
<1> QED
  BY <1>1, <1>2 DEF Clean

(* A task sends what it read to its next peer. *)
LEMMA TaskSendIInv ==
  ASSUME IInv, NEW s \in Shards, TaskSend(s)
  PROVE  IInv'
<1>0. Formed /\ MoversFormed /\ OneAtATime /\ Charged
  BY DEF IInv
<1>1. task[s].pc = "send" /\ location' = location /\ move' = move /\ pass' = pass
  BY DEF TaskSend
<1>2. PICK old \in TaskRec : old = task[s]
  BY <1>0 DEF MoversFormed
<1>3. PICK q \in Seq(Peers) : q = old.queue /\ q # <<>>
  BY <1>0, <1>1, <1>2 DEF MoversFormed, TaskFormed, TaskRec
<1>4. PICK bytes \in Copy : bytes = old.bytes
  BY <1>2 DEF TaskRec
<1>5. PICK l \in Peers : l = Head(q)
  BY <1>3
<1>6. l \in Locations
  BY <1>5 DEF Locations
<1>7. PICK t \in TaskRec :
         /\ TaskFormed(t) /\ task' = [task EXCEPT ![s] = t]
         /\ \/ Stored(s, l, bytes) /\ t.pc = "record" /\ Head(t.queue) = l
            \/ Unconfirmed(s, l, bytes) /\ t.pc = "send" /\ t.bytes = bytes
            \/ Unconfirmed(s, l, bytes) /\ t.pc = "idle"
  <2>1. CASE /\ Stored(s, l, bytes)
             /\ task' = [task EXCEPT ![s] = [old EXCEPT !.pc = "record", !.queue = <<l>>]]
    <3>1. PICK t : t = [old EXCEPT !.pc = "record", !.queue = <<l>>]
      OBVIOUS
    <3>2. <<l>> \in Seq(Peers) /\ <<l>> # <<>> /\ Head(<<l>>) = l
      OBVIOUS
    <3>3. t \in TaskRec /\ t.pc = "record" /\ t.queue = <<l>>
      BY <3>1, <3>2, Zenon DEF TaskRec
    <3>4. TaskFormed(t) /\ Head(t.queue) = l
      BY <3>2, <3>3 DEF TaskFormed
    <3> QED
      BY <2>1, <3>1, <3>3, <3>4, Zenon
  <2>2. CASE /\ Unconfirmed(s, l, bytes)
             /\ task' = [task EXCEPT ![s] = [old EXCEPT !.queue = Tail(q)]]
             /\ Tail(q) # <<>>
    <3>1. PICK t : t = [old EXCEPT !.queue = Tail(q)]
      BY Zenon
    <3>2. Tail(q) \in Seq(Peers)
      BY <1>3
    <3>3. t \in TaskRec /\ t.pc = "send" /\ t.queue = Tail(q) /\ t.bytes = bytes
      BY <1>1, <1>2, <1>4, <3>1, <3>2, Zenon DEF TaskRec
    <3> QED
      BY <2>2, <3>1, <3>3, Zenon DEF TaskFormed
  <2>3. CASE Unconfirmed(s, l, bytes) /\ task' = [task EXCEPT ![s] = NoTask]
    BY <2>3, IdleFormed, Zenon
  <2> QED
    BY <1>2, <1>3, <1>4, <1>5, <2>1, <2>2, <2>3 DEF TaskSend
<1>8. /\ MoversFormed' /\ OneAtATime'
      /\ move.pc = "idle" /\ pass.pc = "idle"
      /\ \A x \in Shards : task'[x] = IF x = s THEN t ELSE task[x]
  <2>1. task[s].pc # "idle"
    BY <1>1
  <2> QED
    BY <1>0, <1>1, <1>7, <2>1, TaskStep, Zenon
<1>9. /\ disk' \in [Locations -> [Shards -> Copy]]
      /\ damage' \in {damage, damage + 1}
      /\ \A k \in Locations, x \in Shards : x # s => disk'[k][x] = disk[k][x]
      /\ damage' = damage =>
            \A k \in Locations, x \in Shards : disk'[k][x] \in {disk[k][x], bytes}
      /\ Stored(s, l, bytes) => \A x \in Shards : x = s => disk'[l][x] = bytes
  BY <1>0, <1>6, <1>7, StoreEffect
<1>10. Formed'
  BY <1>0, <1>1, <1>9 DEF Formed
<1>11. \A x \in Shards : x # s /\ Clean(x) => Clean(x)'
  BY <1>0, <1>1, <1>8, <1>9, OtherShards, Zenon
<1>12. CASE damage' = damage + 1
  BY <1>0, <1>8, <1>10, <1>11, <1>12, DamagingStep DEF IInv
<1>13. CASE damage' = damage
  <2>1. ASSUME Clean(s) PROVE Clean(s)'
    <3>1. bytes = "good"
      BY <1>1, <1>2, <1>4, <2>1 DEF Clean
    <3>2. \A k \in Locations : disk'[k][s] \in {disk[k][s], "good"}
      BY <1>9, <1>13, <3>1
    <3>3. disk'[location'[s]][s] = "good" /\ \A k \in Locations : disk'[k][s] # "bad"
      BY <1>0, <1>1, <2>1, <3>2 DEF Clean, Formed
    <3>4. /\ t.pc = "send" => t.bytes = "good"
          /\ t.pc = "record" => disk'[Head(t.queue)][s] = "good"
          /\ t.pc # "drop"
      BY <1>7, <1>9, <3>1
    <3> QED
      BY <1>1, <1>8, <3>3, <3>4 DEF Clean
  <2> QED
    BY <1>0, <1>8, <1>10, <1>11, <1>13, <2>1, HarmlessStep DEF IInv
<1> QED
  BY <1>9, <1>12, <1>13

(* The manifest is told of the copy that was confirmed. *)
LEMMA TaskRecordIInv ==
  ASSUME IInv, NEW s \in Shards, TaskRecord(s)
  PROVE  IInv'
<1>0. Formed /\ MoversFormed /\ OneAtATime /\ Charged
  BY DEF IInv
<1>1. task[s].pc = "record" /\ disk' = disk /\ move' = move /\ pass' = pass
  BY DEF TaskRecord
<1>2. PICK l \in Peers : l = Head(task[s].queue)
  <2>1. task[s].queue \in Seq(Peers) /\ task[s].queue # <<>>
    BY <1>0, <1>1 DEF MoversFormed, TaskFormed, TaskRec
  <2> QED
    BY <2>1
<1>3. l \in Locations /\ l # "local"
  BY DEF Locations
<1>4. PICK t \in TaskRec : TaskFormed(t) /\ task' = [task EXCEPT ![s] = t] /\ t.pc = "drop"
  <2>1. PICK t : t = [NoTask EXCEPT !.pc = "drop"]
    BY Zenon
  <2>2. t \in TaskRec /\ t.pc = "drop"
    BY <2>1, IdleFormed DEF TaskRec
  <2> QED
    BY <2>1, <2>2, Zenon DEF TaskRecord, TaskFormed
<1>5. /\ MoversFormed' /\ OneAtATime'
      /\ move.pc = "idle" /\ pass.pc = "idle"
      /\ \A x \in Shards : task'[x] = IF x = s THEN t ELSE task[x]
  <2>1. task[s].pc # "idle"
    BY <1>1
  <2> QED
    BY <1>0, <1>1, <1>4, <2>1, TaskStep, Zenon
<1>6. /\ location' \in [Shards -> Locations]
      /\ damage' \in {damage, damage + 1}
      /\ \A x \in Shards : x # s => location'[x] = location[x]
      /\ damage' = damage => \A x \in Shards : x = s => location'[x] = l
  <2>1. set_location(s, l)
    BY <1>2 DEF TaskRecord
  <2> QED
    BY <1>0, <1>3, <2>1, SetLocationEffect
<1>7. Formed'
  BY <1>0, <1>1, <1>6 DEF Formed
<1>8. \A x \in Shards : x # s /\ Clean(x) => Clean(x)'
  BY <1>0, <1>1, <1>5, <1>6, OtherShards, Zenon
<1>9. CASE damage' = damage + 1
  BY <1>0, <1>5, <1>7, <1>8, <1>9, DamagingStep DEF IInv
<1>10. CASE damage' = damage
  <2>1. ASSUME Clean(s) PROVE Clean(s)'
    BY <1>1, <1>2, <1>3, <1>4, <1>5, <1>6, <1>10, <2>1 DEF Clean
  <2> QED
    BY <1>0, <1>5, <1>7, <1>8, <1>10, <2>1, HarmlessStep DEF IInv
<1> QED
  BY <1>6, <1>9, <1>10

(* The local copy goes: the manifest no longer names it. *)
LEMMA TaskDropIInv ==
  ASSUME IInv, NEW s \in Shards, TaskDrop(s)
  PROVE  IInv'
<1>0. Formed /\ MoversFormed /\ OneAtATime /\ Charged
  BY DEF IInv
<1>1. /\ task[s].pc = "drop" /\ location' = location /\ damage' = damage
      /\ move' = move /\ pass' = pass /\ task' = [task EXCEPT ![s] = NoTask]
  BY DEF TaskDrop
<1>2. /\ MoversFormed' /\ OneAtATime'
      /\ move.pc = "idle" /\ pass.pc = "idle"
      /\ \A x \in Shards : task'[x] = IF x = s THEN NoTask ELSE task[x]
  <2>1. task[s].pc # "idle"
    BY <1>1
  <2> QED
    BY <1>0, <1>1, <2>1, IdleFormed, TaskStep, Zenon
<1>3. /\ disk' \in [Locations -> [Shards -> Copy]]
      /\ \A k \in Locations, x \in Shards : x # s \/ k # "local" => disk'[k][x] = disk[k][x]
      /\ \A k \in Locations, x \in Shards : disk'[k][x] \in {disk[k][x], "none"}
  <2>1. "local" \in Locations /\ drop_shard(s, "local")
    BY DEF Locations, TaskDrop
  <2> QED
    BY <1>0, <2>1, DropEffect
<1>4. Formed'
  BY <1>0, <1>1, <1>3 DEF Formed
<1>5. \A x \in Shards : x # s /\ Clean(x) => Clean(x)'
  BY <1>0, <1>1, <1>2, <1>3, OtherShards, Zenon
<1>6. ASSUME Clean(s) PROVE Clean(s)'
  <2>1. location[s] \in Locations /\ location[s] # "local"
    BY <1>0, <1>1, <1>6 DEF Clean, Formed
  <2>2. disk'[location'[s]][s] = "good" /\ \A k \in Locations : disk'[k][s] # "bad"
    BY <1>1, <1>3, <1>6, <2>1 DEF Clean
  <2> QED
    BY <1>1, <1>2, <2>2, IdleFormed DEF Clean
<1> QED
  BY <1>0, <1>1, <1>2, <1>4, <1>5, <1>6, HarmlessStep DEF IInv

-----------------------------------------------------------------------------
(* The tasks of an upload are well formed: each has a peer to start with. *)
LEMMA FailoverFormed ==
  ASSUME NEW live \in SUBSET Peers, NEW order \in Bijection(1 .. Cardinality(live), live),
         NEW p \in live
  PROVE  Failover(order, p) \in Seq(Peers) /\ Failover(order, p) # <<>>
<1>1. IsFiniteSet(live) /\ Cardinality(live) \in Nat
  BY FS_Subset, FS_CardinalityType
<1>2. PICK n \in Nat : n = Cardinality(live)
  BY <1>1
<1>3. order \in [1 .. n -> live] /\ order \in Surjection(1 .. n, live)
  BY <1>2 DEF Bijection, Injection
<1>4. \E k \in 1 .. n : order[k] = p
  BY <1>3 DEF Surjection
<1>5. Len(order) = n
  BY <1>3
<1>6. PICK i : i = CHOOSE k \in 1 .. n : order[k] = p
  OBVIOUS
<1>7. i \in 1 .. n
  BY <1>4, <1>6
<1>8. PICK m : m = IF n < 3 THEN n ELSE 3
  OBVIOUS
<1>9. m \in Nat /\ m >= 1
  BY <1>7, <1>8
<1>10. \A k \in 1 .. m : order[((i + k - 2) % n) + 1] \in Peers
  <2> SUFFICES ASSUME NEW k \in 1 .. m PROVE order[((i + k - 2) % n) + 1] \in Peers
    OBVIOUS
  <2>1. PICK x \in Nat : x = i + k - 2
    BY <1>7, <1>9
  <2>2. x % n \in 0 .. (n - 1)
    BY <1>7
  <2>3. (x % n) + 1 \in 1 .. n
    BY <2>2
  <2> QED
    BY <1>3, <2>1, <2>3
<1>11. Failover(order, p) = [k \in 1 .. m |-> order[((i + k - 2) % n) + 1]]
  BY <1>5, <1>6, <1>8 DEF Failover
<1>12. Failover(order, p) \in [1 .. m -> Peers]
  BY <1>10, <1>11
<1>13. PICK q : q = Failover(order, p)
  OBVIOUS
<1>14. q \in [1 .. m -> Peers] /\ m \in Nat
  BY <1>9, <1>12, <1>13
<1>15. q \in Seq(Peers) /\ Len(q) = m
  BY <1>14
<1> QED
  BY <1>9, <1>13, <1>15

(* The peers that are probed or chosen from are peers. *)
LEMMA AliveKnown == known \subseteq Peers /\ alive \subseteq Peers
BY DEF known, alive

(* An upload's tasks start when nothing else is under way. *)
LEMMA DistributeIInv ==
  ASSUME IInv, ~Overlap, Distribute
  PROVE  IInv'
<1>0. Formed /\ MoversFormed /\ OneAtATime /\ Charged
  BY DEF IInv
<1>1. /\ location' = location /\ disk' = disk /\ damage' = damage
      /\ move' = move /\ pass' = pass
  BY DEF Distribute
<1>2. move = NoRebalance /\ pass = NoPass
  BY DEF Distribute, MayStart, AllIdle
<1>a. PICK live \in SUBSET Peers :
         \E order \in Bijection(1 .. Cardinality(live), live), layout \in Layouts(live) :
            task' = [s \in Shards |->
                        IF layout[s] = "local" \/ disk["local"][s] = "none" THEN NoTask
                        ELSE [pc |-> "send", bytes |-> disk["local"][s],
                              queue |-> Failover(order, layout[s])]]
  <2>1. PICK live \in SUBSET alive :
           \E order \in Bijection(1 .. Cardinality(live), live), layout \in Layouts(live) :
              task' = [s \in Shards |->
                          IF layout[s] = "local" \/ disk["local"][s] = "none" THEN NoTask
                          ELSE [pc |-> "send", bytes |-> disk["local"][s],
                                queue |-> Failover(order, layout[s])]]
    BY DEF Distribute
  <2>2. live \in SUBSET Peers
    BY AliveKnown
  <2> QED
    BY <2>1, <2>2
<1>3. PICK order \in Bijection(1 .. Cardinality(live), live), layout \in Layouts(live) :
         task' = [s \in Shards |->
                     IF layout[s] = "local" \/ disk["local"][s] = "none" THEN NoTask
                     ELSE [pc |-> "send", bytes |-> disk["local"][s],
                           queue |-> Failover(order, layout[s])]]
  BY <1>a
<1>4. "local" \in Locations /\ \A s \in Shards : disk["local"][s] \in Copy
  BY <1>0 DEF Locations, Formed
<1>5. ASSUME NEW s \in Shards
      PROVE  /\ task'[s] \in TaskRec /\ TaskFormed(task'[s])
             /\ \/ task'[s].pc = "idle"
                \/ task'[s].pc = "send" /\ task'[s].bytes = disk["local"][s] /\ disk["local"][s] # "none"
  <2>1. CASE layout[s] = "local" \/ disk["local"][s] = "none"
    BY <1>3, <2>1, IdleFormed
  <2>2. CASE ~(layout[s] = "local" \/ disk["local"][s] = "none")
    <3>1. layout[s] \in live
      BY <2>2 DEF Layouts
    <3>2. PICK q \in Seq(Peers) : q = Failover(order, layout[s]) /\ q # <<>>
      BY <3>1, FailoverFormed
    <3>3. task'[s] = [pc |-> "send", bytes |-> disk["local"][s], queue |-> q]
      BY <1>3, <2>2, <3>2
    <3>4. PICK t : t = task'[s]
      OBVIOUS
    <3>5. t \in TaskRec /\ t.pc = "send" /\ t.bytes = disk["local"][s] /\ t.queue = q
      BY <1>4, <3>3, <3>4 DEF TaskRec
    <3> QED
      BY <2>2, <3>2, <3>4, <3>5 DEF TaskFormed
  <2> QED
    BY <2>1, <2>2
<1>6. MoversFormed'
  <2>1. DOMAIN task' = Shards /\ task' = [s \in Shards |-> task'[s]]
    BY <1>3
  <2>2. task' \in [Shards -> TaskRec]
    BY <1>5, <2>1
  <2>3. RebalanceFormed(move') /\ PassFormed(pass')
    BY <1>0, <1>1 DEF MoversFormed
  <2>4. \A s \in Shards : TaskFormed(task'[s])
    BY <1>5
  <2> QED
    BY <2>2, <2>3, <2>4 DEF MoversFormed, TaskFormed, RebalanceFormed, MoveFormed, PassFormed
<1>7. OneAtATime'
  BY <1>1, <1>2, IdleFormed DEF OneAtATime
<1>8. Formed'
  BY <1>0, <1>1 DEF Formed
<1>9. \A s \in Shards : Clean(s) => Clean(s)'
  <2> SUFFICES ASSUME NEW s \in Shards, Clean(s) PROVE Clean(s)'
    OBVIOUS
  <2>1. disk["local"][s] # "none" => disk["local"][s] = "good"
    BY <1>4 DEF Clean, Copy
  <2>2. task'[s].pc = "idle" \/ (task'[s].pc = "send" /\ task'[s].bytes = "good")
    BY <1>5, <2>1
  <2>3. move'.pc = "idle" /\ pass'.pc = "idle"
    BY <1>1, <1>2, IdleFormed
  <2> QED
    BY <1>1, <2>2, <2>3 DEF Clean
<1> QED
  BY <1>0, <1>1, <1>6, <1>7, <1>8, <1>9, HarmlessStep DEF IInv

-----------------------------------------------------------------------------
(* The larger of zero and a number. *)
LEMMA MaxZero == ASSUME NEW x \in Int PROVE Max({0, x}) = IF x > 0 THEN x ELSE 0
<1>1. PICK m \in {0, x} : \A y \in {0, x} : m >= y
  OBVIOUS
<1>2. Max({0, x}) \in {0, x} /\ \A y \in {0, x} : Max({0, x}) >= y
  BY <1>1 DEF Max
<1> QED
  BY <1>2

(* A finite set with a member has at least one. *)
LEMMA NonEmpty == ASSUME NEW S, IsFiniteSet(S), NEW x \in S PROVE Cardinality(S) \in Nat /\ Cardinality(S) >= 1
<1>1. Cardinality(S) \in Nat
  BY FS_CardinalityType
<1>2. Cardinality(S) # 0
  BY FS_EmptySet
<1> QED
  BY <1>1, <1>2

(* A rebalance moves shards away from where they are. *)
LEMMA MovesApart ==
  ASSUME Formed, NEW live \in SUBSET Peers, NEW layout \in Layouts(live),
         NEW f \in Moves(live, layout), NEW s \in Shards, s \notin On(f, None)
  PROVE  f[s] \in Locations /\ f[s] # location[s]
<1>1. PICK places : places = {"local"} \cup live
  BY Zenon
<1>2. f \in [Shards -> places \cup {None}]
  BY <1>1 DEF Moves
<1>3. f[s] \in places /\ places \subseteq Locations
  BY <1>1, <1>2 DEF On, Locations
<1>4. SUFFICES ASSUME f[s] = location[s] PROVE FALSE
  BY <1>3
<1>5. PICK l : l = location[s]
  OBVIOUS
<1>6. location \in [Shards -> Locations] /\ layout \in [Shards -> {"local"} \cup live]
  BY DEF Formed, Layouts
<1>7. On(location, l) \in SUBSET Shards /\ On(layout, l) \in SUBSET Shards /\ On(f, l) \in SUBSET Shards
  BY <1>2, <1>6 DEF On
<1>8. PICK a \in Nat, b \in Nat : a = Cardinality(On(location, l)) /\ b = Cardinality(On(layout, l))
  BY <1>7, ShardsFinite, FS_CardinalityType
<1>9. /\ Cardinality(On(f, l)) <= Max({0, -(a - b)})
      /\ Cardinality(On(location, l) \ On(f, None)) <= Max({0, a - b})
  BY <1>1, <1>3, <1>4, <1>5, <1>8, Zenon DEF Moves
<1>10. s \in On(f, l) /\ s \in On(location, l) \ On(f, None)
  BY <1>2, <1>4, <1>5, <1>6 DEF On
<1>11. /\ Cardinality(On(f, l)) \in Nat /\ Cardinality(On(f, l)) >= 1
       /\ Cardinality(On(location, l) \ On(f, None)) \in Nat
       /\ Cardinality(On(location, l) \ On(f, None)) >= 1
  <2>1. IsFiniteSet(On(f, l)) /\ IsFiniteSet(On(location, l) \ On(f, None))
    BY <1>7, ShardsFinite
  <2> QED
    BY <1>10, <2>1, NonEmpty
<1>12. /\ Max({0, -(a - b)}) = IF -(a - b) > 0 THEN -(a - b) ELSE 0
       /\ Max({0, a - b}) = IF a - b > 0 THEN a - b ELSE 0
  BY MaxZero
<1> QED
  BY <1>9, <1>11, <1>12

(* While a rebalance is under way neither a task nor a repair is. *)
LEMMA MoveStep ==
  ASSUME MoversFormed, OneAtATime, NEW r, RebalanceFormed(r),
         move.pc # "idle" \/ (TasksIdle /\ pass.pc = "idle"),
         move' = r, task' = task, pass' = pass
  PROVE  MoversFormed' /\ OneAtATime' /\ TasksIdle' /\ pass'.pc = "idle"
<1>1. TasksIdle /\ pass.pc = "idle"
  BY DEF OneAtATime
<1>2. TasksIdle' /\ pass'.pc = "idle"
  BY <1>1 DEF TasksIdle
<1>3. RebalanceFormed(move')
  OBVIOUS
<1>4. MoversFormed'
  BY <1>3 DEF MoversFormed, TaskFormed, RebalanceFormed, MoveFormed, PassFormed
<1> QED
  BY <1>2, <1>4 DEF OneAtATime

(* A shard is clean once its own copies, its place and its move say so. *)
LEMMA MoveClean ==
  ASSUME NEW x \in Shards, TasksIdle', pass'.pc = "idle",
         disk'[location'[x]][x] = "good", \A k \in Locations : disk'[k][x] # "bad",
         move'.pc = "record" /\ move'.hand.shard = x => disk'[move'.hand.dest][x] = "good",
         move'.pc = "drop" /\ move'.hand.shard = x => location'[x] # move'.hand.from
  PROVE  Clean(x)'
BY DEF Clean, TasksIdle

(* A rebalance begins: every move it plans leads elsewhere. *)
LEMMA RebalanceBeginIInv ==
  ASSUME IInv, ~Overlap, RebalanceBegin
  PROVE  IInv'
<1>0. Formed /\ MoversFormed /\ OneAtATime /\ Charged
  BY DEF IInv
<1>1. /\ location' = location /\ disk' = disk /\ damage' = damage
      /\ task' = task /\ pass' = pass
  BY DEF RebalanceBegin
<1>2. TasksIdle /\ pass.pc = "idle"
  BY IdleFormed DEF RebalanceBegin, MayStart, AllIdle, TasksIdle
<1>3. PICK live \in SUBSET Peers : live = alive
  BY AliveKnown
<1>4. PICK layout \in Layouts(live) : \E f \in Moves(live, layout) :
          LET todo == {[shard |-> s, from |-> location[s], dest |-> f[s]] :
                          s \in Shards \ On(f, None)}
          IN  move' = IF todo = {} THEN NoRebalance
                      ELSE [pc |-> "fetch", todo |-> todo, hand |-> None]
  BY <1>3, Zenon DEF RebalanceBegin
<1>5. PICK f \in Moves(live, layout) :
          LET todo == {[shard |-> s, from |-> location[s], dest |-> f[s]] :
                          s \in Shards \ On(f, None)}
          IN  move' = IF todo = {} THEN NoRebalance
                      ELSE [pc |-> "fetch", todo |-> todo, hand |-> None]
  BY <1>4, Zenon
<1>6. PICK todo : todo = {[shard |-> s, from |-> location[s], dest |-> f[s]] :
                             s \in Shards \ On(f, None)}
  BY Zenon
<1>7. \A m \in todo : MoveFormed(m)
  <2> SUFFICES ASSUME NEW s \in Shards, s \notin On(f, None)
               PROVE  MoveFormed([shard |-> s, from |-> location[s], dest |-> f[s]])
    BY <1>6
  <2>1. f[s] \in Locations /\ f[s] # location[s]
    BY <1>0, MovesApart
  <2>2. location[s] \in Locations
    BY <1>0 DEF Formed
  <2> QED
    BY <2>1, <2>2 DEF MoveFormed, Move
<1>8. PICK r : r = IF todo = {} THEN NoRebalance
                   ELSE [pc |-> "fetch", todo |-> todo, hand |-> None]
  BY Zenon
<1>9. RebalanceFormed(r) /\ r.pc \in {"idle", "fetch"}
  <2>1. CASE todo = {}
    BY <1>8, <2>1, IdleFormed
  <2>2. CASE todo # {}
    <3>1. todo \in SUBSET Move
      BY <1>7 DEF MoveFormed
    <3>2. r \in Rebalance /\ r.todo = todo /\ r.pc = "fetch"
      BY <1>8, <2>2, <3>1 DEF Rebalance
    <3> QED
      BY <1>7, <3>2 DEF RebalanceFormed
  <2> QED
    BY <2>1, <2>2
<1>10. move' = r
  BY <1>5, <1>6, <1>8
<1>11. MoversFormed' /\ OneAtATime' /\ TasksIdle' /\ pass'.pc = "idle"
  BY <1>0, <1>1, <1>2, <1>9, <1>10, MoveStep
<1>12. Formed'
  BY <1>0, <1>1 DEF Formed
<1>13. \A x \in Shards : Clean(x) => Clean(x)'
  BY <1>1, <1>9, <1>10, <1>11, MoveClean, Zenon DEF Clean
<1> QED
  BY <1>0, <1>1, <1>11, <1>12, <1>13, HarmlessStep DEF IInv

(* What follows a move is well formed. *)
LEMMA NextMoveFormed ==
  ASSUME RebalanceFormed(move)
  PROVE  RebalanceFormed(NextMove) /\ NextMove.pc \in {"idle", "fetch"}
<1>1. CASE move.todo = {}
  BY <1>1, IdleFormed DEF NextMove
<1>2. CASE move.todo # {}
  <2>1. PICK r : r = [move EXCEPT !.pc = "fetch", !.hand = None]
    OBVIOUS
  <2>2. r \in Rebalance /\ r.pc = "fetch" /\ r.todo = move.todo
    BY <2>1, Zenon DEF RebalanceFormed, Rebalance
  <2>3. NextMove = r
    BY <1>2, <2>1 DEF NextMove
  <2> QED
    BY <2>2, <2>3 DEF RebalanceFormed
<1> QED
  BY <1>1, <1>2

(* A shard is fetched, or its move is given up. *)
LEMMA MoveFetchIInv ==
  ASSUME IInv, MoveFetch
  PROVE  IInv'
<1>0. Formed /\ MoversFormed /\ OneAtATime /\ Charged
  BY DEF IInv
<1>1. /\ location' = location /\ disk' = disk /\ damage' = damage
      /\ task' = task /\ pass' = pass /\ move.pc = "fetch"
  BY DEF MoveFetch
<1>2. PICK m \in move.todo :
         move' = IF Fetchable(m.shard, m.from)
                 THEN [move EXCEPT !.pc = "place", !.todo = move.todo \ {m}, !.hand = m]
                 ELSE IF move.todo \ {m} = {} THEN NoRebalance
                 ELSE [move EXCEPT !.todo = move.todo \ {m}]
  BY Zenon DEF MoveFetch
<1>3. PICK rest : rest = move.todo \ {m}
  BY Zenon
<1>4. RebalanceFormed(move) /\ MoveFormed(m) /\ move \in Rebalance
  BY <1>0 DEF MoversFormed, RebalanceFormed
<1>5. rest \in SUBSET Move /\ \A n \in rest : MoveFormed(n)
  BY <1>3, <1>4 DEF RebalanceFormed, Rebalance
<1>6. RebalanceFormed(move') /\ move'.pc \in {"idle", "fetch", "place"}
  <2>1. CASE move' = [move EXCEPT !.pc = "place", !.todo = rest, !.hand = m]
    <3>1. PICK r : r = [move EXCEPT !.pc = "place", !.todo = rest, !.hand = m]
      OBVIOUS
    <3>2. r \in Rebalance /\ r.pc = "place" /\ r.todo = rest /\ r.hand = m
      BY <1>4, <1>5, <3>1, Zenon DEF Rebalance, MoveFormed
    <3> QED
      BY <1>4, <1>5, <2>1, <3>1, <3>2 DEF RebalanceFormed
  <2>2. CASE move' = [move EXCEPT !.todo = rest]
    <3>1. PICK r : r = [move EXCEPT !.todo = rest]
      BY Zenon
    <3>2. r \in Rebalance /\ r.pc = "fetch" /\ r.todo = rest
      BY <1>1, <1>4, <1>5, <3>1 DEF Rebalance
    <3> QED
      BY <1>5, <2>2, <3>1, <3>2 DEF RebalanceFormed
  <2>3. CASE move' = NoRebalance
    BY <2>3, IdleFormed
  <2> QED
    BY <1>2, <1>3, <2>1, <2>2, <2>3
<1>7. PICK r : r = move'
  OBVIOUS
<1>8. MoversFormed' /\ OneAtATime' /\ TasksIdle' /\ pass'.pc = "idle"
  <2>1. move.pc # "idle" /\ RebalanceFormed(r) /\ move' = r
    BY <1>1, <1>6, <1>7
  <2> QED
    BY <1>0, <1>1, <2>1, MoveStep
<1>9. Formed'
  BY <1>0, <1>1 DEF Formed
<1>10. \A x \in Shards : Clean(x) => Clean(x)'
  BY <1>1, <1>6, <1>8, MoveClean DEF Clean
<1> QED
  BY <1>0, <1>1, <1>8, <1>9, <1>10, HarmlessStep DEF IInv

(* What is in hand has a shard, a source and another destination. *)
LEMMA MoveInHand ==
  ASSUME MoversFormed, move.pc \in {"place", "record", "drop"}
  PROVE  /\ RebalanceFormed(move) /\ move \in Rebalance
         /\ move.hand.shard \in Shards /\ move.hand.dest \in Locations
         /\ move.hand.from \in Locations /\ move.hand.from # move.hand.dest
<1>1. RebalanceFormed(move) /\ move \in Rebalance /\ MoveFormed(move.hand)
  BY DEF MoversFormed, RebalanceFormed
<1> QED
  BY <1>1 DEF MoveFormed, Move

(* The rebalance goes on with what it has in hand. *)
LEMMA MoveAdvance ==
  ASSUME MoversFormed, NEW pc \in {"record", "drop"}, move.pc \in {"place", "record"}
  PROVE  LET r == [move EXCEPT !.pc = pc]
         IN  RebalanceFormed(r) /\ r.pc = pc /\ r.hand = move.hand
<1>1. RebalanceFormed(move) /\ move \in Rebalance /\ MoveFormed(move.hand)
  BY DEF MoversFormed, RebalanceFormed
<1>2. PICK r : r = [move EXCEPT !.pc = pc]
  BY Zenon
<1>3. r \in Rebalance /\ r.pc = pc /\ r.hand = move.hand /\ r.todo = move.todo
  BY <1>1, <1>2 DEF Rebalance
<1> QED
  BY <1>1, <1>2, <1>3 DEF RebalanceFormed

(* The shard is placed at its destination ... *)
LEMMA MovePlaceIInv ==
  ASSUME IInv, MovePlace
  PROVE  IInv'
<1>0. Formed /\ MoversFormed /\ OneAtATime /\ Charged
  BY DEF IInv
<1>1. /\ location' = location /\ task' = task /\ pass' = pass /\ move.pc = "place"
  BY DEF MovePlace
<1>2. RebalanceFormed(move) /\ move.hand.shard \in Shards /\ move.hand.dest \in Locations
  BY <1>0, <1>1, MoveInHand
<1>3. PICK s \in Shards, l \in Locations : s = move.hand.shard /\ l = move.hand.dest
  BY <1>2
<1>4. PICK r :
         /\ move' = r /\ RebalanceFormed(r)
         /\ \/ Stored(s, l, "good") /\ r.pc = "record" /\ r.hand = move.hand
            \/ Unconfirmed(s, l, "good") /\ r.pc \in {"idle", "fetch"}
  <2>1. CASE Stored(s, l, "good") /\ move' = [move EXCEPT !.pc = "record"]
    BY <1>0, <1>1, <2>1, MoveAdvance, Zenon
  <2>2. CASE Unconfirmed(s, l, "good") /\ move' = NextMove
    BY <1>2, <2>2, NextMoveFormed
  <2> QED
    BY <1>3, <2>1, <2>2 DEF MovePlace
<1>5. MoversFormed' /\ OneAtATime' /\ TasksIdle' /\ pass'.pc = "idle"
  BY <1>0, <1>1, <1>4, MoveStep
<1>6. /\ disk' \in [Locations -> [Shards -> Copy]]
      /\ damage' \in {damage, damage + 1}
      /\ \A k \in Locations, x \in Shards : x # s => disk'[k][x] = disk[k][x]
      /\ damage' = damage =>
            \A k \in Locations, x \in Shards : disk'[k][x] \in {disk[k][x], "good"}
      /\ Stored(s, l, "good") => \A x \in Shards : x = s => disk'[l][x] = "good"
  <2>1. "good" \in Copy
    BY DEF Copy
  <2> QED
    BY <1>0, <1>4, <2>1, StoreEffect
<1>7. Formed'
  BY <1>0, <1>1, <1>6 DEF Formed
<1>8. \A x \in Shards : location[x] \in Locations
  BY <1>0 DEF Formed
<1>9. \A x \in Shards : x # s /\ Clean(x) => Clean(x)'
  <2> SUFFICES ASSUME NEW x \in Shards, x # s, Clean(x) PROVE Clean(x)'
    OBVIOUS
  <2>1. disk'[location'[x]][x] = "good" /\ \A k \in Locations : disk'[k][x] # "bad"
    BY <1>1, <1>6, <1>8 DEF Clean
  <2> QED
    BY <1>3, <1>4, <1>5, <2>1, MoveClean, Zenon
<1>10. CASE damage' = damage + 1
  BY <1>0, <1>5, <1>7, <1>9, <1>10, DamagingStep DEF IInv
<1>11. CASE damage' = damage
  <2>1. ASSUME Clean(s) PROVE Clean(s)'
    <3>1. disk'[location'[s]][s] = "good" /\ \A k \in Locations : disk'[k][s] # "bad"
      BY <1>1, <1>6, <1>8, <1>11, <2>1 DEF Clean
    <3>2. /\ move'.pc = "record" => disk'[move'.hand.dest][s] = "good"
          /\ move'.pc # "drop"
      BY <1>3, <1>4, <1>6
    <3> QED
      BY <1>5, <3>1, <3>2, MoveClean
  <2> QED
    BY <1>0, <1>5, <1>7, <1>9, <1>11, <2>1, HarmlessStep DEF IInv
<1> QED
  BY <1>6, <1>10, <1>11

(* ... the manifest names it there ... *)
LEMMA MoveRecordIInv ==
  ASSUME IInv, MoveRecord
  PROVE  IInv'
<1>0. Formed /\ MoversFormed /\ OneAtATime /\ Charged
  BY DEF IInv
<1>1. /\ disk' = disk /\ task' = task /\ pass' = pass /\ move.pc = "record"
      /\ move' = [move EXCEPT !.pc = "drop"]
  BY DEF MoveRecord
<1>2. /\ RebalanceFormed(move) /\ move.hand.shard \in Shards /\ move.hand.dest \in Locations
      /\ move.hand.from # move.hand.dest
  BY <1>0, <1>1, MoveInHand
<1>3. PICK s \in Shards, l \in Locations : s = move.hand.shard /\ l = move.hand.dest
  BY <1>2
<1>4. PICK r : move' = r /\ RebalanceFormed(r) /\ r.pc = "drop" /\ r.hand = move.hand
  BY <1>0, <1>1, MoveAdvance, Zenon
<1>5. MoversFormed' /\ OneAtATime' /\ TasksIdle' /\ pass'.pc = "idle"
  BY <1>0, <1>1, <1>4, MoveStep
<1>6. /\ location' \in [Shards -> Locations]
      /\ damage' \in {damage, damage + 1}
      /\ \A x \in Shards : x # s => location'[x] = location[x]
      /\ damage' = damage => \A x \in Shards : x = s => location'[x] = l
  <2>1. set_location(s, l)
    BY <1>3 DEF MoveRecord
  <2> QED
    BY <1>0, <2>1, SetLocationEffect
<1>7. Formed'
  BY <1>0, <1>1, <1>6 DEF Formed
<1>8. \A x \in Shards : x # s /\ Clean(x) => Clean(x)'
  <2> SUFFICES ASSUME NEW x \in Shards, x # s, Clean(x) PROVE Clean(x)'
    OBVIOUS
  <2>1. disk'[location'[x]][x] = "good" /\ \A k \in Locations : disk'[k][x] # "bad"
    BY <1>1, <1>6 DEF Clean
  <2> QED
    BY <1>3, <1>4, <1>5, <2>1, MoveClean
<1>9. CASE damage' = damage + 1
  BY <1>0, <1>5, <1>7, <1>8, <1>9, DamagingStep DEF IInv
<1>10. CASE damage' = damage
  <2>1. ASSUME Clean(s) PROVE Clean(s)'
    <3>1. location'[s] = l /\ disk[l][s] = "good"
      BY <1>1, <1>3, <1>6, <1>10, <2>1 DEF Clean
    <3>2. disk'[location'[s]][s] = "good" /\ \A k \in Locations : disk'[k][s] # "bad"
      BY <1>1, <2>1, <3>1 DEF Clean
    <3>3. location'[s] # move'.hand.from /\ move'.pc # "record"
      BY <1>2, <1>3, <1>4, <3>1
    <3> QED
      BY <1>5, <3>2, <3>3, MoveClean
  <2> QED
    BY <1>0, <1>5, <1>7, <1>8, <1>10, <2>1, HarmlessStep DEF IInv
<1> QED
  BY <1>6, <1>9, <1>10

(* ... and the old copy is dropped. *)
LEMMA MoveDropIInv ==
  ASSUME IInv, MoveDrop
  PROVE  IInv'
<1>0. Formed /\ MoversFormed /\ OneAtATime /\ Charged
  BY DEF IInv
<1>1. /\ location' = location /\ damage' = damage /\ task' = task /\ pass' = pass
      /\ move.pc = "drop" /\ move' = NextMove
  BY DEF MoveDrop
<1>2. RebalanceFormed(move) /\ move.hand.shard \in Shards /\ move.hand.from \in Locations
  BY <1>0, <1>1, MoveInHand
<1>3. PICK s \in Shards, l \in Locations : s = move.hand.shard /\ l = move.hand.from
  BY <1>2
<1>4. PICK r : move' = r /\ RebalanceFormed(r) /\ r.pc \in {"idle", "fetch"}
  BY <1>1, <1>2, NextMoveFormed
<1>5. MoversFormed' /\ OneAtATime' /\ TasksIdle' /\ pass'.pc = "idle"
  BY <1>0, <1>1, <1>4, MoveStep
<1>6. /\ disk' \in [Locations -> [Shards -> Copy]]
      /\ \A k \in Locations, x \in Shards : x # s \/ k # l => disk'[k][x] = disk[k][x]
      /\ \A k \in Locations, x \in Shards : disk'[k][x] \in {disk[k][x], "none"}
  <2>1. drop_shard(s, l)
    BY <1>3 DEF MoveDrop
  <2> QED
    BY <1>0, <2>1, DropEffect
<1>7. Formed'
  BY <1>0, <1>1, <1>6 DEF Formed
<1>8. \A x \in Shards : Clean(x) => Clean(x)'
  <2> SUFFICES ASSUME NEW x \in Shards, Clean(x) PROVE Clean(x)'
    OBVIOUS
  <2>1. location[x] \in Locations /\ (x = s => location[x] # l)
    BY <1>0, <1>1, <1>3 DEF Clean, Formed
  <2>2. disk'[location'[x]][x] = "good" /\ \A k \in Locations : disk'[k][x] # "bad"
    BY <1>1, <1>6, <2>1 DEF Clean
  <2> QED
    BY <1>4, <1>5, <2>2, MoveClean
<1> QED
  BY <1>0, <1>1, <1>5, <1>7, <1>8, HarmlessStep DEF IInv

-----------------------------------------------------------------------------
(* The repair pass takes a step. *)
LEMMA PassStep ==
  ASSUME MoversFormed, OneAtATime, NEW r, PassFormed(r),
         pass.pc # "idle" \/ (TasksIdle /\ move.pc = "idle"),
         pass' = r, task' = task, move' = move
  PROVE  MoversFormed' /\ OneAtATime' /\ TasksIdle' /\ move'.pc = "idle"
<1>1. TasksIdle /\ move.pc = "idle"
  BY DEF OneAtATime
<1>2. TasksIdle' /\ move'.pc = "idle"
  BY <1>1 DEF TasksIdle
<1>3. PassFormed(pass')
  OBVIOUS
<1>4. MoversFormed'
  BY <1>3 DEF MoversFormed, TaskFormed, RebalanceFormed, MoveFormed, PassFormed
<1> QED
  BY <1>2, <1>4 DEF OneAtATime

(* A shard is clean once its own copies, its place and the pass say so. *)
LEMMA PassClean ==
  ASSUME NEW x \in Shards, TasksIdle', move'.pc = "idle",
         disk'[location'[x]][x] = "good", \A k \in Locations : disk'[k][x] # "bad",
         pass'.pc = "record" /\ Min(pass'.missing) = x => disk'[pass'.target][x] = "good"
  PROVE  Clean(x)'
BY DEF Clean, TasksIdle

(* As long as the pass only looks, nothing becomes of the shards. *)
LEMMA PassLooks ==
  ASSUME IInv, NEW r, PassFormed(r), r.pc # "record",
         pass.pc # "idle" \/ (TasksIdle /\ move.pc = "idle"), pass' = r,
         location' = location, disk' = disk, damage' = damage, task' = task, move' = move
  PROVE  IInv'
<1>0. Formed /\ MoversFormed /\ OneAtATime /\ Charged
  BY DEF IInv
<1>1. MoversFormed' /\ OneAtATime' /\ TasksIdle' /\ move'.pc = "idle"
  BY <1>0, PassStep
<1>2. Formed'
  BY <1>0 DEF Formed
<1>3. \A x \in Shards : Clean(x) => Clean(x)'
  BY <1>1, PassClean DEF Clean
<1> QED
  BY <1>0, <1>1, <1>2, <1>3, HarmlessStep DEF IInv

(* The pass pings the peers ... *)
LEMMA RepairProbeIInv ==
  ASSUME IInv, ~Overlap, RepairProbe
  PROVE  IInv'
<1>1. /\ location' = location /\ disk' = disk /\ damage' = damage
      /\ task' = task /\ move' = move
  BY DEF RepairProbe
<1>2. TasksIdle /\ move.pc = "idle"
  BY IdleFormed DEF RepairProbe, MayStart, AllIdle, TasksIdle
<1>3. \E down \in SUBSET Peers :
         pass' = [NoPass EXCEPT !.pc = "plan", !.known = known,
                                !.reachable = known \cap up, !.down = down]
  BY AliveKnown, Zenon DEF RepairProbe
<1>4. PICK down \in SUBSET Peers, kn \in SUBSET Peers, re \in SUBSET Peers :
         pass' = [NoPass EXCEPT !.pc = "plan", !.known = kn, !.reachable = re, !.down = down]
  BY <1>3, AliveKnown, Zenon
<1>5. PICK r : r = [NoPass EXCEPT !.pc = "plan", !.known = kn, !.reachable = re, !.down = down]
  OBVIOUS
<1>6. r \in Pass /\ r.pc = "plan"
  BY <1>5, Zenon DEF NoPass, Pass
<1>7. PassFormed(r) /\ r.pc # "record"
  BY <1>6 DEF PassFormed
<1> QED
  BY <1>1, <1>2, <1>4, <1>5, <1>7, PassLooks, Zenon

(* ... reads where the shards are ... *)
LEMMA RepairPlanIInv ==
  ASSUME IInv, RepairPlan
  PROVE  IInv'
<1>1. /\ location' = location /\ disk' = disk /\ damage' = damage
      /\ task' = task /\ move' = move /\ pass.pc = "plan"
  BY DEF RepairPlan
<1>2. pass \in Pass /\ location \in [Shards -> Locations]
  BY DEF IInv, MoversFormed, PassFormed, Formed
<1>3. PICK r : r = [pass EXCEPT !.pc = "assess", !.shard_at = location]
  OBVIOUS
<1>4. r \in Pass /\ r.pc = "assess"
  BY <1>2, <1>3, Zenon DEF Pass
<1>5. PassFormed(r) /\ r.pc # "record" /\ pass.pc # "idle" /\ pass' = r
  BY <1>1, <1>3, <1>4 DEF PassFormed, RepairPlan
<1> QED
  BY <1>1, <1>5, PassLooks

(* ... tells which are missing ... *)
LEMMA RepairAssessIInv ==
  ASSUME IInv, RepairAssess
  PROVE  IInv'
<1>1. /\ location' = location /\ disk' = disk /\ damage' = damage
      /\ task' = task /\ move' = move /\ pass.pc = "assess"
  BY DEF RepairAssess
<1>2. pass \in Pass
  BY DEF IInv, MoversFormed, PassFormed
<1>3. PICK r : pass' = r /\ PassFormed(r) /\ r.pc # "record"
  <2>1. CASE pass' = NoPass
    BY <2>1, IdleFormed
  <2>2. CASE \E live, grace, missing \in SUBSET Shards :
                pass' = [pass EXCEPT !.pc = "fetch", !.live = live, !.grace = grace,
                                     !.missing = missing, !.down = {}, !.known = {}]
    <3>1. PICK live \in SUBSET Shards, grace \in SUBSET Shards, missing \in SUBSET Shards :
                pass' = [pass EXCEPT !.pc = "fetch", !.live = live, !.grace = grace,
                                     !.missing = missing, !.down = {}, !.known = {}]
      BY <2>2, Zenon
    <3>2. PICK r : r = [pass EXCEPT !.pc = "fetch", !.live = live, !.grace = grace,
                                     !.missing = missing, !.down = {}, !.known = {}]
      OBVIOUS
    <3>3. r \in Pass /\ r.pc = "fetch"
      BY <1>2, <3>2, Zenon DEF Pass
    <3> QED
      BY <3>1, <3>2, <3>3, Zenon DEF PassFormed
  <2>3. \/ pass' = NoPass
        \/ \E live, grace, missing \in SUBSET Shards :
              pass' = [pass EXCEPT !.pc = "fetch", !.live = live, !.grace = grace,
                                   !.missing = missing, !.down = {}, !.known = {}]
    <3>1. PICK live : live = {s \in Shards : classify_shard(s) = "live"}
      BY Zenon
    <3>2. PICK grace : grace = {s \in Shards : classify_shard(s) = "grace"}
      BY Zenon
    <3>3. PICK missing : missing = IF Cardinality(live) < Data + CriticalMargin
                                   THEN (Shards \ (live \cup grace)) \cup grace
                                   ELSE Shards \ (live \cup grace)
      BY Zenon
    <3>4. live \in SUBSET Shards /\ grace \in SUBSET Shards /\ missing \in SUBSET Shards
      BY <3>1, <3>2, <3>3
    <3>5. \/ pass' = NoPass
          \/ pass' = [pass EXCEPT !.pc = "fetch", !.live = live, !.grace = grace,
                                  !.missing = missing, !.down = {}, !.known = {}]
      BY <3>1, <3>2, <3>3, Zenon DEF RepairAssess, EndPass
    <3> QED
      BY <3>4, <3>5, Zenon
  <2> QED
    BY <2>1, <2>2, <2>3, Zenon
<1> QED
  BY <1>1, <1>3, PassLooks

(* ... and fetches what the chunk is rebuilt from. *)
LEMMA RepairFetchIInv ==
  ASSUME IInv, RepairFetch
  PROVE  IInv'
<1>1. /\ location' = location /\ disk' = disk /\ damage' = damage
      /\ task' = task /\ move' = move /\ pass.pc = "fetch"
  BY DEF RepairFetch
<1>2. pass \in Pass
  BY DEF IInv, MoversFormed, PassFormed
<1>3. PICK count : count = [l \in Locations |->
                  Cardinality({s \in pass.live \cup pass.grace : pass.shard_at[s] = l})]
  BY Zenon
<1>4. count \in [Locations -> Nat]
  <2>1. \A l \in Locations :
           Cardinality({s \in pass.live \cup pass.grace : pass.shard_at[s] = l}) \in Nat
    <3> SUFFICES ASSUME NEW l \in Locations
                 PROVE  Cardinality({s \in pass.live \cup pass.grace : pass.shard_at[s] = l}) \in Nat
      OBVIOUS
    <3>1. PICK S : S = {s \in pass.live \cup pass.grace : pass.shard_at[s] = l}
      BY Zenon
    <3>2. IsFiniteSet(S)
      BY <1>2, <3>1, ShardsFinite DEF Pass
    <3> QED
      BY <3>1, <3>2, FS_CardinalityType
  <2> QED
    BY <1>3, <2>1
<1>5. PICK r : pass' = r /\ PassFormed(r) /\ r.pc # "record"
  <2>1. CASE pass' = NoPass
    BY <2>1, IdleFormed
  <2>2. CASE pass' = [pass EXCEPT !.pc = "place", !.live = {}, !.grace = {}, !.shard_at = None,
                                  !.loc_count = count]
    <3>1. PICK r : r = [pass EXCEPT !.pc = "place", !.live = {}, !.grace = {},
                                    !.shard_at = None, !.loc_count = count]
      OBVIOUS
    <3>2. r \in Pass /\ r.pc = "place" /\ r.loc_count = count
      BY <1>2, <1>4, <3>1, Zenon DEF Pass
    <3> QED
      BY <1>4, <2>2, <3>1, <3>2, Zenon DEF PassFormed
  <2> QED
    BY <1>3, <2>1, <2>2 DEF RepairFetch, EndPass
<1> QED
  BY <1>1, <1>5, PassLooks

(* A rebuilt shard is placed at a location the pass has reached ... *)
LEMMA RepairPlaceIInv ==
  ASSUME IInv, RepairPlace
  PROVE  IInv'
<1>0. Formed /\ MoversFormed /\ OneAtATime /\ Charged
  BY DEF IInv
<1>1. location' = location /\ task' = task /\ move' = move /\ pass.pc = "place"
  BY DEF RepairPlace
<1>2. pass \in Pass /\ PassFormed(pass) /\ pass.loc_count \in [Locations -> Nat]
  BY <1>0, <1>1 DEF MoversFormed, PassFormed
<1>3. PICK s : s = Min(pass.missing)
  OBVIOUS
<1>4. PICK rest : rest = pass.missing \ {s}
  BY Zenon
<1>5. rest \in SUBSET Shards
  BY <1>2, <1>4 DEF Pass
<1>6. PICK l \in Locations :
         \/ Stored(s, l, "good") /\ pass' = [pass EXCEPT !.pc = "record", !.target = l]
         \/ /\ Unconfirmed(s, l, "good")
            /\ pass' = NoPass \/ pass' = [pass EXCEPT !.missing = rest]
  <2>1. choose_target \subseteq Locations
    BY <1>2 DEF choose_target, Pass, Locations
  <2> QED
    BY <1>3, <1>4, <2>1, Zenon DEF RepairPlace, EndPass
<1>7. PICK r :
         /\ pass' = r /\ PassFormed(r)
         /\ \/ /\ Stored(s, l, "good") /\ r.pc = "record"
               /\ r.target = l /\ r.missing = pass.missing
            \/ Unconfirmed(s, l, "good") /\ r.pc # "record"
  <2>1. CASE Stored(s, l, "good") /\ pass' = [pass EXCEPT !.pc = "record", !.target = l]
    <3>1. PICK r : r = [pass EXCEPT !.pc = "record", !.target = l]
      OBVIOUS
    <3>2. /\ r \in Pass /\ r.pc = "record" /\ r.target = l
          /\ r.missing = pass.missing /\ r.loc_count = pass.loc_count
      BY <1>2, <3>1, Zenon DEF Pass
    <3> QED
      BY <1>2, <2>1, <3>1, <3>2, Zenon DEF PassFormed
  <2>2. CASE Unconfirmed(s, l, "good") /\ pass' = NoPass
    BY <2>2, IdleFormed
  <2>3. CASE Unconfirmed(s, l, "good") /\ pass' = [pass EXCEPT !.missing = rest]
    <3>1. PICK r : r = [pass EXCEPT !.missing = rest]
      BY Zenon
    <3>2. r \in Pass /\ r.pc = "place" /\ r.loc_count = pass.loc_count
      BY <1>1, <1>2, <1>5, <3>1 DEF Pass
    <3> QED
      BY <1>2, <2>3, <3>1, <3>2, Zenon DEF PassFormed
  <2> QED
    BY <1>6, <2>1, <2>2, <2>3
<1>8. MoversFormed' /\ OneAtATime' /\ TasksIdle' /\ move'.pc = "idle"
  BY <1>0, <1>1, <1>7, PassStep
<1>9. /\ disk' \in [Locations -> [Shards -> Copy]]
      /\ damage' \in {damage, damage + 1}
      /\ \A k \in Locations, x \in Shards : x # s => disk'[k][x] = disk[k][x]
      /\ damage' = damage =>
            \A k \in Locations, x \in Shards : disk'[k][x] \in {disk[k][x], "good"}
      /\ Stored(s, l, "good") => \A x \in Shards : x = s => disk'[l][x] = "good"
  <2>1. "good" \in Copy
    BY DEF Copy
  <2> QED
    BY <1>0, <1>7, <2>1, StoreEffect
<1>10. Formed'
  BY <1>0, <1>1, <1>9 DEF Formed
<1>11. \A x \in Shards : location[x] \in Locations
  BY <1>0 DEF Formed
<1>12. pass'.pc = "record" =>
         Min(pass'.missing) = s /\ pass'.target = l /\ Stored(s, l, "good")
  BY <1>3, <1>7
<1>13. \A x \in Shards : x # s /\ Clean(x) => Clean(x)'
  <2> SUFFICES ASSUME NEW x \in Shards, x # s, Clean(x) PROVE Clean(x)'
    OBVIOUS
  <2>1. disk'[location'[x]][x] = "good" /\ \A k \in Locations : disk'[k][x] # "bad"
    BY <1>1, <1>9, <1>11 DEF Clean
  <2> QED
    BY <1>8, <1>12, <2>1, PassClean, Zenon
<1>14. CASE damage' = damage + 1
  BY <1>0, <1>8, <1>10, <1>13, <1>14, DamagingStep DEF IInv
<1>15. CASE damage' = damage
  <2>1. \A x \in Shards : Clean(x) => Clean(x)'
    <3> SUFFICES ASSUME NEW x \in Shards, x = s, Clean(x) PROVE Clean(x)'
      BY <1>13
    <3>1. disk'[location'[x]][x] = "good" /\ \A k \in Locations : disk'[k][x] # "bad"
      BY <1>1, <1>9, <1>11, <1>15 DEF Clean
    <3>2. pass'.pc = "record" => disk'[pass'.target][x] = "good"
      BY <1>9, <1>12
    <3> QED
      BY <1>8, <3>1, <3>2, PassClean
  <2> QED
    BY <1>0, <1>8, <1>10, <1>15, <2>1, HarmlessStep DEF IInv
<1> QED
  BY <1>9, <1>14, <1>15

(* ... and the manifest names it there. *)
LEMMA RepairRecordIInv ==
  ASSUME IInv, RepairRecord
  PROVE  IInv'
<1>0. Formed /\ MoversFormed /\ OneAtATime /\ Charged
  BY DEF IInv
<1>1. disk' = disk /\ task' = task /\ move' = move /\ pass.pc = "record"
  BY DEF RepairRecord
<1>2. /\ pass \in Pass /\ PassFormed(pass)
      /\ pass.loc_count \in [Locations -> Nat] /\ pass.target \in Locations
  BY <1>0, <1>1 DEF MoversFormed, PassFormed
<1>3. PICK s : s = Min(pass.missing)
  OBVIOUS
<1>4. PICK rest : rest = pass.missing \ {s}
  OBVIOUS
<1>5. rest \in SUBSET Shards
  BY <1>2, <1>4 DEF Pass
<1>6. PICK l \in Locations : l = pass.target
  BY <1>2
<1>7. PICK count : count = [pass.loc_count EXCEPT ![l] = @ + 1]
  BY Zenon
<1>8. count \in [Locations -> Nat]
  BY <1>2, <1>7
<1>9. PICK r : pass' = r /\ PassFormed(r) /\ r.pc # "record"
  <2>1. CASE pass' = NoPass
    BY <2>1, IdleFormed
  <2>2. CASE pass' = [pass EXCEPT !.pc = "place", !.missing = rest, !.target = None,
                                  !.loc_count = count]
    <3>1. PICK r : r = [pass EXCEPT !.pc = "place", !.missing = rest, !.target = None,
                                    !.loc_count = count]
      OBVIOUS
    <3>2. r \in Pass /\ r.pc = "place" /\ r.loc_count = count
      BY <1>2, <1>5, <1>8, <3>1, Zenon DEF Pass
    <3> QED
      BY <1>8, <2>2, <3>1, <3>2, Zenon DEF PassFormed
  <2>3. \/ pass' = NoPass
        \/ pass' = [pass EXCEPT !.pc = "place", !.missing = rest, !.target = None,
                                !.loc_count = count]
    BY <1>3, <1>4, <1>6, <1>7 DEF RepairRecord, EndPass
  <2> QED
    BY <2>1, <2>2, <2>3
<1>10. MoversFormed' /\ OneAtATime' /\ TasksIdle' /\ move'.pc = "idle"
  BY <1>0, <1>1, <1>9, PassStep
<1>11. /\ location' \in [Shards -> Locations]
       /\ damage' \in {damage, damage + 1}
       /\ \A x \in Shards : x # s => location'[x] = location[x]
       /\ damage' = damage => \A x \in Shards : x = s => location'[x] = l
  <2>1. set_location(s, l)
    BY <1>3, <1>6 DEF RepairRecord
  <2> QED
    BY <1>0, <2>1, SetLocationEffect
<1>12. Formed'
  BY <1>0, <1>1, <1>11 DEF Formed
<1>13. \A x \in Shards : x # s /\ Clean(x) => Clean(x)'
  <2> SUFFICES ASSUME NEW x \in Shards, x # s, Clean(x) PROVE Clean(x)'
    OBVIOUS
  <2>1. disk'[location'[x]][x] = "good" /\ \A k \in Locations : disk'[k][x] # "bad"
    BY <1>1, <1>11 DEF Clean
  <2> QED
    BY <1>9, <1>10, <2>1, PassClean
<1>14. CASE damage' = damage + 1
  BY <1>0, <1>10, <1>12, <1>13, <1>14, DamagingStep DEF IInv
<1>15. CASE damage' = damage
  <2>1. \A x \in Shards : Clean(x) => Clean(x)'
    <3> SUFFICES ASSUME NEW x \in Shards, x = s, Clean(x) PROVE Clean(x)'
      BY <1>13
    <3>1. location'[x] = l /\ disk[l][x] = "good"
      BY <1>1, <1>3, <1>6, <1>11, <1>15 DEF Clean
    <3>2. disk'[location'[x]][x] = "good" /\ \A k \in Locations : disk'[k][x] # "bad"
      BY <1>1, <3>1 DEF Clean
    <3> QED
      BY <1>9, <1>10, <3>2, PassClean
  <2> QED
    BY <1>0, <1>10, <1>12, <1>15, <2>1, HarmlessStep DEF IInv
<1> QED
  BY <1>11, <1>14, <1>15

-----------------------------------------------------------------------------
(* What leaves the shards and the movers alone changes nothing. *)
LEMMA StillIInv ==
  ASSUME IInv, UNCHANGED <<location, disk, damage, task, move, pass>>
  PROVE  IInv'
<1>1. Formed' /\ MoversFormed' /\ OneAtATime'
  BY DEF IInv, Formed, MoversFormed, TaskFormed, RebalanceFormed, MoveFormed, PassFormed,
         OneAtATime, TasksIdle
<1>2. \A x \in Shards : Clean(x) => Clean(x)'
  BY DEF Clean
<1> QED
  BY <1>1, <1>2, HarmlessStep DEF IInv

(* A copy is damaged. *)
LEMMA DamageIInv ==
  ASSUME IInv, NEW s \in Shards, Damage(s)
  PROVE  IInv'
<1>0. Formed /\ MoversFormed /\ OneAtATime /\ Charged
  BY DEF IInv
<1>1. /\ location' = location /\ task' = task /\ move' = move /\ pass' = pass
      /\ damage' = damage + 1
  BY DEF Damage, movers
<1>2. MoversFormed' /\ OneAtATime'
  BY <1>0, <1>1 DEF MoversFormed, TaskFormed, RebalanceFormed, MoveFormed, PassFormed,
                    OneAtATime, TasksIdle
<1>3. PICK held \in Copy : disk' = [disk EXCEPT ![location[s]][s] = held]
  BY Zenon DEF Damage, Copy
<1>4. /\ disk' \in [Locations -> [Shards -> Copy]]
      /\ \A k \in Locations, x \in Shards : x # s => disk'[k][x] = disk[k][x]
  BY <1>0, <1>3 DEF Formed
<1>5. Formed'
  BY <1>0, <1>1, <1>4 DEF Formed
<1>6. \A x \in Shards : x # s /\ Clean(x) => Clean(x)'
  <2> SUFFICES ASSUME NEW x \in Shards, x # s, Clean(x) PROVE Clean(x)'
    OBVIOUS
  <2>1. location[x] \in Locations
    BY <1>0 DEF Formed
  <2>2. task[x].pc = "record" => Head(task[x].queue) \in Locations
    <3>1. task[x].queue \in Seq(Peers) /\ (task[x].pc = "record" => task[x].queue # <<>>)
      BY <1>0 DEF MoversFormed, TaskFormed, TaskRec
    <3> QED
      BY <3>1 DEF Locations
  <2>3. move.pc = "record" => move.hand.dest \in Locations
    BY <1>0, MoveInHand
  <2>4. pass.pc = "record" => pass.target \in Locations
    BY <1>0 DEF MoversFormed, PassFormed
  <2>5. \A k \in Locations : disk'[k][x] = disk[k][x]
    BY <1>4
  <2> QED
    BY <1>1, <2>1, <2>2, <2>3, <2>4, <2>5 DEF Clean
<1> QED
  BY <1>0, <1>1, <1>2, <1>5, <1>6, DamagingStep DEF IInv

(* A crash forgets what was under way. *)
LEMMA CrashIInv ==
  ASSUME IInv, Crash
  PROVE  IInv'
<1>0. Formed /\ MoversFormed /\ OneAtATime /\ Charged
  BY DEF IInv
<1>1. /\ location' = location /\ disk' = disk /\ damage' = damage
      /\ task' = [s \in Shards |-> NoTask] /\ move' = NoRebalance /\ pass' = NoPass
  BY DEF Crash
<1>2. MoversFormed' /\ OneAtATime' /\ TasksIdle' /\ move'.pc = "idle" /\ pass'.pc = "idle"
  <2>1. RebalanceFormed(move)' /\ PassFormed(pass)' /\ move'.pc = "idle" /\ pass'.pc = "idle"
    BY <1>1, IdleFormed
  <2>2. /\ task' \in [Shards -> TaskRec]
        /\ \A s \in Shards : TaskFormed(task'[s]) /\ task'[s].pc = "idle"
    BY <1>1, IdleFormed
  <2> QED
    BY <2>1, <2>2 DEF MoversFormed, OneAtATime, TasksIdle
<1>3. Formed'
  BY <1>0, <1>1 DEF Formed
<1>4. \A x \in Shards : Clean(x) => Clean(x)'
  BY <1>1, <1>2 DEF Clean, TasksIdle
<1> QED
  BY <1>0, <1>1, <1>2, <1>3, <1>4, HarmlessStep DEF IInv

(* Every step of a node whose movers do not overlap. *)
LEMMA StepIInv ==
  ASSUME IInv, ~Overlap, [Next]_vars
  PROVE  IInv'
<1>1. CASE Distribute
  BY <1>1, DistributeIInv
<1>2. CASE RebalanceBegin
  BY <1>2, RebalanceBeginIInv
<1>3. ASSUME NEW s \in Shards, TaskSend(s) \/ TaskRecord(s) \/ TaskDrop(s) PROVE IInv'
  BY <1>3, TaskSendIInv, TaskRecordIInv, TaskDropIInv
<1>4. CASE MoveFetch \/ MovePlace \/ MoveRecord \/ MoveDrop
  BY <1>4, MoveFetchIInv, MovePlaceIInv, MoveRecordIInv, MoveDropIInv
<1>5. CASE RepairProbe \/ RepairPlan \/ RepairAssess \/ RepairFetch
  BY <1>5, RepairProbeIInv, RepairPlanIInv, RepairAssessIInv, RepairFetchIInv
<1>6. CASE RepairPlace \/ RepairRecord
  BY <1>6, RepairPlaceIInv, RepairRecordIInv
<1>7. ASSUME NEW p \in Peers, PeerDown(p) \/ PeerUp(p) \/ RemovePeer(p) \/ Announce(p)
      PROVE  IInv'
  BY <1>7, StillIInv DEF PeerDown, PeerUp, RemovePeer, Announce, movers
<1>8. ASSUME NEW s \in Shards, Damage(s) PROVE IInv'
  BY <1>8, DamageIInv
<1>9. CASE Crash
  BY <1>9, CrashIInv
<1>10. CASE UNCHANGED vars
  BY <1>10, StillIInv DEF vars
<1> QED
  BY <1>1, <1>2, <1>3, <1>4, <1>5, <1>6, <1>7, <1>8, <1>9, <1>10 DEF Next, Work

-----------------------------------------------------------------------------
(* As long as upload, rebalance and repair take turns, the charge of each   *)
(* shard that is lost or doomed to a damaged copy or a failed manifest      *)
(* write stands in every state.                                             *)
THEOREM MoversInvariance == ASSUME ~Overlap PROVE Spec => []IInv
<1>1. IInv /\ [Next]_vars => IInv'
  BY StepIInv
<1> QED
  BY <1>1, InitIInv, PTL DEF Spec

(* "a crash mid-way leaves either the old or both copies, never zero"       *)
(* (rebalance.rs:157), for move_shard as well as for the tasks of           *)
(* distribute_shards and for repair_chunk, for any number of peers and      *)
(* shards: a shard is lost only to a damaged copy or a failed manifest      *)
(* write, and each of these costs at most one.                              *)
THEOREM ShardsKept == ASSUME ~Overlap PROVE Spec => []MovesLoseNothing
<1>1. IInv => MovesLoseNothing
  BY ChargedCovers
<1> QED
  BY <1>1, MoversInvariance, PTL
=============================================================================
