----------------------------- MODULE JobsProofs -----------------------------
(***************************************************************************)
(* The queue's safety for any number of workers, callers, kinds, fragments *)
(* and rows, any attempt limit and any stale window.                       *)
(***************************************************************************)
EXTENDS Jobs, FiniteSetTheorems, TLAPS

(* Ids that were not handed out have no row, and no loop has one of them. *)
Fresh ==
    /\ \A j \in Ids : j > inserted => jobs[j] = None
    /\ \A w \in Workers : worker[w].op # "idle" => worker[w].id \in Ids /\ worker[w].id <= inserted

(* A row in some worker's hands is `running`, or old enough for the sweep to *)
(* have put it back.                                                         *)
OwnRow ==
    \A w \in Workers :
        (Running(w) /\ worker[w].id \in Jobs)
            => \/ jobs[worker[w].id].state = "running"
               \/ jobs[worker[w].id].age = Old

OnlyGc == \A j \in Jobs : jobs[j].shards # {} => jobs[j].kind = "gc_remote"

Gone(f) == f \notin hosted \/ f \in dropped
Retried(f, j) == \E k \in Open : k > j /\ f \in jobs[k].shards

(* What became of each shard of the row a loop is at: still to be tried, gone *)
(* or failed, gone or in a later row.                                         *)
Answered ==
    \A w \in Workers :
        worker[w].op # "idle" /\ worker[w].id \in Jobs =>
            /\ worker[w].op = "running" => worker[w].shards = jobs[worker[w].id].shards
            /\ worker[w].op = "ran" =>
                  \A f \in jobs[worker[w].id].shards \ worker[w].shards : Gone(f)
            /\ worker[w].op = "settled" =>
                  \A f \in jobs[worker[w].id].shards : Gone(f) \/ Retried(f, worker[w].id)

(* A shard that is still to be deleted is named by an open row. *)
Named == \A f \in asked : Gone(f) \/ \E j \in Open : f \in jobs[j].shards

IInv == TypeOK /\ Fresh /\ OwnRow /\ ClaimExclusive /\ OnlyGc /\ Answered /\ Named

-----------------------------------------------------------------------------

(* An empty queue with idle loops satisfies the invariant. *)
LEMMA InitIInv == Init => IInv
  BY JobsAssumption DEF Init, IInv, TypeOK, Fresh, OwnRow, ClaimExclusive, OnlyGc, Answered,
     Named, Running, Idle, Loop, Jobs, Ids

(* A new row takes an id that nobody has and changes no other row. *)
LEMMA InsertStep ==
    ASSUME IInv, NEW kind \in Kinds, NEW shards \in SUBSET Fragments,
           NEW attempt \in 0 .. GcMaxAttempts - 1, NEW due \in BOOLEAN,
           Insert(kind, shards, attempt, due), shards # {} => kind = "gc_remote"
    PROVE  /\ jobs' \in [Ids -> Row \cup {None}]
           /\ inserted' = inserted + 1 /\ inserted' \in 0 .. MaxJobs /\ inserted' \in Ids
           /\ \A j \in Ids : j # inserted' => jobs'[j] = jobs[j]
           /\ jobs'[inserted'].shards = shards
           /\ inserted' \in Open' /\ inserted' \in Jobs'
           /\ jobs[inserted'] = None
           /\ Jobs' = Jobs \cup {inserted'}
           /\ Open' = Open \cup {inserted'}
           /\ OnlyGc'
<1> DEFINE row == [kind |-> kind, state |-> "pending", age |-> 0, due |-> due,
                   shards |-> shards, attempt |-> attempt]
<1>1. row \in Row
  BY JobsAssumption DEF Row, Ages, Old
<1>2. inserted' = inserted + 1 /\ inserted' \in Ids /\ inserted' \in 0 .. MaxJobs
  BY JobsAssumption DEF IInv, TypeOK, Insert, Ids
<1>3. jobs' = [jobs EXCEPT ![inserted'] = row]
  BY <1>2 DEF Insert
<1>4. /\ jobs' \in [Ids -> Row \cup {None}]
      /\ jobs'[inserted'] = row
      /\ \A j \in Ids : j # inserted' => jobs'[j] = jobs[j]
  BY <1>1, <1>2, <1>3 DEF IInv, TypeOK
<1>5. jobs[inserted'] = None
  BY <1>2 DEF IInv, Fresh, TypeOK
<1>6. row # None /\ row.state = "pending" /\ row.shards = shards /\ row.kind = kind
  BY <1>1, NoneAssumption
<1>7. Jobs' = Jobs \cup {inserted'}
  BY <1>2, <1>4, <1>6 DEF Jobs
<1>8. Open' = Open \cup {inserted'}
  BY <1>2, <1>4, <1>5, <1>6, <1>7 DEF Open, InState, Jobs
<1>9. OnlyGc'
  BY <1>2, <1>4, <1>5, <1>6, <1>7 DEF OnlyGc, IInv, Jobs
<1> QED
  BY <1>2, <1>4, <1>5, <1>6, <1>7, <1>8, <1>9

(* Enqueueing leaves the loops where they are. *)
LEMMA EnqueueStep ==
    ASSUME IInv, NEW kind \in Kinds, NEW shards \in SUBSET Fragments,
           Insert(kind, shards, 0, TRUE), shards # {} => kind = "gc_remote",
           enqueuing' \in [Callers -> CoalescedKinds \cup {None}],
           asked' = asked \cup shards,
           UNCHANGED <<worker, faults, hosted, dropped>>
    PROVE  IInv'
<1>1. /\ jobs' \in [Ids -> Row \cup {None}]
      /\ inserted' = inserted + 1 /\ inserted' \in 0 .. MaxJobs /\ inserted' \in Ids
      /\ \A j \in Ids : j # inserted' => jobs'[j] = jobs[j]
      /\ jobs'[inserted'].shards = shards
      /\ jobs[inserted'] = None
      /\ Jobs' = Jobs \cup {inserted'}
      /\ Open' = Open \cup {inserted'}
      /\ OnlyGc'
  <2>1. 0 \in 0 .. GcMaxAttempts - 1
    BY JobsAssumption
  <2> QED
    BY <2>1, InsertStep
<1>2. TypeOK'
  BY <1>1 DEF IInv, TypeOK
<1>3. \A w \in Workers : worker[w].op # "idle" =>
          worker[w].id \in Ids /\ worker[w].id # inserted' /\ jobs'[worker[w].id] = jobs[worker[w].id]
  BY <1>1, JobsAssumption DEF IInv, Fresh, TypeOK, Ids
<1>4. Fresh'
  <2>1. \A j \in Ids : j > inserted' => jobs'[j] = None
    BY <1>1, JobsAssumption DEF IInv, Fresh, TypeOK, Ids
  <2>2. \A w \in Workers : worker[w].op # "idle" => worker[w].id <= inserted'
    BY <1>1, JobsAssumption DEF IInv, Fresh, TypeOK, Ids
  <2> QED
    BY <1>3, <2>1, <2>2 DEF Fresh
<1>5. \A w \in Workers : Running(w)' <=> Running(w)
  BY DEF Running
<1>6. \A w \in Workers : Running(w) => worker[w].op # "idle"
  BY DEF Running
<1>7. OwnRow' /\ ClaimExclusive'
  BY <1>1, <1>3, <1>5, <1>6 DEF IInv, OwnRow, ClaimExclusive
<1>8. \A f, j : Retried(f, j) => Retried(f, j)'
  <2> SUFFICES ASSUME NEW f, NEW j, NEW k \in Open, k > j, f \in jobs[k].shards
               PROVE  Retried(f, j)'
    BY DEF Retried
  <2>1. k \in Ids /\ jobs[k] # None
    BY DEF Open, InState, Jobs
  <2> QED
    BY <1>1, <2>1 DEF Retried
<1>9. Answered'
  BY <1>1, <1>3, <1>8 DEF IInv, Answered, Gone
<1>10. Named'
  <2> SUFFICES ASSUME NEW f \in asked', ~Gone(f)
               PROVE  \E j \in Open' : f \in jobs'[j].shards
    BY DEF Named, Gone
  <2>1. CASE f \in shards
    BY <1>1, <2>1
  <2>2. CASE f \in asked
    <3>1. PICK k \in Open : f \in jobs[k].shards
      BY <2>2 DEF IInv, Named
    <3>2. k \in Ids /\ jobs[k] # None
      BY DEF Open, InState, Jobs
    <3> QED
      BY <1>1, <3>1, <3>2
  <2> QED
    BY <2>1, <2>2
<1> QED
  BY <1>1, <1>2, <1>4, <1>7, <1>9, <1>10 DEF IInv

(* A loop that starts over or has only picked a row holds nothing. *)
LEMMA LoopStep ==
    ASSUME IInv, NEW w \in Workers, NEW l \in Loop,
           worker' = [worker EXCEPT ![w] = l],
           \/ l.op = "idle"
           \/ l.op = "picked" /\ l.id \in Ids /\ l.id <= inserted,
           faults' \in 0 .. MaxFaults,
           UNCHANGED <<jobs, inserted, enqueuing, hosted, asked, dropped>>
    PROVE  IInv'
<1>1. worker' \in [Workers -> Loop]
  BY DEF IInv, TypeOK
<1>2. worker'[w] = l /\ \A v \in Workers : v # w => worker'[v] = worker[v]
  BY DEF IInv, TypeOK
<1>3. TypeOK'
  BY <1>1 DEF IInv, TypeOK
<1>4. Fresh'
  BY <1>2 DEF IInv, Fresh
<1>5. \A v \in Workers : Running(v)' => Running(v) /\ v # w
  BY <1>2 DEF Running
<1>6. Jobs' = Jobs /\ Open' = Open
  BY DEF Jobs, Open, InState
<1>7. OwnRow' /\ ClaimExclusive' /\ OnlyGc'
  BY <1>2, <1>5, <1>6 DEF IInv, OwnRow, ClaimExclusive, OnlyGc
<1>8. Answered'
  BY <1>2, <1>6 DEF IInv, Answered, Gone, Retried
<1>9. Named'
  BY <1>6 DEF IInv, Named, Gone
<1> QED
  BY <1>3, <1>4, <1>7, <1>8, <1>9 DEF IInv

(* What happens to a row that no loop is changing: it stays, only ages, or   *)
(* returns to the queue once it is old; or it is purged, if it was finished. *)
Kept(j) ==
    /\ jobs[j] # None /\ jobs'[j] \in Row
    /\ jobs'[j].shards = jobs[j].shards /\ jobs'[j].kind = jobs[j].kind
    /\ jobs[j].age = Old => jobs'[j].age = Old
    /\ \/ jobs'[j].state = jobs[j].state
       \/ jobs[j].state = "running" /\ jobs[j].age = Old /\ jobs'[j].state = "pending"
Absent(j) == jobs'[j] = None /\ (jobs[j] # None => jobs[j].state = "done")

(* The sweep of stale rows, the purge, and time. *)
LEMMA HousekeepingStep ==
    ASSUME IInv, jobs' = [j \in Ids |-> jobs'[j]],
           \A j \in Ids : Kept(j) \/ Absent(j),
           UNCHANGED <<inserted, enqueuing, worker, faults, hosted, asked, dropped>>
    PROVE  IInv'
<1>1. TypeOK'
  <2>1. \A j \in Ids : jobs'[j] \in Row \cup {None}
    BY DEF Kept, Absent
  <2>2. jobs' \in [Ids -> Row \cup {None}]
    BY <2>1
  <2> QED
    BY <2>2 DEF IInv, TypeOK
<1>2. \A j \in Jobs' : j \in Jobs /\ Kept(j)
  BY DEF Jobs, Absent, Kept
<1>3. \A j \in Open : j \in Open' /\ Kept(j)
  <2> SUFFICES ASSUME NEW j \in Open PROVE j \in Open' /\ Kept(j)
    OBVIOUS
  <2>1. j \in Ids /\ jobs[j] # None /\ jobs[j].state \in {"pending", "running"}
    BY DEF Open, InState, Jobs
  <2>2. Kept(j)
    BY <2>1 DEF Absent
  <2>3. jobs'[j] # None /\ jobs'[j].state \in {"pending", "running"}
    BY <2>1, <2>2, NoneAssumption DEF Kept
  <2> QED
    BY <2>1, <2>2, <2>3 DEF Open, InState, Jobs
<1>4. Fresh'
  <2>1. \A j \in Ids : j > inserted => jobs'[j] = None
    BY DEF IInv, Fresh, Kept, Absent
  <2> QED
    BY <2>1 DEF IInv, Fresh
<1>5. \A w \in Workers : (Running(w)' <=> Running(w)) /\ (Running(w) => worker[w].id \in Ids)
  BY DEF Running, IInv, Fresh
<1>6. OwnRow'
  BY <1>2, <1>5 DEF IInv, OwnRow, Kept
<1>7. ClaimExclusive'
  BY <1>2, <1>5 DEF IInv, ClaimExclusive, Kept, Absent, Jobs
<1>8. OnlyGc'
  BY <1>2 DEF IInv, OnlyGc, Kept
<1>9. \A f, j : Retried(f, j) => Retried(f, j)'
  BY <1>3 DEF Retried, Kept
<1>10. Answered'
  BY <1>2, <1>9 DEF IInv, Answered, Gone, Kept
<1>11. Named'
  BY <1>3 DEF IInv, Named, Gone, Kept
<1> QED
  BY <1>1, <1>4, <1>6, <1>7, <1>8, <1>10, <1>11 DEF IInv

(* The stale sweep preserves the invariant (requeue_stale_jobs). *)
LEMMA RequeueIInv == ASSUME IInv, NEW w \in Workers, Requeue(w) PROVE IInv'
<1>1. \A j \in Ids : jobs'[j] = IF j \in Stale THEN [jobs[j] EXCEPT !.state = "pending", !.due = TRUE]
                                               ELSE jobs[j]
  BY DEF Requeue
<1>2. \A j \in Ids : Kept(j) \/ Absent(j)
  <2> SUFFICES ASSUME NEW j \in Ids PROVE Kept(j) \/ Absent(j)
    OBVIOUS
  <2>1. CASE jobs[j] = None
    BY <1>1, <2>1 DEF Stale, InState, Jobs, Absent
  <2>2. CASE jobs[j] # None /\ j \in Stale
    <3>1. jobs[j] \in Row /\ jobs[j].state = "running" /\ jobs[j].age = Old
      BY <2>2 DEF IInv, TypeOK, Stale, InState
    <3>2. jobs'[j] = [jobs[j] EXCEPT !.state = "pending", !.due = TRUE]
      BY <1>1, <2>2
    <3> QED
      BY <2>2, <3>1, <3>2 DEF Kept, Row
  <2>3. CASE jobs[j] # None /\ j \notin Stale
    BY <1>1, <2>3 DEF IInv, TypeOK, Kept
  <2> QED
    BY <2>1, <2>2, <2>3
<1>3. jobs' = [j \in Ids |-> jobs'[j]]
  BY DEF Requeue
<1> QED
  BY <1>2, <1>3, HousekeepingStep DEF Requeue

(* So does the purge of finished rows (purge_old_rows). *)
LEMMA PurgeOldIInv == ASSUME IInv, NEW w \in Workers, PurgeOld(w) PROVE IInv'
<1>1. PICK gone \in SUBSET {j \in InState("done") : jobs[j].age = Old} :
          jobs' = [j \in Ids |-> IF j \in gone THEN None ELSE jobs[j]]
  BY DEF PurgeOld
<1>2. \A j \in Ids : Kept(j) \/ Absent(j)
  BY <1>1 DEF IInv, TypeOK, Kept, Absent, InState
<1>3. jobs' = [j \in Ids |-> jobs'[j]]
  BY <1>1
<1> QED
  BY <1>2, <1>3, HousekeepingStep DEF PurgeOld

(* So does a row whose run_after is reached. *)
LEMMA DueIInv == ASSUME IInv, NEW d \in Ids, Due(d) PROVE IInv'
<1>1. jobs[d] # None /\ jobs[d] \in Row
  BY DEF Due, InState, Jobs, IInv, TypeOK
<1>2. jobs' = [jobs EXCEPT ![d] = [jobs[d] EXCEPT !.due = TRUE]]
  BY DEF Due
<1>3. \A j \in Ids : Kept(j) \/ Absent(j)
  <2> SUFFICES ASSUME NEW j \in Ids PROVE Kept(j) \/ Absent(j)
    OBVIOUS
  <2>1. CASE j = d
    <3>1. jobs'[j] = [jobs[j] EXCEPT !.due = TRUE]
      BY <1>2, <2>1 DEF IInv, TypeOK
    <3> QED
      BY <1>1, <2>1, <3>1 DEF Kept, Row
  <2>2. CASE j # d
    BY <1>2, <2>2 DEF IInv, TypeOK, Kept, Absent
  <2> QED
    BY <2>1, <2>2
<1>4. jobs' = [j \in Ids |-> jobs'[j]]
  BY <1>2 DEF IInv, TypeOK
<1> QED
  BY <1>3, <1>4, HousekeepingStep DEF Due

(* So does the passing of time. *)
LEMMA TickIInv == ASSUME IInv, Tick PROVE IInv'
<1>1. \A j \in Ids : Kept(j) \/ Absent(j)
  <2> SUFFICES ASSUME NEW j \in Ids PROVE Kept(j) \/ Absent(j)
    OBVIOUS
  <2>1. CASE jobs[j] = None
    BY <2>1 DEF Tick, Jobs, Absent
  <2>2. CASE jobs[j] # None
    <3>1. jobs[j] \in Row
      BY <2>2 DEF IInv, TypeOK
    <3>2. jobs'[j] = [jobs[j] EXCEPT !.age = Older(jobs[j].age)]
      BY <2>2 DEF Tick, Jobs
    <3>3. Older(jobs[j].age) \in Ages /\ (jobs[j].age = Old => Older(jobs[j].age) = Old)
      BY <3>1, JobsAssumption DEF Row, Ages, Old, Older
    <3> QED
      BY <2>2, <3>1, <3>2, <3>3 DEF Kept, Row
  <2> QED
    BY <2>1, <2>2
<1>2. jobs' = [j \in Ids |-> jobs'[j]]
  BY DEF Tick
<1> QED
  BY <1>1, <1>2, HousekeepingStep DEF Tick

(* So do the DeleteShard requests of a row, whatever their answers. *)
LEMMA RunIInv == ASSUME IInv, NEW w \in Workers, Run(w) PROVE IInv'
<1>0. PICK failed \in SUBSET worker[w].shards :
          \E unknown \in SUBSET (worker[w].shards \ failed) :
              /\ hosted' = hosted \ (worker[w].shards \ (failed \cup unknown))
              /\ dropped' = dropped \cup (unknown \cap hosted)
              /\ worker' = [worker EXCEPT ![w].op = "ran", ![w].shards = failed]
  BY DEF Run
<1>1. PICK unknown \in SUBSET (worker[w].shards \ failed) :
          /\ hosted' = hosted \ (worker[w].shards \ (failed \cup unknown))
          /\ dropped' = dropped \cup (unknown \cap hosted)
          /\ worker' = [worker EXCEPT ![w].op = "ran", ![w].shards = failed]
  BY <1>0
<1>2. worker[w] \in Loop /\ worker[w].op = "running"
  BY DEF Run, IInv, TypeOK
<1>3. /\ worker'[w] = [worker[w] EXCEPT !.op = "ran", !.shards = failed]
      /\ \A v \in Workers : v # w => worker'[v] = worker[v]
      /\ DOMAIN worker' = Workers
  BY <1>1 DEF IInv, TypeOK
<1>4. /\ worker'[w] \in Loop /\ worker'[w].op = "ran"
      /\ worker'[w].id = worker[w].id /\ worker'[w].shards = failed
  BY <1>1, <1>2, <1>3 DEF Loop
<1>5. TypeOK'
  <2>1. worker' \in [Workers -> Loop]
    BY <1>1, <1>3, <1>4 DEF IInv, TypeOK
  <2>2. hosted' \subseteq Fragments /\ dropped' \subseteq Fragments
    BY <1>1, <1>2 DEF IInv, TypeOK
  <2> QED
    BY <2>1, <2>2 DEF IInv, TypeOK, Run
<1>6. jobs' = jobs /\ inserted' = inserted /\ asked' = asked /\ Jobs' = Jobs /\ Open' = Open
  BY DEF Run, Jobs, Open, InState
<1>7. \A v \in Workers : worker'[v].id = worker[v].id /\ (Running(v)' <=> Running(v))
  BY <1>2, <1>3, <1>4 DEF Running
<1>8. Fresh'
  BY <1>2, <1>3, <1>4, <1>6 DEF IInv, Fresh
<1>9. OwnRow' /\ ClaimExclusive' /\ OnlyGc'
  BY <1>6, <1>7 DEF IInv, OwnRow, ClaimExclusive, OnlyGc
<1>10. \A f : Gone(f) => Gone(f)'
  BY <1>1 DEF Gone
<1>11. \A f \in worker[w].shards \ failed : Gone(f)'
  BY <1>1 DEF Gone
<1>12. \A f, j : Retried(f, j)' <=> Retried(f, j)
  BY <1>6 DEF Retried
<1>13. Answered'
  <2> SUFFICES ASSUME NEW v \in Workers, worker'[v].op # "idle", worker'[v].id \in Jobs'
               PROVE  /\ worker'[v].op = "running" => worker'[v].shards = jobs'[worker'[v].id].shards
                      /\ worker'[v].op = "ran" =>
                            \A f \in jobs'[worker'[v].id].shards \ worker'[v].shards : Gone(f)'
                      /\ worker'[v].op = "settled" =>
                            \A f \in jobs'[worker'[v].id].shards : Gone(f)' \/ Retried(f, worker[v].id)'
    BY DEF Answered
  <2>1. CASE v = w
    BY <1>2, <1>4, <1>6, <1>11, <2>1 DEF IInv, Answered
  <2>2. CASE v # w
    BY <1>3, <1>6, <1>10, <1>12, <2>2 DEF IInv, Answered
  <2> QED
    BY <2>1, <2>2
<1>14. Named'
  BY <1>6, <1>10 DEF IInv, Named
<1> QED
  BY <1>5, <1>8, <1>9, <1>13, <1>14 DEF IInv

(* So does the coalescing test of enqueue. *)
LEMMA EnqueueCheckIInv ==
    ASSUME IInv, NEW c \in Callers, NEW k \in CoalescedKinds, EnqueueCheck(c, k) PROVE IInv'
<1>1. enqueuing' \in [Callers -> CoalescedKinds \cup {None}]
  BY DEF EnqueueCheck, IInv, TypeOK
<1>2. UNCHANGED <<jobs, inserted, worker, faults, hosted, asked, dropped>>
  BY DEF EnqueueCheck
<1>3. TypeOK'
  BY <1>1, <1>2 DEF IInv, TypeOK
<1> QED
  BY <1>2, <1>3 DEF IInv, Fresh, OwnRow, ClaimExclusive, OnlyGc, Answered, Named, Running,
     Jobs, Open, InState, Gone, Retried

(* So does each of the three inserts of enqueue. *)
LEMMA EnqueueIInv ==
    ASSUME IInv,
           \/ \E c \in Callers : EnqueueInsert(c)
           \/ \E k \in PlainKinds : EnqueuePlain(k)
           \/ \E S \in SUBSET Fragments : EnqueueGc(S)
    PROVE  IInv'
<1>1. CASE \E c \in Callers : EnqueueInsert(c)
  <2>1. PICK c \in Callers : EnqueueInsert(c)
    BY <1>1
  <2>2. PICK k \in Kinds : k = enqueuing[c]
    BY <2>1 DEF EnqueueInsert, IInv, TypeOK, Kinds
  <2>3. /\ enqueuing' \in [Callers -> CoalescedKinds \cup {None}]
        /\ asked' = asked \cup {}
        /\ Insert(k, {}, 0, TRUE)
        /\ UNCHANGED <<worker, faults, hosted, dropped>>
    BY <2>1, <2>2 DEF EnqueueInsert, IInv, TypeOK
  <2>4. {} \in SUBSET Fragments
    OBVIOUS
  <2> QED
    BY <2>3, <2>4, EnqueueStep, Zenon
<1>2. CASE \E k \in PlainKinds : EnqueuePlain(k)
  <2>1. PICK k \in PlainKinds : EnqueuePlain(k)
    BY <1>2
  <2>2. /\ k \in Kinds
        /\ enqueuing' \in [Callers -> CoalescedKinds \cup {None}]
        /\ asked' = asked \cup {}
        /\ Insert(k, {}, 0, TRUE)
        /\ UNCHANGED <<worker, faults, hosted, dropped>>
    BY <2>1 DEF EnqueuePlain, IInv, TypeOK, Kinds
  <2>3. {} \in SUBSET Fragments
    OBVIOUS
  <2> QED
    BY <2>2, <2>3, EnqueueStep, Zenon
<1>3. CASE \E S \in SUBSET Fragments : EnqueueGc(S)
  <2>1. PICK S \in SUBSET Fragments : EnqueueGc(S)
    BY <1>3
  <2>2. /\ "gc_remote" \in Kinds
        /\ enqueuing' \in [Callers -> CoalescedKinds \cup {None}]
        /\ asked' = asked \cup S
        /\ Insert("gc_remote", S, 0, TRUE)
        /\ UNCHANGED <<worker, faults, hosted, dropped>>
    BY <2>1 DEF EnqueueGc, IInv, TypeOK, Kinds
  <2> QED
    BY <2>2, EnqueueStep
<1> QED
  BY <1>1, <1>2, <1>3

(* So does the first statement of claim. *)
LEMMA ClaimPickIInv == ASSUME IInv, NEW w \in Workers, ClaimPick(w) PROVE IInv'
<1>1. PICK j \in Runnable : worker' = [worker EXCEPT ![w].op = "picked", ![w].id = j]
  BY DEF ClaimPick
<1>2. j \in Ids /\ j <= inserted
  <2>1. j \in Ids /\ jobs[j] # None
    BY DEF Runnable, InState, Jobs
  <2> QED
    BY <2>1, JobsAssumption DEF IInv, Fresh, TypeOK, Ids
<1> DEFINE l == [worker[w] EXCEPT !.op = "picked", !.id = j]
<1>3. worker[w] \in Loop
  BY DEF IInv, TypeOK
<1>4. l \in Loop /\ l.op = "picked" /\ l.id = j
  BY <1>2, <1>3 DEF Loop
<1>5. worker' = [worker EXCEPT ![w] = l]
  BY <1>1
<1>6. faults' \in 0 .. MaxFaults /\ UNCHANGED <<jobs, inserted, enqueuing, hosted, asked, dropped>>
  BY DEF ClaimPick, IInv, TypeOK
<1> HIDE DEF l
<1> QED
  BY <1>2, <1>4, <1>5, <1>6, LoopStep

(* A loop that starts over is a loop. *)
LEMMA IdleLoop == Idle \in Loop /\ Idle.op = "idle"
  BY JobsAssumption DEF Idle, Loop

(* So does a worker's death at any point. *)
LEMMA FaultIInv == ASSUME IInv, NEW w \in Workers, Fault(w) PROVE IInv'
<1>1. faults' \in 0 .. MaxFaults
  BY JobsAssumption DEF Fault, IInv, TypeOK
<1> QED
  BY <1>1, IdleLoop, LoopStep DEF Fault

(* So does the conditional update of claim, won or lost. *)
LEMMA ClaimTakeIInv == ASSUME IInv, NEW w \in Workers, ClaimTake(w) PROVE IInv'
<1> DEFINE j == worker[w].id
<1>1. CASE j \notin InState("pending")
  <2>1. /\ worker' = [worker EXCEPT ![w] = Idle] /\ faults' \in 0 .. MaxFaults
        /\ UNCHANGED <<jobs, inserted, enqueuing, hosted, asked, dropped>>
    BY <1>1 DEF ClaimTake, IInv, TypeOK
  <2> QED
    BY <2>1, IdleLoop, LoopStep
<1>2. CASE j \in InState("pending")
  <2>1. /\ j \in Ids /\ j <= inserted /\ jobs[j] \in Row /\ jobs[j] # None
        /\ jobs[j].state = "pending"
    BY <1>2 DEF ClaimTake, IInv, TypeOK, Fresh, InState, Jobs
  <2>2. /\ jobs' = [jobs EXCEPT ![j] = [jobs[j] EXCEPT !.state = "running"]]
        /\ worker' = [worker EXCEPT ![w] = InHand(j)]
        /\ UNCHANGED <<inserted, enqueuing, faults, hosted, asked, dropped>>
    BY <1>2 DEF ClaimTake
  <2>3. /\ jobs' \in [Ids -> Row \cup {None}]
        /\ jobs'[j] \in Row /\ jobs'[j] # None
        /\ jobs'[j].state = "running" /\ jobs'[j].shards = jobs[j].shards
        /\ jobs'[j].kind = jobs[j].kind /\ jobs'[j].age = jobs[j].age
        /\ \A k \in Ids : k # j => jobs'[k] = jobs[k]
    <3>1. [jobs[j] EXCEPT !.state = "running"] \in Row
      BY <2>1 DEF Row
    <3>2. /\ jobs'[j] = [jobs[j] EXCEPT !.state = "running"]
          /\ jobs' \in [Ids -> Row \cup {None}]
          /\ \A k \in Ids : k # j => jobs'[k] = jobs[k]
      BY <2>1, <2>2, <3>1 DEF IInv, TypeOK
    <3> QED
      BY <2>1, <3>1, <3>2, NoneAssumption DEF Row
  <2>4. /\ InHand(j) \in Loop /\ InHand(j).op = "running" /\ InHand(j).id = j
        /\ InHand(j).shards = jobs[j].shards
    BY <2>1 DEF InHand, Loop, Row
  <2>5. /\ worker' \in [Workers -> Loop] /\ worker'[w] = InHand(j)
        /\ \A v \in Workers : v # w => worker'[v] = worker[v]
    BY <2>2, <2>4 DEF IInv, TypeOK
  <2>6. TypeOK'
    BY <2>2, <2>3, <2>5 DEF IInv, TypeOK
  <2>7. Jobs' = Jobs /\ Open' = Open
    BY <2>1, <2>3 DEF Jobs, Open, InState
  <2>8. Fresh'
    <3>1. \A k \in Ids : k > inserted => k # j
      BY <2>1, JobsAssumption DEF IInv, TypeOK, Ids
    <3> QED
      BY <2>1, <2>2, <2>3, <2>4, <2>5, <3>1 DEF IInv, Fresh
  <2>9. \A v \in Workers : v # w => (Running(v)' <=> Running(v))
    BY <2>5 DEF Running
  <2>10. \A v \in Workers : Running(v) => worker[v].id \in Ids
    BY DEF IInv, Fresh, Running
  <2>11. OwnRow'
    BY <2>3, <2>4, <2>5, <2>7, <2>9, <2>10 DEF IInv, OwnRow
  <2>12. \A v \in Workers : (v # w /\ Running(v) /\ worker[v].id = j) => jobs[j].age = Old
    BY <2>1 DEF IInv, OwnRow, Jobs
  <2>13. ClaimExclusive'
    BY <2>3, <2>4, <2>5, <2>9, <2>10, <2>12 DEF IInv, ClaimExclusive
  <2>14. OnlyGc'
    BY <2>3, <2>7 DEF IInv, OnlyGc, Jobs
  <2>15. \A k \in Jobs : k \in Ids /\ jobs'[k].shards = jobs[k].shards
    BY <2>3 DEF Jobs
  <2>16. Open \subseteq Jobs
    BY DEF Open, InState
  <2>17. \A f, k : Retried(f, k) => Retried(f, k)'
    BY <2>7, <2>15, <2>16 DEF Retried
  <2>18. Answered'
    BY <2>2, <2>4, <2>5, <2>7, <2>15, <2>17 DEF IInv, Answered, Gone
  <2>19. Named'
    BY <2>2, <2>7, <2>15, <2>16 DEF IInv, Named, Gone
  <2> QED
    BY <2>6, <2>8, <2>11, <2>13, <2>14, <2>18, <2>19 DEF IInv
<1> QED
  BY <1>1, <1>2

(* So does finish: the shards of the row it closes are in a later row. *)
LEMMA FinishIInv == ASSUME IInv, NEW w \in Workers, Finish(w) PROVE IInv'
<1> DEFINE j == worker[w].id
<1>1. CASE j \notin Jobs
  <2>1. /\ worker' = [worker EXCEPT ![w] = Idle] /\ faults' \in 0 .. MaxFaults
        /\ UNCHANGED <<jobs, inserted, enqueuing, hosted, asked, dropped>>
    BY <1>1 DEF Finish, IInv, TypeOK
  <2> QED
    BY <2>1, IdleLoop, LoopStep
<1>2. CASE j \in Jobs
  <2>1. /\ j \in Ids /\ jobs[j] \in Row /\ jobs[j] # None /\ worker[w].op = "settled"
    BY <1>2 DEF Finish, IInv, TypeOK, Jobs
  <2>2. /\ jobs' = [jobs EXCEPT ![j] = [jobs[j] EXCEPT !.state = "done"]]
        /\ worker' = [worker EXCEPT ![w] = Idle]
        /\ UNCHANGED <<inserted, enqueuing, faults, hosted, asked, dropped>>
    BY <1>2 DEF Finish
  <2>3. /\ jobs' \in [Ids -> Row \cup {None}]
        /\ jobs'[j] \in Row /\ jobs'[j] # None
        /\ jobs'[j].state = "done" /\ jobs'[j].shards = jobs[j].shards
        /\ jobs'[j].kind = jobs[j].kind /\ jobs'[j].age = jobs[j].age
        /\ \A k \in Ids : k # j => jobs'[k] = jobs[k]
    <3>1. [jobs[j] EXCEPT !.state = "done"] \in Row
      BY <2>1 DEF Row
    <3>2. /\ jobs'[j] = [jobs[j] EXCEPT !.state = "done"]
          /\ jobs' \in [Ids -> Row \cup {None}]
          /\ \A k \in Ids : k # j => jobs'[k] = jobs[k]
      BY <2>1, <2>2, <3>1 DEF IInv, TypeOK
    <3> QED
      BY <2>1, <3>1, <3>2, NoneAssumption DEF Row
  <2>4. /\ worker' \in [Workers -> Loop] /\ worker'[w] = Idle /\ worker'[w].op = "idle"
        /\ \A v \in Workers : v # w => worker'[v] = worker[v]
    BY <2>2, IdleLoop DEF IInv, TypeOK
  <2>5. TypeOK'
    BY <2>2, <2>3, <2>4 DEF IInv, TypeOK
  <2>6. Jobs' = Jobs
    BY <2>1, <2>3 DEF Jobs
  <2>7. \A k \in Open : k \in Ids /\ k \in Jobs /\ (k = j \/ k \in Open')
    BY <2>3 DEF Jobs, Open, InState
  <2>8. Fresh'
    BY <2>1, <2>2, <2>3, <2>4 DEF IInv, Fresh
  <2>9. \A v \in Workers : Running(v)' => v # w /\ Running(v) /\ worker[v].id \in Ids
    BY <2>4 DEF Running, IInv, Fresh
  <2>10. \A v \in Workers : (v # w /\ Running(v) /\ worker[v].id = j) => jobs[j].age = Old
    BY <2>1 DEF IInv, ClaimExclusive, Running
  <2>11. OwnRow'
    BY <2>3, <2>4, <2>6, <2>9, <2>10 DEF IInv, OwnRow
  <2>12. ClaimExclusive'
    <3> SUFFICES ASSUME NEW u \in Workers, NEW v \in Workers, u # v, Running(u)', Running(v)',
                        worker'[u].id = worker'[v].id
                 PROVE  jobs'[worker'[u].id] = None \/ jobs'[worker'[u].id].age = Old
      BY DEF ClaimExclusive
    <3>1. /\ u # w /\ v # w /\ Running(u) /\ Running(v) /\ worker[u].id \in Ids
          /\ worker'[u] = worker[u] /\ worker'[v] = worker[v]
      BY <2>4, <2>9
    <3>2. jobs[worker[u].id] = None \/ jobs[worker[u].id].age = Old
      BY <3>1 DEF IInv, ClaimExclusive
    <3> QED
      BY <2>1, <2>3, <3>1, <3>2
  <2>13. OnlyGc'
    BY <2>3, <2>6 DEF IInv, OnlyGc, Jobs
  <2>14. \A k \in Jobs : k \in Ids /\ jobs'[k].shards = jobs[k].shards
    BY <2>3 DEF Jobs
  <2>15. \A f \in jobs[j].shards : Gone(f) \/ \E k \in Open : k > j /\ k \in Open' /\ f \in jobs'[k].shards
    <3>1. \A f \in jobs[j].shards : Gone(f) \/ Retried(f, j)
      BY <1>2, <2>1 DEF IInv, Answered
    <3>2. \A k \in Open : k > j => k # j
      BY <2>1, JobsAssumption DEF Open, InState, Jobs, Ids
    <3> QED
      BY <2>7, <2>14, <3>1, <3>2 DEF Retried
  <2>16. \A f, i : i \in Ids /\ Retried(f, i) => Gone(f) \/ Retried(f, i)'
    <3> SUFFICES ASSUME NEW f, NEW i \in Ids, NEW k \in Open, k > i, f \in jobs[k].shards
                 PROVE  Gone(f) \/ Retried(f, i)'
      BY DEF Retried
    <3>1. CASE k # j
      BY <2>7, <2>14, <3>1 DEF Retried
    <3>2. CASE k = j
      <4>1. Gone(f) \/ \E m \in Open : m > j /\ m \in Open' /\ f \in jobs'[m].shards
        BY <2>15, <3>2
      <4>2. \A m \in Open : m > j => m > i
        BY <3>2, JobsAssumption DEF Open, InState, Jobs, Ids
      <4> QED
        BY <4>1, <4>2 DEF Retried
    <3> QED
      BY <3>1, <3>2
  <2>17. \A f : Gone(f)' <=> Gone(f)
    BY <2>2 DEF Gone
  <2>18. Answered'
    <3> SUFFICES ASSUME NEW v \in Workers, worker'[v].op # "idle", worker'[v].id \in Jobs'
                 PROVE  /\ worker'[v].op = "running" => worker'[v].shards = jobs'[worker'[v].id].shards
                        /\ worker'[v].op = "ran" =>
                              \A f \in jobs'[worker'[v].id].shards \ worker'[v].shards : Gone(f)'
                        /\ worker'[v].op = "settled" =>
                              \A f \in jobs'[worker'[v].id].shards : Gone(f)' \/ Retried(f, worker[v].id)'
      BY DEF Answered
    <3>1. v # w /\ worker'[v] = worker[v] /\ worker[v].id \in Jobs /\ worker[v].id \in Ids
      BY <2>4, <2>6, <2>14
    <3> QED
      BY <2>14, <2>16, <2>17, <3>1 DEF IInv, Answered
  <2>19. Named'
    <3> SUFFICES ASSUME NEW f \in asked, ~Gone(f)
                 PROVE  \E k \in Open' : f \in jobs'[k].shards
      BY <2>2, <2>17 DEF Named
    <3>1. PICK k \in Open : f \in jobs[k].shards
      BY DEF IInv, Named
    <3>2. CASE k = j
      BY <2>15, <3>1, <3>2
    <3>3. CASE k # j
      BY <2>7, <2>14, <3>1, <3>3
    <3> QED
      BY <3>2, <3>3
  <2> QED
    BY <2>5, <2>8, <2>11, <2>12, <2>13, <2>18, <2>19 DEF IInv
<1> QED
  BY <1>1, <1>2

(* So does the end of run_gc_remote, which queues a retry or gives up. *)
LEMMA SettleIInv == ASSUME IInv, NEW w \in Workers, Settle(w) PROVE IInv'
<1> DEFINE j == worker[w].id
           failed == worker[w].shards
           attempt == worker[w].attempt
<1>1. worker[w] \in Loop /\ worker[w].op = "ran" /\ j \in Ids /\ j <= inserted
  BY DEF Settle, IInv, TypeOK, Fresh
<1>2. /\ worker' \in [Workers -> Loop]
      /\ worker'[w].op = "settled" /\ worker'[w].id = j
      /\ \A v \in Workers : v # w => worker'[v] = worker[v]
  <2>1. worker' = [worker EXCEPT ![w] = [worker[w] EXCEPT !.op = "settled", !.shards = {}]]
    BY DEF Settle
  <2>2. /\ [worker[w] EXCEPT !.op = "settled", !.shards = {}] \in Loop
        /\ [worker[w] EXCEPT !.op = "settled", !.shards = {}].op = "settled"
        /\ [worker[w] EXCEPT !.op = "settled", !.shards = {}].id = j
    BY <1>1 DEF Loop
  <2> QED
    BY <2>1, <2>2 DEF IInv, TypeOK
<1>3. UNCHANGED <<enqueuing, faults, hosted, asked>>
  BY DEF Settle
<1>4. \A v \in Workers : worker'[v].id = worker[v].id /\ (Running(v)' <=> Running(v))
  BY <1>1, <1>2 DEF Running
<1>5. \A f \in jobs[j].shards : j \in Jobs => Gone(f) \/ f \in failed
  BY <1>1 DEF IInv, Answered
<1>6. CASE failed # {} /\ ~LastAttempt(attempt)
  <2>1. PICK F \in SUBSET Fragments : F = failed
    BY <1>1 DEF Loop
  <2>2. PICK a \in 0 .. GcMaxAttempts - 1 : a = attempt + 1
    BY <1>1, <1>6, JobsAssumption DEF Loop, LastAttempt
  <2>3. Insert("gc_remote", F, a, FALSE) /\ dropped' = dropped
    BY <1>6, <2>1, <2>2 DEF Settle
  <2>4. "gc_remote" \in Kinds /\ FALSE \in BOOLEAN
    BY DEF Kinds
  <2>5. /\ jobs' \in [Ids -> Row \cup {None}]
        /\ inserted' = inserted + 1 /\ inserted' \in 0 .. MaxJobs /\ inserted' \in Ids
        /\ \A k \in Ids : k # inserted' => jobs'[k] = jobs[k]
        /\ jobs'[inserted'].shards = F
        /\ inserted' \in Open'
        /\ jobs[inserted'] = None
        /\ Jobs' = Jobs \cup {inserted'}
        /\ Open' = Open \cup {inserted'}
        /\ OnlyGc'
    BY <2>3, <2>4, InsertStep
  <2>6. TypeOK'
    BY <1>2, <1>3, <2>3, <2>5 DEF IInv, TypeOK
  <2>7. \A v \in Workers : worker[v].op # "idle" =>
            /\ worker[v].id \in Ids /\ worker[v].id < inserted'
            /\ worker[v].id # inserted' /\ jobs'[worker[v].id] = jobs[worker[v].id]
    BY <2>5, JobsAssumption DEF IInv, Fresh, TypeOK, Ids
  <2>8. Fresh'
    <3>1. \A k \in Ids : k > inserted' => jobs'[k] = None
      BY <2>5, JobsAssumption DEF IInv, Fresh, TypeOK, Ids
    <3>2. \A v \in Workers : worker[v].op # "idle" => worker[v].id <= inserted'
      BY <2>5, JobsAssumption DEF IInv, Fresh, TypeOK, Ids
    <3> QED
      BY <1>1, <1>2, <2>7, <3>1, <3>2 DEF Fresh
  <2>9. \A v \in Workers : Running(v) => worker[v].op # "idle"
    BY DEF Running
  <2>10. OwnRow' /\ ClaimExclusive'
    BY <1>4, <2>5, <2>7, <2>9 DEF IInv, OwnRow, ClaimExclusive
  <2>11. \A k \in Open : k \in Ids /\ k \in Open' /\ jobs'[k] = jobs[k]
    BY <2>5 DEF Open, InState, Jobs
  <2>12. \A f, k : Retried(f, k) => Retried(f, k)'
    BY <2>11 DEF Retried
  <2>13. \A f : Gone(f)' <=> Gone(f)
    BY <1>3, <2>3 DEF Gone
  <2>14. Answered'
    <3> SUFFICES ASSUME NEW v \in Workers, worker'[v].op # "idle", worker'[v].id \in Jobs'
                 PROVE  /\ worker'[v].op = "running" => worker'[v].shards = jobs'[worker'[v].id].shards
                        /\ worker'[v].op = "ran" =>
                              \A f \in jobs'[worker'[v].id].shards \ worker'[v].shards : Gone(f)'
                        /\ worker'[v].op = "settled" =>
                              \A f \in jobs'[worker'[v].id].shards : Gone(f)' \/ Retried(f, worker[v].id)'
      BY DEF Answered
    <3>1. CASE v # w
      BY <1>2, <2>5, <2>7, <2>12, <2>13, <3>1 DEF IInv, Answered
    <3>2. CASE v = w
      <4>1. jobs'[j] = jobs[j] /\ j \in Jobs /\ j < inserted'
        BY <1>1, <1>2, <2>5, <2>7, <3>2
      <4>2. \A f \in failed : Retried(f, worker[w].id)'
        BY <1>2, <2>1, <2>5, <4>1 DEF Retried
      <4> QED
        BY <1>2, <1>5, <2>13, <3>2, <4>1, <4>2
    <3> QED
      BY <3>1, <3>2
  <2>15. Named'
    BY <1>3, <2>11, <2>13 DEF IInv, Named
  <2> QED
    BY <2>5, <2>6, <2>8, <2>10, <2>14, <2>15 DEF IInv
<1>7. CASE ~(failed # {} /\ ~LastAttempt(attempt))
  <2>1. dropped' = dropped \cup (failed \cap hosted) /\ jobs' = jobs /\ inserted' = inserted
    BY <1>7 DEF Settle
  <2>2. TypeOK'
    BY <1>1, <1>2, <1>3, <2>1 DEF IInv, TypeOK, Loop
  <2>3. Jobs' = Jobs /\ Open' = Open
    BY <2>1 DEF Jobs, Open, InState
  <2>4. Fresh'
    BY <1>1, <1>2, <2>1 DEF IInv, Fresh
  <2>5. OwnRow' /\ ClaimExclusive' /\ OnlyGc'
    BY <1>4, <2>1, <2>3 DEF IInv, OwnRow, ClaimExclusive, OnlyGc
  <2>6. \A f : (Gone(f) \/ f \in failed) => Gone(f)'
    BY <1>3, <2>1 DEF Gone
  <2>7. \A f, k : Retried(f, k)' <=> Retried(f, k)
    BY <2>1, <2>3 DEF Retried
  <2>8. Answered'
    BY <1>2, <1>5, <2>1, <2>3, <2>6, <2>7 DEF IInv, Answered
  <2>9. Named'
    BY <1>3, <2>1, <2>3, <2>6 DEF IInv, Named
  <2> QED
    BY <2>2, <2>4, <2>5, <2>8, <2>9 DEF IInv
<1> QED
  BY <1>6, <1>7

(* Every step of the queue preserves the invariant. *)
LEMMA StepIInv == IInv /\ [Next]_vars => IInv'
<1> SUFFICES ASSUME IInv, [Next]_vars PROVE IInv'
  OBVIOUS
<1>1. CASE UNCHANGED vars
  BY <1>1 DEF vars, IInv, TypeOK, Fresh, OwnRow, ClaimExclusive, OnlyGc, Answered, Named, Running,
     Jobs, Open, InState, Gone, Retried
<1>2. CASE \E c \in Callers, k \in CoalescedKinds : EnqueueCheck(c, k)
  BY <1>2, EnqueueCheckIInv
<1>3. CASE \/ \E c \in Callers : EnqueueInsert(c)
           \/ \E k \in PlainKinds : EnqueuePlain(k)
           \/ \E S \in SUBSET Fragments : EnqueueGc(S)
  BY <1>3, EnqueueIInv
<1>4. CASE \E w \in Workers :
              \/ ClaimPick(w) \/ ClaimTake(w) \/ Run(w) \/ Settle(w) \/ Finish(w)
              \/ Fault(w) \/ Requeue(w) \/ PurgeOld(w)
  BY <1>4, ClaimPickIInv, ClaimTakeIInv, RunIInv, SettleIInv, FinishIInv, FaultIInv, RequeueIInv,
     PurgeOldIInv
<1>5. CASE \E j \in Ids : Due(j)
  BY <1>5, DueIInv
<1>6. CASE Tick
  BY <1>6, TickIInv
<1> QED
  BY <1>1, <1>2, <1>3, <1>4, <1>5, <1>6 DEF Next

(* The inductive invariant of the queue: claims, retries, crashes, the stale *)
(* sweep and the purge all preserve it.                                      *)
THEOREM QueueInvariance == Spec => []IInv
  BY InitIInv, StepIInv, PTL DEF Spec

(* Two workers never run the same row, unless it is older than the stale *)
(* window (claim, requeue_stale_jobs).                                   *)
THEOREM ClaimsExclusive == Spec => []ClaimExclusive
  <1>1. IInv => ClaimExclusive
    BY DEF IInv
  <1> QED
    BY QueueInvariance, <1>1, PTL

(* The invariant gives the state part of GcNeverForgets. *)
LEMMA InvPursued == IInv => Pursued
<1> SUFFICES ASSUME IInv, NEW f \in (asked \cap hosted) \ dropped
             PROVE  \E j \in Open \cap OfKind("gc_remote") : f \in jobs[j].shards
  BY DEF Pursued
<1>1. PICK j \in Open : f \in jobs[j].shards
  BY DEF IInv, Named, Gone
<1>2. j \in Jobs
  BY DEF Open, InState
<1> QED
  BY <1>1, <1>2 DEF IInv, OnlyGc, OfKind

(* Every fragment that gc_remote was asked to delete is deleted, named by an  *)
(* open row, or given up on, and a fragment of a known peer only at the last  *)
(* attempt (run_gc_remote).                                                   *)
THEOREM GcForgetsNothing == Spec => GcNeverForgets
<1>1. IInv /\ IInv' /\ [Next]_vars => [Pursued' /\ GivesUpLate]_vars
  <2> SUFFICES ASSUME IInv, IInv', Next PROVE Pursued' /\ GivesUpLate
    OBVIOUS
  <2>1. Pursued'
    BY InvPursued, PTL
  <2>2. GivesUpLate
    <3> SUFFICES ASSUME NEW w \in Workers, worker[w].op = "ran", worker'[w].op = "settled",
                        dropped' # dropped
                 PROVE  worker[w].attempt = GcMaxAttempts - 1
      BY DEF GivesUpLate
    <3>1. worker[w] \in Loop
      BY DEF IInv, TypeOK
    <3>2. Settle(w)
      <4>1. PICK v \in Workers : Run(v) \/ Settle(v)
        BY DEF Next, EnqueueCheck, EnqueueInsert, EnqueuePlain, EnqueueGc, ClaimPick, ClaimTake,
           Finish, Fault, Requeue, PurgeOld, Due, Tick
      <4>2. v # w => worker'[w] = worker[w]
        BY <4>1 DEF Run, Settle, IInv, TypeOK
      <4>3. v = w
        BY <4>2
      <4> QED
        BY <4>1, <4>3 DEF Run
    <3>3. LastAttempt(worker[w].attempt)
      BY <3>2 DEF Settle
    <3> QED
      BY <3>1, <3>3, JobsAssumption DEF LastAttempt, Loop
  <2> QED
    BY <2>1, <2>2
<1> QED
  BY QueueInvariance, <1>1, PTL DEF Spec, GcNeverForgets
-----------------------------------------------------------------------------
(* Coalescing *)

Held(j) == \E w \in Workers : Running(w) /\ worker[w].id = j
Unheld(k) == {j \in OfKind(k) \cap Open : ~Held(j)}
Abandoned(k) == {j \in Unheld(k) : jobs[j].state = "running"}
Admitted(k) == {c \in Callers : enqueuing[c] = k}

(* A row that is `running` in no worker's hands was left by a fault.  A caller *)
(* past the NOT EXISTS guard takes the place of the row it will insert.        *)
CoalescedAt(k) ==
    /\ Cardinality(Abandoned(k)) <= faults
    /\ Cardinality(Unheld(k)) + Cardinality(Admitted(k)) <= Cardinality(Callers) + faults

Coalesced == \A k \in CoalescedKinds : CoalescedAt(k)

(* The sets that are counted are finite, in any state of the table. *)
LEMMA CountedFinite ==
    ASSUME NEW k
    PROVE  /\ IsFiniteSet(Unheld(k)) /\ IsFiniteSet(Abandoned(k)) /\ IsFiniteSet(Admitted(k))
           /\ Cardinality(Unheld(k)) \in Nat /\ Cardinality(Abandoned(k)) \in Nat
           /\ Cardinality(Admitted(k)) \in Nat /\ Cardinality(Callers) \in Nat
<1>1. IsFiniteSet(Ids)  BY FS_Interval, JobsAssumption DEF Ids
<1>2. Unheld(k) \subseteq Ids /\ Abandoned(k) \subseteq Ids
  BY DEF Unheld, Abandoned, OfKind, Jobs
<1>3. IsFiniteSet(Unheld(k)) /\ IsFiniteSet(Abandoned(k))  BY <1>1, <1>2, FS_Subset
<1>4. IsFiniteSet(Admitted(k))  BY FS_Subset, JobsAssumption DEF Admitted
<1> QED  BY <1>3, <1>4, FS_CardinalityType, JobsAssumption

(* The same in the next state. *)
LEMMA CountedFiniteNext ==
    ASSUME NEW k
    PROVE  /\ IsFiniteSet(Unheld(k)') /\ IsFiniteSet(Abandoned(k)') /\ IsFiniteSet(Admitted(k)')
           /\ Cardinality(Unheld(k)') \in Nat /\ Cardinality(Abandoned(k)') \in Nat
           /\ Cardinality(Admitted(k)') \in Nat
<1>1. IsFiniteSet(Ids)  BY FS_Interval, JobsAssumption DEF Ids
<1>2. Unheld(k)' \subseteq Ids /\ Abandoned(k)' \subseteq Ids
  BY DEF Unheld, Abandoned, OfKind, Jobs
<1>3. IsFiniteSet(Unheld(k)') /\ IsFiniteSet(Abandoned(k)')  BY <1>1, <1>2, FS_Subset
<1>4. IsFiniteSet(Admitted(k)')  BY FS_Subset, JobsAssumption DEF Admitted
<1> QED  BY <1>3, <1>4, FS_CardinalityType

(* A step that adds nothing to what is counted. *)
LEMMA ShrinkStep ==
    ASSUME NEW k, CoalescedAt(k), faults \in Nat, faults' = faults,
           Unheld(k)' \subseteq Unheld(k), Abandoned(k)' \subseteq Abandoned(k),
           Admitted(k)' \subseteq Admitted(k)
    PROVE  CoalescedAt(k)'
<1>1. /\ Cardinality(Unheld(k)') <= Cardinality(Unheld(k))
      /\ Cardinality(Abandoned(k)') <= Cardinality(Abandoned(k))
      /\ Cardinality(Admitted(k)') <= Cardinality(Admitted(k))
  BY FS_Subset, CountedFinite
<1> QED  BY <1>1, CountedFinite, CountedFiniteNext DEF CoalescedAt

(* One more element. *)
LEMMA OneMore ==
    ASSUME NEW S, IsFiniteSet(S), NEW j
    PROVE  /\ IsFiniteSet(S \cup {j}) /\ Cardinality(S \cup {j}) \in Nat
           /\ Cardinality(S \cup {j}) <= Cardinality(S) + 1
<1>1. Cardinality(S) \in Nat  BY FS_CardinalityType
<1>2. CASE j \in S
  <2>1. S \cup {j} = S  BY <1>2
  <2> QED  BY <1>1, <2>1
<1>3. CASE j \notin S
  <2>1. IsFiniteSet(S \cup {j}) /\ Cardinality(S \cup {j}) = Cardinality(S) + 1
    BY <1>3, FS_AddElement
  <2> QED  BY <1>1, <2>1
<1> QED  BY <1>2, <1>3

(* A fault leaves at most the row its worker had. *)
LEMMA LeaveStep ==
    ASSUME NEW k, NEW j, CoalescedAt(k), faults \in Nat, faults' = faults + 1,
           Unheld(k)' \subseteq Unheld(k) \cup {j},
           Abandoned(k)' \subseteq Abandoned(k) \cup {j},
           Admitted(k)' = Admitted(k)
    PROVE  CoalescedAt(k)'
<1>1. /\ IsFiniteSet(Unheld(k) \cup {j})
      /\ Cardinality(Unheld(k) \cup {j}) <= Cardinality(Unheld(k)) + 1
  BY OneMore, CountedFinite
<1>2. /\ IsFiniteSet(Abandoned(k) \cup {j})
      /\ Cardinality(Abandoned(k) \cup {j}) <= Cardinality(Abandoned(k)) + 1
  BY OneMore, CountedFinite
<1>3. /\ Cardinality(Unheld(k)') <= Cardinality(Unheld(k) \cup {j})
      /\ Cardinality(Abandoned(k)') <= Cardinality(Abandoned(k) \cup {j})
  BY FS_Subset, <1>1, <1>2
<1>4. /\ Cardinality(Unheld(k) \cup {j}) \in Nat
      /\ Cardinality(Abandoned(k) \cup {j}) \in Nat
  BY OneMore, CountedFinite
<1> QED  BY <1>1, <1>2, <1>3, <1>4, CountedFinite, CountedFiniteNext DEF CoalescedAt

(* An insert turns the caller's place into a row. *)
LEMMA PlaceStep ==
    ASSUME NEW k, NEW j, NEW c \in Admitted(k), CoalescedAt(k), faults \in Nat, faults' = faults,
           Unheld(k)' \subseteq Unheld(k) \cup {j},
           Abandoned(k)' \subseteq Abandoned(k),
           Admitted(k)' = Admitted(k) \ {c}
    PROVE  CoalescedAt(k)'
<1>1. /\ IsFiniteSet(Unheld(k) \cup {j})
      /\ Cardinality(Unheld(k) \cup {j}) <= Cardinality(Unheld(k)) + 1
  BY OneMore, CountedFinite
<1>2. Cardinality(Unheld(k)') <= Cardinality(Unheld(k) \cup {j})  BY FS_Subset, <1>1
<1>3. Cardinality(Abandoned(k)') <= Cardinality(Abandoned(k))  BY FS_Subset, CountedFinite
<1>4. Cardinality(Admitted(k)') = Cardinality(Admitted(k)) - 1
  BY FS_RemoveElement, CountedFinite
<1>5. Cardinality(Unheld(k) \cup {j}) \in Nat  BY OneMore, CountedFinite
<1> QED
  BY <1>1, <1>2, <1>3, <1>4, <1>5, CountedFinite, CountedFiniteNext DEF CoalescedAt

(* The guard: with nothing waiting, what has no worker was left by faults, and *)
(* the callers past the guard are callers.                                     *)
LEMMA AdmitStep ==
    ASSUME NEW k, CoalescedAt(k), faults \in Nat, faults' = faults,
           OfKind(k) \cap InState("pending") = {},
           Unheld(k)' = Unheld(k), Abandoned(k)' = Abandoned(k)
    PROVE  CoalescedAt(k)'
<1>1. Unheld(k) = Abandoned(k)  BY DEF Unheld, Abandoned, Open, InState
<1>2. Cardinality(Admitted(k)') <= Cardinality(Callers)
  BY FS_Subset, JobsAssumption DEF Admitted
<1> QED  BY <1>1, <1>2, CountedFinite, CountedFiniteNext DEF CoalescedAt
(* A row that a worker runs is in its hands until it settles it. *)
LEMMA HeldKept ==
    ASSUME \A w \in Workers : Running(w) => Running(w)' /\ worker'[w].id = worker[w].id
    PROVE  \A j : Held(j) => Held(j)'
  BY DEF Held

(* A row is added to the table by an insert of another kind, if at all. *)
Tabled(k) ==
    \A j \in Ids :
        jobs'[j] # None /\ jobs'[j].kind = k =>
            /\ jobs[j] # None /\ jobs[j].kind = k
            /\ jobs'[j].state # jobs[j].state /\ ~Held(j)' =>
                  jobs'[j].state = "done" \/ (jobs[j].state = "running" /\ jobs'[j].state = "pending")

(* What a step that keeps a row with its worker does to what is counted. *)
LEMMA KeepStep ==
    ASSUME IInv, NEW k, CoalescedAt(k), faults' = faults, enqueuing' = enqueuing,
           Tabled(k), \A j : Held(j) => Held(j)'
    PROVE  CoalescedAt(k)'
<1>1. Unheld(k)' \subseteq Unheld(k)
  BY DEF Unheld, OfKind, Open, InState, Jobs, Tabled
<1>2. Abandoned(k)' \subseteq Abandoned(k)
  BY <1>1 DEF Abandoned, Unheld, OfKind, Open, InState, Jobs, Tabled
<1>3. Admitted(k)' = Admitted(k)  BY DEF Admitted
<1>4. faults \in Nat  BY JobsAssumption DEF IInv, TypeOK
<1> QED  BY <1>1, <1>2, <1>3, <1>4, ShrinkStep

(* enqueue of a kind that is not coalesced, and the retry of gc_remote. *)
LEMMA OtherInsert ==
    ASSUME IInv, NEW k \in CoalescedKinds, NEW kind, kind # k, NEW shards, NEW attempt, NEW due,
           Insert(kind, shards, attempt, due)
    PROVE  Tabled(k)
<1>1. inserted + 1 \in Ids /\ jobs \in [Ids -> Row \cup {None}]
  BY JobsAssumption DEF IInv, TypeOK, Ids, Insert
<1>2. jobs'[inserted + 1].kind = kind /\ \A j \in Ids \ {inserted + 1} : jobs'[j] = jobs[j]
  BY <1>1 DEF Insert
<1> QED  BY <1>2 DEF Tabled

(* The kinds that are not coalesced. *)
LEMMA KindsApart ==
    ASSUME NEW k \in CoalescedKinds
    PROVE  k # "gc_remote" /\ k \notin PlainKinds /\ k # None
  BY JobsAssumption, NoneAssumption

(* The guard of a caller concerns one kind; for the others nothing changes. *)
LEMMA EnqueueCheckBound ==
    ASSUME IInv, Coalesced, NEW c \in Callers, NEW kind \in CoalescedKinds, EnqueueCheck(c, kind)
    PROVE  Coalesced'
<1> SUFFICES ASSUME NEW k \in CoalescedKinds PROVE CoalescedAt(k)'  BY DEF Coalesced
<1>1. CoalescedAt(k) /\ faults \in Nat /\ faults' = faults
  BY JobsAssumption DEF Coalesced, IInv, TypeOK, EnqueueCheck
<1>2. Unheld(k)' = Unheld(k) /\ Abandoned(k)' = Abandoned(k)
  BY DEF EnqueueCheck, Unheld, Abandoned, OfKind, Open, InState, Jobs, Held, Running
<1>3. CASE k = kind  BY <1>1, <1>2, <1>3, AdmitStep DEF EnqueueCheck
<1>4. CASE k # kind
  <2>1. enqueuing \in [Callers -> CoalescedKinds \cup {None}]  BY DEF IInv, TypeOK
  <2>2. Admitted(k)' \subseteq Admitted(k)  BY <1>4, <2>1 DEF EnqueueCheck, Admitted
  <2> QED  BY <1>1, <1>2, <2>2, ShrinkStep
<1> QED  BY <1>3, <1>4

(* The insert of a coalesced kind. *)
LEMMA EnqueueInsertBound ==
    ASSUME IInv, Coalesced, NEW c \in Callers, EnqueueInsert(c)
    PROVE  Coalesced'
<1> SUFFICES ASSUME NEW k \in CoalescedKinds PROVE CoalescedAt(k)'  BY DEF Coalesced
<1> DEFINE j == inserted + 1
<1>a. CoalescedAt(k)  BY DEF Coalesced
<1>b. faults \in Nat  BY JobsAssumption DEF IInv, TypeOK
<1>c. faults' = faults  BY DEF EnqueueInsert
<1>1. CoalescedAt(k) /\ faults \in Nat /\ faults' = faults  BY <1>a, <1>b, <1>c
<1>2. j \in Ids /\ jobs \in [Ids -> Row \cup {None}]
      /\ enqueuing \in [Callers -> CoalescedKinds \cup {None}]
  BY JobsAssumption DEF IInv, TypeOK, Ids, EnqueueInsert, Insert
<1>3. /\ jobs'[j].kind = enqueuing[c] /\ jobs'[j].state = "pending"
      /\ \A i \in Ids \ {j} : jobs'[i] = jobs[i]
  BY <1>2 DEF EnqueueInsert, Insert
<1>4. \A i : Held(i)' <=> Held(i)  BY DEF EnqueueInsert, Held, Running
<1>5. enqueuing' = [enqueuing EXCEPT ![c] = None]  BY DEF EnqueueInsert
<1> HIDE DEF j
<1>6. CASE k = enqueuing[c]
  <2>1. Unheld(k)' \subseteq Unheld(k) \cup {j}
    BY <1>3, <1>4 DEF Unheld, OfKind, Open, InState, Jobs
  <2>2. Abandoned(k)' \subseteq Abandoned(k)
    BY <1>3, <1>4 DEF Abandoned, Unheld, OfKind, Open, InState, Jobs
  <2>3. c \in Admitted(k) /\ Admitted(k)' = Admitted(k) \ {c}
    BY <1>2, <1>5, <1>6, KindsApart DEF Admitted
  <2> QED  BY <1>1, <2>1, <2>2, <2>3, PlaceStep
<1>7. CASE k # enqueuing[c]
  <2>1. Unheld(k)' \subseteq Unheld(k)
    BY <1>3, <1>4, <1>7 DEF Unheld, OfKind, Open, InState, Jobs
  <2>2. Abandoned(k)' \subseteq Abandoned(k)
    BY <1>3, <1>4, <1>7 DEF Abandoned, Unheld, OfKind, Open, InState, Jobs
  <2>3. Admitted(k)' \subseteq Admitted(k)
    BY <1>2, <1>5, <1>7, KindsApart DEF Admitted
  <2> QED  BY <1>1, <2>1, <2>2, <2>3, ShrinkStep
<1> QED  BY <1>6, <1>7

(* A worker that dies leaves its row. *)
LEMMA FaultBound ==
    ASSUME IInv, Coalesced, NEW w \in Workers, Fault(w)
    PROVE  Coalesced'
<1> SUFFICES ASSUME NEW k \in CoalescedKinds PROVE CoalescedAt(k)'  BY DEF Coalesced
<1>1. CoalescedAt(k) /\ faults \in Nat /\ faults' = faults + 1
  BY JobsAssumption DEF Coalesced, IInv, TypeOK, Fault
<1>2. \A i : i # worker[w].id /\ Held(i) => Held(i)'
  BY DEF Fault, Held, Running, IInv, TypeOK
<1>3. Unheld(k)' \subseteq Unheld(k) \cup {worker[w].id}
  BY <1>2 DEF Fault, Unheld, OfKind, Open, InState, Jobs
<1>4. Abandoned(k)' \subseteq Abandoned(k) \cup {worker[w].id}
  BY <1>3 DEF Fault, Abandoned
<1>5. Admitted(k)' = Admitted(k)  BY DEF Fault, Admitted
<1> QED  BY <1>1, <1>3, <1>4, <1>5, LeaveStep

(* The rows and hands of the steps that keep a row with its worker. *)
LEMMA EnqueueBound ==
    ASSUME IInv, Coalesced,
           \/ \E kind \in PlainKinds : EnqueuePlain(kind)
           \/ \E S \in SUBSET Fragments : EnqueueGc(S)
    PROVE  Coalesced'
<1> SUFFICES ASSUME NEW k \in CoalescedKinds PROVE CoalescedAt(k)'  BY DEF Coalesced
<1>1. CoalescedAt(k)  BY DEF Coalesced
<1>2. UNCHANGED <<enqueuing, worker, faults>>  BY DEF EnqueuePlain, EnqueueGc
<1>3. \A j : Held(j) => Held(j)'  BY <1>2 DEF Held, Running
<1>4. Tabled(k)  BY OtherInsert, KindsApart DEF EnqueuePlain, EnqueueGc
<1> QED  BY <1>1, <1>2, <1>3, <1>4, KeepStep

(* The claim: a row that becomes `running` is in its worker's hands. *)
LEMMA ClaimBound ==
    ASSUME IInv, Coalesced, NEW w \in Workers, ClaimPick(w) \/ ClaimTake(w)
    PROVE  Coalesced'
<1> SUFFICES ASSUME NEW k \in CoalescedKinds PROVE CoalescedAt(k)'  BY DEF Coalesced
<1>1. CoalescedAt(k)  BY DEF Coalesced
<1>2. UNCHANGED <<enqueuing, faults>>  BY DEF ClaimPick, ClaimTake
<1>3. worker \in [Workers -> Loop] /\ jobs \in [Ids -> Row \cup {None}]  BY DEF IInv, TypeOK
<1>4. ~Running(w) /\ \A v \in Workers \ {w} : worker'[v] = worker[v]
  BY <1>3 DEF ClaimPick, ClaimTake, Running
<1>5. \A v \in Workers : Running(v) => Running(v)' /\ worker'[v].id = worker[v].id
  BY <1>4 DEF Running
<1>6. \A j : Held(j) => Held(j)'  BY <1>5, HeldKept
<1>7. CASE jobs' = jobs
  BY <1>1, <1>2, <1>6, <1>7, KeepStep DEF Tabled
<1>8. CASE jobs' # jobs
  <2>1. PICK j \in Ids : /\ j = worker[w].id
                         /\ j \in InState("pending")
                         /\ jobs' = [jobs EXCEPT ![j].state = "running"]
                         /\ worker' = [worker EXCEPT ![w] = InHand(j)]
    BY <1>8 DEF ClaimPick, ClaimTake, InState, Jobs
  <2>2. jobs[j] \in Row  BY <1>3, <2>1 DEF InState, Jobs
  <2>3. Held(j)'  BY <1>3, <2>1 DEF Held, Running, InHand
  <2>4. jobs'[j].kind = jobs[j].kind /\ jobs[j] # None
    BY <1>3, <2>1, <2>2 DEF Row, InState, Jobs
  <2>5. \A i \in Ids \ {j} : jobs'[i] = jobs[i]  BY <1>3, <2>1
  <2>6. Tabled(k)  BY <2>3, <2>4, <2>5 DEF Tabled
  <2> QED  BY <1>1, <1>2, <1>6, <2>6, KeepStep
<1> QED  BY <1>7, <1>8

(* The pass, and the retry it queues. *)
LEMMA PassBound ==
    ASSUME IInv, Coalesced, NEW w \in Workers, Run(w) \/ Settle(w)
    PROVE  Coalesced'
<1> SUFFICES ASSUME NEW k \in CoalescedKinds PROVE CoalescedAt(k)'  BY DEF Coalesced
<1>1. CoalescedAt(k)  BY DEF Coalesced
<1>2. UNCHANGED <<enqueuing, faults>>  BY DEF Run, Settle
<1>3. worker \in [Workers -> Loop]  BY DEF IInv, TypeOK
<1>4. \A v \in Workers : Running(v) => Running(v)' /\ worker'[v].id = worker[v].id
  <2>1. /\ worker'[w].op \in {"ran", "settled"} /\ worker'[w].id = worker[w].id
        /\ \A v \in Workers \ {w} : worker'[v] = worker[v]
    <3>1. CASE Run(w)  BY <1>3, <3>1 DEF Run, Loop
    <3>2. CASE Settle(w)  BY <1>3, <3>2 DEF Settle, Loop
    <3> QED  BY <3>1, <3>2
  <2> QED  BY <2>1 DEF Running
<1>5. \A j : Held(j) => Held(j)'  BY <1>4, HeldKept
<1>6. CASE jobs' = jobs  BY <1>1, <1>2, <1>5, <1>6, KeepStep DEF Tabled
<1>7. CASE jobs' # jobs
  <2>1. Insert("gc_remote", worker[w].shards, worker[w].attempt + 1, FALSE)
    BY <1>7 DEF Run, Settle
  <2>2. Tabled(k)  BY <2>1, OtherInsert, KindsApart
  <2> QED  BY <1>1, <1>2, <1>5, <2>2, KeepStep
<1> QED  BY <1>6, <1>7

(* finish: the row leaves the queue as it leaves the worker's hands. *)
LEMMA FinishBound ==
    ASSUME IInv, Coalesced, NEW w \in Workers, Finish(w)
    PROVE  Coalesced'
<1> SUFFICES ASSUME NEW k \in CoalescedKinds PROVE CoalescedAt(k)'  BY DEF Coalesced
<1> DEFINE j == worker[w].id
<1>1. CoalescedAt(k) /\ faults' = faults /\ UNCHANGED enqueuing  BY DEF Coalesced, Finish
<1>2. faults \in Nat  BY JobsAssumption DEF IInv, TypeOK
<1>3. worker \in [Workers -> Loop] /\ jobs \in [Ids -> Row \cup {None}]  BY DEF IInv, TypeOK
<1>4. \A i : i # j /\ Held(i) => Held(i)'  BY <1>3 DEF Finish, Held, Running
<1>5. /\ j \notin Open'
      /\ \A i \in Ids \ {j} : jobs'[i] = jobs[i]
  <2>1. CASE j \in Jobs
    BY <1>3, <2>1 DEF Finish, Open, InState, Jobs, Row
  <2>2. CASE j \notin Jobs
    BY <1>3, <2>2 DEF Finish, Open, InState, Jobs
  <2> QED  BY <2>1, <2>2
<1> HIDE DEF j
<1>6. Unheld(k)' \subseteq Unheld(k)
  BY <1>4, <1>5 DEF Unheld, OfKind, Open, InState, Jobs
<1>7. Abandoned(k)' \subseteq Abandoned(k)
  BY <1>4, <1>5, <1>6 DEF Abandoned, Unheld, OfKind, Open, InState, Jobs
<1>8. Admitted(k)' = Admitted(k)  BY <1>1 DEF Admitted
<1> QED  BY <1>1, <1>2, <1>6, <1>7, <1>8, ShrinkStep

(* Housekeeping and time: no row is added, and no loop moves. *)
LEMMA HousekeepingBound ==
    ASSUME IInv, Coalesced,
           \/ \E w \in Workers : Requeue(w) \/ PurgeOld(w)
           \/ \E d \in Ids : Due(d)
           \/ Tick
    PROVE  Coalesced'
<1> SUFFICES ASSUME NEW k \in CoalescedKinds PROVE CoalescedAt(k)'  BY DEF Coalesced
<1>1. CoalescedAt(k)  BY DEF Coalesced
<1>2. UNCHANGED <<enqueuing, worker, faults>>  BY DEF Requeue, PurgeOld, Due, Tick
<1>3. \A j : Held(j) => Held(j)'  BY <1>2 DEF Held, Running
<1>4. jobs \in [Ids -> Row \cup {None}]  BY DEF IInv, TypeOK
<1>5. Tabled(k)
  <2>1. ASSUME NEW w \in Workers, Requeue(w) PROVE Tabled(k)
    BY <1>4, <2>1 DEF Requeue, Stale, InState, Jobs, Tabled, Row
  <2>2. ASSUME NEW w \in Workers, PurgeOld(w) PROVE Tabled(k)
    BY <2>2 DEF PurgeOld, Tabled
  <2>3. ASSUME NEW d \in Ids, Due(d) PROVE Tabled(k)
    BY <1>4, <2>3 DEF Due, InState, Jobs, Tabled, Row
  <2>4. ASSUME Tick PROVE Tabled(k)
    BY <1>4, <2>4 DEF Tick, Jobs, Tabled, Row
  <2> QED  BY <2>1, <2>2, <2>3, <2>4
<1> QED  BY <1>1, <1>2, <1>3, <1>5, KeepStep

(* Every step keeps the count. *)
LEMMA StepCoalesced == IInv /\ Coalesced /\ [Next]_vars => Coalesced'
<1> SUFFICES ASSUME IInv, Coalesced, [Next]_vars PROVE Coalesced'  OBVIOUS
<1>1. CASE UNCHANGED vars
  <2>1. \A k : Unheld(k)' = Unheld(k) /\ Abandoned(k)' = Abandoned(k) /\ Admitted(k)' = Admitted(k)
    BY <1>1 DEF vars, Unheld, Abandoned, Admitted, OfKind, Open, InState, Jobs, Held, Running
  <2> QED  BY <1>1, <2>1 DEF vars, Coalesced, CoalescedAt
<1>2. CASE Next
  BY <1>2, EnqueueCheckBound, EnqueueInsertBound, EnqueueBound, ClaimBound, PassBound,
     FinishBound, FaultBound, HousekeepingBound DEF Next
<1> QED  BY <1>1, <1>2

(* No row and no caller to start with. *)
LEMMA InitCoalesced == Init => Coalesced
<1> SUFFICES ASSUME Init, NEW k \in CoalescedKinds PROVE CoalescedAt(k)  BY DEF Coalesced
<1>1. Unheld(k) = {} /\ Abandoned(k) = {}  BY DEF Init, Unheld, Abandoned, OfKind, Jobs
<1>2. Admitted(k) = {}  BY KindsApart DEF Init, Admitted
<1> QED  BY <1>1, <1>2, FS_EmptySet, CountedFinite DEF Init, CoalescedAt

(* A worker has one row in its hands, so the rows in hand are no more than *)
(* the workers that run one.                                               *)
LEMMA InvCoalescedBounded == IInv /\ Coalesced => CoalescedBounded
<1> SUFFICES ASSUME IInv, Coalesced, NEW k \in CoalescedKinds
             PROVE  Cardinality(OfKind(k) \cap Open)
                       <= Cardinality(Callers) + faults
                            + Cardinality({w \in Workers : Running(w) /\ worker[w].id \in OfKind(k)})
  BY DEF CoalescedBounded
<1> DEFINE R == {w \in Workers : Running(w) /\ worker[w].id \in OfKind(k)}
           H == {worker[w].id : w \in R}
           O == OfKind(k) \cap Open
<1>1. IsFiniteSet(R) /\ Cardinality(R) \in Nat
  BY FS_Subset, FS_CardinalityType, JobsAssumption
<1>2. IsFiniteSet(H) /\ Cardinality(H) <= Cardinality(R)
  <2> DEFINE g == [w \in R |-> worker[w].id]
  <2>1. g \in Surjection(R, H)  BY DEF Surjection
  <2> QED  BY <1>1, <2>1, FS_Surjection
<1>3. O \subseteq Unheld(k) \cup H  BY DEF Unheld, Held
<1>4. /\ IsFiniteSet(Unheld(k) \cup H)
      /\ Cardinality(Unheld(k) \cup H) <= Cardinality(Unheld(k)) + Cardinality(H)
  <2>1. /\ IsFiniteSet(Unheld(k) \cup H) /\ IsFiniteSet(Unheld(k) \cap H)
        /\ Cardinality(Unheld(k) \cup H)
             = Cardinality(Unheld(k)) + Cardinality(H) - Cardinality(Unheld(k) \cap H)
    BY <1>2, CountedFinite, FS_Union, FS_Intersection
  <2>2. /\ Cardinality(Unheld(k) \cap H) \in Nat /\ Cardinality(H) \in Nat
        /\ Cardinality(Unheld(k)) \in Nat
    BY <1>2, <2>1, CountedFinite, FS_CardinalityType
  <2> HIDE DEF H
  <2> QED  BY <2>1, <2>2
<1>5. Cardinality(O) <= Cardinality(Unheld(k) \cup H)  BY <1>3, <1>4, FS_Subset
<1>6. /\ Cardinality(O) \in Nat /\ Cardinality(H) \in Nat
      /\ Cardinality(Unheld(k) \cup H) \in Nat
  BY <1>2, <1>3, <1>4, FS_Subset, FS_CardinalityType
<1>7. faults \in Nat /\ CoalescedAt(k)  BY JobsAssumption DEF IInv, TypeOK, Coalesced
<1> HIDE DEF R, H, O
<1>8. Cardinality(O) <= Cardinality(Callers) + faults + Cardinality(R)
  BY <1>1, <1>2, <1>4, <1>5, <1>6, <1>7, CountedFinite DEF CoalescedAt
<1> QED  BY <1>8 DEF R, O

(* Coalescing bounds the open rows of a kind whose NOT EXISTS guard is not   *)
(* atomic with its insert: one per caller, one per fault, and those running. *)
THEOREM QueueBounded == Spec => []CoalescedBounded
<1>1. Spec => []Coalesced
  BY QueueInvariance, InitCoalesced, StepCoalesced, PTL DEF Spec
<1> QED  BY <1>1, QueueInvariance, InvCoalescedBounded, PTL
=============================================================================
