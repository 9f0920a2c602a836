-------------------------------- MODULE Jobs --------------------------------
(***************************************************************************)
(* The background job queue (server/src/jobs.rs, tickers in main.rs):      *)
(* enqueueing with coalescing, the portable claim, the requeue of jobs     *)
(* whose worker died, and the retry chain of remote garbage collection.    *)
(*                                                                         *)
(* Each SQL statement is one step.  Several module instances may share the *)
(* database, so there are several workers and several enqueuing tasks.     *)
(* What a pass other than gc_remote does is left to the other modules.     *)
(***************************************************************************)
EXTENDS Integers, FiniteSets

CONSTANTS
    Workers,        \* one worker loop per instance
    Callers,        \* tickers and handlers that enqueue
    CoalescedKinds, \* COALESCED_KINDS, of the kinds that are used
    PlainKinds,     \* the other kinds, gc_remote left out
    Fragments,      \* shards of deleted files, each on some peer
    MaxJobs,        \* bound: rows ever inserted
    MaxEnqueued,    \* bound: rows after which only retries are inserted
    MaxFaults,      \* bound: crashes and failed `finish` statements
    GcMaxAttempts,  \* GC_MAX_ATTEMPTS
    StaleHours,     \* STALE_RUNNING_HOURS
    None

ASSUME JobsAssumption ==
    /\ IsFiniteSet(Workers) /\ IsFiniteSet(Callers)
    /\ CoalescedKinds \cap (PlainKinds \cup {"gc_remote"}) = {}
    /\ MaxJobs \in Nat /\ MaxFaults \in Nat /\ MaxEnqueued \in 0 .. MaxJobs
    /\ GcMaxAttempts \in Nat \ {0}
    /\ StaleHours \in Nat

Ids == 1 .. MaxJobs
Kinds == CoalescedKinds \cup PlainKinds \cup {"gc_remote"}

(* Ages stop at the first value that is past the stale cutoff. *)
Old == StaleHours + 1
Ages == 0 .. Old
Older(age) == IF age < Old THEN age + 1 ELSE age

VARIABLES
    jobs,       \* the table: Ids -> row or None
    inserted,   \* ids handed out
    enqueuing,  \* per caller, a kind found not to be pending and not yet inserted
    worker,     \* per worker, where its loop is
    faults,     \* crashes and failed `finish` statements so far
    hosted,     \* fragments still on their peers
    asked,      \* fragments some gc_remote job was asked to delete
    dropped     \* fragments gc_remote gave up on, or whose peer is unknown

vars == <<jobs, inserted, enqueuing, worker, faults, hosted, asked, dropped>>

Row == [kind: Kinds, state: {"pending", "running", "done"}, age: Ages, due: BOOLEAN,
        shards: SUBSET Fragments, attempt: 0 .. GcMaxAttempts - 1]
(* `shards` and `attempt` are the payload the loop has in hand; after the    *)
(* DeleteShard requests, `shards` are the ones that failed.                  *)
Loop == [op: {"idle", "picked", "running", "ran", "settled"}, id: Ids \cup {None},
         shards: SUBSET Fragments, attempt: 0 .. GcMaxAttempts - 1]

(* NULL is no row and no kind. *)
ASSUME NoneAssumption == None \notin Row /\ None \notin CoalescedKinds

Idle == [op |-> "idle", id |-> None, shards |-> {}, attempt |-> 0]

Jobs == {j \in Ids : jobs[j] # None}
InState(s) == {j \in Jobs : jobs[j].state = s}
OfKind(k) == {j \in Jobs : jobs[j].kind = k}
Open == InState("pending") \cup InState("running")

Init ==
    /\ jobs = [j \in Ids |-> None]
    /\ inserted = 0
    /\ enqueuing = [c \in Callers |-> None]
    /\ worker = [w \in Workers |-> Idle]
    /\ faults = 0
    /\ hosted = Fragments
    /\ asked = {}
    /\ dropped = {}

-----------------------------------------------------------------------------
(* Enqueueing *)

Insert(kind, shards, attempt, due) ==
    /\ inserted < MaxJobs
    /\ inserted' = inserted + 1
    /\ jobs' = [jobs EXCEPT ![inserted + 1] =
                   [kind |-> kind, state |-> "pending", age |-> 0, due |-> due,
                    shards |-> shards, attempt |-> attempt]]

(* Faulty variant: the NOT EXISTS guard is left out. *)
EnqueueCheck_blind(c, kind) ==
    /\ enqueuing[c] = None
    /\ enqueuing' = [enqueuing EXCEPT ![c] = kind]
    /\ UNCHANGED <<jobs, inserted, worker, faults, hosted, asked, dropped>>

(* enqueue of a coalesced kind: WHERE NOT EXISTS (... 'pending').  "Not a hard *)
(* lock": the engines that do not serialise writers evaluate the guard before  *)
(* the insert of another caller is visible.                                    *)
EnqueueCheck(c, kind) ==
    /\ enqueuing[c] = None
    /\ OfKind(kind) \cap InState("pending") = {}
    /\ enqueuing' = [enqueuing EXCEPT ![c] = kind]
    /\ UNCHANGED <<jobs, inserted, worker, faults, hosted, asked, dropped>>

EnqueueInsert(c) ==
    /\ enqueuing[c] # None
    /\ inserted < MaxEnqueued
    /\ Insert(enqueuing[c], {}, 0, TRUE)
    /\ enqueuing' = [enqueuing EXCEPT ![c] = None]
    /\ UNCHANGED <<worker, faults, hosted, asked, dropped>>

(* enqueue of any other kind. *)
EnqueuePlain(kind) ==
    /\ inserted < MaxEnqueued
    /\ Insert(kind, {}, 0, TRUE)
    /\ UNCHANGED <<enqueuing, worker, faults, hosted, asked, dropped>>

(* enqueue_remote_gc, after a permanent delete released the shards. *)
EnqueueGc(shards) ==
    /\ shards # {}
    /\ shards \cap asked = {}
    /\ inserted < MaxEnqueued
    /\ Insert("gc_remote", shards, 0, TRUE)
    /\ asked' = asked \cup shards
    /\ UNCHANGED <<enqueuing, worker, faults, hosted, dropped>>

-----------------------------------------------------------------------------
(* The worker loop *)

Runnable == {j \in InState("pending") : jobs[j].due}

(* claim: SELECT the first runnable id ... *)
ClaimPick(w) ==
    /\ worker[w].op = "idle"
    /\ \E j \in Runnable :
          /\ \A k \in Runnable : j <= k
          /\ worker' = [worker EXCEPT ![w].op = "picked", ![w].id = j]
    /\ UNCHANGED <<jobs, inserted, enqueuing, faults, hosted, asked, dropped>>

InHand(j) == [op |-> "running", id |-> j,
              shards |-> jobs[j].shards, attempt |-> jobs[j].attempt]

(* Faulty variant: the conditional UPDATE forgets `state = 'pending'`. *)
ClaimTake_blind(w) ==
    LET j == worker[w].id
    IN  /\ worker[w].op = "picked"
        /\ j \in Jobs
        /\ jobs' = [jobs EXCEPT ![j].state = "running"]
        /\ worker' = [worker EXCEPT ![w] = InHand(j)]
        /\ UNCHANGED <<inserted, enqueuing, faults, hosted, asked, dropped>>

(* ... then UPDATE ... WHERE state = 'pending'; a lost row starts over.  The *)
(* payload is read in a third statement, but it never changes.               *)
ClaimTake(w) ==
    LET j == worker[w].id
        won == j \in InState("pending")
    IN  /\ worker[w].op = "picked"
        /\ jobs' = IF won THEN [jobs EXCEPT ![j].state = "running"] ELSE jobs
        /\ worker' = [worker EXCEPT ![w] = IF won THEN InHand(j) ELSE Idle]
        /\ UNCHANGED <<inserted, enqueuing, faults, hosted, asked, dropped>>

(* The pass itself.  run_gc_remote sends one DeleteShard per shard: some fail, *)
(* and a shard whose peer is no longer known is skipped.                       *)
Run(w) ==
    LET shards == worker[w].shards
    IN  /\ worker[w].op = "running"
        /\ \E failed \in SUBSET shards :
              \E unknown \in SUBSET (shards \ failed) :
                 /\ hosted' = hosted \ (shards \ (failed \cup unknown))
                 /\ dropped' = dropped \cup (unknown \cap hosted)
                 /\ worker' = [worker EXCEPT ![w].op = "ran", ![w].shards = failed]
        /\ UNCHANGED <<jobs, inserted, enqueuing, faults, asked>>

LastAttempt(attempt) == attempt + 1 >= GcMaxAttempts

(* Faulty variant: the row is closed before its retry is queued. *)
Settle_after_finish(w) ==
    /\ worker[w].op = "ran"
    /\ worker[w].id \in InState("running")
    /\ jobs' = [jobs EXCEPT ![worker[w].id].state = "done"]
    /\ UNCHANGED <<inserted, enqueuing, worker, faults, hosted, asked, dropped>>

(* What failed is queued again with a longer delay, or given up on. *)
Settle(w) ==
    LET failed == worker[w].shards
        attempt == worker[w].attempt
    IN  /\ worker[w].op = "ran"
        /\ IF failed # {} /\ ~LastAttempt(attempt)
           THEN Insert("gc_remote", failed, attempt + 1, FALSE) /\ UNCHANGED dropped
           ELSE dropped' = dropped \cup (failed \cap hosted) /\ UNCHANGED <<jobs, inserted>>
        /\ worker' = [worker EXCEPT ![w].op = "settled", ![w].shards = {}]
        /\ UNCHANGED <<enqueuing, faults, hosted, asked>>

(* finish: unconditional, whoever runs the row by now. *)
Finish(w) ==
    LET j == worker[w].id
    IN  /\ worker[w].op = "settled"
        /\ jobs' = IF j \in Jobs THEN [jobs EXCEPT ![j].state = "done"] ELSE jobs
        /\ worker' = [worker EXCEPT ![w] = Idle]
        /\ UNCHANGED <<inserted, enqueuing, faults, hosted, asked, dropped>>

(* The worker dies, or its `finish` statement fails: the row stays `running`. *)
Fault(w) ==
    /\ worker[w].op # "idle"
    /\ faults < MaxFaults
    /\ faults' = faults + 1
    /\ worker' = [worker EXCEPT ![w] = Idle]
    /\ UNCHANGED <<jobs, inserted, enqueuing, hosted, asked, dropped>>

-----------------------------------------------------------------------------
(* Housekeeping and time *)

(* Faulty variant: the sweep looks at the rows that are waiting already. *)
Stale_waiting == {j \in InState("pending") : jobs[j].age = Old}

Stale == {j \in InState("running") : jobs[j].age = Old}

(* requeue_stale_jobs, at start-up and every hour: by created_at, the only *)
(* time a row has.                                                         *)
Requeue(w) ==
    /\ worker[w].op = "idle"
    /\ Stale # {}
    /\ jobs' = [j \in Ids |->
                   IF j \in Stale THEN [jobs[j] EXCEPT !.state = "pending", !.due = TRUE]
                   ELSE jobs[j]]
    /\ UNCHANGED <<inserted, enqueuing, worker, faults, hosted, asked, dropped>>

(* purge_old_rows: finished rows, some day. *)
PurgeOld(w) ==
    /\ worker[w].op = "idle"
    /\ \E gone \in SUBSET {j \in InState("done") : jobs[j].age = Old} :
          /\ gone # {}
          /\ jobs' = [j \in Ids |-> IF j \in gone THEN None ELSE jobs[j]]
    /\ UNCHANGED <<inserted, enqueuing, worker, faults, hosted, asked, dropped>>

(* run_after is reached. *)
Due(j) ==
    /\ j \in InState("pending")
    /\ ~jobs[j].due
    /\ jobs' = [jobs EXCEPT ![j].due = TRUE]
    /\ UNCHANGED <<inserted, enqueuing, worker, faults, hosted, asked, dropped>>

(* An hour passes. *)
Tick ==
    /\ jobs' = [j \in Ids |->
                   IF j \in Jobs THEN [jobs[j] EXCEPT !.age = Older(@)] ELSE None]
    /\ UNCHANGED <<inserted, enqueuing, worker, faults, hosted, asked, dropped>>

Next ==
    \/ \E c \in Callers, k \in CoalescedKinds : EnqueueCheck(c, k)
    \/ \E c \in Callers : EnqueueInsert(c)
    \/ \E k \in PlainKinds : EnqueuePlain(k)
    \/ \E S \in SUBSET Fragments : EnqueueGc(S)
    \/ \E w \in Workers :
          \/ ClaimPick(w) \/ ClaimTake(w) \/ Run(w) \/ Settle(w) \/ Finish(w)
          \/ Fault(w) \/ Requeue(w) \/ PurgeOld(w)
    \/ \E j \in Ids : Due(j)
    \/ Tick

Spec == Init /\ [][Next]_vars

(* The worker loop is spawned at start-up and never returns; time passes. *)
Fairness ==
    /\ \A w \in Workers :
          /\ WF_vars(ClaimPick(w)) /\ WF_vars(ClaimTake(w)) /\ WF_vars(Run(w))
          /\ WF_vars(Settle(w)) /\ WF_vars(Finish(w)) /\ WF_vars(Requeue(w))
    /\ \A j \in Ids : WF_vars(Due(j))
    /\ WF_vars(Tick)
FairSpec == Spec /\ Fairness

-----------------------------------------------------------------------------
(* Properties *)

Running(w) == worker[w].op \in {"running", "ran", "settled"}

(* Every cell holds a value of its column. *)
TypeOK ==
    /\ jobs \in [Ids -> Row \cup {None}]
    /\ inserted \in 0 .. MaxJobs
    /\ enqueuing \in [Callers -> CoalescedKinds \cup {None}]
    /\ worker \in [Workers -> Loop]
    /\ faults \in 0 .. MaxFaults
    /\ hosted \subseteq Fragments /\ asked \subseteq Fragments /\ dropped \subseteq Fragments

(* The claim gives a row to one worker: two workers run the same row only *)
(* after the stale sweep put it back in the queue.                        *)
ClaimExclusive ==
    \A v, w \in Workers :
        (v # w /\ Running(v) /\ Running(w) /\ worker[v].id = worker[w].id)
            => jobs[worker[v].id] = None \/ jobs[worker[v].id].age = Old

(* Coalescing bounds the queue: an open job of a coalesced kind is waiting   *)
(* (one, or one per caller that raced), running, or left behind by a fault.  *)
CoalescedBounded ==
    \A k \in CoalescedKinds :
        Cardinality(OfKind(k) \cap Open)
            <= Cardinality(Callers) + faults
                 + Cardinality({w \in Workers : Running(w) /\ worker[w].id \in OfKind(k)})

Pursued ==
    \A f \in (asked \cap hosted) \ dropped :
        \E j \in Open \cap OfKind("gc_remote") : f \in jobs[j].shards

GivesUpLate ==
    \A w \in Workers :
        (worker[w].op = "ran" /\ worker'[w].op = "settled" /\ dropped' # dropped)
            => worker[w].attempt = GcMaxAttempts - 1

(* Remote shards are never forgotten: a fragment that gc_remote was asked to *)
(* delete and that its peer still has is named by an open job, or was given  *)
(* up on, which for a known peer happens only at the last of GC_MAX_ATTEMPTS *)
(* attempts.  A crash at any point of run_gc_remote keeps this true.         *)
GcNeverForgets == [][Pursued' /\ GivesUpLate]_vars

(* A crash never loses a job: every row is eventually finished, however often *)
(* its worker died.                                                           *)
EveryJobSettles == \A j \in Ids : (j \in Open) ~> (j \notin Open)
=============================================================================
