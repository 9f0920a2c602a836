---------------------------- MODULE RepairQueue -----------------------------
(***************************************************************************)
(* The order of a repair pass (server/src/repair.rs): the sweep buffers    *)
(* the degraded chunks it meets in a heap of bounded size, whose top is    *)
(* the least endangered one, and the pass then repairs them in ascending   *)
(* order of margin.                                                        *)
(*                                                                         *)
(* A degraded chunk is [chunk, margin]; the heap is the set of its members.*)
(* Which of several tops a pop removes is left to the heap: Top says one.  *)
(***************************************************************************)
EXTENDS Integers, Sequences, FiniteSets, SequencesExt

CONSTANT MaxPending   \* MAX_PENDING_REPAIRS

ASSUME QueueAssumption == MaxPending \in Nat \ {0}

(* ByMargin *)
Top(heap) == CHOOSE d \in heap : \A e \in heap : e.margin <= d.margin

NoReport == [pending |-> {}, deferred |-> 0]

(* Faulty variant: a full buffer makes room for whatever comes. *)
push_pending_always(acc, d) ==
    IF Cardinality(acc.pending) < MaxPending
    THEN [acc EXCEPT !.pending = @ \cup {d}]
    ELSE [pending |-> (acc.pending \ {Top(acc.pending)}) \cup {d},
          deferred |-> acc.deferred + 1]

push_pending(acc, d) ==
    IF Cardinality(acc.pending) < MaxPending
    THEN [acc EXCEPT !.pending = @ \cup {d}]
    ELSE [pending |-> IF Top(acc.pending).margin > d.margin
                      THEN (acc.pending \ {Top(acc.pending)}) \cup {d}
                      ELSE acc.pending,
          deferred |-> acc.deferred + 1]

(* The sweep over the degraded chunks, in the order it meets them. *)
Sweep(degraded) == FoldLeft(push_pending, NoReport, degraded)

(* into_sorted_vec: the order of the repairs. *)
RepairOrder(degraded) ==
    SetToSortSeq(Sweep(degraded).pending,
                 LAMBDA d, e : d.margin < e.margin \/ (d.margin = e.margin /\ d.chunk < e.chunk))
=============================================================================
