------------------------------ MODULE UserTree ------------------------------
(***************************************************************************)
(* What the manifest promises its user, without stamps, tombstones or      *)
(* lineages: a tree of visible files and a set of retained ones.  An id    *)
(* leaves the visible tree only for the retained set or by an explicit     *)
(* permanent delete of that very file; the background may forget retained  *)
(* files only.                                                             *)
(***************************************************************************)
CONSTANTS Paths, Ids, None

VARIABLES
    tree,   \* Paths -> the id visible there, or None
    kept,   \* retired ids that can still be restored
    used    \* ids ever stored

tvars == <<tree, kept, used>>

Visible == {tree[p] : p \in Paths} \ {None}

Init ==
    /\ tree = [p \in Paths |-> None]
    /\ kept = {}
    /\ used = {}

(* An upload: what was visible at p is retained. *)
Write(p, f) ==
    /\ f \notin used
    /\ used' = used \cup {f}
    /\ tree' = [tree EXCEPT ![p] = f]
    /\ kept' = kept \cup ({tree[p]} \ {None})

(* A delete: the files at the paths P are retained. *)
Remove(P) ==
    /\ tree' = [p \in Paths |-> IF p \in P THEN None ELSE tree[p]]
    /\ kept' = kept \cup ({tree[p] : p \in P} \ {None})
    /\ UNCHANGED used

(* A restore: the occupant of the target is retained. *)
Bring(f, p) ==
    /\ f \in kept
    /\ tree' = [tree EXCEPT ![p] = f]
    /\ kept' = (kept \ {f}) \cup ({tree[p]} \ {None})
    /\ UNCHANGED used

(* A rename: the same files, at other paths, none hiding another. *)
Move ==
    /\ tree' \in [Paths -> Visible \cup {None}]
    /\ {tree'[p] : p \in Paths} \ {None} = Visible
    /\ \A p, q \in Paths : p # q /\ tree'[p] = tree'[q] => tree'[p] = None
    /\ UNCHANGED <<kept, used>>

(* Retention and emptying the trash: retained files only. *)
Forget(S) ==
    /\ S \subseteq kept
    /\ kept' = kept \ S
    /\ UNCHANGED <<tree, used>>

(* "Delete permanently", which the user asks of one file. *)
Destroy(f) ==
    /\ f \in Visible \cup kept
    /\ tree' = [p \in Paths |-> IF tree[p] = f THEN None ELSE tree[p]]
    /\ kept' = kept \ {f}
    /\ UNCHANGED used

Next ==
    \/ \E p \in Paths, f \in Ids : Write(p, f)
    \/ \E P \in SUBSET Paths : Remove(P)
    \/ \E f \in Ids, p \in Paths : Bring(f, p)
    \/ Move
    \/ \E S \in SUBSET kept : Forget(S)
    \/ \E f \in Ids : Destroy(f)

Spec == Init /\ [][Next]_tvars
=============================================================================
