------------------------------ MODULE MCHosting -----------------------------
EXTENDS Hosting, TLC

CONSTANTS o1, f1, f2, f3

MCOwnerOf == f1 :> o1 @@ f2 :> o1 @@ f3 :> o1

(* Past the first taint the properties promise nothing, and TLC looks no further. *)
Untainted == ~tainted

HostingSymmetry == Permutations(Handlers)
=============================================================================
