---------------------------- MODULE MCPackStore -----------------------------
EXTENDS PackStore, TLC

Magic == <<1>>
AlternatingSize(f) == 1 + (f % 2)
ProcSymmetry == Permutations(Procs)
=============================================================================
