------------------------------- MODULE MCJobs -------------------------------
EXTENDS Jobs, TLC

JobsSymmetry ==
    Permutations(Workers) \cup Permutations(Callers) \cup Permutations(Fragments)
=============================================================================
