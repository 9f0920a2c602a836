------------------------------- MODULE MCQuota ------------------------------
EXTENDS Quota, TLC

QuotaSymmetry ==
    Permutations(Users) \cup Permutations(Uploads) \cup Permutations(Deleters)

(* The search: uploads and administrators one at a time where they meet, and an *)
(* account is deleted while one upload runs or while an administrator acts.      *)
OneUpload == \E r \in Uploads : \A s \in Uploads \ {r} : req[s].op = "idle"
Searched ==
    /\ Apart
    /\ IF default_quota > 0
       THEN Accounts # Users => OneUpload
       ELSE OneUpload /\ (Accounts # Users => \A r \in Uploads : req[r].op = "idle")
=============================================================================
