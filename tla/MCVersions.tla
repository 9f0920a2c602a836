----------------------------- MODULE MCVersions -----------------------------
(* Two folders whose names differ only in case, one file name.             *)
EXTENDS Versions

MCPaths == {<<"D">>, <<"d">>, <<"D", "a">>, <<"d", "a">>}
MCPathOrder == {<<p, q>> \in MCPaths \X MCPaths :
                    \/ p[1] = "D" /\ q[1] = "d"
                    \/ p[1] = q[1] /\ Len(p) < Len(q)}
MCCaseVariants == {<<"D", "d">>, <<"d", "D">>}

(* One path, for the runs about one history. *)
OnePath == {<<"a">>}
=============================================================================
