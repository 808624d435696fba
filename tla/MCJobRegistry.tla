---------------------------- MODULE MCJobRegistry ----------------------------
(* Jobs, killers and pids are interchangeable. *)
EXTENDS JobRegistry, TLC
Alike == {f @@ g @@ h : f \in Permutations(Job), g \in Permutations(Killer),
                        h \in Permutations(Pid)}
==============================================================================
