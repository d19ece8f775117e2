---- MODULE MCConfigStore ----
(* Instances of ConfigStore for TLC: a field every reload carries and one  *)
(* (the model) that only patches reach; a file that sets both.             *)
EXTENDS ConfigStore, TLC

CONSTANTS c1, c2, token, model, v, r

FileOfBoth == [f \in {token, model} |-> IF f = token THEN r ELSE v]
Symmetry == Permutations(Conns)
====
