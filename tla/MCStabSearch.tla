---------------------------- MODULE MCStabSearch ----------------------------
(* Instances of StabSearch for TLC. *)
EXTENDS StabSearch

SmallStabs == [n_type : {"FUN", "PSYM"}, n_value : {1, 2, 4}]
=============================================================================
