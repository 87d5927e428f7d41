-------------------------- MODULE MCConsInputLoss ---------------------------
(* An instance of ConsInputLoss for TLC: one letter key and one byte. *)
EXTENDS ConsInputLoss

LetterKey == {[e0 |-> FALSE, code |-> 30]}
=============================================================================
