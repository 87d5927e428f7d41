---------------------------- MODULE MCConsInput -----------------------------
(* An instance of ConsInput for TLC: one letter key. *)
EXTENDS ConsInput

LetterKey == {[e0 |-> FALSE, code |-> 30]}
=============================================================================
