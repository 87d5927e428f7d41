---------------------------- MODULE MCConsOutput ----------------------------
(* An instance of ConsOutput for TLC: the BIOS has filled the screen with a *)
(* letter.  The spaces of a tab have no attribute of their own, so that one *)
(* value of Attrs is enough for both cases.                                 *)
EXTENDS ConsOutput

BiosText == {[attr |-> 7, ch |-> 66]}
=============================================================================
