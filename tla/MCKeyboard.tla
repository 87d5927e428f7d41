----------------------------- MODULE MCKeyboard -----------------------------
(* An instance of ConsInput for TLC that is about the keyboard. *)
EXTENDS ConsInput

Plain(c)    == [e0 |-> FALSE, code |-> c]
Extended(c) == [e0 |-> TRUE, code |-> c]

(* Both Ctrl keys, Alt and the Delete key of the extended pad: the chord   *)
(* that resets the machine, and a modifier with two keys.                  *)
ChordKeys == {Plain(29), Extended(29), Plain(56), Extended(83)}

(* Nothing comes in from the serial line. *)
NoBytes == {}
=============================================================================
