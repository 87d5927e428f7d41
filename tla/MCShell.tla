------------------------------ MODULE MCShell -------------------------------
(* An instance of Shell for TLC: lines of up to five characters on a screen *)
(* of eight, two slots in argv beside the one for the null pointer, and two *)
(* names of which one is a prefix of the other.                             *)
EXTENDS Shell

BlankScreen == {Blank}

Names == [mon_help |-> <<65>>, mon_kerninfo |-> <<65, 65>>]
=============================================================================
