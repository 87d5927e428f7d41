---------------------------- MODULE MCPrintFmt ----------------------------
(* An instance of PrintFmt for TLC: words of four bits, so that an int is   *)
(* between -8 and 7 and a long long between -128 and 127.                   *)
EXTENDS PrintFmt, SequencesExt

Flags == {"-", "0", "2", "1", "*", ".", "#", "l"}
Conversions == {"c", "e", "s", "d", "u", "o", "p", "x", "%", "z"}

(* One escape with up to two flags, or any short string of characters that *)
(* can start, continue, end and spoil an escape.                           *)
Escapes ==
  {<<"%">> \o f \o <<c>> : f \in SeqOf(Flags, 2), c \in Conversions}

Mixtures == SeqOf({"%", "-", "l", "d", "a"}, 4)

SmallFormats == Escapes \cup Mixtures

(* The first word decides what is printed; a long long takes two. *)
SmallArgs == {<<a, b, 3, 0, 0, 0, 0, 0>> : a \in {0, 2, 7, 8, 15}, b \in {1, 8}}

SmallSizes == {-1, 0, 1, 3}

SmallStrings == [k \in 1..15 |-> CASE k = 1 -> <<>>
                                   [] k = 2 -> <<"a", "ctl", "b">>
                                   [] OTHER -> <<"a">>]

SmallChars ==
  Flags \cup Conversions \cup {Digit(d) : d \in 0..15}
    \cup {" ", "?", "E", "r", "n", "(", ")", "ctl", "g"}

SmallGlyphs == [k \in 1..16 |-> "g"]
=============================================================================
