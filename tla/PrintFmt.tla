------------------------------ MODULE PrintFmt ------------------------------
(***************************************************************************)
(* lib/printfmt.c and kern/printf.c: vprintfmt with the two functions it   *)
(* hands characters to, sprintputch of vsnprintf and putch of cprintf.     *)
(*                                                                         *)
(* A format is a sequence of characters, its NUL the position behind it.   *)
(* args are the words of the stack from the first argument on; a long long *)
(* takes two of them, the low one first, and a char* is an index of        *)
(* Strings, 0 for NULL.  Characters are strings of length one.             *)
(***************************************************************************)
EXTENDS Integers, Sequences

CONSTANTS
  Characters,  \* the characters, without NUL
  IntHalf,     \* 2^31: an int lies in -IntHalf..IntHalf-1
  Formats,     \* the formats
  Args,        \* the argument lists
  Sizes,       \* n of vsnprintf; -1 stands for cprintf, which has no buffer
  Strings,     \* what the pointers 1, 2, ... point at
  Glyphs       \* the characters an int stands for, from 0 on, for %c

Digits == <<"0", "1", "2", "3", "4", "5", "6", "7",
            "8", "9", "a", "b", "c", "d", "e", "f">>
Digit(d) == Digits[d + 1]

(* A description has no more to it than which error it describes. *)
MAXERROR == 8
error_string == [k \in 1..6 |-> <<"E", Digit(k)>>]

UInts == 2 * IntHalf

(* The stack above a call has more words than the format can ask for, and  *)
(* every pointer points at some string.  What the code prints of its own   *)
(* are characters.                                                         *)
ASSUME PrintFmtAssumption ==
  /\ IntHalf \in Nat \ {0} /\ Sizes \subseteq Nat \cup {-1}
  /\ Formats \subseteq Seq(Characters) /\ "NUL" \notin Characters
  /\ \A a \in Args : a \in Seq(0..UInts-1) /\ \A f \in Formats : Len(a) >= 2 * Len(f)
  /\ Strings \in [1..UInts-1 -> Seq(Characters)] /\ Glyphs \in [1..UInts -> Characters]
  /\ {Digit(d) : d \in 0..15} \cup {"%", "-", " ", "?", "E", "e", "r", "o", "x",
                                   "(", "n", "u", "l", ")"} \subseteq Characters

VARIABLES
  fmt, n, args,                 \* what the caller passes
  pos, ap,                      \* vprintfmt's place in the format and in args
  padc, width, precision, lflag, altflag,
  buf, cnt,                     \* struct sprintbuf
  out,                          \* history: everything handed to putch
  field,                        \* history: the last number that was printed
  pc

given   == <<fmt, n, args>>
escape  == <<padc, width, precision, lflag, altflag>>
sink    == <<buf, cnt, out>>
vars    == <<given, pos, ap, escape, sink, field, pc>>

ch == IF pos <= Len(fmt) THEN fmt[pos] ELSE "NUL"

-----------------------------------------------------------------------------
(* Putting characters *)
Repeat(c, k) == [j \in 1..k |-> c]
AtMost(a, b) == IF a < b THEN a ELSE b

(* Mutant: no byte is kept for the terminator. *)
RoomAll == n - Len(buf)

Room == n - 1 - Len(buf)

(* The callbacks, for every character of s. *)
sprintputch(s) ==
  /\ cnt' = cnt + Len(s) /\ buf' = buf \o SubSeq(s, 1, AtMost(Len(s), Room))

(* putch prints, but moves its pointer instead of counting. *)
putch == UNCHANGED <<buf, cnt>>

Putch(s) ==
  /\ out' = out \o s
  /\ IF n = -1 THEN putch ELSE sprintputch(s)

(* Mutant: every level of the recursion pads for itself. *)
StillWide(w) == w

Narrower(w) == w - 1

(* printnum: the recursion ends at the first digit, where it pads.  "w"    *)
(* gets smaller with every level.                                          *)
printnum(num, base, w, c) ==
  LET print[k \in 0..num] ==
        [v \in Int |->
           Append(IF k >= base THEN print[k \div base][Narrower(v)]
                               ELSE Repeat(c, v - 1),
                  Digit(k % base))]
  IN  print[num][w]

-----------------------------------------------------------------------------
(* Taking arguments: the words they take, and their values.                *)
Signed(v, half) == IF v < half THEN v ELSE v - (2 * half)

Words   == IF lflag >= 2 THEN 2 ELSE 1
getuint == IF lflag >= 2 THEN args[ap] + (args[ap + 1] * UInts) ELSE args[ap]
getint  == Signed(getuint, IF lflag >= 2 THEN IntHalf * UInts ELSE IntHalf)
AnInt   == Signed(args[ap], IntHalf)

-----------------------------------------------------------------------------
(* vprintfmt.  "text" is its outer loop, "switch" the label reswitch.      *)
Start ==
  /\ pc = "call" /\ n # 0
  /\ pc' = "text"
  /\ UNCHANGED <<given, pos, ap, escape, sink, field>>

(* vsnprintf returns -E_INVAL. *)
Refuse ==
  /\ pc = "call" /\ n = 0
  /\ pc' = "refused"
  /\ UNCHANGED <<given, pos, ap, escape, sink, field>>

Literal ==
  /\ pc = "text" /\ ch \notin {"%", "NUL"} /\ Putch(<<ch>>)
  /\ pos' = pos + 1
  /\ UNCHANGED <<given, ap, escape, field, pc>>

Finish ==
  /\ pc = "text" /\ ch = "NUL"
  /\ pc' = "done"
  /\ UNCHANGED <<given, pos, ap, escape, sink, field>>

Escape ==
  /\ pc = "text" /\ ch = "%"
  /\ padc' = " " /\ width' = -1 /\ precision' = -1
  /\ lflag' = 0 /\ altflag' = FALSE /\ pos' = pos + 1 /\ pc' = "switch"
  /\ UNCHANGED <<given, ap, sink, field>>

At(c) == pc = "switch" /\ ch = c

(* Mutant: the pointer stays at a flag for padding. *)
PadStays(f) == IF f \in {"-", "0"} THEN pos ELSE pos + 1

PastFlag(f) == pos + 1

Flag ==
  /\ pc = "switch"
  /\ \/ ch \in {"-", "0"} /\ padc' = ch /\ UNCHANGED <<width, lflag, altflag>>
     \/ /\ ch = "."
        /\ width' = IF width < 0 THEN 0 ELSE width
        /\ UNCHANGED <<padc, lflag, altflag>>
     \/ ch = "#" /\ altflag' = TRUE /\ UNCHANGED <<padc, width, lflag>>
     \/ ch = "l" /\ lflag' = lflag + 1 /\ UNCHANGED <<padc, width, altflag>>
  /\ pos' = PastFlag(ch)
  /\ UNCHANGED <<given, ap, precision, sink, field, pc>>

process_precision(v) ==
  IF width < 0 THEN width' = v /\ precision' = -1
               ELSE precision' = v /\ UNCHANGED width

IsDigit(k) == k <= Len(fmt) /\ \E d \in 0..9 : fmt[k] = Digit(d)

(* The end of the digits that start at pos, and the number they form. *)
Numeral ==
  CHOOSE e \in pos..Len(fmt) :
    /\ \A k \in pos..e : IsDigit(k)
    /\ ~IsDigit(e + 1)

DecimalValue(from, to) ==
  LET value[k \in from-1..to] ==
        IF k < from THEN 0
        ELSE value[k - 1] * 10 + (CHOOSE d \in 0..9 : Digit(d) = fmt[k])
  IN  value[to]

Width ==
  /\ pc = "switch" /\ IsDigit(pos) /\ ch # "0"
  /\ process_precision(DecimalValue(pos, Numeral))
  /\ pos' = Numeral + 1
  /\ UNCHANGED <<given, ap, padc, lflag, altflag, sink, field, pc>>

Star ==
  /\ At("*") /\ process_precision(AnInt)
  /\ ap' = ap + 1 /\ pos' = pos + 1
  /\ UNCHANGED <<given, padc, lflag, altflag, sink, field, pc>>

(* The end of an escape: s is printed and "words" arguments are used up. *)
Convert(s, words) ==
  /\ Putch(s)
  /\ ap' = ap + words /\ pos' = pos + 1 /\ pc' = "text"
  /\ UNCHANGED <<given, escape>>

Percent == At("%") /\ Convert(<<"%">>, 0) /\ UNCHANGED field

Char == At("c") /\ Convert(<<Glyphs[args[ap] + 1]>>, 1) /\ UNCHANGED field

(* -err of the smallest int is itself, and error_string at that index is,  *)
(* by the wrapping of the address, its first entry, a null pointer.        *)
Abs == IF AnInt < 0 THEN Signed((-AnInt) % UInts, IntHalf) ELSE AnInt

(* printfmt is called for the text, with "error %d" where there is none. *)
ErrorText(e) ==
  IF e < MAXERROR /\ e \in DOMAIN error_string
    THEN error_string[e]
    ELSE <<"e", "r", "r", "o", "r", " ">>
           \o (IF e < 0 THEN <<"-">> ELSE <<>>)
           \o printnum(IF e < 0 THEN -e ELSE e, 10, -1, " ")

Error == At("e") /\ Convert(ErrorText(Abs), 1) /\ UNCHANGED field

(* strnlen(p, precision), where -1 is the largest size_t. *)
strnlen(p) == IF precision < 0 THEN Len(p) ELSE AtMost(Len(p), precision)

Shown(p) ==
  [k \in 1..strnlen(p) |-> IF altflag /\ p[k] = "ctl" THEN "?" ELSE p[k]]

(* Padding on the left, or else on the right. *)
Padded(p) ==
  IF width > 0 /\ padc # "-"
    THEN Repeat(padc, width - strnlen(p)) \o Shown(p)
    ELSE Shown(p) \o Repeat(" ", width - strnlen(p))

Pointee ==
  IF args[ap] = 0 THEN <<"(", "n", "u", "l", "l", ")">> ELSE Strings[args[ap]]

String == At("s") /\ Convert(Padded(Pointee), 1) /\ UNCHANGED field

(* The label "number"; "before" is a sign or the 0x of a pointer. *)
number(num, base, before, words) ==
  LET text == printnum(num, base, width, padc)
  IN  /\ Convert(before \o text, words)
      /\ field' = [conv |-> ch, num |-> num, base |-> base, width |-> width,
                   padc |-> padc, text |-> text]

Decimal ==
  /\ At("d")
  /\ IF getint < 0 THEN number((-getint) % (UInts * UInts), 10, <<"-">>, Words)
                   ELSE number(getint, 10, <<>>, Words)

Unsigned ==
  \/ At("u") /\ number(getuint, 10, <<>>, Words)
  \/ At("o") /\ number(getuint, 8, <<>>, Words)
  \/ At("x") /\ number(getuint, 16, <<>>, Words)

Pointer == At("p") /\ number(args[ap], 16, <<"0", "x">>, 1)

Known == {"-", "*", ".", "#", "l", "c", "e", "s", "d", "u", "o", "p", "x", "%"}

(* Mutant: the flags that were read are lost. *)
NotBack == pos

(* Back to what follows the last '%'. *)
BackToPercent ==
  1 + CHOOSE k \in 1..pos-1 :
        fmt[k] = "%" /\ \A j \in k+1..pos-1 : fmt[j] # "%"

(* An unrecognised escape is printed as it stands. *)
Unknown ==
  /\ pc = "switch" /\ ch \notin Known /\ ~IsDigit(pos) /\ Putch(<<"%">>)
  /\ pos' = BackToPercent /\ pc' = "text"
  /\ UNCHANGED <<given, ap, escape, field>>

Init ==
  /\ fmt \in Formats /\ n \in Sizes /\ args \in Args /\ pos = 1 /\ ap = 1
  /\ padc = " " /\ width = -1 /\ precision = -1 /\ lflag = 0 /\ altflag = FALSE
  /\ buf = <<>> /\ cnt = 0 /\ out = <<>>
  /\ field = [conv |-> "none", num |-> 0, base |-> 0, width |-> 0,
              padc |-> " ", text |-> <<>>]
  /\ pc = "call"

vprintfmt ==
  \/ Start \/ Refuse \/ Literal \/ Finish \/ Escape
  \/ Flag \/ Width \/ Star
  \/ Percent \/ Char \/ Error \/ String \/ Decimal \/ Unsigned \/ Pointer
  \/ Unknown

Returned == pc \in {"done", "refused"}

Done == Returned /\ UNCHANGED vars

Next == vprintfmt \/ Done

Spec == Init /\ [][Next]_vars

(* The function waits for nothing. *)
FairSpec == Spec /\ WF_vars(vprintfmt)

-----------------------------------------------------------------------------
(* vsnprintf keeps as much of the output as fits in front of a terminator  *)
(* and counts all of it, whatever was cut off.                             *)
KeepsPrefix ==
  n > 0 => /\ buf = SubSeq(out, 1, AtMost(Len(out), n - 1))
           /\ cnt = Len(out)

(* fmt[i..j] is an escape that vprintfmt knows. *)
IsEscape(i, j) ==
  /\ fmt[i] = "%"
  /\ fmt[j] \in {"c", "e", "s", "d", "u", "o", "p", "x", "%"}
  /\ \A k \in i+1..j-1 : IsDigit(k) \/ fmt[k] \in {"-", "*", ".", "#", "l"}

(* A format without such an escape is printed as it stands, flags,         *)
(* percent signs and a percent sign at its end included: an unrecognised   *)
(* escape sequence is printed literally (printfmt.c:234).                  *)
UnknownIsLiteral ==
  (/\ pc = "done"
   /\ \A i, j \in 1..Len(fmt) : i < j => ~IsEscape(i, j))
    => out = fmt

(* What the last k characters of t denote as digits of that base. *)
Value(t, base, k) ==
  LET v[j \in 0..k] ==
        IF j = 0 THEN 0
        ELSE (v[j - 1] * base) + (CHOOSE d \in 0..15 : Digit(d) = t[Len(t) - k + j])
  IN  v[k]

DigitsOf(base) == {Digit(d) : d \in 0..base-1}

(* t ends in digits of that base, which denote num and do not begin with a *)
(* zero that says nothing; as many characters c as its width w still needs *)
(* stand in front of them.                                                 *)
IsNumber(t, num, base, w, c) ==
  \E k \in 1..Len(t) :
    /\ \A j \in 1..k : t[Len(t) - k + j] \in DigitsOf(base)
    /\ Value(t, base, k) = num
    /\ k > 1 => t[Len(t) - k + 1] # "0"
    /\ \A j \in 1..Len(t)-k : t[j] = c
    /\ Len(t) = IF k > w THEN k ELSE w

(* Numbers without the flag '-': printnum's recursion prints the digits of *)
(* the number, in its base, after the blanks or zeros that its width asks  *)
(* for, in the order in which the recursion unwinds and padded once.       *)
NumberShown ==
  field.conv \in {"d", "u", "o", "p", "x"} /\ field.padc # "-" =>
    IsNumber(field.text, field.num, field.base, field.width, field.padc)

(* Numbers with it, as printfmt.c:107 says, "flag to pad on the right":    *)
(* the digits come first and the blanks after them, as they do for a       *)
(* string.  The code puts minus signs on the left: we expect this to be    *)
(* violated.                                                               *)
PadsOnTheRight ==
  field.conv \in {"d", "u", "o", "p", "x"} /\ field.padc = "-" =>
    \E k \in 1..Len(field.text) :
      /\ IsNumber(SubSeq(field.text, 1, k), field.num, field.base, 0, " ")
      /\ \A j \in k+1..Len(field.text) : field.text[j] = " "
      /\ Len(field.text) = IF k > field.width THEN k ELSE field.width

(* Formatting ends, although an unrecognised escape moves fmt backwards.   *)
Ends == <>Returned
=============================================================================
