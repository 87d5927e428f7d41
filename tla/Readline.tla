------------------------------ MODULE Readline ------------------------------
(***************************************************************************)
(* lib/readline.c on top of the display: the line editor of the kernel     *)
(* monitor.  It keeps the line in buf[0..i-1] and relies on the echo to    *)
(* keep the screen in step with it; nothing redraws the line.              *)
(*                                                                         *)
(* The kernel runs one thread with interrupts off, so that an echo and the *)
(* assignment that follows it are one step.  getchar is modelled by what   *)
(* cons_getc can deliver, any byte but 0.                                  *)
(***************************************************************************)
EXTENDS Cga

CONSTANTS
  BUFLEN,  \* the size of buf, 1024 in the source
  Input    \* the bytes that are typed

(* The line must fit on the screen together with the line being scrolled   *)
(* in: 1023 <= 2000 - 80 in the source.                                    *)
ASSUME BuflenAssumption ==
  BUFLEN \in Nat \ {0} /\ BUFLEN - 1 <= CRT_SIZE - CRT_COLS

ASSUME InputAssumption == Input \subseteq 1..255

VARIABLES
  buf, i,
  at       \* "readline" in its loop, "kernel" everywhere else

lineVars == <<buf, i, at>>
vars     == <<cgaVars, lineVars>>

DEL == 127

(* cputchar(c), as the display sees it; echoing is iscons(0) = 1. *)
Echo(ch) == cga_putc([attr |-> 0, ch |-> ch])

(* The prompt, and whatever the kernel prints between two lines. *)
cprintf(c) ==
  /\ at = "kernel" /\ cga_putc(c)
  /\ UNCHANGED lineVars

readline ==
  /\ at = "kernel" /\ addr_6845 # 0
  /\ at' = "readline" /\ i' = 0
  /\ UNCHANGED <<cgaVars, buf>>

(***************************************************************************)
(* The branches of the loop, in the order of the source; the first one,    *)
(* c < 0, is dead, because cons_getc returns a uint8_t.                    *)
(***************************************************************************)
(* Mutant: a backspace is obeyed even when the line is empty. *)
IsRuboutAlways(c) == c \in {BS, DEL}

IsRubout(c) == c \in {BS, DEL} /\ i > 0

(* Mutant: no room is left for the terminator. *)
IsTextLong(c) == ~IsRubout(c) /\ c >= SP /\ i < BUFLEN

IsText(c)   == ~IsRubout(c) /\ c >= SP /\ i < BUFLEN - 1
IsEnter(c)  == ~IsRubout(c) /\ ~IsText(c) /\ c \in {LF, CR}

(* Mutant: the key itself is echoed, which for DEL is a visible cell. *)
RuboutKey(c) == c

RuboutEcho(c) == BS

Rubout(c) ==
  /\ IsRubout(c) /\ Echo(RuboutEcho(c))
  /\ i' = i - 1
  /\ UNCHANGED <<buf, at>>

Text(c) ==
  /\ IsText(c) /\ Echo(c)
  /\ buf' = [buf EXCEPT ![i] = c] /\ i' = i + 1
  /\ UNCHANGED at

(* Mutant: the line is handed over without buf[i] = 0. *)
Unterminated == buf

Terminated == [buf EXCEPT ![i] = 0]

Enter(c) ==
  /\ IsEnter(c) /\ Echo(LF)
  /\ buf' = Terminated /\ at' = "kernel"
  /\ UNCHANGED i

Ignored(c) ==
  /\ ~IsRubout(c) /\ ~IsText(c) /\ ~IsEnter(c)
  /\ UNCHANGED vars

Typed(c) == at = "readline" /\ (Rubout(c) \/ Text(c) \/ Enter(c) \/ Ignored(c))

ConsInit == cga_init /\ UNCHANGED lineVars

Init ==
  /\ CgaInit
  /\ buf = [k \in 0..BUFLEN-1 |-> 0]
  /\ i = 0 /\ at = "kernel"

Next ==
  \/ ConsInit
  \/ \E c \in Printed : cprintf(c)
  \/ readline
  \/ \E c \in Input : Typed(c)

Spec == Init /\ [][Next]_vars

-----------------------------------------------------------------------------
(***************************************************************************)
(* Properties.                                                             *)
(***************************************************************************)
LineTypeOK ==
  /\ CgaTypeOK /\ buf \in [0..BUFLEN-1 -> 0..255] /\ i \in 0..BUFLEN-1
  /\ at \in {"kernel", "readline"}

(* The cell where the line being typed starts. *)
Start == crt_pos - i

(* What the user sees is what the kernel will get: the i cells before the  *)
(* cursor show buf[0..i-1], across line wraps, scrolling and rubbing out.  *)
WhatYouSee ==
  at = "readline" =>
    /\ Start >= 0
    /\ \A k \in 0..i-1 : crt_buf[Start + k] = [attr |-> 7, ch |-> buf[k]]

(* A line that is handed over ends at its first NUL byte, and that is      *)
(* where the user pressed Enter.                                           *)
HandsOver ==
  at = "readline" /\ at' = "kernel" =>
    /\ i' \in 0..BUFLEN-1
    /\ buf'[i'] = 0
    /\ \A k \in 0..i'-1 : buf'[k] # 0

LineTerminated == [][HandsOver]_vars

(* Editing never touches what was on the screen before the line, the       *)
(* prompt in particular; it can only scroll away, a line at a time.        *)
KeepsPrompt ==
  at = "readline" /\ at' = "readline" =>
    /\ Start - Start' \in {0, CRT_COLS}
    /\ \A p \in (Start - Start')..Start-1 :
         crt_buf'[p - (Start - Start')] = crt_buf[p]

PromptKept == [][KeepsPrompt]_vars
=============================================================================
