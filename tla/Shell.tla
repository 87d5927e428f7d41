------------------------------- MODULE Shell --------------------------------
(***************************************************************************)
(* The K> prompt: Readline and Monitor composed over readline's one static *)
(* buffer, and the two ways in which the kernel gets to the monitor.       *)
(* i386_init enters it when test_backtrace has returned; _panic enters it  *)
(* when debuginfo_eip, which mon_backtrace calls for every frame, is given *)
(* a user address (kdebug.c:127, modelled in Kdebug).  Both call monitor   *)
(* in an endless loop, and nothing that the monitor runs can panic.        *)
(*                                                                         *)
(* What the kernel prints while it boots, and what runcmd, a command and   *)
(* monitor print before the next line, is any sequence of characters.      *)
(***************************************************************************)
EXTENDS Readline, Sequences

CONSTANTS MAXARGS, Spelling

VARIABLES
  line, p, argc, argv, cmd, pc,  \* monitor and runcmd
  entered,                       \* monitor has been called
  panicstr                       \* the first panic's message, "" for null

Mon == INSTANCE Monitor

ASSUME ShellAssumption ==
  /\ MAXARGS \in Nat \ {0}
  /\ \A c \in Mon!Commands : Spelling[c] \in Seq(1..255 \ Mon!WHITESPACE)

runVars   == <<line, p, argc, argv, cmd, pc>>
shellVars == <<vars, runVars, entered, panicstr>>

EnterMonitor ==
  /\ ~entered /\ addr_6845 # 0
  /\ entered' = TRUE
  /\ UNCHANGED <<vars, runVars>>

i386_init == EnterMonitor /\ UNCHANGED panicstr

_panic(fmt) ==
  EnterMonitor /\ panicstr' = IF panicstr = "" THEN fmt ELSE panicstr

(* cons_init, and what is printed outside readline. *)
Console ==
  /\ ConsInit \/ \E c \in Printed : pc = "readline" /\ cprintf(c)
  /\ UNCHANGED <<runVars, entered, panicstr>>

Prompt ==
  /\ entered /\ pc = "readline" /\ readline
  /\ UNCHANGED <<runVars, entered, panicstr>>

(* A byte is typed: readline goes on, or it returns buf and runcmd starts. *)
Type(c) ==
  /\ Typed(c)
  /\ \/ at' = "readline" /\ UNCHANGED runVars
     \/ /\ at' = "kernel"
        /\ line' = [k \in 1..i |-> buf[k - 1]]
        /\ pc' = "gobble"
        /\ UNCHANGED <<p, argc, argv, cmd>>
  /\ UNCHANGED <<entered, panicstr>>

runcmd == Mon!runcmd /\ UNCHANGED <<cgaVars, i, at, entered, panicstr>>

ShellInit == Init /\ Mon!Init /\ entered = FALSE /\ panicstr = ""

ShellNext ==
  \/ i386_init \/ _panic("User address") \/ Console \/ Prompt
  \/ \E c \in Input : Type(c)
  \/ runcmd

(* runcmd never waits; the user may stop typing at any time. *)
ShellSpec == ShellInit /\ [][ShellNext]_shellVars /\ WF_shellVars(runcmd)

-----------------------------------------------------------------------------
(* The words of the line, as the user edited it, reach the command: see    *)
(* Monitor.                                                                *)
ArgvHoldsWords == Mon!ArgvHoldsWords

(* Every line gets the answer its first word asks for: see Monitor. *)
RightAnswer == Mon!RightAnswer

(* readline keeps the promise that monitor relies on: it hands over a      *)
(* buffer that begins with the line and its NUL, and nothing touches that  *)
(* buffer until runcmd, whose argv points into it, has returned.           *)
MonitorSpec == Mon!Spec

(* The monitor comes back for the next line, whatever was typed, and after *)
(* a panic as well.                                                        *)
Prompts == []<>(pc = "readline")
=============================================================================
