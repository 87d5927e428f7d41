----------------------------- MODULE ConsInput ------------------------------
(***************************************************************************)
(* Console input, kern/console.c: the circular buffer "cons", cons_intr,   *)
(* which feeds it from a device's proc function, and cons_getc, which      *)
(* polls the serial port, polls the keyboard and takes one character out.  *)
(*                                                                         *)
(* Interrupts stay off in this kernel, so the only concurrency is between  *)
(* the processor and the devices: every poll of a device is one step, and  *)
(* keys and serial bytes may arrive between any two polls.  "pc" is where  *)
(* the kernel stands in that code:                                         *)
(*   "boot"    before cons_init                                            *)
(*   "caller"  outside cons_getc                                           *)
(*   "serial"  in cons_intr(serial_proc_data)                              *)
(*   "kbd"     in cons_intr(kbd_proc_data)                                 *)
(*   "grab"    after the two polls                                         *)
(*                                                                         *)
(* The UART is hardware: with its FIFO turned off it holds one received    *)
(* byte, which the next one overwrites.  A port without a UART reads as    *)
(* 0xFF.                                                                   *)
(***************************************************************************)
EXTENDS Keyboard

CONSTANTS
  CONSBUFSIZE,  \* the size of cons.buf, 512 in the source
  SerialBytes   \* the bytes that may arrive on the serial line

ASSUME BufSizeAssumption == CONSBUFSIZE \in Nat \ {0, 1}

ASSUME SerialAssumption == SerialBytes \subseteq 0..255

VARIABLES
  cons_buf, rpos, wpos,  \* struct cons
  serial_exists,
  pc,
  got,                   \* what the last cons_getc returned
  uart,                  \* hardware: there is a UART at COM1
  rx                     \* hardware: its receive register, -1 when empty

ringVars == <<cons_buf, rpos, wpos>>
inVars   == <<ringVars, serial_exists, pc, got, uart, rx>>
vars     == <<kbdVars, inVars>>

(***************************************************************************)
(* The circular buffer.                                                    *)
(***************************************************************************)
(* Mutants: no wrap, and a wrap one position early. *)
AdvanceOnly(p)  == p + 1
AdvanceEarly(p) == IF p + 2 = CONSBUFSIZE THEN 0 ELSE p + 1

Advance(p) == IF p + 1 = CONSBUFSIZE THEN 0 ELSE p + 1

(* Mutant: nothing is skipped. *)
SkipNone(c) == FALSE

Skipped(c) == c = 0

(* The body of the loop of cons_intr for what the proc function returned. *)
Stash(c) ==
  \/ Skipped(c) /\ UNCHANGED ringVars
  \/ /\ ~Skipped(c)
     /\ cons_buf' = [cons_buf EXCEPT ![wpos] = c]
     /\ wpos' = Advance(wpos)
     /\ UNCHANGED rpos

(***************************************************************************)
(* Kernel steps.                                                           *)
(***************************************************************************)
serial_proc_data == IF uart THEN rx ELSE 255

(* The line status of an absent UART is 0xFF; reading the receive register *)
(* drops what it holds.                                                    *)
serial_init == serial_exists' = uart /\ rx' = -1

cons_init ==
  /\ pc = "boot" /\ serial_init
  /\ pc' = "caller"
  /\ UNCHANGED <<kbdVars, ringVars, got, uart>>

(* Mutant: the test of serial_exists is missing. *)
AlwaysSerial == "serial"

(* Where serial_intr goes on: into the loop, or back to cons_getc. *)
serial_intr == IF serial_exists THEN "serial" ELSE "kbd"

cons_getc ==
  /\ pc = "caller"
  /\ pc' = serial_intr
  /\ UNCHANGED <<kbdVars, ringVars, serial_exists, got, uart, rx>>

(* One turn of the loop of cons_intr(serial_proc_data), and its end. *)
SerialPoll ==
  /\ pc = "serial" /\ serial_proc_data # -1 /\ Stash(serial_proc_data)
  /\ rx' = -1
  /\ UNCHANGED <<kbdVars, serial_exists, pc, got, uart>>

SerialDrained ==
  /\ pc = "serial" /\ serial_proc_data = -1
  /\ pc' = "kbd"
  /\ UNCHANGED <<kbdVars, ringVars, serial_exists, got, uart, rx>>

(* The same for cons_intr(kbd_proc_data). *)
KbdPoll ==
  /\ pc = "kbd" /\ kbd_ret # NoData /\ kbd_proc_data
  /\ Stash(kbd_ret)
  /\ UNCHANGED <<serial_exists, pc, got, uart, rx>>

KbdDrained ==
  /\ pc = "kbd" /\ kbd_ret = NoData /\ kbd_proc_data
  /\ pc' = "grab"
  /\ UNCHANGED <<ringVars, serial_exists, got, uart, rx>>

(* Mutant: the comparison is inverted. *)
NoneWaiting == rpos = wpos

SomeWaiting == rpos # wpos

Grab ==
  /\ pc = "grab"
  /\ \/ SomeWaiting /\ got' = cons_buf[rpos] /\ rpos' = Advance(rpos)
     \/ ~SomeWaiting /\ got' = 0 /\ UNCHANGED rpos
  /\ pc' = "caller"
  /\ UNCHANGED <<kbdVars, cons_buf, wpos, serial_exists, uart, rx>>

(***************************************************************************)
(* Device steps.                                                           *)
(***************************************************************************)
SerialArrive(b) ==
  /\ uart
  /\ rx' = b
  /\ UNCHANGED <<kbdVars, ringVars, serial_exists, pc, got, uart>>

KbdDevice == KbdHardware /\ UNCHANGED inVars

(* The reset that Ctrl-Alt-Del asked for: the kernel is loaded afresh. *)
Restart ==
  /\ MachineReset
  /\ cons_buf' = [i \in 0..CONSBUFSIZE-1 |-> 0]
  /\ rpos' = 0 /\ wpos' = 0 /\ serial_exists' = FALSE
  /\ pc' = "boot" /\ got' = 0
  /\ UNCHANGED <<uart, rx>>

Init ==
  /\ KbdInit
  /\ cons_buf = [i \in 0..CONSBUFSIZE-1 |-> 0]
  /\ rpos = 0 /\ wpos = 0 /\ serial_exists = FALSE /\ pc = "boot" /\ got = 0
  /\ uart \in BOOLEAN /\ rx \in SerialBytes \cup {-1}

Kernel == \/ cons_init \/ cons_getc \/ SerialPoll \/ SerialDrained
          \/ KbdPoll \/ KbdDrained \/ Grab

Devices == (\E b \in SerialBytes : SerialArrive(b)) \/ KbdDevice

Next == Kernel \/ Devices \/ Restart

Spec == Init /\ [][Next]_vars

(* The kernel keeps running, so its next step is taken.  The two loops     *)
(* poll faster than a 9600 baud line or a typist can supply bytes: a loop  *)
(* that finds its device empty again and again leaves at last.  A reset    *)
(* that was asked for takes place.                                         *)
Fairness ==
  /\ WF_vars(Kernel) /\ WF_vars(Restart) /\ SF_vars(SerialDrained)
  /\ SF_vars(KbdDrained)

FairSpec == Spec /\ Fairness

-----------------------------------------------------------------------------
(***************************************************************************)
(* Properties.                                                             *)
(***************************************************************************)
Position == 0..CONSBUFSIZE-1

InTypeOK ==
  /\ KbdTypeOK /\ cons_buf \in [Position -> 0..255]
  /\ rpos \in Position /\ wpos \in Position
  /\ serial_exists \in BOOLEAN /\ uart \in BOOLEAN
  /\ pc \in {"boot", "caller", "serial", "kbd", "grab"} /\ got \in 0..255
  /\ rx \in -1..255

(* The characters between two positions of the buffer, oldest first. *)
CountOf(rp, wp) == IF rp <= wp THEN wp - rp ELSE wp - rp + CONSBUFSIZE

Slot(p, k) == IF p + k < CONSBUFSIZE THEN p + k ELSE p + k - CONSBUFSIZE

Contents(b, rp, wp) == [k \in 1..CountOf(rp, wp) |-> b[Slot(rp, k - 1)]]

Pending == Contents(cons_buf, rpos, wpos)

(* The buffer, its two wrapping positions and the two polling loops        *)
(* implement a first-in first-out queue: no character is delivered twice,  *)
(* out of order or from a stale slot, and cons_getc answers 0 only when    *)
(* the queue is empty.                                                     *)
Queue == INSTANCE InputQueue WITH queue <- Pending, got <- got,
                                  up <- pc # "boot",
                                  Capacity <- CONSBUFSIZE

QueueSpec == Queue!Spec

(* A queued character is never 0, which is what lets cons_getc use 0 for   *)
(* "none waiting" and getchar loop on it.                                  *)
NoZeroQueued == \A k \in DOMAIN Pending : Pending[k] # 0

(* cons_getc returns, even without a serial port, where polling the status *)
(* register would find data for ever.                                      *)
GetcReturns == pc # "caller" ~> pc = "caller"

(* A queued character is delivered, or thrown away by an overrun or a      *)
(* restart.                                                                *)
InputDelivered ==
  \A c \in SerialBytes \ {0} :
    (Pending # <<>> /\ Head(Pending) = c) ~> (got = c \/ Pending = <<>>)
=============================================================================
