----------------------------- MODULE ConsOutput -----------------------------
(***************************************************************************)
(* Console output, kern/console.c: cons_putc sends a character to the      *)
(* serial port, to the parallel port and to the display, in this order,    *)
(* and waits for the first two, but not for ever.  A tab on the display    *)
(* calls cons_putc five times with a space, so that cons_putc is           *)
(* re-entered from its own last call.                                      *)
(*                                                                         *)
(* "todo" is the call stack, as the sequence of the calls that are still   *)
(* to be made, the current one first.  The devices are hardware: each is   *)
(* ready or not, becomes ready when it pleases or never, and takes a       *)
(* character only when it is ready; one that is sent early is lost.        *)
(***************************************************************************)
EXTENDS Cga, Sequences

CONSTANT MaxTries  \* polls of a device that is not ready, 12800 in the source

ASSUME OutputAssumption == MaxTries \in Nat

VARIABLES
  todo,
  tries,     \* the loop counter i of serial_putc and lpt_putc
  ready,     \* hardware: the ports that report that they are ready
  log        \* ghost: what this call of cputchar wrote to each port

Ports == {"serial", "lpt"}

outVars == <<todo, tries, ready, log>>
allVars == <<cgaVars, outVars>>

(***************************************************************************)
(* The calls.                                                              *)
(***************************************************************************)
Call(f, c) == [call |-> f, c |-> c]

cons_putc(c) == <<Call("serial", c), Call("lpt", c), Call("cga", c)>>

(* Mutant: the parallel port is left out of a tab's spaces. *)
SpaceNoLpt == LET c == [attr |-> 0, ch |-> SP]
              IN  <<Call("serial", c), Call("cga", c)>>

Space == cons_putc([attr |-> 0, ch |-> SP])

Tab == Space \o Space \o Space \o Space \o Space

(* The call in hand is one of f. *)
Calling(f) == todo # <<>> /\ todo[1].call = f

(* Mutant: the loop does not count. *)
Uncounted == tries

Counted == tries + 1

(* serial_putc and lpt_putc: for (i = 0; !ready && i < MaxTries; i++). *)
PortWait(d) ==
  /\ Calling(d) /\ d \notin ready /\ tries < MaxTries
  /\ tries' = Counted
  /\ UNCHANGED <<cgaVars, todo, ready, log>>

(* outb: the port keeps the low byte. *)
PortSend(d) ==
  /\ Calling(d)
  /\ d \in ready \/ tries = MaxTries
  /\ log' = [log EXCEPT ![d] = Append(@, todo[1].c.ch)] /\ tries' = 0
  /\ ready' = ready \ {d} /\ todo' = Tail(todo)
  /\ UNCHANGED cgaVars

CgaStep ==
  /\ Calling("cga")
  /\ LET c == todo[1].c
     IN  IF c.ch = HT
           THEN /\ todo' = Tab \o <<Call("tab end", c)>> \o Tail(todo)
                /\ UNCHANGED cgaVars
           ELSE cga_putc(c) /\ todo' = Tail(todo)
  /\ UNCHANGED <<tries, ready, log>>

CgaTabEnd ==
  /\ Calling("tab end") /\ TabEnd
  /\ todo' = Tail(todo)
  /\ UNCHANGED <<tries, ready, log>>

(* The callers: cputchar from cprintf and readline. *)
cputchar(c) ==
  /\ addr_6845 # 0 /\ todo = <<>>
  /\ todo' = cons_putc(c)
  /\ log' = [d \in Ports |-> <<>>]
  /\ UNCHANGED <<cgaVars, tries, ready>>

cons_init == cga_init /\ UNCHANGED outVars

PortReady(d) ==
  /\ d \notin ready
  /\ ready' = ready \cup {d}
  /\ UNCHANGED <<cgaVars, todo, tries, log>>

OutInit ==
  /\ CgaInit /\ todo = <<>> /\ tries = 0
  /\ ready \in SUBSET Ports
  /\ log = [d \in Ports |-> <<>>]

Putting ==
  \/ cons_init
  \/ \E d \in Ports : PortWait(d) \/ PortSend(d)
  \/ CgaStep
  \/ CgaTabEnd

OutNext ==
  \/ Putting
  \/ \E c \in Printed : cputchar(c)
  \/ \E d \in Ports : PortReady(d)

OutSpec == OutInit /\ [][OutNext]_allVars

(* The processor runs; nothing is assumed of the devices. *)
OutFairSpec == OutSpec /\ WF_allVars(Putting)

-----------------------------------------------------------------------------
(***************************************************************************)
(* Properties.                                                             *)
(***************************************************************************)
(* The serial and the parallel port are sent the same characters, the      *)
(* spaces of a tab included: when cputchar is done their logs agree, and   *)
(* until then the serial port is at most the character in hand ahead.      *)
SameStream ==
  /\ todo = <<>> => log["serial"] = log["lpt"]
  /\ \/ log["serial"] = log["lpt"]
     \/ /\ todo # <<>>
        /\ todo[1].call = "lpt"
        /\ log["serial"] = Append(log["lpt"], todo[1].c.ch)

(* cons_putc returns even when a port never becomes ready. *)
PutcReturns == todo # <<>> ~> todo = <<>>
=============================================================================
