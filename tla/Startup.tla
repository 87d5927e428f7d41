------------------------------ MODULE Startup ------------------------------
(***************************************************************************)
(* From power-on to the kernel's monitor: the boot loader (BootLoader)     *)
(* loads the kernel and jumps to its entry point, and the kernel (Entry)   *)
(* turns paging on and calls i386_init, which clears its BSS before it     *)
(* does anything else.  One processor runs them one after the other.       *)
(***************************************************************************)
EXTENDS BootLoader, Entry

startupVars == <<vars, entryVars>>

(* i386_init has been entered and has its frame. *)
InInit == at = "i386_init"

Loads == Loader /\ (pc = "entry" => InInit) /\ UNCHANGED entryVars

Entered == pc = "running" \/ (pc = "entry" /\ ~InInit)

Kernel == Entered /\ Step /\ UNCHANGED vars

Hardware == (KbcTakes \/ DiskDone) /\ UNCHANGED entryVars

(* The loop for a bad image, and the endless loop of monitor. *)
Stays == (pc = "bad" \/ at \in {"monitor", "panic"}) /\ UNCHANGED startupVars

StartupInit == Init /\ EntryInit

StartupNext == Loads \/ Kernel \/ Hardware \/ Stays

StartupSpec == StartupInit /\ [][StartupNext]_startupVars

(* The processor runs, the controller takes its byte and the disk ends its *)
(* read; the loader waits for both without a timeout.                      *)
FairStartup ==
  /\ StartupSpec
  /\ WF_startupVars(Loads \/ Kernel)
  /\ WF_startupVars(KbcTakes /\ UNCHANGED entryVars)
  /\ WF_startupVars(DiskDone /\ UNCHANGED entryVars)
=============================================================================
