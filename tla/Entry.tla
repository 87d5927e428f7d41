------------------------------- MODULE Entry -------------------------------
(***************************************************************************)
(* From the kernel's entry point to its monitor: kern/entry.S turns paging *)
(* on with the tables of kern/entrypgdir.c, moves up to the addresses the  *)
(* kernel is linked at and sets up a stack; i386_init calls test_backtrace,*)
(* which calls itself Depth times, and the innermost call walks the stack  *)
(* with mon_backtrace.                                                     *)
(*                                                                         *)
(* Addresses count words.  The kernel is loaded from Text on; its code is  *)
(* represented by one address per place a call returns to.  Compiled       *)
(* frames are the saved ebp, the return address, the arguments and any     *)
(* number of other words.                                                  *)
(***************************************************************************)
EXTENDS Integers, Sequences

CONSTANTS
  PGSIZE, NPTENTRIES,  \* words in a page, entries of a page table
  KERNDIR,             \* KERNBASE >> PDXSHIFT
  Text,                \* the physical address of the kernel's code
  Stack, KSTKSIZE,     \* the physical address of bootstack and its size
  Depth,               \* i386_init calls test_backtrace(Depth), 5 in the source
  Other,               \* how many more words a frame may hold
  BootEbps             \* what the boot loader may leave in ebp

PTSIZE   == PGSIZE * NPTENTRIES
KERNBASE == KERNDIR * PTSIZE
ULIM     == KERNBASE - 2 * PTSIZE  \* below the hole for memory-mapped I/O

(* The kernel's code and its stack lie within what one page table maps,    *)
(* and the stack is large enough for the frames of test_backtrace's calls. *)
ASSUME EntryAssumption ==
  /\ PGSIZE \in Nat \ {0} /\ NPTENTRIES \in Nat \ {0} /\ KERNDIR \in Nat \ 0..2
  /\ Text \in Nat /\ Stack \in Nat /\ KSTKSIZE \in Nat /\ Depth \in Nat
  /\ Other \subseteq Nat /\ BootEbps \subseteq Nat /\ Text + 4 < Stack
  /\ Stack + KSTKSIZE + 5 <= PTSIZE
  /\ Other # {} /\ \A n \in Other : (Depth + 2) * (n + 3) + 5 <= KSTKSIZE

bootstack    == KERNBASE + Stack
bootstacktop == bootstack + KSTKSIZE

VARIABLES
  cr0, cr3,      \* the flags of cr0; whether cr3 holds the page directory
  base,          \* what EIP exceeds the physical address of the code by
  esp, ebp,
  stack,         \* the boot stack, by the address it is linked at
  at, fn,        \* the step, and the function it belongs to
  walk, trace,   \* mon_backtrace: its ebp, and the frames it has listed
  stray,         \* some access faulted or missed what it was meant for
  calls          \* history: the calls under way, innermost first, with the
                 \* place of the frame of each

machine   == <<cr0, cr3, base>>
frames    == <<esp, ebp, stack, calls>>
listing   == <<walk, trace>>
entryVars == <<machine, frames, listing, at, fn, stray>>

-----------------------------------------------------------------------------
(* The parts of a linear address, and the flags of an entry. *)
PDX(la)   == la \div PTSIZE
PTX(la)   == (la \div PGSIZE) % NPTENTRIES
PGOFF(la) == la % PGSIZE

PTE_P == "PTE_P"
PTE_W == "PTE_W"

(* Mutant: the directory maps the linked addresses only. *)
HighOnly(d) == IF d = PDX(KERNBASE) THEN {PTE_P, PTE_W} ELSE {}

(* The page directory: the flags of its entries, which all point to the    *)
(* one page table.                                                         *)
entry_pgdir(d) ==
  CASE d = 0             -> {PTE_P}
    [] d = PDX(KERNBASE) -> {PTE_P, PTE_W}
    [] OTHER             -> {}

entry_pgtable ==
  [k \in 0..NPTENTRIES-1 |-> [addr |-> k * PGSIZE, flags |-> {PTE_P, PTE_W}]]

(* The MMU: an access to va is allowed and reaches the physical address pa. *)
Reaches(va, write, pa) ==
  \/ "CR0_PG" \notin cr0 /\ va = pa
  \/ /\ "CR0_PG" \in cr0 /\ cr3
     /\ LET pte   == entry_pgtable[PTX(va)]
            flags == entry_pgdir(PDX(va)) \cap pte.flags
        IN  /\ PTE_P \in flags
            /\ write /\ "CR0_WP" \in cr0 => PTE_W \in flags
            /\ pa = pte.addr + PGOFF(va)

Fetch(k)  == Reaches(base + Text + k, FALSE, Text + k)
Load(va)  == Reaches(va, FALSE, va - KERNBASE)
Store(va) == Reaches(va, TRUE, va - KERNBASE)

(* The instructions from one label to the next; ok says that what they     *)
(* load and store is what they are meant to.                               *)
Run(from, to, ok) ==
  at = from /\ at' = to /\ stray' = (stray \/ ~Fetch(0) \/ ~ok)

-----------------------------------------------------------------------------
(* entry.S *)
WarmBoot ==
  /\ Run("entry", "load_cr3", Reaches(0, TRUE, 0))
  /\ UNCHANGED <<machine, frames, fn, listing>>

LoadCr3 ==
  /\ Run("load_cr3", "set_cr0", TRUE)
  /\ cr3' = TRUE
  /\ UNCHANGED <<cr0, base, frames, fn, listing>>

TurnOnPaging ==
  /\ Run("set_cr0", "jump", TRUE)
  /\ cr0' = cr0 \cup {"CR0_PE", "CR0_PG", "CR0_WP"}
  /\ UNCHANGED <<cr3, base, frames, fn, listing>>

(* The first fetch under paging is from a low address. *)
JumpUp ==
  /\ Run("jump", "relocated", TRUE)
  /\ base' = KERNBASE
  /\ UNCHANGED <<cr0, cr3, frames, fn, listing>>

relocated ==
  /\ Run("relocated", "call_init", TRUE)
  /\ ebp' = 0 /\ esp' = bootstacktop
  /\ UNCHANGED <<machine, stack, calls, fn, listing>>

(***************************************************************************)
(* The calling convention.  A caller pushes the arguments, last one first, *)
(* and the return address; the callee pushes ebp and makes ebp point       *)
(* there.                                                                  *)
(***************************************************************************)
Call(from, f, args, ret) ==
  LET pushed == <<base + Text + ret>> \o args
      top    == esp - Len(pushed)
  IN  /\ Run(from, "prologue", \A a \in top..esp-1 : Store(a))
      /\ stack' = [a \in DOMAIN stack |->
                   IF a \in top..esp-1 THEN pushed[a - top + 1] ELSE stack[a]]
      /\ esp' = top
      /\ calls' = <<[eip |-> pushed[1], args |-> args, frame |-> top - 1]>> \o calls
      /\ fn' = f
      /\ UNCHANGED <<machine, ebp, listing>>

Prologue ==
  /\ Run("prologue", fn, Store(esp - 1))
  /\ stack' = [stack EXCEPT ![esp - 1] = ebp] /\ ebp' = esp - 1
  /\ \E n \in Other : esp' = esp - 1 - n
  /\ UNCHANGED <<machine, calls, fn, listing>>

CallInit == Call("call_init", "i386_init", <<>>, 1)

i386_init == Call("i386_init", "test_backtrace", <<Depth>>, 2)

(* test_backtrace(x); x is read from the frame. *)
x == stack[ebp + 2]

Recurse == x > 0 /\ Call("test_backtrace", "test_backtrace", <<x - 1>>, 3)

Innermost == ~(x > 0) /\ Call("test_backtrace", "mon_backtrace", <<0, 0, 0>>, 4)

(***************************************************************************)
(* mon_backtrace.  Memory above the stack belongs to other data.           *)
(***************************************************************************)
Word(a) == IF a \in DOMAIN stack THEN stack[a] ELSE 0

read_ebp ==
  /\ Run("mon_backtrace", "walk", TRUE)
  /\ walk' = ebp /\ trace' = <<>>
  /\ UNCHANGED <<machine, frames, fn>>

(* Mutant: the return address is taken for the first argument. *)
ArgsSkewed(f) == [k \in 1..5 |-> Word(f + k)]

Args(f) == [k \in 1..5 |-> Word(f + 1 + k)]

(* One turn of the loop; debuginfo_eip panics for an address below ULIM. *)
ListFrame ==
  /\ walk # 0
  /\ Run("walk", IF Word(walk + 1) >= ULIM THEN "walk" ELSE "panic",
         \A a \in walk..walk+6 : Load(a))
  /\ trace' = Append(trace, [eip |-> Word(walk + 1), args |-> Args(walk)])
  /\ walk' = Word(walk)
  /\ UNCHANGED <<machine, frames, fn>>

WalkEnds ==
  /\ walk = 0 /\ Run("walk", "return", TRUE)
  /\ UNCHANGED <<machine, frames, fn, listing>>

(* The epilogue: the caller goes on after its call, which is the last one  *)
(* of test_backtrace; i386_init goes on to its endless loop of monitor.    *)
Caller(ret) == IF ret = 2 THEN "i386_init" ELSE "test_backtrace"

Return ==
  /\ fn' = Caller(stack[ebp + 1] - base - Text)
  /\ Run("return", IF fn' = "i386_init" THEN "monitor" ELSE "return",
         Load(ebp) /\ Load(ebp + 1))
  /\ esp' = ebp + 2 /\ ebp' = stack[ebp] /\ calls' = Tail(calls)
  /\ UNCHANGED <<machine, stack, listing>>

Monitor == at \in {"monitor", "panic"} /\ UNCHANGED entryVars

EntryInit ==
  /\ cr0 = {"CR0_PE"} /\ cr3 = FALSE /\ base = 0
  /\ esp = 0 /\ ebp \in BootEbps
  /\ stack = [a \in bootstack..bootstacktop-1 |-> 0]
  /\ at = "entry" /\ fn = "entry" /\ walk = 0 /\ trace = <<>>
  /\ stray = FALSE /\ calls = <<>>

Step ==
  \/ WarmBoot \/ LoadCr3 \/ TurnOnPaging \/ JumpUp \/ relocated \/ CallInit
  \/ Prologue \/ i386_init
  \/ at = "test_backtrace" /\ (Recurse \/ Innermost)
  \/ read_ebp \/ ListFrame \/ WalkEnds
  \/ at = "return" /\ Return

EntryNext == Step \/ Monitor

EntrySpec == EntryInit /\ [][EntryNext]_entryVars

-----------------------------------------------------------------------------
(* No instruction fetch, load or store faults or reaches other memory than *)
(* the loaded kernel's own, before, at and after the switch to paging.  A  *)
(* fault at this stage resets the machine: there is no handler.            *)
NoStrayAccess == ~stray

(* A listed frame shows a call's return address and all of its arguments. *)
Agrees(seen, call) ==
  /\ seen.eip = call.eip
  /\ \A k \in 1..Len(call.args) : seen.args[k] = call.args[k]

(* mon_backtrace lists exactly the calls under way, innermost first, each  *)
(* with its return address and the arguments it was given, and stops at    *)
(* i386_init, where entry.S cleared ebp.  Every return address it looks up *)
(* is the kernel's: debuginfo_eip panics on any other (kdebug.c:127).      *)
TraceIsCallStack ==
  /\ at # "panic"
  /\ at = "return" /\ fn = "mon_backtrace" =>
       /\ Len(trace) = Len(calls)
       /\ \A k \in 1..Len(calls) : Agrees(trace[k], calls[k])
=============================================================================
