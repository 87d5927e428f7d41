------------------------------- MODULE Kdebug -------------------------------
(***************************************************************************)
(* debuginfo_eip of kern/kdebug.c: from an instruction's address to its    *)
(* source file, function, line and number of arguments, by three calls of  *)
(* stab_binsearch, each within what the one before it found.  The calls    *)
(* are the steps of module StabSearch, instantiated for each stab type.    *)
(*                                                                         *)
(* A name or a line in *info is the index of the stab it was taken from,   *)
(* -1 for the value it is initialised with.  "named" says that n_strx lies *)
(* in the string table.  Addresses are taken modulo AddrSpace.             *)
(***************************************************************************)
EXTENDS Integers

CONSTANTS
  NStabs,     \* entries of the symbol table
  Tables,     \* the symbol tables
  Eips,       \* the addresses that are looked up
  ULIM,       \* the first address that belongs to the kernel
  AddrSpace   \* 2^32

StabTypes == {"UNDF", "SO", "SOL", "FUN", "SLINE", "PSYM"}
Index     == 0..NStabs-1
Address   == 0..AddrSpace-1
Stab      == [n_type : StabTypes, n_value : 0..AddrSpace-2, named : BOOLEAN]

ASSUME KdebugAssumption ==
  /\ NStabs \in Nat \ {0} /\ AddrSpace \in Nat \ {0}
  /\ Tables \subseteq [Index -> Stab] /\ Eips \subseteq Address

(* The first entry is the header that the assembler puts there, and no     *)
(* source file; for debuginfo_eip index 0 means that no file was found.    *)
ASSUME HeaderAssumption == \A t \in Tables : t[0].n_type # "SO"

VARIABLES
  stabs, lo, hi, target,                        \* stab_binsearch: arguments
  region_left, region_right, addr, l, r, true_m, m, any_matches, pc,
  eip,                                          \* debuginfo_eip: argument
  stabstr_ok,                                   \* the string table is sound
  phase, lfile, rfile, lfun, rfun, lline, info

search == <<lo, hi, target, region_left, region_right, addr, l, r, true_m, m,
            any_matches, pc>>
ends   == <<lfile, rfile, lfun, rfun>>
own    == <<phase, ends, lline, info>>
given  == <<stabs, eip, stabstr_ok>>
vars   == <<given, search, own>>

FileSearch == INSTANCE StabSearch WITH
                Stabs <- Stab, Targets <- Address, Type <- "SO"
FunSearch  == INSTANCE StabSearch WITH
                Stabs <- Stab, Targets <- Address, Type <- "FUN"
LineSearch == INSTANCE StabSearch WITH
                Stabs <- Stab, Targets <- Address, Type <- "SLINE"

(* stab_binsearch(stabs, &left, &right, type, a) up to its loop. *)
stab_binsearch(left, right, a) ==
  /\ lo' = left /\ hi' = right /\ target' = a
  /\ region_left' = left /\ region_right' = right /\ addr' = a
  /\ l' = left /\ r' = right /\ true_m' = left /\ m' = left
  /\ any_matches' = 0 /\ pc' = "while"

Return(code) == phase' = code /\ UNCHANGED search

(***************************************************************************)
(* The steps of debuginfo_eip.  "phase" names the search that is under     *)
(* way, or the loop, or the outcome: "panic", "ok" (0) or "none" (-1).     *)
(***************************************************************************)
UserAddress ==
  /\ phase = "call" /\ eip < ULIM /\ Return("panic")
  /\ UNCHANGED <<given, ends, lline, info>>

BadStrings ==
  /\ phase = "call" /\ eip >= ULIM /\ ~stabstr_ok
  /\ Return("none")
  /\ UNCHANGED <<given, ends, lline, info>>

(* Mutant: the number of stabs is passed for the index of the last one. *)
PastLast == NStabs

LastStab == NStabs - 1

SearchFile ==
  /\ phase = "call" /\ eip >= ULIM /\ stabstr_ok
  /\ stab_binsearch(0, LastStab, eip)
  /\ phase' = "SO"
  /\ UNCHANGED <<given, ends, lline, info>>

(* A step of stab_binsearch. *)
Searching ==
  /\ \/ phase = "SO" /\ FileSearch!Step
     \/ phase = "FUN" /\ FunSearch!Step
     \/ phase = "SLINE" /\ LineSearch!Step
  /\ UNCHANGED <<eip, stabstr_ok, own>>

Found(type) == phase = type /\ pc = "done"

FileFound ==
  /\ Found("SO")
  /\ lfile' = region_left /\ rfile' = region_right
  /\ \/ region_left = 0 /\ Return("none")
     \/ region_left # 0 /\ phase' = "FUN"
        /\ stab_binsearch(region_left, region_right, eip)
  /\ UNCHANGED <<given, lfun, rfun, lline, info>>

(* Inside a function line numbers are relative to its start. *)
FunFound ==
  /\ Found("FUN")
  /\ lfun' = region_left /\ rfun' = region_right
  /\ IF region_left <= region_right
       THEN LET f == stabs[region_left]
            IN  /\ info' = [info EXCEPT !.fn = IF f.named THEN region_left ELSE @,
                                        !.fn_addr = f.n_value]
                /\ stab_binsearch(region_left, region_right,
                                  (eip - f.n_value) % AddrSpace)
       ELSE /\ info' = [info EXCEPT !.fn_addr = eip]
            /\ stab_binsearch(lfile, rfile, eip)
  /\ phase' = "SLINE"
  /\ UNCHANGED <<given, lfile, rfile, lline>>

LineFound ==
  /\ Found("SLINE")
  /\ lline' = region_left
  /\ IF region_left > region_right
       THEN phase' = "none" /\ UNCHANGED info
       ELSE phase' = "file" /\ info' = [info EXCEPT !.line = region_left]
  /\ UNCHANGED <<given, search, ends>>

(* Mutant: included files are overlooked. *)
NamesSource(k) == stabs[k].n_type = "SO" /\ stabs[k].n_value # 0

(* Search backwards for the stab that names the line's file. *)
NamesFile(k) ==
  \/ stabs[k].n_type = "SOL"
  \/ stabs[k].n_type = "SO" /\ stabs[k].n_value # 0

(* Mutant: the loop forgets to step back. *)
Stay(k) == k

Back(k) == k - 1

FileBack ==
  /\ phase = "file" /\ lline >= lfile /\ ~NamesFile(lline)
  /\ lline' = Back(lline)
  /\ UNCHANGED <<given, search, phase, ends, info>>

(* The file, and the start of the count of arguments. *)
FileNamed ==
  /\ phase = "file"
  /\ lline >= lfile => NamesFile(lline)
  /\ info' = [info EXCEPT !.file = IF lline >= lfile /\ stabs[lline].named
                                     THEN lline ELSE @]
  /\ IF lfun < rfun
       THEN phase' = "args" /\ lline' = lfun + 1
       ELSE phase' = "ok" /\ UNCHANGED lline
  /\ UNCHANGED <<given, search, ends>>

MoreArgs == lline < rfun /\ stabs[lline].n_type = "PSYM"

Argument ==
  /\ phase = "args" /\ MoreArgs
  /\ info' = [info EXCEPT !.narg = @ + 1] /\ lline' = lline + 1
  /\ UNCHANGED <<given, search, phase, ends>>

ArgsCounted ==
  /\ phase = "args" /\ ~MoreArgs /\ Return("ok")
  /\ UNCHANGED <<given, ends, lline, info>>

Init ==
  /\ stabs \in Tables /\ eip \in Eips /\ stabstr_ok \in BOOLEAN
  /\ lo = 0 /\ hi = 0 /\ target = 0 /\ region_left = 0 /\ region_right = 0
  /\ addr = 0 /\ l = 0 /\ r = 0 /\ true_m = 0 /\ m = 0
  /\ any_matches = 0 /\ pc = "done" /\ phase = "call"
  /\ lfile = 0 /\ rfile = 0 /\ lfun = 0 /\ rfun = 0 /\ lline = 0
  /\ info = [file |-> -1, line |-> -1, fn |-> -1, fn_addr |-> eip, narg |-> 0]

Step ==
  \/ UserAddress \/ BadStrings \/ SearchFile \/ Searching
  \/ FileFound \/ FunFound \/ LineFound
  \/ FileBack \/ FileNamed \/ Argument \/ ArgsCounted

Returned == phase \in {"panic", "ok", "none"}

Done == Returned /\ UNCHANGED vars

Next == Step \/ Done

Spec == Init /\ [][Next]_vars

(* The function runs to its end without waiting for anything. *)
FairSpec == Spec /\ WF_vars(Step)

-----------------------------------------------------------------------------
(***************************************************************************)
(* Properties.  They say what the stabs of a table mean without following  *)
(* the searches: a file, a function or a line owns the addresses from its  *)
(* own up to the next stab of its type.                                    *)
(***************************************************************************)
OfType(type, from, to) == {k \in from..to : stabs[k].n_type = type}

(* The last stab of S at or below x. *)
IsOwner(k, S, x) ==
  /\ k \in S /\ stabs[k].n_value <= x
  /\ \A j \in S : stabs[j].n_value <= x => j <= k

(* The stabs of S are in order, and none begins right after x when another *)
(* one begins at x.                                                        *)
Searchable(S, x) ==
  \A j, k \in S :
    /\ j < k => stabs[j].n_value <= stabs[k].n_value
    /\ stabs[j].n_value = x => stabs[k].n_value # x + 1

(* The end of the region of stab k among those of S. *)
RegionEnd(k, S, last) ==
  CHOOSE e \in k..last :
    /\ \A j \in S : j > k => e < j
    /\ e = last \/ e + 1 \in S

(* eip lies in file f, in function g of that and in line n of that. *)
Files      == OfType("SO", 0, NStabs - 1)
FileEnd(f) == RegionEnd(f, Files, NStabs - 1)
InFile(f)  == IsOwner(f, Files, eip) /\ Searchable(Files, eip)

Funs(f)      == OfType("FUN", f, FileEnd(f))
FunEnd(f, g) == RegionEnd(g, Funs(f), FileEnd(f))
InFun(f, g)  == /\ InFile(f)
                /\ IsOwner(g, Funs(f), eip) /\ Searchable(Funs(f), eip)

Offset(g)       == eip - stabs[g].n_value
Lines(f, g)     == OfType("SLINE", g, FunEnd(f, g))
InLine(f, g, n) == /\ InFun(f, g)
                   /\ IsOwner(n, Lines(f, g), Offset(g))
                   /\ Searchable(Lines(f, g), Offset(g))

(* The stabs that start a file: an included one, or a source file (the one  *)
(* at address 0 ends the last file).                                       *)
FileStarts ==
  {k \in Index : \/ stabs[k].n_type = "SOL"
                 \/ stabs[k].n_type = "SO" /\ stabs[k].n_value > 0}

(* Every stab that is read lies in the table, whatever is looked up. *)
ReadsInTable ==
  /\ pc = "scan" /\ m >= l => m \in Index
  /\ pc = "last" /\ l > region_left => l \in Index
  /\ phase \in {"FUN", "SLINE"} /\ pc = "done" /\ region_left <= region_right
       => region_left \in Index
  /\ phase = "file" /\ lline >= lfile => lline \in Index
  /\ phase = "args" /\ lline < rfun => lline \in Index

(* What is found for an address that has a file, a function and a line:    *)
(* the function and its start, the line, the arguments that follow the     *)
(* function's stab, and the file that was last named before the line,      *)
(* which may be an included one.                                           *)
Located ==
  phase = "ok" =>
    \A f, g, n \in Index :
      InLine(f, g, n) =>
        /\ stabs[g].named => info.fn = g
        /\ info.fn_addr = stabs[g].n_value
        /\ info.line = n
        /\ \A k \in f..n \cap FileStarts :
             stabs[k].named /\ k+1..n \cap FileStarts = {} => info.file = k
        /\ \A k \in 0..info.narg-1 : stabs[g + 1 + k].n_type = "PSYM"
        /\ stabs[g + 1 + info.narg].n_type # "PSYM"

(* debuginfo_eip returns. *)
Finishes == <>Returned
=============================================================================
