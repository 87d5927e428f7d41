----------------------------- MODULE StabSearch -----------------------------
(***************************************************************************)
(* stab_binsearch of kern/kdebug.c: the binary search that debuginfo_eip   *)
(* uses to find the source file, the function and the line of an           *)
(* instruction.  Entries of other types lie between the ones it looks for, *)
(* so it scans backwards from every midpoint, and an exact match is not    *)
(* the end: it searches on for one address higher, to find the right end   *)
(* of the region.                                                          *)
(*                                                                         *)
(* stabs, lo, hi and target are the arguments and never change; "pc" is    *)
(* the place in the code.                                                  *)
(***************************************************************************)
EXTENDS Integers

CONSTANTS
  NStabs,  \* the number of entries of the symbol table
  Stabs,   \* the entries it may have; the last address, 2^32-1, is in none
  Type,    \* the n_type that is searched for
  Targets  \* the addresses that are looked up

ASSUME StabAssumption ==
  /\ NStabs \in Nat /\ Targets \subseteq Nat
  /\ \A s \in Stabs : s.n_value \in Nat

VARIABLES
  stabs, lo, hi, target,
  region_left, region_right, addr, l, r, true_m, m, any_matches,
  pc

args   == <<stabs, lo, hi, target>>
locals == <<region_left, region_right, addr, l, r, true_m, m, any_matches>>
vars   == <<args, locals, pc>>

Index   == 0..NStabs-1
Matches(k) == stabs[k].n_type = Type

Init ==
  /\ stabs \in [Index -> Stabs]
  /\ lo \in 0..NStabs /\ hi \in lo-1..NStabs-1
  /\ target \in Targets
  /\ region_left = lo /\ region_right = hi /\ addr = target
  /\ l = lo /\ r = hi /\ true_m = lo /\ m = lo
  /\ any_matches = 0 /\ pc = "while"

Midpoint ==
  /\ pc = "while" /\ l <= r
  /\ true_m' = (l + r) \div 2 /\ m' = true_m' /\ pc' = "scan"
  /\ UNCHANGED <<args, region_left, region_right, addr, l, r, any_matches>>

(* Search for the earliest stab with the right type. *)
ScanBack ==
  /\ pc = "scan" /\ m >= l /\ ~Matches(m)
  /\ m' = m - 1
  /\ UNCHANGED <<args, region_left, region_right, addr, l, r, true_m,
                 any_matches, pc>>

NoMatch ==
  /\ pc = "scan" /\ m < l
  /\ l' = true_m + 1 /\ pc' = "while"
  /\ UNCHANGED <<args, region_left, region_right, addr, r, true_m, m,
                 any_matches>>

Found == pc = "scan" /\ m >= l /\ Matches(m)

Below ==
  /\ Found /\ stabs[m].n_value < addr
  /\ any_matches' = 1 /\ region_left' = m /\ l' = true_m + 1
  /\ pc' = "while"
  /\ UNCHANGED <<args, region_right, addr, r, true_m, m>>

(* Mutant: the entry before the match is skipped. *)
SkipBefore(k) == k - 2

Before(k) == k - 1

Above ==
  /\ Found /\ stabs[m].n_value > addr
  /\ any_matches' = 1 /\ region_right' = Before(m) /\ r' = Before(m)
  /\ pc' = "while"
  /\ UNCHANGED <<args, region_left, addr, l, true_m, m>>

(* Mutants: the search goes on for the same address, or one further on. *)
SameAddr == addr
FarAddr  == addr + 2

NextAddr == addr + 1

Exact ==
  /\ Found /\ stabs[m].n_value = addr
  /\ any_matches' = 1 /\ region_left' = m /\ l' = m
  /\ addr' = NextAddr /\ pc' = "while"
  /\ UNCHANGED <<args, region_right, r, true_m, m>>

NothingMatched ==
  /\ pc = "while" /\ l > r /\ any_matches = 0
  /\ region_right' = region_left - 1 /\ pc' = "done"
  /\ UNCHANGED <<args, region_left, addr, l, r, true_m, m, any_matches>>

(* Mutant: the last loop starts behind the region. *)
BehindRegion == region_right + 1

LastOfRegion == region_right

SomeMatched ==
  /\ pc = "while" /\ l > r /\ any_matches = 1
  /\ l' = LastOfRegion /\ pc' = "last"
  /\ UNCHANGED <<args, region_left, region_right, addr, r, true_m, m,
                 any_matches>>

(* Find the rightmost region containing 'addr'. *)
LastBack ==
  /\ pc = "last" /\ l > region_left /\ ~Matches(l)
  /\ l' = l - 1
  /\ UNCHANGED <<args, region_left, region_right, addr, r, true_m, m,
                 any_matches, pc>>

LastFound ==
  /\ pc = "last"
  /\ l > region_left => Matches(l)
  /\ region_left' = l /\ pc' = "done"
  /\ UNCHANGED <<args, region_right, addr, l, r, true_m, m, any_matches>>

Step ==
  \/ Midpoint \/ ScanBack \/ NoMatch \/ Below \/ Above \/ Exact
  \/ NothingMatched \/ SomeMatched \/ LastBack \/ LastFound

Done == pc = "done" /\ UNCHANGED vars

Next == Step \/ Done

Spec == Init /\ [][Next]_vars

(* The function runs to its end without waiting for anything. *)
FairSpec == Spec /\ WF_vars(Step)

-----------------------------------------------------------------------------
(***************************************************************************)
(* Properties.                                                             *)
(***************************************************************************)
StabTypeOK ==
  /\ stabs \in [Index -> Stabs]
  /\ lo \in 0..NStabs /\ hi \in lo-1..NStabs-1 /\ target \in Targets
  /\ region_left \in lo-1..NStabs /\ region_right \in lo-1..hi
  /\ addr \in Nat /\ l \in lo-1..NStabs /\ r \in lo-1..hi
  /\ true_m \in Int /\ m \in Int /\ any_matches \in {0, 1}
  /\ pc \in {"while", "scan", "last", "done"}

(* Every entry the search reads lies in the region it was given, whether   *)
(* the table is in order or not.                                           *)
ReadsInRegion ==
  /\ pc = "scan" /\ m >= l => m \in lo..hi
  /\ pc = "last" /\ l > region_left => l \in lo..hi

Entries == {k \in lo..hi : Matches(k)}

(* The entries are in increasing order of address, as the caller needs;    *)
(* the search itself runs on any table.                                    *)
InOrder ==
  \A j, k \in Entries : j < k => stabs[j].n_value <= stabs[k].n_value

(* The entries at or below the target. *)
AtOrBelow == {k \in Entries : stabs[k].n_value <= target}

(* No entry begins one address after the target when another one begins at *)
(* the target: there addr++ makes the search go on to the wrong entry.     *)
NoAdjacent ==
  \A j, k \in Entries :
    stabs[j].n_value = target => stabs[k].n_value # target + 1

(* k is the last entry of S. *)
IsLast(k, S) == k \in S /\ \A j \in S : j <= k

(* The left end is the entry that contains the target, the last one at or  *)
(* below it, and the right end lies just before the next entry.            *)
RegionOfTarget ==
  /\ IsLast(region_left, AtOrBelow)
  /\ \A k \in Entries : k <= region_right <=> k \in AtOrBelow
  /\ region_right = hi \/ region_right + 1 \in Entries

(* As far as stab_binsearch keeps what kdebug.c:31-34 says of its result,  *)
(* in a region in order: where an entry contains the target, and no other  *)
(* one begins right behind an entry that is exactly there, the result is   *)
(* that entry and its region; an empty region means that no entry contains *)
(* the target; and a region without entries becomes empty.  Nothing is     *)
(* said of the two cases left over, a target below every entry and an      *)
(* entry right behind an exact match: see ContainsOrEmpty.                 *)
Brackets ==
  pc = "done" /\ InOrder =>
    /\ AtOrBelow # {} /\ NoAdjacent => RegionOfTarget
    /\ region_left > region_right => AtOrBelow = {}
    /\ Entries = {} => region_left > region_right

(* What kdebug.c:31-34 says without exception: "*region_left points to the *)
(* matching stab that contains 'addr', and *region_right points just       *)
(* before the next stab.  If *region_left > *region_right, then 'addr' is  *)
(* not contained in any matching stab."  The code does not keep this: we   *)
(* expect it to be violated.                                               *)
ContainsOrEmpty ==
  pc = "done" /\ InOrder =>
    IF region_left > region_right THEN AtOrBelow = {} ELSE RegionOfTarget

(* The search ends: after an exact match l does not move, but addr does. *)
Terminates == <>(pc = "done")
=============================================================================
