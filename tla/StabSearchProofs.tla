-------------------------- MODULE StabSearchProofs --------------------------
(***************************************************************************)
(* stab_binsearch reads only entries of the region it was given, returns   *)
(* what Brackets says and comes to an end, for every symbol table, region  *)
(* and address.                                                            *)
(***************************************************************************)
EXTENDS StabSearch, TLAPS

(* Nothing of the searched type lies between the left end and l. *)
LeftEnd ==
  \/ region_left = lo /\ \A k \in Entries : k >= l
  \/ /\ region_left \in Entries
     /\ region_left <= l /\ region_left <= region_right
     /\ stabs[region_left].n_value < addr
     /\ \A k \in Entries : k < l => k <= region_left

(* addr is one too high only after an exact match, and everything to the   *)
(* right of the region is above it.                                        *)
AddrExact ==
  /\ addr = target \/ /\ addr = target + 1
                      /\ \E k \in Entries : stabs[k].n_value = target
  /\ \A k \in Entries : k > region_right => stabs[k].n_value > addr

(* The loop invariant of the binary search. *)
LoopInv ==
  /\ r = region_right
  /\ l \in lo..hi+1
  /\ region_right = hi \/ region_right + 1 \in Entries
  /\ any_matches = 1 => Entries # {}
  /\ any_matches = 0 => /\ region_left = lo
                     /\ region_right = hi
                     /\ \A k \in Entries : k >= l
  /\ InOrder => \A k \in Entries : k < l => stabs[k].n_value < addr
  /\ LeftEnd
  /\ InOrder /\ NoAdjacent => AddrExact

ScanInv ==
  /\ l <= true_m
  /\ true_m <= r
  /\ m \in l-1..true_m
  /\ \A k \in Entries : k <= m \/ k > true_m

(* The invariant of the last loop. *)
LastInv ==
  /\ any_matches = 1
  /\ Entries # {}
  /\ l <= region_right
  /\ l >= region_left \/ l = region_right
  /\ region_right = hi \/ region_right + 1 \in Entries
  /\ InOrder => \A k \in Entries : k <= region_right => stabs[k].n_value < addr
  /\ \/ region_left = lo /\ \A k \in Entries : k > region_right
     \/ /\ region_left \in Entries /\ region_left <= region_right
        /\ stabs[region_left].n_value < addr
        /\ \A k \in Entries : k <= region_right => k <= region_left
  /\ InOrder /\ NoAdjacent => AddrExact

(* What is returned from a region in any order: an empty region, or one    *)
(* that starts at an entry or where it did; or both ends just before a     *)
(* first entry that is above the target.                                   *)
Returned ==
  \/ region_left = lo /\ region_right = lo - 1
  \/ region_left \in {lo} \cup Entries /\ region_left <= region_right
  \/ region_left = lo - 1 /\ region_right = lo - 1 /\ lo \in Entries

(* The inductive invariant. *)
SearchInv ==
  /\ StabTypeOK
  /\ pc \in {"while", "scan"} => LoopInv
  /\ pc = "scan" => ScanInv
  /\ pc = "last" => LastInv
  /\ pc = "done" => Returned
  /\ Brackets

-----------------------------------------------------------------------------

(* The values that the search compares are numbers. *)
LEMMA ValueType ==
  ASSUME StabTypeOK
  PROVE  \A k \in lo..hi : k \in Index /\ stabs[k].n_value \in Nat
<1> SUFFICES ASSUME NEW k \in lo..hi
             PROVE  k \in Index /\ stabs[k].n_value \in Nat
  OBVIOUS
<1>1. k \in Index
  BY StabAssumption DEF StabTypeOK, Index
<1>2. stabs[k] \in Stabs
  BY <1>1 DEF StabTypeOK
<1> QED
  BY <1>1, <1>2, StabAssumption

(* The search starts with its invariant. *)
LEMMA InitInv == Init => SearchInv
<1> SUFFICES ASSUME Init PROVE SearchInv
  OBVIOUS
<1>1. StabTypeOK
  BY StabAssumption DEF Init, StabTypeOK
<1>2. LoopInv
  BY <1>1, ValueType DEF Init, LoopInv, LeftEnd, AddrExact, Entries, StabTypeOK
<1> QED
  BY <1>1, <1>2 DEF Init, SearchInv, Brackets

(* The arguments never change, and what is said of them neither. *)
LEMMA ArgsStable ==
  ASSUME UNCHANGED args
  PROVE  /\ stabs' = stabs /\ lo' = lo /\ hi' = hi /\ target' = target
         /\ Entries' = Entries
         /\ AtOrBelow' = AtOrBelow
         /\ NoAdjacent' = NoAdjacent
         /\ InOrder' = InOrder
BY DEF args, Entries, Matches, AtOrBelow, NoAdjacent, InOrder

(* A step of the scan for the right type. *)
LEMMA ScanStep ==
  ASSUME SearchInv, Midpoint \/ ScanBack
  PROVE  SearchInv'
<1>1. UNCHANGED args /\ UNCHANGED <<region_left, region_right, addr, l, r, any_matches>>
  BY DEF Midpoint, ScanBack
<1>2. LoopInv /\ pc' = "scan"
  BY DEF SearchInv, Midpoint, ScanBack
<1>3. StabTypeOK'
  <2>1. true_m' \in Int /\ m' \in Int
    BY StabAssumption DEF SearchInv, StabTypeOK, Midpoint, ScanBack
  <2> QED
    BY <1>1, <1>2, <2>1, ArgsStable DEF SearchInv, StabTypeOK, Index
<1>4. LoopInv'
  BY <1>1, <1>2, ArgsStable DEF LoopInv, LeftEnd, AddrExact
<1>5. ScanInv'
  <2>1. CASE Midpoint
    BY <1>1, <2>1, ArgsStable DEF Midpoint, SearchInv, StabTypeOK, ScanInv, Entries
  <2>2. CASE ScanBack
    BY <1>1, <2>2, ArgsStable DEF ScanBack, SearchInv, StabTypeOK, ScanInv, Entries, Matches
  <2> QED
    BY <2>1, <2>2
<1> QED
  BY <1>1, <1>2, <1>3, <1>4, <1>5, ArgsStable DEF SearchInv, Brackets

(* Nothing of the right type up to the midpoint. *)
LEMMA NoMatchStep ==
  ASSUME SearchInv, NoMatch
  PROVE  SearchInv'
<1>1. UNCHANGED args
  BY DEF NoMatch
<1>2. LoopInv /\ ScanInv /\ StabTypeOK
  BY DEF SearchInv, NoMatch
<1>3. \A k \in Entries : k < l' => k < l
  BY <1>2 DEF NoMatch, ScanInv, StabTypeOK, Entries
<1>4. l <= l' /\ l' \in lo..hi+1
  BY <1>2 DEF NoMatch, ScanInv, LoopInv, StabTypeOK
<1>5. LeftEnd'
  <2>1. CASE region_left = lo /\ \A k \in Entries : k >= l
    BY <1>1, <1>2, <1>3, <1>4, <2>1, ArgsStable
      DEF NoMatch, LeftEnd, Entries, StabTypeOK
  <2>2. CASE ~ (region_left = lo /\ \A k \in Entries : k >= l)
    BY <1>1, <1>2, <1>3, <1>4, <2>2, ArgsStable
      DEF NoMatch, LoopInv, LeftEnd, Entries, StabTypeOK
  <2> QED
    BY <2>1, <2>2
<1>6. LoopInv'
  <2>1. AddrExact' = AddrExact
    BY <1>1, ArgsStable DEF NoMatch, AddrExact
  <2> QED
    BY <1>1, <1>2, <1>3, <1>4, <1>5, <2>1, ArgsStable
      DEF NoMatch, LoopInv, Entries, StabTypeOK
<1>7. StabTypeOK'
  BY <1>1, <1>2, <1>4, ArgsStable, StabAssumption DEF NoMatch, StabTypeOK, Index
<1> QED
  BY <1>1, <1>6, <1>7, ArgsStable DEF NoMatch, SearchInv, Brackets

(* Any two entries are in order. *)
LEMMA EntriesInOrder ==
  ASSUME StabTypeOK, InOrder, NEW j \in Entries, NEW k \in Entries, j <= k
  PROVE  stabs[j].n_value <= stabs[k].n_value
BY ValueType DEF InOrder, Entries, StabTypeOK

(* The entry found lies below addr: it is the left end so far. *)
LEMMA BelowStep ==
  ASSUME SearchInv, Below
  PROVE  SearchInv'
<1>1. UNCHANGED args
  BY DEF Below
<1>2. LoopInv /\ ScanInv /\ StabTypeOK
  BY DEF SearchInv, Below, Found
<1>3. m \in Entries
  BY <1>2 DEF Below, Found, ScanInv, LoopInv, StabTypeOK, Entries
<1>4. l <= l' /\ l' \in lo..hi+1 /\ m < l'
  BY <1>2 DEF Below, ScanInv, LoopInv, StabTypeOK
<1>5. \A k \in Entries : k < l' => k <= m
  BY <1>2 DEF Below, ScanInv, StabTypeOK, Entries
<1>6. InOrder => \A k \in Entries : k < l' => stabs[k].n_value < addr
  BY <1>2, <1>3, <1>5, EntriesInOrder, ValueType DEF Below, Entries, StabTypeOK
<1>7. LeftEnd'
  <2>1. m <= region_right
    BY <1>2 DEF ScanInv, LoopInv, StabTypeOK
  <2> QED
    BY <1>1, <1>2, <1>3, <1>4, <1>5, <2>1, ArgsStable
      DEF Below, LeftEnd, StabTypeOK, Entries
<1>8. LoopInv'
  <2>1. AddrExact' = AddrExact
    BY <1>1, ArgsStable DEF Below, AddrExact
  <2> QED
    BY <1>1, <1>2, <1>3, <1>4, <1>6, <1>7, <2>1, ArgsStable DEF Below, LoopInv
<1>9. StabTypeOK'
  BY <1>1, <1>2, <1>3, <1>4, ArgsStable, StabAssumption
    DEF Below, StabTypeOK, Index, Entries
<1> QED
  BY <1>1, <1>2, <1>8, <1>9, ArgsStable DEF Below, SearchInv, Brackets

(* The entry found lies above addr: the region ends before it. *)
LEMMA AboveStep ==
  ASSUME SearchInv, Above
  PROVE  SearchInv'
<1>1. UNCHANGED args
  BY DEF Above, Before
<1>2. LoopInv /\ ScanInv /\ StabTypeOK
  BY DEF SearchInv, Above, Before, Found
<1>3. m \in Entries /\ m \in lo..hi
  BY <1>2 DEF Above, Before, Found, ScanInv, LoopInv, StabTypeOK, Entries
<1>4. InOrder => \A k \in Entries : k > m - 1 => stabs[k].n_value > addr
  BY <1>2, <1>3, EntriesInOrder, ValueType DEF Above, Before, Entries, StabTypeOK
<1>5. InOrder /\ NoAdjacent => AddrExact'
  BY <1>1, <1>2, <1>4, ArgsStable DEF Above, Before, LoopInv, AddrExact
<1>6. LeftEnd'
  <2>1. CASE region_left = lo /\ \A k \in Entries : k >= l
    BY <1>1, <2>1, ArgsStable DEF Above, LeftEnd
  <2>2. CASE ~ (region_left = lo /\ \A k \in Entries : k >= l)
    <3>1. region_left <= l /\ region_left # m
      BY <1>2, <2>2, <1>3, ValueType DEF Above, LoopInv, LeftEnd, StabTypeOK
    <3>2. region_left <= m - 1
      BY <1>2, <1>3, <3>1 DEF Above, Found, StabTypeOK
    <3> QED
      BY <1>1, <1>2, <2>2, <3>2, ArgsStable DEF Above, Before, LoopInv, LeftEnd
  <2> QED
    BY <2>1, <2>2
<1>7. LoopInv'
  <2>1. r' = region_right' /\ l' \in lo'..hi'+1
    BY <1>1, <1>2, ArgsStable DEF Above, Before, LoopInv
  <2>2. region_right' + 1 \in Entries' /\ any_matches' = 1
    BY <1>1, <1>2, <1>3, ArgsStable DEF Above, Before, StabTypeOK
  <2>3. InOrder' => \A k \in Entries' : k < l' => stabs'[k].n_value < addr'
    BY <1>1, <1>2, ArgsStable DEF Above, Before, LoopInv
  <2> QED
    BY <1>1, <1>5, <1>6, <2>1, <2>2, <2>3, ArgsStable DEF LoopInv
<1>8. StabTypeOK'
  BY <1>1, <1>2, <1>3, ArgsStable DEF Above, Before, StabTypeOK, Index
<1> QED
  BY <1>1, <1>2, <1>7, <1>8, ArgsStable DEF Above, Before, SearchInv, Brackets

(* The entry found is exactly at addr: go on for addr + 1 from there. *)
LEMMA ExactStep ==
  ASSUME SearchInv, Exact
  PROVE  SearchInv'
<1>1. UNCHANGED args
  BY DEF Exact, NextAddr
<1>2. LoopInv /\ ScanInv /\ StabTypeOK
  BY DEF SearchInv, Exact, NextAddr, Found
<1>3. m \in Entries /\ m \in lo..hi
  BY <1>2 DEF Exact, NextAddr, Found, ScanInv, LoopInv, StabTypeOK, Entries
<1>4. InOrder => \A k \in Entries : k < m => stabs[k].n_value < addr + 1
  BY <1>2, <1>3, EntriesInOrder, ValueType DEF Exact, NextAddr, Entries, StabTypeOK
<1>5. InOrder /\ NoAdjacent => AddrExact'
  <2> SUFFICES ASSUME InOrder, NoAdjacent PROVE AddrExact'
    OBVIOUS
  <2>1. addr = target
    BY <1>2, <1>3 DEF Exact, NextAddr, LoopInv, AddrExact, NoAdjacent
  <2>2. \A k \in Entries : k > region_right => stabs[k].n_value > addr + 1
    BY <1>2, <1>3, <2>1, ValueType
      DEF Exact, NextAddr, LoopInv, AddrExact, NoAdjacent, StabTypeOK, Entries
  <2> QED
    BY <1>1, <1>3, <2>1, <2>2, ArgsStable DEF Exact, NextAddr, AddrExact
<1>6. LeftEnd'
  <2>1. m <= region_right
    BY <1>2 DEF ScanInv, LoopInv, StabTypeOK
  <2> QED
    BY <1>1, <1>2, <1>3, <2>1, ArgsStable, ValueType
      DEF Exact, NextAddr, LeftEnd, StabTypeOK, Entries
<1>7. LoopInv'
  <2>1. r' = region_right' /\ l' \in lo'..hi'+1 /\ any_matches' = 1
    BY <1>1, <1>2, <1>3, ArgsStable DEF Exact, NextAddr, LoopInv, StabTypeOK
  <2>2. region_right' = hi' \/ region_right' + 1 \in Entries'
    BY <1>1, <1>2, ArgsStable DEF Exact, NextAddr, LoopInv
  <2>3. Entries' # {}
    BY <1>1, <1>3, ArgsStable
  <2>4. InOrder' => \A k \in Entries' : k < l' => stabs'[k].n_value < addr'
    BY <1>1, <1>4, ArgsStable DEF Exact, NextAddr
  <2> QED
    BY <1>1, <1>5, <1>6, <2>1, <2>2, <2>3, <2>4, ArgsStable DEF LoopInv
<1>8. StabTypeOK'
  BY <1>1, <1>2, <1>3, ArgsStable, StabAssumption DEF Exact, NextAddr, StabTypeOK, Index
<1> QED
  BY <1>1, <1>2, <1>7, <1>8, ArgsStable DEF Exact, NextAddr, SearchInv, Brackets

(* The loop ends without having met an entry: there is none. *)
LEMMA NothingStep ==
  ASSUME SearchInv, NothingMatched
  PROVE  SearchInv'
<1>1. UNCHANGED args
  BY DEF NothingMatched
<1>2. LoopInv /\ StabTypeOK
  BY DEF SearchInv, NothingMatched
<1>3. Entries = {}
  BY <1>2 DEF NothingMatched, LoopInv, StabTypeOK, Entries
<1>4. StabTypeOK'
  BY <1>1, <1>2, ArgsStable DEF NothingMatched, LoopInv, StabTypeOK, Index
<1>5. AtOrBelow = {}
  BY <1>3 DEF AtOrBelow
<1>6. Brackets'
  BY <1>1, <1>2, <1>3, <1>5, ArgsStable DEF NothingMatched, LoopInv, StabTypeOK, Brackets
<1>7. Returned'
  BY <1>1, <1>2, ArgsStable DEF NothingMatched, LoopInv, StabTypeOK, Returned
<1> QED
  BY <1>1, <1>2, <1>4, <1>6, <1>7, ArgsStable DEF NothingMatched, SearchInv

(* The loop ends after it has met an entry. *)
LEMMA SomeStep ==
  ASSUME SearchInv, SomeMatched
  PROVE  SearchInv'
<1>1. UNCHANGED args
  BY DEF SomeMatched, LastOfRegion
<1>2. LoopInv /\ StabTypeOK
  BY DEF SearchInv, SomeMatched, LastOfRegion
<1>3. \A k \in Entries : k <= region_right => k < l
  BY <1>2 DEF SomeMatched, LastOfRegion, LoopInv, StabTypeOK, Entries
<1>4. AddrExact' = AddrExact
  BY <1>1, ArgsStable DEF SomeMatched, LastOfRegion, AddrExact
<1>5. \/ region_left = lo /\ \A k \in Entries : k > region_right
      \/ /\ region_left \in Entries /\ region_left <= region_right
         /\ stabs[region_left].n_value < addr
         /\ \A k \in Entries : k <= region_right => k <= region_left
  <2>1. CASE region_left = lo /\ \A k \in Entries : k >= l
    BY <1>2, <2>1 DEF SomeMatched, LastOfRegion, LoopInv, StabTypeOK, Entries
  <2>2. CASE ~ (region_left = lo /\ \A k \in Entries : k >= l)
    BY <1>2, <1>3, <2>2 DEF LoopInv, LeftEnd
  <2> QED
    BY <2>1, <2>2
<1>6. LastInv'
  <2>1. l' = region_right' /\ any_matches' = 1 /\ Entries' # {} /\ l' <= region_right'
    BY <1>1, <1>2, ArgsStable DEF SomeMatched, LastOfRegion, LoopInv, StabTypeOK
  <2>2. InOrder => \A k \in Entries : k <= region_right => stabs[k].n_value < addr
    BY <1>2, <1>3 DEF LoopInv
  <2> QED
    BY <1>1, <1>2, <1>4, <1>5, <2>1, <2>2, ArgsStable DEF SomeMatched, LastOfRegion, LastInv, LoopInv
<1>7. StabTypeOK'
  BY <1>1, <1>2, ArgsStable, StabAssumption DEF SomeMatched, LastOfRegion, StabTypeOK, Index
<1> QED
  BY <1>1, <1>2, <1>6, <1>7, ArgsStable DEF SomeMatched, LastOfRegion, SearchInv, Brackets

(* A turn of the last loop. *)
LEMMA LastBackStep ==
  ASSUME SearchInv, LastBack
  PROVE  SearchInv'
<1>1. UNCHANGED args
  BY DEF LastBack
<1>2. LastInv /\ StabTypeOK
  BY DEF SearchInv, LastBack
<1>3. l' <= region_right /\ l' >= region_left /\ l' \in lo-1..NStabs
  BY <1>2, StabAssumption DEF LastBack, LastInv, StabTypeOK
<1>4. LastInv'
  <2>1. AddrExact' = AddrExact
    BY <1>1, ArgsStable DEF LastBack, AddrExact
  <2> QED
    BY <1>1, <1>2, <1>3, <2>1, ArgsStable DEF LastBack, LastInv
<1>5. StabTypeOK'
  BY <1>1, <1>2, <1>3, ArgsStable DEF LastBack, StabTypeOK, Index
<1> QED
  BY <1>1, <1>2, <1>4, <1>5, ArgsStable DEF LastBack, SearchInv, Brackets

(* The last loop ends where it has to, at the left end that the binary     *)
(* search had found already.                                               *)
LEMMA LastFoundStep ==
  ASSUME SearchInv, LastFound
  PROVE  SearchInv'
<1>1. UNCHANGED args
  BY DEF LastFound
<1>2. LastInv /\ StabTypeOK
  BY DEF SearchInv, LastFound
<1>3. StabTypeOK'
  BY <1>1, <1>2, ArgsStable DEF LastFound, StabTypeOK, Index
<1>4. l <= region_left
  <2> SUFFICES ASSUME l > region_left PROVE FALSE
    BY <1>2 DEF StabTypeOK
  <2>1. l \in lo..hi
    BY <1>2 DEF LastInv, StabTypeOK, Entries
  <2>2. l \in Entries /\ l <= region_right
    BY <1>2, <2>1 DEF LastFound, LastInv, Entries
  <2> QED
    BY <1>2, <2>1, <2>2 DEF LastInv, StabTypeOK
<1>5. ASSUME InOrder, NoAdjacent
      PROVE  \A k \in Entries : k <= region_right <=> k \in AtOrBelow
  <2> SUFFICES ASSUME NEW k \in Entries
               PROVE  k <= region_right <=> stabs[k].n_value <= target
    BY DEF AtOrBelow
  <2>1. stabs[k].n_value \in Nat /\ target \in Nat /\ k \in Int /\ region_right \in Int
    BY <1>2, ValueType, StabAssumption DEF Entries, StabTypeOK
  <2>2. k <= region_right => stabs[k].n_value < addr
    BY <1>2, <1>5 DEF LastInv
  <2>3. k > region_right => stabs[k].n_value > addr
    BY <1>2, <1>5 DEF LastInv, AddrExact
  <2>4. addr = target \/ addr = target + 1
    BY <1>2, <1>5 DEF LastInv, AddrExact
  <2> QED
    BY <2>1, <2>2, <2>3, <2>4
<1>6. ASSUME InOrder, NoAdjacent, AtOrBelow # {}
      PROVE  IsLast(l, AtOrBelow)
  <2>1. PICK j \in AtOrBelow : TRUE
    BY <1>6
  <2>2. j \in Entries /\ j <= region_right
    BY <1>5, <1>6 DEF AtOrBelow
  <2>3. /\ region_left \in Entries
        /\ stabs[region_left].n_value < addr
        /\ \A k \in Entries : k <= region_right => k <= region_left
    BY <1>2, <2>2 DEF LastInv, StabTypeOK, Entries
  <2>4. region_left <= region_right
    <3>1. ~ (stabs[region_left].n_value > addr)
      BY <1>2, <2>3, ValueType DEF StabTypeOK, Entries
    <3> QED
      BY <1>2, <1>6, <2>3, <3>1 DEF LastInv, AddrExact, StabTypeOK
  <2>5. l = region_left
    BY <1>2, <1>4, <2>4 DEF LastInv, StabTypeOK
  <2> QED
    BY <1>5, <1>6, <2>3, <2>4, <2>5 DEF IsLast, AtOrBelow
<1>7. ASSUME InOrder, NoAdjacent, AtOrBelow # {}
      PROVE  RegionOfTarget'
  BY <1>1, <1>2, <1>5, <1>6, <1>7, ArgsStable DEF LastFound, LastInv, RegionOfTarget, IsLast
<1>8. Brackets'
  <2>1. Entries' # {} /\ ~ (region_left' > region_right')
    BY <1>1, <1>2, ArgsStable DEF LastFound, LastInv, StabTypeOK
  <2> QED
    BY <1>1, <1>7, <2>1, ArgsStable DEF Brackets
<1>9. Returned'
  <2>1. region_left' = l /\ region_right' = region_right /\ Entries' = Entries /\ lo' = lo
    BY <1>1, ArgsStable DEF LastFound
  <2>2. CASE l = region_left
    BY <1>2, <2>1, <2>2 DEF LastInv, Returned
  <2>3. CASE l # region_left
    <3>1. l = region_right /\ region_right < region_left
      BY <1>2, <1>4, <2>3 DEF LastInv, StabTypeOK
    <3>2. region_left = lo /\ region_right = lo - 1
      BY <1>2, <3>1 DEF LastInv, StabTypeOK
    <3>3. lo \in Entries
      BY <1>2, <3>2 DEF LastInv, StabTypeOK, Entries
    <3> QED
      BY <2>1, <3>1, <3>2, <3>3 DEF Returned
  <2> QED
    BY <2>2, <2>3
<1> QED
  BY <1>1, <1>2, <1>3, <1>8, <1>9, ArgsStable DEF LastFound, SearchInv

(* Nothing changes once the search is done, or in a stuttering step. *)
LEMMA StutterStep ==
  ASSUME SearchInv, UNCHANGED vars
  PROVE  SearchInv'
<1>1. UNCHANGED args /\ UNCHANGED locals /\ UNCHANGED pc
  BY DEF vars
<1>2. StabTypeOK'
  BY <1>1, ArgsStable DEF SearchInv, StabTypeOK, locals, Index
<1>3. LoopInv' = LoopInv /\ ScanInv' = ScanInv /\ LastInv' = LastInv
  BY <1>1, ArgsStable DEF locals, LoopInv, ScanInv, LastInv, LeftEnd, AddrExact
<1>4. Brackets' = Brackets /\ Returned' = Returned
  BY <1>1, ArgsStable DEF locals, Brackets, RegionOfTarget, IsLast, Returned
<1> QED
  BY <1>1, <1>2, <1>3, <1>4, ArgsStable DEF SearchInv

(* Every step preserves the invariant. *)
LEMMA NextInv == SearchInv /\ [Next]_vars => SearchInv'
BY ScanStep, NoMatchStep, BelowStep, AboveStep, ExactStep, NothingStep, SomeStep,
   LastBackStep, LastFoundStep, StutterStep
   DEF Next, Step, Done

(* The invariant of the search holds in every state, on any table. *)
THEOREM SearchInvariant == Spec => []SearchInv
BY InitInv, NextInv, PTL DEF Spec

(* The variables of stab_binsearch keep their types. *)
THEOREM TypeCorrect == Spec => []StabTypeOK
<1>1. SearchInv => StabTypeOK
  BY DEF SearchInv
<1> QED
  BY <1>1, SearchInvariant, PTL

(* stab_binsearch never reads an entry outside the region it was given,    *)
(* even in a table that is out of order.                                   *)
THEOREM ReadsAreSafe == Spec => []ReadsInRegion
<1>1. SearchInv => ReadsInRegion
  BY DEF SearchInv, StabTypeOK, LoopInv, ScanInv, LastInv, ReadsInRegion, Entries
<1> QED
  BY <1>1, SearchInvariant, PTL

(* What stab_binsearch returns from a region in order: where an entry      *)
(* contains the target and none begins right behind an exact match, that   *)
(* entry and its region, and an empty region only where none contains it.  *)
THEOREM BracketsCorrect == Spec => []Brackets
<1>1. SearchInv => Brackets
  BY DEF SearchInv
<1> QED
  BY <1>1, SearchInvariant, PTL

-----------------------------------------------------------------------------
(***************************************************************************)
(* Why the search ends.                                                    *)
(***************************************************************************)
(* What is left of the binary search: two for each entry between l and r,  *)
(* and one more while the entry at l may still be an exact match; after    *)
(* one, l may stay where it is, but addr has moved on.                     *)
Left ==
  IF pc \in {"while", "scan"} /\ l <= r
    THEN (2 * (r - l + 1)) + (IF stabs[l].n_value = addr THEN 1 ELSE 0)
    ELSE 0

(* What is left of one turn, and of the last loop. *)
LeftOfTurn ==
  CASE pc = "while" -> NStabs + 2
    [] pc = "scan"  -> m - l + 1
    [] pc = "last"  -> l - region_left + 1
    [] OTHER        -> 0

Stage ==
  CASE pc \in {"while", "scan"} -> 2
    [] pc = "last"              -> 1
    [] OTHER                    -> 0

(* The search comes nearer to its end. *)
Nearer ==
  \/ Stage' < Stage
  \/ Stage' = Stage /\ Left' < Left
  \/ Stage' = Stage /\ Left' = Left /\ LeftOfTurn' < LeftOfTurn

LEMMA MeasureType ==
  ASSUME SearchInv
  PROVE  Stage \in Nat /\ Left \in Nat /\ LeftOfTurn \in Nat
<1>1. StabTypeOK /\ NStabs \in Nat
  BY StabAssumption DEF SearchInv
<1>2. Stage \in Nat
  BY DEF Stage
<1>3. Left \in Nat
  BY <1>1 DEF Left, StabTypeOK
<1>4. LeftOfTurn \in Nat
  <2>1. pc = "scan" => m - l + 1 \in Nat
    BY <1>1 DEF SearchInv, ScanInv, StabTypeOK
  <2>2. pc = "last" => l - region_left + 1 \in Nat
    BY <1>1 DEF SearchInv, LastInv, StabTypeOK, Entries
  <2> QED
    BY <1>1, <2>1, <2>2 DEF LeftOfTurn
<1> QED
  BY <1>2, <1>3, <1>4

LEMMA TurnNearer ==
  ASSUME SearchInv, Midpoint \/ ScanBack
  PROVE  Nearer
<1>1. StabTypeOK /\ LoopInv
  BY DEF SearchInv, Midpoint, ScanBack
<1>2. /\ stabs' = stabs /\ l' = l /\ r' = r /\ addr' = addr /\ pc' = "scan"
      /\ pc \in {"while", "scan"}
  BY DEF Midpoint, ScanBack, args
<1>3. Stage' = Stage /\ Left' = Left
  BY <1>2 DEF Stage, Left
<1>4. CASE Midpoint
  <2>1. l \in Nat /\ r <= NStabs - 1 /\ NStabs \in Nat /\ r \in Int
    BY <1>1, StabAssumption DEF StabTypeOK, LoopInv
  <2>2. PICK q \in Int : q = m' /\ q <= r
    BY <1>1, <1>4 DEF Midpoint, StabTypeOK
  <2>3. LeftOfTurn = NStabs + 2 /\ LeftOfTurn' = q - l + 1
    BY <1>2, <1>4, <2>2 DEF LeftOfTurn, Midpoint
  <2>4. q - l + 1 < NStabs + 2
    <3>1. q <= r
      BY <2>2
    <3> QED
      BY <2>1, <3>1
  <2> QED
    BY <1>3, <2>3, <2>4 DEF Nearer
<1>5. CASE ScanBack
  BY <1>1, <1>2, <1>3, <1>5 DEF ScanBack, LeftOfTurn, Nearer, StabTypeOK
<1> QED
  BY <1>4, <1>5

LEMMA FoundNearer ==
  ASSUME SearchInv, NoMatch \/ Below \/ Above \/ Exact
  PROVE  Nearer
<1>1. StabTypeOK /\ LoopInv /\ ScanInv
  BY DEF SearchInv, NoMatch, Below, Above, Exact, Found
<1>2. stabs' = stabs /\ pc = "scan" /\ pc' = "while"
  BY DEF NoMatch, Below, Above, Exact, Found, args
<1>3. l \in Int /\ r \in Int /\ m \in Int /\ true_m \in Int /\ l <= true_m /\ true_m <= r
  BY <1>1 DEF StabTypeOK, ScanInv
<1>4. Left = (2 * (r - l + 1)) + (IF stabs[l].n_value = addr THEN 1 ELSE 0)
  BY <1>2, <1>3 DEF Left
<1>5. Left' = IF l' <= r' THEN (2 * (r' - l' + 1)) + (IF stabs[l'].n_value = addr' THEN 1 ELSE 0)
              ELSE 0
  BY <1>2 DEF Left
<1>6. Left' < Left
  <2>1. CASE NoMatch \/ Below
    <3>1. l' = true_m + 1 /\ r' = r
      BY <2>1 DEF NoMatch, Below
    <3> QED
      BY <1>3, <1>4, <1>5, <3>1
  <2>2. CASE Above
    <3>1. l' = l /\ r' = m - 1 /\ addr' = addr /\ m <= true_m
      BY <1>1, <1>3, <2>2 DEF Above, Before, ScanInv
    <3> QED
      BY <1>3, <1>4, <1>5, <3>1
  <2>3. CASE Exact
    <3>1. /\ l' = m /\ r' = r /\ addr' = addr + 1 /\ m >= l /\ m <= true_m
          /\ stabs[m].n_value = addr /\ addr \in Nat
      BY <1>1, <1>3, <2>3 DEF Exact, NextAddr, Found, ScanInv, StabTypeOK
    <3>2. Left' = 2 * (r - m + 1)
      BY <1>3, <1>5, <3>1
    <3> QED
      BY <1>3, <1>4, <3>1, <3>2
  <2> QED
    BY <2>1, <2>2, <2>3
<1>7. Stage' = Stage
  BY <1>2 DEF Stage
<1> QED
  BY <1>6, <1>7 DEF Nearer

LEMMA EndNearer ==
  ASSUME SearchInv, NothingMatched \/ SomeMatched \/ LastBack \/ LastFound
  PROVE  Nearer
<1>1. CASE NothingMatched \/ SomeMatched \/ LastFound
  BY <1>1 DEF NothingMatched, SomeMatched, LastFound, Stage, Nearer
<1>2. CASE LastBack
  <2>1. StabTypeOK
    BY DEF SearchInv
  <2> QED
    BY <1>2, <2>1 DEF LastBack, Stage, Left, LeftOfTurn, Nearer, StabTypeOK
<1> QED
  BY <1>1, <1>2

LEMMA StepNearer ==
  ASSUME SearchInv, Step
  PROVE  Nearer
BY TurnNearer, FoundNearer, EndNearer DEF Step

(* Every step of stab_binsearch, on any table, in order or not, brings it  *)
(* nearer to its end, in an order of natural numbers in which nothing goes *)
(* down for ever: there is no endless search, although an exact match      *)
(* leaves the region as it is.                                             *)
THEOREM SearchProgresses ==
  Spec => /\ [](Stage \in Nat /\ Left \in Nat /\ LeftOfTurn \in Nat)
          /\ [][Nearer]_vars
<1>1. SearchInv /\ [Next]_vars => [Nearer]_vars
  BY StepNearer DEF Next, Done
<1> QED
  BY <1>1, MeasureType, SearchInvariant, PTL DEF Spec
=============================================================================
