---------------------------- MODULE KdebugProofs ----------------------------
(***************************************************************************)
(* debuginfo_eip reads inside the symbol table and finds what Located      *)
(* says, for every table with a header and every kernel address.  The      *)
(* invariant of stab_binsearch, proved in StabSearchProofs, is taken over  *)
(* for each of the three searches.                                         *)
(***************************************************************************)
EXTENDS Kdebug, TLAPS

FileThm == INSTANCE StabSearchProofs WITH
             Stabs <- Stab, Targets <- Address, Type <- "SO"
FunThm  == INSTANCE StabSearchProofs WITH
             Stabs <- Stab, Targets <- Address, Type <- "FUN"
LineThm == INSTANCE StabSearchProofs WITH
             Stabs <- Stab, Targets <- Address, Type <- "SLINE"

(* What was given. *)
TableOK ==
  /\ stabs \in [Index -> Stab] /\ stabs[0].n_type # "SO" /\ eip \in Address

InfoOK ==
  info \in [file : Int, line : Int, fn : Int, fn_addr : Int, narg : Nat]

Searches == {"SO", "FUN", "SLINE"}

(* The search under way is the one that the phase says, in the region that *)
(* the one before it found.                                                *)
SearchOK ==
  /\ phase \notin Searches => pc = "done"
  /\ phase = "SO" => /\ FileThm!SearchInv
                     /\ lo = 0 /\ hi = NStabs - 1 /\ target = eip
  /\ phase = "FUN" => /\ FunThm!SearchInv
                      /\ lo = lfile /\ hi = rfile /\ target = eip
  /\ phase = "SLINE" =>
       /\ LineThm!SearchInv
       /\ lo >= lfile /\ hi <= rfile
       /\ lfun <= rfun =>
            /\ lo = lfun /\ hi = rfun
            /\ target = (eip - stabs[lfun].n_value) % AddrSpace

InSource == phase \in {"FUN", "SLINE", "file", "args", "ok"}
InCode   == phase \in {"SLINE", "file", "args", "ok"}

(* The ends of the regions that were found. *)
EndsOK ==
  /\ lfile \in Int /\ rfile \in Int /\ lfun \in Int /\ rfun \in Int /\ lline \in Int
  /\ InSource => /\ 1 <= lfile /\ lfile <= rfile /\ rfile <= NStabs - 1
                 /\ stabs[lfile].n_type = "SO"
  /\ InCode => lfile <= lfun /\ lfun <= rfile /\ rfun <= rfile
  /\ phase = "file" => -1 <= lline /\ lline <= NStabs - 1
  /\ phase = "args" => lfun < lline /\ lline <= rfun

DebugInv == TableOK /\ InfoOK /\ SearchOK /\ EndsOK

-----------------------------------------------------------------------------
LEMMA Sizes == NStabs \in Nat /\ NStabs >= 1 /\ AddrSpace \in Nat /\ 0 \in Index
BY KdebugAssumption DEF Index

LEMMA StabFacts ==
  /\ Address \subseteq Nat
  /\ \A s \in Stab : s.n_value \in Nat /\ s.n_value \in Address
<1>1. AddrSpace \in Nat
  BY Sizes
<1>2. ASSUME NEW s \in Stab PROVE s.n_value \in 0..AddrSpace-2
  BY <1>2 DEF Stab
<1> QED
  BY <1>1, <1>2 DEF Address

(* The steps of the three instances are steps of StabSearchProofs' ones. *)
LEMMA FileStep == FileSearch!Step => FileThm!Step /\ FileThm!Next
BY DEF FileThm!Next, FileThm!Step, FileThm!Midpoint, FileThm!ScanBack,
  FileThm!NoMatch, FileThm!Below, FileThm!Above, FileThm!Exact,
  FileThm!NothingMatched, FileThm!SomeMatched, FileThm!LastBack,
  FileThm!LastFound, FileThm!Found, FileThm!Matches, FileThm!Before,
  FileThm!NextAddr, FileThm!LastOfRegion, FileThm!args,
  FileSearch!Step, FileSearch!Midpoint, FileSearch!ScanBack,
  FileSearch!NoMatch, FileSearch!Below, FileSearch!Above, FileSearch!Exact,
  FileSearch!NothingMatched, FileSearch!SomeMatched, FileSearch!LastBack,
  FileSearch!LastFound, FileSearch!Found, FileSearch!Matches,
  FileSearch!Before, FileSearch!NextAddr, FileSearch!LastOfRegion,
  FileSearch!args

LEMMA FileInv ==
  ASSUME FileThm!SearchInv, FileSearch!Step
  PROVE  FileThm!SearchInv' /\ stabs' = stabs /\ lo' = lo /\ hi' = hi /\ target' = target
<1>1. FileThm!StabAssumption
  BY Sizes, StabFacts DEF FileThm!StabAssumption
<1>2. FileThm!SearchInv'
  BY <1>1, FileStep, FileThm!NextInv
<1> QED
  BY <1>2 DEF FileSearch!Step, FileSearch!Midpoint, FileSearch!ScanBack,
  FileSearch!NoMatch, FileSearch!Below, FileSearch!Above, FileSearch!Exact,
  FileSearch!NothingMatched, FileSearch!SomeMatched, FileSearch!LastBack,
  FileSearch!LastFound, FileSearch!args

LEMMA FunStep == FunSearch!Step => FunThm!Step /\ FunThm!Next
BY DEF FunThm!Next, FunThm!Step, FunThm!Midpoint, FunThm!ScanBack,
  FunThm!NoMatch, FunThm!Below, FunThm!Above, FunThm!Exact,
  FunThm!NothingMatched, FunThm!SomeMatched, FunThm!LastBack,
  FunThm!LastFound, FunThm!Found, FunThm!Matches, FunThm!Before,
  FunThm!NextAddr, FunThm!LastOfRegion, FunThm!args,
  FunSearch!Step, FunSearch!Midpoint, FunSearch!ScanBack,
  FunSearch!NoMatch, FunSearch!Below, FunSearch!Above, FunSearch!Exact,
  FunSearch!NothingMatched, FunSearch!SomeMatched, FunSearch!LastBack,
  FunSearch!LastFound, FunSearch!Found, FunSearch!Matches,
  FunSearch!Before, FunSearch!NextAddr, FunSearch!LastOfRegion,
  FunSearch!args

LEMMA FunInv ==
  ASSUME FunThm!SearchInv, FunSearch!Step
  PROVE  FunThm!SearchInv' /\ stabs' = stabs /\ lo' = lo /\ hi' = hi /\ target' = target
<1>1. FunThm!StabAssumption
  BY Sizes, StabFacts DEF FunThm!StabAssumption
<1>2. FunThm!SearchInv'
  BY <1>1, FunStep, FunThm!NextInv
<1> QED
  BY <1>2 DEF FunSearch!Step, FunSearch!Midpoint, FunSearch!ScanBack,
  FunSearch!NoMatch, FunSearch!Below, FunSearch!Above, FunSearch!Exact,
  FunSearch!NothingMatched, FunSearch!SomeMatched, FunSearch!LastBack,
  FunSearch!LastFound, FunSearch!args

LEMMA LineStep == LineSearch!Step => LineThm!Step /\ LineThm!Next
BY DEF LineThm!Next, LineThm!Step, LineThm!Midpoint, LineThm!ScanBack,
  LineThm!NoMatch, LineThm!Below, LineThm!Above, LineThm!Exact,
  LineThm!NothingMatched, LineThm!SomeMatched, LineThm!LastBack,
  LineThm!LastFound, LineThm!Found, LineThm!Matches, LineThm!Before,
  LineThm!NextAddr, LineThm!LastOfRegion, LineThm!args,
  LineSearch!Step, LineSearch!Midpoint, LineSearch!ScanBack,
  LineSearch!NoMatch, LineSearch!Below, LineSearch!Above, LineSearch!Exact,
  LineSearch!NothingMatched, LineSearch!SomeMatched, LineSearch!LastBack,
  LineSearch!LastFound, LineSearch!Found, LineSearch!Matches,
  LineSearch!Before, LineSearch!NextAddr, LineSearch!LastOfRegion,
  LineSearch!args

LEMMA LineInv ==
  ASSUME LineThm!SearchInv, LineSearch!Step
  PROVE  LineThm!SearchInv' /\ stabs' = stabs /\ lo' = lo /\ hi' = hi /\ target' = target
<1>1. LineThm!StabAssumption
  BY Sizes, StabFacts DEF LineThm!StabAssumption
<1>2. LineThm!SearchInv'
  BY <1>1, LineStep, LineThm!NextInv
<1> QED
  BY <1>2 DEF LineSearch!Step, LineSearch!Midpoint, LineSearch!ScanBack,
  LineSearch!NoMatch, LineSearch!Below, LineSearch!Above, LineSearch!Exact,
  LineSearch!NothingMatched, LineSearch!SomeMatched, LineSearch!LastBack,
  LineSearch!LastFound, LineSearch!args

(* A search that is just called has its invariant. *)
LEMMA AtStart ==
  /\ FileThm!Init => FileThm!SearchInv
  /\ FunThm!Init => FunThm!SearchInv
  /\ LineThm!Init => LineThm!SearchInv
<1>1. /\ FileThm!StabAssumption /\ FunThm!StabAssumption /\ LineThm!StabAssumption
  BY Sizes, StabFacts
  DEF FileThm!StabAssumption, FunThm!StabAssumption, LineThm!StabAssumption
<1> QED
  BY <1>1, FileThm!InitInv, FunThm!InitInv, LineThm!InitInv

LEMMA Called ==
  ASSUME TableOK, NEW a \in Nat, NEW b \in Int, a - 1 <= b, b <= NStabs - 1,
         NEW x \in Address, stabs' = stabs, stab_binsearch(a, b, x)
  PROVE  /\ FileThm!SearchInv' /\ FunThm!SearchInv' /\ LineThm!SearchInv'
         /\ lo' = a /\ hi' = b /\ target' = x
<1>1. NStabs \in Nat /\ a <= NStabs /\ a \in 0..NStabs /\ b \in a-1..NStabs-1
  BY Sizes
<1>2. /\ stabs' \in [Index -> Stab] /\ lo' = a /\ hi' = b /\ target' = x
      /\ region_left' = a /\ region_right' = b /\ addr' = x
      /\ l' = a /\ r' = b /\ true_m' = a /\ m' = a
      /\ any_matches' = 0 /\ pc' = "while"
  BY DEF TableOK, stab_binsearch
<1>3. FileThm!Init' /\ FunThm!Init' /\ LineThm!Init'
  BY <1>1, <1>2 DEF FileThm!Init, FileThm!Index, FunThm!Init, FunThm!Index,
    LineThm!Init, LineThm!Index, Index
<1>4. FileThm!SearchInv' /\ FunThm!SearchInv' /\ LineThm!SearchInv'
  BY <1>3, AtStart, PTL
<1> QED
  BY <1>2, <1>4

(* What the three searches return: the header keeps the first one off the  *)
(* front of the table, and the stab of the file, which is no function,     *)
(* keeps the second one inside the file.                                   *)
LEMMA FileEnds ==
  ASSUME DebugInv, Found("SO")
  PROVE  /\ region_left \in Int /\ region_right \in Int
         /\ region_left # 0 => /\ 1 <= region_left /\ region_left <= region_right
                               /\ region_right <= NStabs - 1
                               /\ stabs[region_left].n_type = "SO"
<1>1. /\ FileThm!Returned /\ FileThm!StabTypeOK /\ lo = 0 /\ hi = NStabs - 1
      /\ stabs[0].n_type # "SO"
  BY DEF DebugInv, SearchOK, TableOK, Found, FileThm!SearchInv
<1>2. /\ region_left \in Int /\ region_right \in Int /\ region_right <= NStabs - 1
  BY <1>1, Sizes DEF FileThm!StabTypeOK
<1>3. \A k \in FileThm!Entries : k \in 0..NStabs-1 /\ stabs[k].n_type = "SO"
  BY <1>1 DEF FileThm!Entries, FileThm!Matches
<1>4. lo \notin FileThm!Entries
  BY <1>1, <1>3
<1>5. ASSUME region_left # 0
      PROVE  region_left \in FileThm!Entries /\ region_left <= region_right
  BY <1>1, <1>4, <1>5 DEF FileThm!Returned
<1> QED
  BY <1>2, <1>3, <1>5

LEMMA FunEnds ==
  ASSUME DebugInv, Found("FUN")
  PROVE  /\ region_left \in Int /\ region_right \in Int
         /\ lfile <= region_left /\ region_left <= rfile /\ region_right <= rfile
         /\ region_left <= region_right => region_left \in Index
<1>1. /\ FunThm!Returned /\ FunThm!StabTypeOK /\ lo = lfile /\ hi = rfile
      /\ lfile \in Int /\ rfile \in Int /\ NStabs \in Nat
      /\ 1 <= lfile /\ lfile <= rfile /\ rfile <= NStabs - 1
      /\ stabs[lfile].n_type = "SO"
  BY Sizes DEF DebugInv, SearchOK, EndsOK, InSource, Found, FunThm!SearchInv
<1>2. /\ region_left \in Int /\ region_right \in Int /\ region_right <= rfile
  BY <1>1 DEF FunThm!StabTypeOK
<1>3. \A k \in FunThm!Entries : k \in lfile..rfile /\ stabs[k].n_type = "FUN"
  BY <1>1 DEF FunThm!Entries, FunThm!Matches
<1>4. lo \notin FunThm!Entries
  BY <1>1, <1>3
<1>5. lfile <= region_left /\ region_left <= rfile
  BY <1>1, <1>2, <1>3, <1>4 DEF FunThm!Returned
<1> QED
  BY <1>1, <1>2, <1>5 DEF Index

LEMMA LineEnds ==
  ASSUME DebugInv, Found("SLINE")
  PROVE  /\ region_left \in Int /\ region_right \in Int
         /\ 0 <= region_left /\ region_right <= NStabs - 1
<1>1. /\ LineThm!StabTypeOK /\ lo >= lfile /\ hi <= rfile
      /\ lfile \in Int /\ rfile \in Int /\ NStabs \in Nat
      /\ 1 <= lfile /\ rfile <= NStabs - 1
  BY Sizes DEF DebugInv, SearchOK, EndsOK, InSource, Found, LineThm!SearchInv
<1> QED
  BY <1>1 DEF LineThm!StabTypeOK

(* Every step leaves the table and the address alone. *)
LEMMA TableStays ==
  ASSUME TableOK, UNCHANGED given
  PROVE  TableOK' /\ stabs' = stabs /\ eip' = eip
BY DEF TableOK, given, Index

LEMMA ReturnsInv ==
  ASSUME DebugInv, UserAddress \/ BadStrings \/ ArgsCounted
  PROVE  DebugInv'
<1>1. /\ UNCHANGED given /\ UNCHANGED search /\ UNCHANGED ends /\ UNCHANGED lline
      /\ UNCHANGED info /\ phase \in {"call", "args"}
      /\ phase' \in {"panic", "none", "ok"} /\ (phase' = "ok" => phase = "args")
  BY DEF UserAddress, BadStrings, ArgsCounted, Return
<1>2. TableOK' /\ stabs' = stabs
  BY <1>1, TableStays DEF DebugInv
<1>3. InfoOK'
  BY <1>1 DEF DebugInv, InfoOK
<1>4. SearchOK'
  BY <1>1 DEF DebugInv, SearchOK, Searches, search
<1>5. EndsOK'
  BY <1>1, <1>2 DEF DebugInv, EndsOK, InSource, InCode, ends
<1> QED
  BY <1>2, <1>3, <1>4, <1>5 DEF DebugInv

LEMMA SearchFileInv ==
  ASSUME DebugInv, SearchFile
  PROVE  DebugInv'
<1>1. /\ UNCHANGED given /\ UNCHANGED ends /\ lline' = lline /\ info' = info
      /\ phase' = "SO" /\ stab_binsearch(0, NStabs - 1, eip)
  BY DEF SearchFile, LastStab
<1>2. TableOK' /\ stabs' = stabs /\ eip' = eip /\ TableOK /\ eip \in Address
  BY <1>1, TableStays DEF DebugInv, TableOK
<1>3. FileThm!SearchInv' /\ lo' = 0 /\ hi' = NStabs - 1 /\ target' = eip
  <2>1. 0 \in Nat /\ NStabs - 1 \in Int /\ 0 - 1 <= NStabs - 1 /\ NStabs - 1 <= NStabs - 1
    BY Sizes
  <2> QED
    BY <1>1, <1>2, <2>1, Called
<1>4. InfoOK'
  BY <1>1 DEF DebugInv, InfoOK
<1>5. SearchOK'
  BY <1>1, <1>2, <1>3 DEF SearchOK, Searches
<1>6. EndsOK'
  BY <1>1 DEF DebugInv, EndsOK, InSource, InCode, ends
<1> QED
  BY <1>2, <1>4, <1>5, <1>6 DEF DebugInv

LEMMA SearchingInv ==
  ASSUME DebugInv, Searching
  PROVE  DebugInv'
<1>1. eip' = eip /\ UNCHANGED own /\ phase' = phase /\ phase \in Searches
  BY DEF Searching, own, Searches
<1>2. /\ lo' = lo /\ hi' = hi /\ target' = target /\ stabs' = stabs
      /\ phase = "SO" => FileThm!SearchInv'
      /\ phase = "FUN" => FunThm!SearchInv'
      /\ phase = "SLINE" => LineThm!SearchInv'
  BY FileInv, FunInv, LineInv DEF Searching, DebugInv, SearchOK
<1>3. TableOK' /\ InfoOK'
  BY <1>1, <1>2 DEF DebugInv, TableOK, InfoOK, own, Index
<1>4. SearchOK'
  BY <1>1, <1>2 DEF DebugInv, SearchOK, own, ends
<1>5. EndsOK'
  BY <1>1, <1>2 DEF DebugInv, EndsOK, InSource, InCode, own, ends
<1> QED
  BY <1>3, <1>4, <1>5 DEF DebugInv

LEMMA FileFoundInv ==
  ASSUME DebugInv, FileFound
  PROVE  DebugInv'
<1>1. /\ UNCHANGED given /\ lfun' = lfun /\ rfun' = rfun /\ lline' = lline
      /\ info' = info /\ lfile' = region_left /\ rfile' = region_right
      /\ Found("SO")
  BY DEF FileFound
<1>2. TableOK' /\ stabs' = stabs /\ eip' = eip /\ TableOK /\ eip \in Address
  BY <1>1, TableStays DEF DebugInv, TableOK
<1>3. InfoOK'
  BY <1>1 DEF DebugInv, InfoOK
<1>4. /\ region_left \in Int /\ region_right \in Int
      /\ region_left # 0 => /\ 1 <= region_left /\ region_left <= region_right
                            /\ region_right <= NStabs - 1
                            /\ stabs[region_left].n_type = "SO"
  BY <1>1, FileEnds
<1>5. CASE region_left = 0 /\ Return("none")
  <2>1. phase' = "none" /\ pc' = "done"
    BY <1>1, <1>5 DEF Return, search, Found
  <2>2. SearchOK'
    BY <2>1 DEF SearchOK, Searches
  <2>3. EndsOK'
    BY <1>1, <1>4, <2>1 DEF DebugInv, EndsOK, InSource, InCode
  <2> QED
    BY <1>2, <1>3, <2>2, <2>3 DEF DebugInv
<1>6. CASE /\ region_left # 0 /\ phase' = "FUN"
           /\ stab_binsearch(region_left, region_right, eip)
  <2>1. /\ region_left \in Nat /\ region_left - 1 <= region_right
        /\ region_right <= NStabs - 1
    BY <1>4, <1>6
  <2>2. /\ FunThm!SearchInv' /\ lo' = region_left /\ hi' = region_right
        /\ target' = eip
    BY <1>2, <1>4, <1>6, <2>1, Called
  <2>3. SearchOK'
    BY <1>1, <1>2, <1>6, <2>2 DEF SearchOK, Searches
  <2>4. EndsOK'
    BY <1>1, <1>2, <1>4, <1>6 DEF DebugInv, EndsOK, InSource, InCode
  <2> QED
    BY <1>2, <1>3, <2>3, <2>4 DEF DebugInv
<1> QED
  BY <1>5, <1>6 DEF FileFound

(* Function f is found at or below the address. *)
LEMMA FunFoundInv ==
  ASSUME DebugInv, FunFound
  PROVE  DebugInv'
<1>1. /\ UNCHANGED given /\ lfile' = lfile /\ rfile' = rfile /\ lline' = lline
      /\ lfun' = region_left /\ rfun' = region_right
      /\ Found("FUN") /\ phase = "FUN" /\ phase' = "SLINE"
  BY DEF FunFound, Found
<1>2. TableOK' /\ stabs' = stabs /\ eip' = eip /\ TableOK /\ eip \in Address
  BY <1>1, TableStays DEF DebugInv, TableOK
<1>3. /\ region_left \in Int /\ region_right \in Int
      /\ lfile <= region_left /\ region_left <= rfile /\ region_right <= rfile
      /\ region_left <= region_right => region_left \in Index
  BY <1>1, FunEnds
<1>4. /\ lfile \in Int /\ rfile \in Int /\ NStabs \in Nat
      /\ 1 <= lfile /\ lfile <= rfile /\ rfile <= NStabs - 1
      /\ stabs[lfile].n_type = "SO"
  BY <1>1, Sizes DEF DebugInv, EndsOK, InSource
<1>5. EndsOK'
  BY <1>1, <1>2, <1>3, <1>4 DEF DebugInv, EndsOK, InSource, InCode
<1>6. CASE region_left <= region_right
  <2> DEFINE f == stabs[region_left]
             off == (eip - f.n_value) % AddrSpace
  <2>1. f.n_value \in Nat /\ eip \in Int /\ AddrSpace \in Nat \ {0} /\ f \in Stab
    BY <1>2, <1>3, <1>6, StabFacts, KdebugAssumption DEF TableOK
  <2>2. off \in Address
    BY <2>1 DEF Address
  <2>3. /\ info' = [info EXCEPT !.fn = IF f.named THEN region_left ELSE @,
                                !.fn_addr = f.n_value]
        /\ stab_binsearch(region_left, region_right, off)
    BY <1>6 DEF FunFound
  <2>4. /\ region_left \in Nat /\ region_left - 1 <= region_right
        /\ region_right <= NStabs - 1
    BY <1>3, <1>4, <1>6
  <2>5. LineThm!SearchInv' /\ lo' = region_left /\ hi' = region_right /\ target' = off
    BY <1>2, <1>3, <2>2, <2>3, <2>4, Called
  <2>6. InfoOK'
    <3> DEFINE name == IF f.named THEN region_left ELSE info.fn
    <3>1. info.fn \in Int
      BY DEF DebugInv, InfoOK
    <3>2. name \in Int
      BY <1>3, <3>1
    <3>3. info' = [info EXCEPT !.fn = name, !.fn_addr = f.n_value]
      BY <2>3
    <3>4. f.n_value \in Int
      BY <2>1
    <3> HIDE DEF name, f
    <3>5. info \in [file : Int, line : Int, fn : Int, fn_addr : Int, narg : Nat]
      BY DEF DebugInv, InfoOK
    <3>6. info' = [file |-> info.file, line |-> info.line, fn |-> name,
                   fn_addr |-> f.n_value, narg |-> info.narg]
      BY <3>3, <3>5
    <3> QED
      BY <3>2, <3>4, <3>5, <3>6 DEF InfoOK
  <2>7. SearchOK'
    BY <1>1, <1>2, <1>3, <1>4, <2>5 DEF SearchOK, Searches
  <2> QED
    BY <1>2, <1>5, <2>6, <2>7 DEF DebugInv
<1>7. CASE ~(region_left <= region_right)
  <2>1. /\ info' = [info EXCEPT !.fn_addr = eip]
        /\ stab_binsearch(lfile, rfile, eip)
    BY <1>7 DEF FunFound
  <2>2. lfile \in Nat /\ lfile - 1 <= rfile
    BY <1>4
  <2>3. LineThm!SearchInv' /\ lo' = lfile /\ hi' = rfile
    BY <1>2, <1>4, <2>1, <2>2, Called
  <2>4. eip \in Int
    BY <1>2, StabFacts
  <2>5. InfoOK'
    BY <2>1, <2>4 DEF DebugInv, InfoOK
  <2>6. SearchOK'
    BY <1>1, <1>3, <1>4, <1>7, <2>3 DEF SearchOK, Searches
  <2> QED
    BY <1>2, <1>5, <2>5, <2>6 DEF DebugInv
<1> QED
  BY <1>6, <1>7

LEMMA LineFoundInv ==
  ASSUME DebugInv, LineFound
  PROVE  DebugInv'
<1>1. /\ UNCHANGED given /\ UNCHANGED search /\ UNCHANGED ends
      /\ lline' = region_left /\ Found("SLINE") /\ phase = "SLINE"
      /\ phase' \in {"none", "file"}
      /\ phase' = "file" => region_left <= region_right
      /\ info' = info \/ info' = [info EXCEPT !.line = region_left]
  BY LineEnds DEF LineFound, Found
<1>2. TableOK' /\ stabs' = stabs /\ eip' = eip
  BY <1>1, TableStays DEF DebugInv
<1>3. /\ region_left \in Int /\ region_right \in Int
      /\ 0 <= region_left /\ region_right <= NStabs - 1 /\ NStabs \in Nat
  BY <1>1, LineEnds, Sizes
<1>4. InfoOK'
  BY <1>1, <1>3 DEF DebugInv, InfoOK
<1>5. SearchOK'
  BY <1>1 DEF SearchOK, Searches, Found, search
<1>6. EndsOK'
  BY <1>1, <1>2, <1>3 DEF DebugInv, EndsOK, InSource, InCode, ends
<1> QED
  BY <1>2, <1>4, <1>5, <1>6 DEF DebugInv

(* The loops over the file's name and over the arguments. *)
LEMMA LoopsInv ==
  ASSUME DebugInv, FileBack \/ FileNamed \/ Argument
  PROVE  DebugInv'
<1>1. /\ UNCHANGED given /\ UNCHANGED search /\ UNCHANGED ends
      /\ phase \in {"file", "args"} /\ phase' \in {"file", "args", "ok"}
  BY DEF FileBack, FileNamed, Argument
<1>2. TableOK' /\ stabs' = stabs /\ eip' = eip
  BY <1>1, TableStays DEF DebugInv
<1>3. SearchOK'
  BY <1>1 DEF DebugInv, SearchOK, Searches, search
<1>4. /\ lfile \in Int /\ lfun \in Int /\ rfun \in Int /\ lline \in Int
      /\ 1 <= lfile /\ NStabs \in Nat /\ lfile <= lfun
      /\ phase = "file" => -1 <= lline /\ lline <= NStabs - 1
      /\ phase = "args" => lfun < lline /\ lline <= rfun
  BY <1>1, Sizes DEF DebugInv, EndsOK, InSource, InCode
<1>5. InfoOK'
  <2>1. CASE FileBack
    BY <2>1 DEF FileBack, DebugInv, InfoOK
  <2>2. CASE FileNamed
    BY <1>4, <2>2 DEF FileNamed, DebugInv, InfoOK
  <2>3. CASE Argument
    BY <2>3 DEF Argument, DebugInv, InfoOK
  <2> QED
    BY <2>1, <2>2, <2>3
<1>6. /\ lline' \in Int
      /\ phase' = "file" => -1 <= lline' /\ lline' <= NStabs - 1
      /\ phase' = "args" => lfun < lline' /\ lline' <= rfun
  <2>1. CASE FileBack
    BY <1>4, <2>1 DEF FileBack, Back
  <2>2. CASE FileNamed
    BY <1>4, <2>2 DEF FileNamed
  <2>3. CASE Argument
    BY <1>4, <2>3 DEF Argument, MoreArgs
  <2> QED
    BY <2>1, <2>2, <2>3
<1>7. EndsOK'
  BY <1>1, <1>2, <1>6 DEF DebugInv, EndsOK, InSource, InCode, ends
<1> QED
  BY <1>2, <1>3, <1>5, <1>7 DEF DebugInv

LEMMA DebugStutter ==
  ASSUME DebugInv, UNCHANGED vars
  PROVE  DebugInv'
<1>1. UNCHANGED given /\ UNCHANGED search /\ UNCHANGED own
  BY DEF vars
<1>2. TableOK' /\ stabs' = stabs /\ eip' = eip
  BY <1>1, TableStays DEF DebugInv
<1>3. UNCHANGED FileThm!vars /\ UNCHANGED FunThm!vars /\ UNCHANGED LineThm!vars
  BY <1>1 DEF search, given, FileThm!vars, FileThm!args, FileThm!locals, FunThm!vars,
    FunThm!args, FunThm!locals, LineThm!vars, LineThm!args, LineThm!locals
<1>4. /\ FileThm!StabAssumption /\ FunThm!StabAssumption /\ LineThm!StabAssumption
  BY Sizes, StabFacts
  DEF FileThm!StabAssumption, FunThm!StabAssumption, LineThm!StabAssumption
<1>5. /\ FileThm!SearchInv => FileThm!SearchInv'
      /\ FunThm!SearchInv => FunThm!SearchInv'
      /\ LineThm!SearchInv => LineThm!SearchInv'
  BY <1>3, <1>4, FileThm!StutterStep, FunThm!StutterStep, LineThm!StutterStep
<1>6. SearchOK'
  BY <1>1, <1>2, <1>5 DEF DebugInv, SearchOK, Searches, search, own, ends
<1>7. InfoOK' /\ EndsOK'
  BY <1>1, <1>2 DEF DebugInv, InfoOK, EndsOK, InSource, InCode, own, ends
<1> QED
  BY <1>2, <1>6, <1>7 DEF DebugInv

LEMMA DebugStart == Init => DebugInv
<1> SUFFICES ASSUME Init PROVE DebugInv
  OBVIOUS
<1>1. TableOK
  BY KdebugAssumption, HeaderAssumption DEF Init, TableOK
<1>2. eip \in Int
  BY <1>1, StabFacts DEF TableOK
<1>3. InfoOK
  BY <1>2 DEF Init, InfoOK
<1>4. SearchOK /\ EndsOK
  BY DEF Init, SearchOK, Searches, EndsOK, InSource, InCode
<1> QED
  BY <1>1, <1>3, <1>4 DEF DebugInv

LEMMA DebugNext == DebugInv /\ [Next]_vars => DebugInv'
BY ReturnsInv, SearchFileInv, SearchingInv, FileFoundInv, FunFoundInv,
   LineFoundInv, LoopsInv, DebugStutter
   DEF Next, Step, Done

(* The invariant of debuginfo_eip: each search runs inside the region that *)
(* the one before it found.                                                *)
THEOREM DebugInvariant == Spec => []DebugInv
BY DebugStart, DebugNext, PTL DEF Spec

(* debuginfo_eip and the searches it calls never read outside the symbol   *)
(* table, in order or not, for every address; only the header entry at the *)
(* front is needed (kern/kdebug.c:138-213).                                *)
THEOREM TableReadsAreSafe == Spec => []ReadsInTable
<1>1. DebugInv => ReadsInTable
  <2> SUFFICES ASSUME DebugInv PROVE ReadsInTable
    OBVIOUS
  <2>1. /\ pc = "scan" /\ m >= l => m \in Index
        /\ pc = "last" /\ l > region_left => l \in Index
    <3>1. CASE phase = "SO"
      <4>1. FileThm!SearchInv /\ lo = 0 /\ hi = NStabs - 1
        BY <3>1 DEF DebugInv, SearchOK
      <4>2. FileThm!ReadsInRegion
        BY <4>1 DEF FileThm!SearchInv, FileThm!StabTypeOK, FileThm!LoopInv,
          FileThm!ScanInv, FileThm!LastInv, FileThm!ReadsInRegion, FileThm!Entries
      <4> QED
        BY <4>1, <4>2 DEF FileThm!ReadsInRegion, Index
    <3>2. CASE phase = "FUN"
      <4>1. /\ FunThm!SearchInv /\ lo = lfile /\ hi = rfile /\ NStabs \in Nat
            /\ lfile \in Int /\ rfile \in Int /\ 1 <= lfile /\ rfile <= NStabs - 1
        BY <3>2, Sizes DEF DebugInv, SearchOK, EndsOK, InSource
      <4>2. FunThm!ReadsInRegion
        BY <4>1 DEF FunThm!SearchInv, FunThm!StabTypeOK, FunThm!LoopInv,
          FunThm!ScanInv, FunThm!LastInv, FunThm!ReadsInRegion, FunThm!Entries
      <4> QED
        BY <4>1, <4>2 DEF FunThm!ReadsInRegion, Index
    <3>3. CASE phase = "SLINE"
      <4>1. /\ LineThm!SearchInv /\ lo >= lfile /\ hi <= rfile /\ NStabs \in Nat
            /\ lfile \in Int /\ rfile \in Int /\ 1 <= lfile /\ rfile <= NStabs - 1
        BY <3>3, Sizes DEF DebugInv, SearchOK, EndsOK, InSource
      <4>2. LineThm!ReadsInRegion /\ lo \in Int /\ hi \in Int
        BY <4>1, Sizes DEF LineThm!SearchInv, LineThm!StabTypeOK, LineThm!LoopInv,
          LineThm!ScanInv, LineThm!LastInv, LineThm!ReadsInRegion, LineThm!Entries
      <4> QED
        BY <4>1, <4>2 DEF LineThm!ReadsInRegion, Index
    <3>4. CASE phase \notin Searches
      BY <3>4 DEF DebugInv, SearchOK
    <3> QED
      BY <3>1, <3>2, <3>3, <3>4 DEF Searches
  <2>2. ASSUME phase \in {"FUN", "SLINE"}, pc = "done", region_left <= region_right
        PROVE  region_left \in Index
    <3>1. CASE phase = "FUN"
      BY <2>2, <3>1, FunEnds DEF Found
    <3>2. CASE phase = "SLINE"
      BY <2>2, <3>2, LineEnds, Sizes DEF Found, Index
    <3> QED
      BY <2>2, <3>1, <3>2
  <2>3. /\ phase = "file" /\ lline >= lfile => lline \in Index
        /\ phase = "args" /\ lline < rfun => lline \in Index
    BY Sizes DEF DebugInv, EndsOK, InSource, InCode, Index
  <2> QED
    BY <2>1, <2>2, <2>3 DEF ReadsInTable
<1> QED
  BY <1>1, DebugInvariant, PTL

-----------------------------------------------------------------------------
(***************************************************************************)
(* What is found.  f, g and n are the file, the function and the line that *)
(* the address lies in.                                                    *)
(***************************************************************************)
LEMMA RegionEndIs ==
  ASSUME NEW S \in SUBSET Int, NEW k \in Int, NEW b \in Int, NEW e \in k..b,
         \A j \in S : j > k => e < j, e = b \/ e + 1 \in S
  PROVE  RegionEnd(k, S, b) = e
<1> DEFINE P(x) == (\A j \in S : j > k => x < j) /\ (x = b \/ x + 1 \in S)
<1>1. P(e)
  OBVIOUS
<1>2. ASSUME NEW x \in k..b, P(x) PROVE x = e
  <2>1. ~(x < e)
    <3> SUFFICES ASSUME x < e PROVE FALSE
      OBVIOUS
    <3>1. x + 1 \in S /\ x + 1 > k
      BY <1>2
    <3> QED
      BY <3>1
  <2>2. ~(e < x)
    <3> SUFFICES ASSUME e < x PROVE FALSE
      OBVIOUS
    <3>1. e + 1 \in S /\ e + 1 > k
      OBVIOUS
    <3> QED
      BY <1>2, <3>1
  <2> QED
    BY <2>1, <2>2
<1>3. RegionEnd(k, S, b) = CHOOSE x \in k..b : P(x)
  BY DEF RegionEnd
<1> HIDE DEF P
<1> QED
  BY <1>1, <1>2, <1>3

(* The stabs of S at or below x. *)
Under(S, x) == {j \in S : stabs[j].n_value <= x}

(* A bracket around x is the owner of x and the end of its region. *)
LEMMA Owned ==
  ASSUME NEW S \in SUBSET Int, NEW x, NEW b \in Int, NEW L, NEW R \in Int, R <= b,
         NEW k, IsOwner(k, S, x),
         L \in Under(S, x), \A j \in Under(S, x) : j <= L,
         \A j \in S : j <= R <=> j \in Under(S, x), R = b \/ R + 1 \in S
  PROVE  L = k /\ R = RegionEnd(k, S, b) /\ k <= R
<1>1. k \in Under(S, x) /\ k \in S /\ k \in Int /\ L \in S /\ L \in Int
  BY DEF IsOwner, Under
<1>2. \A j \in S : j \in Under(S, x) => j <= k
  BY DEF IsOwner, Under
<1>3. L = k
  BY <1>1, <1>2
<1>4. R \in k..b
  BY <1>1
<1>5. \A j \in S : j > k => R < j
  <2> SUFFICES ASSUME NEW j \in S, j > k PROVE R < j
    OBVIOUS
  <2>1. j \in Int /\ j \notin Under(S, x)
    BY <1>1, <1>2
  <2> QED
    BY <2>1
<1> QED
  BY <1>1, <1>3, <1>4, <1>5, RegionEndIs

(* What a search that is done has found among the stabs of S up to b. *)
Finds(S, x, b) ==
  Searchable(S, x) =>
    \A k : IsOwner(k, S, x) => /\ region_left = k
                               /\ region_right = RegionEnd(k, S, b)
                               /\ k <= region_right

LEMMA FileResult ==
  ASSUME DebugInv, Found("SO")
  PROVE  Finds(Files, eip, NStabs - 1)
<1>1. /\ FileThm!Brackets /\ FileThm!StabTypeOK /\ pc = "done"
      /\ lo = 0 /\ hi = NStabs - 1 /\ target = eip
  BY DEF DebugInv, SearchOK, Found, FileThm!SearchInv
<1>2. FileThm!Entries = Files /\ FileThm!AtOrBelow = Under(Files, eip)
  BY <1>1 DEF FileThm!Entries, FileThm!Matches, FileThm!AtOrBelow, Files, OfType, Under
<1>3. /\ region_right \in Int /\ region_right <= NStabs - 1 /\ NStabs - 1 \in Int
      /\ Files \in SUBSET Int
  BY <1>1, Sizes DEF FileThm!StabTypeOK, Files, OfType
<1> SUFFICES ASSUME Searchable(Files, eip), NEW k, IsOwner(k, Files, eip)
             PROVE  /\ region_left = k /\ region_right = RegionEnd(k, Files, NStabs - 1)
                    /\ k <= region_right
  BY DEF Finds
<1>4. FileThm!InOrder /\ FileThm!NoAdjacent
  BY <1>1, <1>2 DEF Searchable, FileThm!InOrder, FileThm!NoAdjacent
<1>5. k \in Files /\ k \in Under(Files, eip)
  BY DEF IsOwner, Under
<1>6. /\ region_left \in Under(Files, eip)
      /\ \A j \in Under(Files, eip) : j <= region_left
      /\ \A j \in Files : j <= region_right <=> j \in Under(Files, eip)
      /\ region_right = NStabs - 1 \/ region_right + 1 \in Files
  BY <1>1, <1>2, <1>4, <1>5 DEF FileThm!Brackets, FileThm!RegionOfTarget, FileThm!IsLast
<1> QED
  BY <1>3, <1>6, Owned

LEMMA FunResult ==
  ASSUME DebugInv, Found("FUN")
  PROVE  Finds(OfType("FUN", lfile, rfile), eip, rfile)
<1> DEFINE S == OfType("FUN", lfile, rfile)
<1>1. /\ FunThm!Brackets /\ FunThm!StabTypeOK /\ pc = "done"
      /\ lo = lfile /\ hi = rfile /\ target = eip
  BY DEF DebugInv, SearchOK, Found, FunThm!SearchInv
<1>2. FunThm!Entries = S /\ FunThm!AtOrBelow = Under(S, eip)
  BY <1>1 DEF FunThm!Entries, FunThm!Matches, FunThm!AtOrBelow, OfType, Under
<1>3. /\ region_right \in Int /\ region_right <= rfile /\ rfile \in Int
      /\ S \in SUBSET Int
  BY <1>1, Sizes DEF FunThm!StabTypeOK, DebugInv, EndsOK, OfType
<1> SUFFICES ASSUME Searchable(S, eip), NEW k, IsOwner(k, S, eip)
             PROVE  /\ region_left = k /\ region_right = RegionEnd(k, S, rfile)
                    /\ k <= region_right
  BY DEF Finds
<1> HIDE DEF S
<1>4. FunThm!InOrder /\ FunThm!NoAdjacent
  BY <1>1, <1>2 DEF Searchable, FunThm!InOrder, FunThm!NoAdjacent
<1>5. k \in S /\ k \in Under(S, eip)
  BY DEF IsOwner, Under
<1>6. /\ region_left \in Under(S, eip)
      /\ \A j \in Under(S, eip) : j <= region_left
      /\ \A j \in S : j <= region_right <=> j \in Under(S, eip)
      /\ region_right = rfile \/ region_right + 1 \in S
  BY <1>1, <1>2, <1>4, <1>5 DEF FunThm!Brackets, FunThm!RegionOfTarget, FunThm!IsLast
<1> QED
  BY <1>3, <1>6, Owned

LEMMA LineResult ==
  ASSUME DebugInv, Found("SLINE")
  PROVE  Finds(OfType("SLINE", lo, hi), target, hi)
<1> DEFINE S == OfType("SLINE", lo, hi)
<1>1. /\ LineThm!Brackets /\ LineThm!StabTypeOK /\ pc = "done"
  BY DEF DebugInv, SearchOK, Found, LineThm!SearchInv
<1>2. LineThm!Entries = S /\ LineThm!AtOrBelow = Under(S, target)
  BY <1>1 DEF LineThm!Entries, LineThm!Matches, LineThm!AtOrBelow, OfType, Under
<1>3. /\ region_right \in Int /\ region_right <= hi /\ hi \in Int
      /\ S \in SUBSET Int
  BY <1>1, Sizes DEF LineThm!StabTypeOK, OfType
<1> SUFFICES ASSUME Searchable(S, target), NEW k, IsOwner(k, S, target)
             PROVE  /\ region_left = k /\ region_right = RegionEnd(k, S, hi)
                    /\ k <= region_right
  BY DEF Finds
<1> HIDE DEF S
<1>4. LineThm!InOrder /\ LineThm!NoAdjacent
  BY <1>1, <1>2 DEF Searchable, LineThm!InOrder, LineThm!NoAdjacent
<1>5. k \in S /\ k \in Under(S, target)
  BY DEF IsOwner, Under
<1>6. /\ region_left \in Under(S, target)
      /\ \A j \in Under(S, target) : j <= region_left
      /\ \A j \in S : j <= region_right <=> j \in Under(S, target)
      /\ region_right = hi \/ region_right + 1 \in S
  BY <1>1, <1>2, <1>4, <1>5 DEF LineThm!Brackets, LineThm!RegionOfTarget, LineThm!IsLast
<1> QED
  BY <1>3, <1>6, Owned

(* What is known on the way of an address in line n of function g in file  *)
(* f.                                                                      *)
FileRight(f) == lfile = f /\ rfile = FileEnd(f)

FunRight(f, g) ==
  /\ lfun = g /\ rfun = FunEnd(f, g)
  /\ stabs[g].named => info.fn = g
  /\ info.fn_addr = stabs[g].n_value

NameRight(f, n) ==
  \A k \in f..n \cap FileStarts :
    stabs[k].named /\ k+1..n \cap FileStarts = {} => info.file = k

ArgsSoFar(g) == \A k \in 0..info.narg-1 : stabs[g + 1 + k].n_type = "PSYM"

OnTheWay(f, g, n) ==
  /\ InSource => FileRight(f)
  /\ InCode => FunRight(f, g)
  /\ phase \in {"file", "args", "ok"} => info.line = n
  /\ phase = "file" => lline <= n /\ \A k \in lline+1..n : k \notin FileStarts
  /\ phase \in {"args", "ok"} => NameRight(f, n)
  /\ phase \in {"call", "SO", "FUN", "SLINE", "file"} => info.narg = 0
  /\ phase = "args" => lline = g + 1 + info.narg /\ ArgsSoFar(g)
  /\ phase = "ok" => ArgsSoFar(g) /\ stabs[g + 1 + info.narg].n_type # "PSYM"

LocInv == \A f, g, n \in Index : InLine(f, g, n) => OnTheWay(f, g, n)

(* The stabs involved, as numbers. *)
LEMMA ChainFacts ==
  ASSUME DebugInv, NEW f \in Index, NEW g \in Index, NEW n \in Index,
         InLine(f, g, n)
  PROVE  /\ f \in Int /\ g \in Int /\ n \in Int
         /\ InFile(f) /\ InFun(f, g)
         /\ stabs[g].n_type = "FUN" /\ stabs[n].n_type = "SLINE"
         /\ stabs[g].n_value \in Nat /\ eip \in Nat
         /\ (eip - stabs[g].n_value) % AddrSpace = Offset(g)
         /\ FunEnd(f, g) \in Int => g < n /\ n <= FunEnd(f, g)
<1>1. f \in Int /\ g \in Int /\ n \in Int
  BY DEF Index
<1>2. InFile(f) /\ InFun(f, g) /\ g \in Funs(f) /\ n \in Lines(f, g)
      /\ stabs[g].n_value <= eip
  BY DEF InLine, InFun, IsOwner
<1>3. /\ stabs[g].n_type = "FUN" /\ stabs[n].n_type = "SLINE"
      /\ n \in g..FunEnd(f, g)
  BY <1>2 DEF Funs, Lines, OfType
<1>4. stabs[g].n_value \in Nat /\ eip \in Nat /\ eip \in Address
  BY StabFacts DEF DebugInv, TableOK
<1>5. (eip - stabs[g].n_value) % AddrSpace = eip - stabs[g].n_value
  <2>1. AddrSpace \in Nat /\ eip < AddrSpace
    BY <1>4, Sizes DEF Address
  <2> HIDE DEF InLine
  <2> DEFINE v == stabs[g].n_value
  <2>2. v \in Nat /\ v <= eip
    BY <1>2, <1>4
  <2> HIDE DEF v
  <2>3. (eip - v) % AddrSpace = eip - v
    BY <1>4, <2>1, <2>2
  <2> QED
    BY <2>3 DEF v
<1>6. n # g
  BY <1>3
<1> QED
  BY <1>1, <1>2, <1>3, <1>4, <1>5, <1>6 DEF Offset

(* The meaning of the table does not change. *)
LEMMA ChainStays ==
  ASSUME stabs' = stabs, eip' = eip, NEW f \in Index, NEW g \in Index, NEW n \in Index
  PROVE  /\ InLine(f, g, n)' <=> InLine(f, g, n)
         /\ FileEnd(f)' = FileEnd(f) /\ FunEnd(f, g)' = FunEnd(f, g)
         /\ FileStarts' = FileStarts
<1>1. Files' = Files
  BY DEF Files, OfType
<1>2. FileEnd(f)' = FileEnd(f)
  BY <1>1 DEF FileEnd, RegionEnd
<1>3. Funs(f)' = Funs(f)
  BY <1>2 DEF Funs, OfType
<1>4. FunEnd(f, g)' = FunEnd(f, g)
  BY <1>2, <1>3 DEF FunEnd, RegionEnd
<1>5. Lines(f, g)' = Lines(f, g)
  BY <1>4 DEF Lines, OfType
<1>6. InLine(f, g, n)' <=> InLine(f, g, n)
  BY <1>1, <1>3, <1>5 DEF InLine, InFun, InFile, IsOwner, Searchable, Offset
<1> QED
  BY <1>2, <1>4, <1>6 DEF FileStarts

(* Steps that only search, call or give up. *)
LEMMA WayPlain ==
  ASSUME DebugInv, NEW f \in Index, NEW g \in Index, NEW n \in Index,
         InLine(f, g, n), OnTheWay(f, g, n),
         \/ UserAddress \/ BadStrings \/ SearchFile \/ Searching
         \/ UNCHANGED vars
  PROVE  OnTheWay(f, g, n)'
<1>1. /\ stabs' = stabs /\ eip' = eip /\ UNCHANGED ends /\ lline' = lline /\ info' = info
  <2>1. CASE UserAddress \/ BadStrings \/ SearchFile
    BY <2>1 DEF UserAddress, BadStrings, SearchFile, given
  <2>2. CASE Searching
    BY <2>2, FileInv, FunInv, LineInv DEF Searching, own, DebugInv, SearchOK
  <2>3. CASE UNCHANGED vars
    BY <2>3 DEF vars, given, own
  <2> QED
    BY <2>1, <2>2, <2>3
<1>2. \/ phase' = phase
      \/ phase = "call" /\ phase' \in {"panic", "none", "SO"}
  BY DEF UserAddress, BadStrings, SearchFile, Searching, Return, vars, own
<1>3. FileEnd(f)' = FileEnd(f) /\ FunEnd(f, g)' = FunEnd(f, g) /\ FileStarts' = FileStarts
  BY <1>1, ChainStays
<1>4. /\ FileRight(f)' <=> FileRight(f)
      /\ FunRight(f, g)' <=> FunRight(f, g)
      /\ NameRight(f, n)' <=> NameRight(f, n)
      /\ ArgsSoFar(g)' <=> ArgsSoFar(g)
  BY <1>1, <1>3 DEF FileRight, FunRight, NameRight, ArgsSoFar, ends
<1> QED
  BY <1>1, <1>2, <1>3, <1>4 DEF OnTheWay, InSource, InCode

LEMMA WayFile ==
  ASSUME DebugInv, NEW f \in Index, NEW g \in Index, NEW n \in Index,
         InLine(f, g, n), OnTheWay(f, g, n), FileFound
  PROVE  OnTheWay(f, g, n)'
<1>1. /\ stabs' = stabs /\ eip' = eip /\ info' = info /\ phase = "SO"
      /\ lfile' = region_left /\ rfile' = region_right /\ Found("SO")
      /\ phase' \in {"none", "FUN"}
  BY DEF FileFound, given, Return, Found
<1>2. FileEnd(f)' = FileEnd(f)
  BY <1>1, ChainStays
<1>3. region_left = f /\ region_right = FileEnd(f)
  <2>1. IsOwner(f, Files, eip) /\ Searchable(Files, eip)
    BY ChainFacts DEF InFile
  <2>2. Finds(Files, eip, NStabs - 1)
    BY <1>1, FileResult
  <2> QED
    BY <2>1, <2>2 DEF Finds, FileEnd
<1>4. FileRight(f)'
  BY <1>1, <1>2, <1>3 DEF FileRight
<1> QED
  BY <1>1, <1>4 DEF OnTheWay, InSource, InCode

LEMMA WayFun ==
  ASSUME DebugInv, NEW f \in Index, NEW g \in Index, NEW n \in Index,
         InLine(f, g, n), OnTheWay(f, g, n), FunFound
  PROVE  OnTheWay(f, g, n)'
<1>1. /\ stabs' = stabs /\ eip' = eip /\ lfile' = lfile /\ rfile' = rfile
      /\ lfun' = region_left /\ rfun' = region_right
      /\ Found("FUN") /\ phase = "FUN" /\ phase' = "SLINE"
  BY DEF FunFound, Found, given
<1>2. FileEnd(f)' = FileEnd(f) /\ FunEnd(f, g)' = FunEnd(f, g)
  BY <1>1, ChainStays
<1>3. lfile = f /\ rfile = FileEnd(f) /\ info.narg = 0
  BY <1>1 DEF OnTheWay, InSource, FileRight
<1>4. FileRight(f)'
  BY <1>1, <1>2, <1>3 DEF FileRight
<1>5. region_left = g /\ region_right = FunEnd(f, g) /\ g <= region_right
  <2>1. IsOwner(g, Funs(f), eip) /\ Searchable(Funs(f), eip)
    BY ChainFacts DEF InFun
  <2>2. Finds(Funs(f), eip, FileEnd(f))
    BY <1>1, <1>3, FunResult DEF Funs
  <2> QED
    BY <2>1, <2>2 DEF Finds, FunEnd
<1>6. info' = [info EXCEPT !.fn = IF stabs[g].named THEN g ELSE @,
                           !.fn_addr = stabs[g].n_value]
  BY <1>5 DEF FunFound
<1>7. info \in [file : Int, line : Int, fn : Int, fn_addr : Int, narg : Nat]
  BY DEF DebugInv, InfoOK
<1>8. /\ info'.fn = IF stabs[g].named THEN g ELSE info.fn
      /\ info'.fn_addr = stabs[g].n_value /\ info'.narg = info.narg
  BY <1>6, <1>7
<1>9. FunRight(f, g)'
  BY <1>1, <1>2, <1>5, <1>8 DEF FunRight
<1> QED
  BY <1>1, <1>3, <1>4, <1>8, <1>9 DEF OnTheWay

LEMMA WayLine ==
  ASSUME DebugInv, NEW f \in Index, NEW g \in Index, NEW n \in Index,
         InLine(f, g, n), OnTheWay(f, g, n), LineFound
  PROVE  OnTheWay(f, g, n)'
<1>1. /\ stabs' = stabs /\ eip' = eip /\ UNCHANGED ends
      /\ lline' = region_left /\ Found("SLINE") /\ phase = "SLINE"
      /\ phase' \in {"none", "file"}
  BY DEF LineFound, Found, given
<1>2. FileEnd(f)' = FileEnd(f) /\ FunEnd(f, g)' = FunEnd(f, g)
  BY <1>1, ChainStays
<1>3. FileRight(f) /\ FunRight(f, g) /\ info.narg = 0
  BY <1>1 DEF OnTheWay, InSource, InCode
<1>4. FunEnd(f, g) \in Int /\ g < n /\ n <= FunEnd(f, g) /\ g \in Int /\ n \in Int
  BY <1>3, ChainFacts DEF FunRight, DebugInv, EndsOK
<1>5. lfun = g /\ rfun = FunEnd(f, g) /\ lfun <= rfun
  BY <1>3, <1>4 DEF FunRight
<1>6. lo = g /\ hi = FunEnd(f, g) /\ target = Offset(g)
  BY <1>1, <1>5, ChainFacts DEF DebugInv, SearchOK
<1>7. region_left = n /\ n <= region_right
  <2>1. IsOwner(n, Lines(f, g), Offset(g)) /\ Searchable(Lines(f, g), Offset(g))
    BY DEF InLine
  <2>2. Finds(Lines(f, g), Offset(g), FunEnd(f, g))
    BY <1>1, <1>6, LineResult DEF Lines
  <2> QED
    BY <2>1, <2>2 DEF Finds
<1>8. region_right \in Int
  BY <1>1, LineEnds
<1>9. phase' = "file" /\ info' = [info EXCEPT !.line = n]
  BY <1>4, <1>7, <1>8 DEF LineFound
<1>10. info \in [file : Int, line : Int, fn : Int, fn_addr : Int, narg : Nat]
  BY DEF DebugInv, InfoOK
<1>11. /\ info'.line = n /\ info'.fn = info.fn /\ info'.fn_addr = info.fn_addr
       /\ info'.narg = info.narg
  BY <1>9, <1>10
<1>12. FileRight(f)' /\ FunRight(f, g)'
  BY <1>1, <1>2, <1>3, <1>11 DEF FileRight, FunRight, ends
<1>13. lline' <= n /\ \A k \in lline'+1..n : FALSE
  BY <1>1, <1>4, <1>7
<1> QED
  BY <1>3, <1>9, <1>11, <1>12, <1>13 DEF OnTheWay

LEMMA WayBack ==
  ASSUME DebugInv, NEW f \in Index, NEW g \in Index, NEW n \in Index,
         InLine(f, g, n), OnTheWay(f, g, n), FileBack
  PROVE  OnTheWay(f, g, n)'
<1>1. /\ stabs' = stabs /\ eip' = eip /\ UNCHANGED ends /\ info' = info
      /\ phase = "file" /\ phase' = "file" /\ lline' = lline - 1
      /\ ~NamesFile(lline)
  BY DEF FileBack, given, Back
<1>2. FileEnd(f)' = FileEnd(f) /\ FunEnd(f, g)' = FunEnd(f, g) /\ FileStarts' = FileStarts
  BY <1>1, ChainStays
<1>3. FileRight(f)' /\ FunRight(f, g)' /\ info'.line = n /\ info'.narg = 0
  BY <1>1, <1>2 DEF OnTheWay, InSource, InCode, FileRight, FunRight, ends
<1>4. lline \in Int /\ lline <= n /\ n \in Int /\ \A k \in lline+1..n : k \notin FileStarts
  BY <1>1, ChainFacts DEF OnTheWay, DebugInv, EndsOK
<1>5. lline \notin FileStarts
  BY <1>1 DEF NamesFile, FileStarts
<1>6. lline' <= n /\ \A k \in lline'+1..n : k \notin FileStarts
  <2>1. \A k \in lline'+1..n : k = lline \/ k \in lline+1..n
    BY <1>1, <1>4
  <2> QED
    BY <1>1, <1>4, <1>5, <2>1
<1> QED
  BY <1>1, <1>2, <1>3, <1>6 DEF OnTheWay

(* The nearest stab that names a file is the one the loop stopped at. *)
LEMMA WayNamed ==
  ASSUME DebugInv, NEW f \in Index, NEW g \in Index, NEW n \in Index,
         InLine(f, g, n), OnTheWay(f, g, n), FileNamed
  PROVE  OnTheWay(f, g, n)'
<1>1. /\ stabs' = stabs /\ eip' = eip /\ UNCHANGED ends /\ phase = "file"
      /\ lline >= lfile => NamesFile(lline)
      /\ info' = [info EXCEPT !.file = IF lline >= lfile /\ stabs[lline].named
                                         THEN lline ELSE @]
  BY DEF FileNamed, given
<1>2. FileEnd(f)' = FileEnd(f) /\ FunEnd(f, g)' = FunEnd(f, g) /\ FileStarts' = FileStarts
  BY <1>1, ChainStays
<1>3. info \in [file : Int, line : Int, fn : Int, fn_addr : Int, narg : Nat]
  BY DEF DebugInv, InfoOK
<1>4. /\ info'.file = IF lline >= lfile /\ stabs[lline].named THEN lline ELSE info.file
      /\ info'.line = info.line /\ info'.fn = info.fn
      /\ info'.fn_addr = info.fn_addr /\ info'.narg = info.narg
  BY <1>1, <1>3
<1>5. FileRight(f) /\ FunRight(f, g) /\ info.line = n /\ info.narg = 0
  BY <1>1 DEF OnTheWay, InSource, InCode
<1>6. FileRight(f)' /\ FunRight(f, g)'
  BY <1>1, <1>2, <1>4, <1>5 DEF FileRight, FunRight, ends
<1>7. /\ lline \in Int /\ lline <= n /\ f \in Int /\ n \in Int /\ g \in Int
      /\ \A k \in lline+1..n : k \notin FileStarts
      /\ lline >= f => lline \in Index
  <2>1. lfile = f /\ f \in Int /\ 0 <= f /\ NStabs \in Nat
    BY <1>5, Sizes DEF FileRight, Index
  <2> QED
    BY <1>1, <2>1, ChainFacts DEF OnTheWay, DebugInv, EndsOK, Index
<1>8. NameRight(f, n)'
  <2> SUFFICES ASSUME NEW k \in f..n \cap FileStarts, stabs[k].named,
                      k+1..n \cap FileStarts = {}
               PROVE  info'.file = k
    BY <1>1, <1>2 DEF NameRight
  <2>1. k \in Int /\ f <= k /\ k <= n /\ k \in FileStarts
    BY <1>7
  <2>2. k <= lline
    BY <1>7, <2>1
  <2>3. lline >= lfile /\ lline >= f
    BY <1>5, <1>7, <2>1, <2>2 DEF FileRight
  <2>4. lline \in FileStarts
    <3>1. lline \in Index /\ NamesFile(lline)
      BY <1>1, <1>7, <2>3
    <3>2. stabs[lline].n_value \in Nat
      BY <3>1, StabFacts DEF DebugInv, TableOK
    <3>3. stabs[lline].n_value # 0 => stabs[lline].n_value > 0
      BY <3>2
    <3> QED
      BY <3>1, <3>3 DEF NamesFile, FileStarts
  <2>5. lline \notin k+1..n
    BY <2>4
  <2>6. lline = k
    BY <1>7, <2>1, <2>2, <2>5
  <2> QED
    BY <1>4, <2>3, <2>6
<1>9. lfun = g /\ rfun = FunEnd(f, g) /\ lfun < rfun
  <2>1. lfun = g /\ rfun = FunEnd(f, g) /\ rfun \in Int
    BY <1>5 DEF FunRight, DebugInv, EndsOK
  <2>2. g < n /\ n <= rfun
    BY <2>1, ChainFacts
  <2> QED
    BY <1>7, <2>1, <2>2
<1>10. phase' = "args" /\ lline' = g + 1
  BY <1>9 DEF FileNamed
<1>11. lline' = g + 1 + info'.narg /\ 0..info'.narg-1 = {} /\ info'.line = n
  BY <1>4, <1>5, <1>7, <1>10
<1>12. ArgsSoFar(g)'
  BY <1>11 DEF ArgsSoFar
<1> QED
  BY <1>6, <1>8, <1>10, <1>11, <1>12 DEF OnTheWay

LEMMA WayArgument ==
  ASSUME DebugInv, NEW f \in Index, NEW g \in Index, NEW n \in Index,
         InLine(f, g, n), OnTheWay(f, g, n), Argument
  PROVE  OnTheWay(f, g, n)'
<1>1. /\ stabs' = stabs /\ eip' = eip /\ UNCHANGED ends
      /\ phase = "args" /\ phase' = "args" /\ lline' = lline + 1
      /\ stabs[lline].n_type = "PSYM"
      /\ info' = [info EXCEPT !.narg = info.narg + 1]
  BY DEF Argument, given, MoreArgs
<1>2. FileEnd(f)' = FileEnd(f) /\ FunEnd(f, g)' = FunEnd(f, g) /\ FileStarts' = FileStarts
  BY <1>1, ChainStays
<1>3. info \in [file : Int, line : Int, fn : Int, fn_addr : Int, narg : Nat]
  BY DEF DebugInv, InfoOK
<1>4. /\ info'.file = info.file /\ info'.line = info.line /\ info'.fn = info.fn
      /\ info'.fn_addr = info.fn_addr /\ info'.narg = info.narg + 1
      /\ info.narg \in Nat
  BY <1>1, <1>3
<1>5. /\ FileRight(f) /\ FunRight(f, g) /\ info.line = n /\ NameRight(f, n)
      /\ lline = g + 1 + info.narg /\ ArgsSoFar(g) /\ g \in Int
  BY <1>1, ChainFacts DEF OnTheWay, InSource, InCode
<1>6. FileRight(f)' /\ FunRight(f, g)' /\ NameRight(f, n)'
  BY <1>1, <1>2, <1>4, <1>5 DEF FileRight, FunRight, NameRight, ends
<1>7. lline' = g + 1 + info'.narg
  BY <1>1, <1>4, <1>5
<1>8. ArgsSoFar(g)'
  <2>1. \A k \in 0..info'.narg-1 : k \in 0..info.narg-1 \/ k = info.narg
    BY <1>4
  <2> QED
    BY <1>1, <1>5, <2>1 DEF ArgsSoFar
<1> QED
  BY <1>1, <1>4, <1>5, <1>6, <1>7, <1>8 DEF OnTheWay

(* The count stops at the line at the latest. *)
LEMMA WayCounted ==
  ASSUME DebugInv, NEW f \in Index, NEW g \in Index, NEW n \in Index,
         InLine(f, g, n), OnTheWay(f, g, n), ArgsCounted
  PROVE  OnTheWay(f, g, n)'
<1>1. /\ stabs' = stabs /\ eip' = eip /\ UNCHANGED ends /\ info' = info
      /\ phase = "args" /\ phase' = "ok" /\ ~MoreArgs
  BY DEF ArgsCounted, given, Return
<1>2. FileEnd(f)' = FileEnd(f) /\ FunEnd(f, g)' = FunEnd(f, g) /\ FileStarts' = FileStarts
  BY <1>1, ChainStays
<1>3. /\ FileRight(f) /\ FunRight(f, g) /\ info.line = n /\ NameRight(f, n)
      /\ lline = g + 1 + info.narg /\ ArgsSoFar(g)
  BY <1>1 DEF OnTheWay, InSource, InCode
<1>4. FileRight(f)' /\ FunRight(f, g)' /\ NameRight(f, n)' /\ ArgsSoFar(g)'
  BY <1>1, <1>2, <1>3 DEF FileRight, FunRight, NameRight, ArgsSoFar, ends
<1>5. stabs[lline].n_type # "PSYM"
  <2> SUFFICES ASSUME stabs[lline].n_type = "PSYM" PROVE FALSE
    OBVIOUS
  <2>1. /\ lline \in Int /\ rfun \in Int /\ lline <= rfun /\ ~(lline < rfun)
        /\ rfun = FunEnd(f, g)
    BY <1>1, <1>3 DEF MoreArgs, DebugInv, EndsOK, FunRight
  <2>2. g < n /\ n <= lline /\ g \in Int /\ n \in Int /\ stabs[n].n_type = "SLINE"
    BY <2>1, ChainFacts
  <2>3. info.narg \in Nat
    BY DEF DebugInv, InfoOK
  <2>4. CASE n = lline
    BY <2>2, <2>4
  <2>5. CASE n # lline
    <3>1. n - g - 1 \in 0..info.narg-1 /\ g + 1 + (n - g - 1) = n
      BY <1>3, <2>2, <2>3, <2>5
    <3>2. stabs[g + 1 + (n - g - 1)].n_type = "PSYM"
      BY <1>3, <3>1 DEF ArgsSoFar
    <3> QED
      BY <2>2, <3>1, <3>2
  <2> QED
    BY <2>4, <2>5
<1> QED
  BY <1>1, <1>3, <1>4, <1>5 DEF OnTheWay

LEMMA LocStart == Init => LocInv
BY DEF Init, LocInv, OnTheWay, InSource, InCode

LEMMA LocNext == DebugInv /\ LocInv /\ [Next]_vars => LocInv'
<1> SUFFICES ASSUME DebugInv, LocInv, [Next]_vars,
                    NEW f \in Index, NEW g \in Index, NEW n \in Index, InLine(f, g, n)'
             PROVE  OnTheWay(f, g, n)'
  BY DEF LocInv, Index
<1>1. stabs' = stabs /\ eip' = eip
  <2>1. CASE Searching
    BY <2>1, FileInv, FunInv, LineInv DEF Searching, DebugInv, SearchOK
  <2>2. CASE ~Searching
    BY <2>2 DEF Next, Step, Done, vars, given, UserAddress, BadStrings, SearchFile,
      FileFound, FunFound, LineFound, FileBack, FileNamed, Argument, ArgsCounted
  <2> QED
    BY <2>1, <2>2
<1>2. InLine(f, g, n)
  BY <1>1, ChainStays
<1>3. OnTheWay(f, g, n)
  BY <1>2 DEF LocInv
<1> QED
  BY <1>2, <1>3, WayPlain, WayFile, WayFun, WayLine, WayBack, WayNamed,
     WayArgument, WayCounted DEF Next, Step, Done

(* An address that has a file, a function and a line is given them by      *)
(* debuginfo_eip, with the function's start, the number of its arguments   *)
(* and the included file the line may come from, for every table in which  *)
(* the stabs around the address are in order (kern/kdebug.c:138-215).      *)
THEOREM AddressIsLocated == Spec => []Located
<1>1. LocInv => Located
  BY DEF LocInv, OnTheWay, Located, FunRight, NameRight, ArgsSoFar, InCode
<1>2. Spec => []LocInv
  BY LocStart, LocNext, DebugInvariant, PTL DEF Spec
<1> QED
  BY <1>1, <1>2, PTL

-----------------------------------------------------------------------------
(* What is left of debuginfo_eip: the phases that may still come; within a *)
(* search, its own measures, which do not depend on the type it looks for; *)
(* within a loop, the entries up to its end.                               *)
PhasesLeft ==
  CASE phase = "call" -> 6 [] phase = "SO"   -> 5 [] phase = "FUN"  -> 4
    [] phase = "SLINE" -> 3 [] phase = "file" -> 2 [] phase = "args" -> 1
    [] OTHER -> 0

LoopLeft ==
  CASE phase = "file" -> lline + 1
    [] phase = "args" -> rfun - lline
    [] OTHER          -> 0

SearchLeft == <<FileThm!Stage, FileThm!Left, FileThm!LeftOfTurn>>

Nearer ==
  \/ PhasesLeft' < PhasesLeft
  \/ phase' = phase /\ phase \in Searches /\ FileThm!Nearer
  \/ phase' = phase /\ phase \in {"file", "args"} /\ LoopLeft' < LoopLeft

LEMMA SameMeasure ==
  /\ (FunThm!Nearer <=> FileThm!Nearer) /\ (LineThm!Nearer <=> FileThm!Nearer)
  /\ FunThm!Stage = FileThm!Stage /\ LineThm!Stage = FileThm!Stage
  /\ FunThm!Left = FileThm!Left /\ LineThm!Left = FileThm!Left
  /\ FunThm!LeftOfTurn = FileThm!LeftOfTurn /\ LineThm!LeftOfTurn = FileThm!LeftOfTurn
BY DEF FileThm!Nearer, FunThm!Nearer, LineThm!Nearer, FileThm!Stage, FunThm!Stage,
  LineThm!Stage, FileThm!Left, FunThm!Left, LineThm!Left, FileThm!LeftOfTurn,
  FunThm!LeftOfTurn, LineThm!LeftOfTurn

LEMMA Finite ==
  ASSUME DebugInv
  PROVE  /\ PhasesLeft \in 0..6 /\ LoopLeft \in Nat
         /\ phase \in Searches => SearchLeft \in Nat \X Nat \X Nat
<1>1. PhasesLeft \in 0..6
  BY DEF PhasesLeft
<1>2. LoopLeft \in Nat
  BY DEF LoopLeft, DebugInv, EndsOK
<1>3. /\ FileThm!StabAssumption /\ FunThm!StabAssumption /\ LineThm!StabAssumption
  BY Sizes, StabFacts
  DEF FileThm!StabAssumption, FunThm!StabAssumption, LineThm!StabAssumption
<1>4. ASSUME phase \in Searches
      PROVE  FileThm!Stage \in Nat /\ FileThm!Left \in Nat /\ FileThm!LeftOfTurn \in Nat
  <2>1. FileThm!SearchInv \/ FunThm!SearchInv \/ LineThm!SearchInv
    BY <1>4 DEF Searches, DebugInv, SearchOK
  <2>2. CASE FileThm!SearchInv
    BY <1>3, <2>2, FileThm!MeasureType
  <2>3. CASE FunThm!SearchInv
    BY <1>3, <2>3, FunThm!MeasureType, SameMeasure
  <2>4. CASE LineThm!SearchInv
    BY <1>3, <2>4, LineThm!MeasureType, SameMeasure
  <2> QED
    BY <2>1, <2>2, <2>3, <2>4
<1> QED
  BY <1>1, <1>2, <1>4 DEF SearchLeft

LEMMA SearchingNearer ==
  ASSUME DebugInv, Searching
  PROVE  Nearer
<1>1. /\ FileThm!StabAssumption /\ FunThm!StabAssumption /\ LineThm!StabAssumption
  BY Sizes, StabFacts
  DEF FileThm!StabAssumption, FunThm!StabAssumption, LineThm!StabAssumption
<1>2. phase' = phase /\ phase \in Searches
  BY DEF Searching, own, Searches
<1>3. FileThm!Nearer
  <2>1. CASE phase = "SO" /\ FileSearch!Step
    BY <1>1, <2>1, FileStep, FileThm!StepNearer DEF DebugInv, SearchOK
  <2>2. CASE phase = "FUN" /\ FunSearch!Step
    BY <1>1, <2>2, FunStep, FunThm!StepNearer, SameMeasure DEF DebugInv, SearchOK
  <2>3. CASE phase = "SLINE" /\ LineSearch!Step
    BY <1>1, <2>3, LineStep, LineThm!StepNearer, SameMeasure DEF DebugInv, SearchOK
  <2> QED
    BY <2>1, <2>2, <2>3 DEF Searching
<1> QED
  BY <1>2, <1>3 DEF Nearer

LEMMA OwnNearer ==
  ASSUME DebugInv, Step, ~Searching
  PROVE  Nearer
<1>1. CASE UserAddress \/ BadStrings \/ SearchFile \/ FileFound \/ FunFound \/ LineFound
           \/ FileNamed \/ ArgsCounted
  <2>1. \/ phase = "call" /\ phase' \in {"panic", "none", "SO"}
        \/ phase = "SO" /\ phase' \in {"none", "FUN"}
        \/ phase = "FUN" /\ phase' = "SLINE"
        \/ phase = "SLINE" /\ phase' \in {"none", "file"}
        \/ phase = "file" /\ phase' \in {"args", "ok"}
        \/ phase = "args" /\ phase' = "ok"
    BY <1>1 DEF UserAddress, BadStrings, SearchFile, FileFound, FunFound, LineFound,
      FileNamed, ArgsCounted, Return, Found
  <2> QED
    BY <2>1 DEF Nearer, PhasesLeft
<1>2. lline \in Int /\ rfun \in Int
  BY DEF DebugInv, EndsOK
<1>3. CASE FileBack
  <2>1. phase = "file" /\ phase' = phase /\ lline' = lline - 1
    BY <1>3 DEF FileBack, Back
  <2> QED
    BY <1>2, <2>1 DEF Nearer, LoopLeft
<1>4. CASE Argument
  <2>1. phase = "args" /\ phase' = phase /\ lline' = lline + 1 /\ rfun' = rfun
    BY <1>4 DEF Argument, ends
  <2> QED
    BY <1>2, <2>1 DEF Nearer, LoopLeft
<1> QED
  BY <1>1, <1>3, <1>4 DEF Step

(* Every step of debuginfo_eip, and of the searches it calls, brings it    *)
(* nearer to its return, in an order in which nothing goes down for ever,  *)
(* on any table and for any address; with the fairness of FairSpec this is *)
(* Finishes.                                                               *)
THEOREM LookupProgresses ==
  Spec => /\ [](/\ PhasesLeft \in 0..6 /\ LoopLeft \in Nat
                /\ phase \in Searches => SearchLeft \in Nat \X Nat \X Nat)
          /\ [][Nearer]_vars
<1>1. DebugInv /\ [Next]_vars => [Nearer]_vars
  BY SearchingNearer, OwnNearer DEF Next, Done
<1> QED
  BY <1>1, Finite, DebugInvariant, PTL DEF Spec
=============================================================================
