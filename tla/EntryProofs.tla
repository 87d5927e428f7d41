---------------------------- MODULE EntryProofs -----------------------------
(***************************************************************************)
(* From the entry point to the monitor no access goes astray, and the      *)
(* backtrace lists the calls under way, for every page and stack size,     *)
(* every depth of test_backtrace and every frame layout that fits.         *)
(***************************************************************************)
EXTENDS Startup, SequenceTheorems, TLAPS

(***************************************************************************)
(* The inductive invariant.  Before the jump the code runs at its physical *)
(* address, which the first entry of the directory maps to itself; after   *)
(* it at the address it is linked at.  The frames of the calls under way   *)
(* lie on the stack at or above esp, each holds its call's return address  *)
(* and arguments, and each saved ebp is the place of the frame outside it. *)
(***************************************************************************)
Region == bootstack..bootstacktop-1

CallRec == [eip : Nat, args : Seq(Nat), frame : Nat]

EntryTypeOK ==
  /\ esp \in Nat /\ ebp \in Nat /\ stack \in [Region -> Nat]
  /\ calls \in Seq(CallRec) /\ trace \in Seq([eip : Nat, args : [1..5 -> Nat]])

Low  == {"entry", "load_cr3", "set_cr0", "jump"}
Body == {"i386_init", "test_backtrace", "mon_backtrace"}

MachineOK ==
  /\ at \in Low \cup {"relocated", "call_init", "prologue", "walk", "return", "monitor"}
       \cup Body
  /\ at \in Low => base = 0
  /\ at \notin Low => base = KERNBASE
  /\ at \in {"entry", "load_cr3", "set_cr0"} => cr0 = {"CR0_PE"}
  /\ at = "set_cr0" => cr3
  /\ at \notin {"entry", "load_cr3", "set_cr0"} =>
       cr3 /\ cr0 = {"CR0_PE", "CR0_PG", "CR0_WP"}
  /\ ~stray

k == Len(calls)

(* The words that a call pushed. *)
FrameOK(m, c) ==
  /\ c.frame \in Region /\ c.frame + 1 + Len(c.args) \in Region
  /\ Len(c.args) <= 5
  /\ m[c.frame + 1] = c.eip
  /\ \A n \in 1..Len(c.args) : m[c.frame + 1 + n] = c.args[n]

(* Where the j-th of the calls s returns to, and the frame outside its own. *)
ReturnOK(s, j) ==
  /\ j = Len(s)     => s[j].eip = KERNBASE + Text + 1
  /\ j = Len(s) - 1 => s[j].eip = KERNBASE + Text + 2
  /\ j < Len(s) - 1 => s[j].eip \in {KERNBASE + Text + 3, KERNBASE + Text + 4}

Outer(s, j) == IF j = Len(s) THEN 0 ELSE s[j + 1].frame

(* The size of a frame with its call, the most there is room for. *)
Room == (KSTKSIZE - 5) \div (Depth + 2)

CallsOK ==
  /\ \A j \in 1..k : FrameOK(stack, calls[j]) /\ ReturnOK(calls, j)
  /\ \A j \in 1..k :
       (j = 1 => at # "prologue") => stack[calls[j].frame] = Outer(calls, j)

StackOK ==
  /\ at \in Low \cup {"relocated", "call_init"} => calls = <<>>
  /\ at = "call_init" => ebp = 0 /\ esp = bootstacktop
  /\ at = "prologue" =>
       /\ k > 0 /\ fn \in Body
       /\ esp - 1 = calls[1].frame /\ ebp = Outer(calls, 1)
       /\ \A j \in 2..k : esp <= calls[j].frame
       /\ fn # "mon_backtrace" => esp + 2 >= bootstacktop - (k - 1) * Room
  /\ at \in Body =>
       /\ k > 0 /\ fn = at
       /\ \A j \in 1..k : esp <= calls[j].frame
       /\ at # "mon_backtrace" => esp >= bootstacktop - k * Room
  /\ at \in Body \cup {"walk", "return"} => k > 0 /\ ebp = calls[1].frame
  /\ at \in {"walk", "return"} => k >= 2

(* Which call is in hand. *)
PhaseOK ==
  at \in Body \cup {"prologue"} =>
    /\ fn = "i386_init" => k = 1
    /\ fn = "test_backtrace" => k \in 2..Depth+2 /\ calls[1].args = <<Depth + 2 - k>>
    /\ fn = "mon_backtrace" => k \in 3..Depth+3

(* What has been listed. *)
TraceOK ==
  at = "walk" \/ (at = "return" /\ fn = "mon_backtrace") =>
    /\ Len(trace) <= k
    /\ \A j \in 1..Len(trace) : Agrees(trace[j], calls[j])
    /\ walk = IF Len(trace) = k THEN 0 ELSE calls[Len(trace) + 1].frame
    /\ at = "return" => Len(trace) = k

EntryInv ==
  EntryTypeOK /\ MachineOK /\ CallsOK /\ StackOK /\ PhaseOK /\ TraceOK

-----------------------------------------------------------------------------
(* Division with remainder. *)
LEMMA Quotient ==
  ASSUME NEW C \in Nat \ {0}, NEW q \in Nat, NEW r \in 0..C-1
  PROVE  (q * C + r) \div C = q /\ (q * C + r) % C = r
<1> DEFINE n == q * C + r
           d == n \div C
           m == n % C
<1>1. C \in Nat /\ C >= 1 /\ r \in Nat /\ r < C /\ q * C \in Nat /\ n \in Nat
  OBVIOUS
<1>2. d \in Nat /\ m \in Nat /\ m < C /\ n = d * C + m
  BY <1>1
<1>3. n = q * C + r
  OBVIOUS
<1> HIDE DEF d, m, n
<1>4. ASSUME d >= q + 1 PROVE FALSE
  <2>1. d * C >= (q + 1) * C /\ (q + 1) * C = q * C + C /\ d * C \in Nat
    BY <1>1, <1>2, <1>4
  <2> QED
    BY <1>1, <1>2, <1>3, <2>1
<1>5. ASSUME q >= d + 1 PROVE FALSE
  <2>1. q * C >= (d + 1) * C /\ (d + 1) * C = d * C + C /\ d * C \in Nat
    BY <1>1, <1>2, <1>5
  <2> QED
    BY <1>1, <1>2, <1>3, <2>1
<1>6. d = q
  BY <1>2, <1>4, <1>5
<1>7. m = r
  BY <1>1, <1>2, <1>3, <1>6
<1> QED
  BY <1>6, <1>7 DEF d, m, n

LEMMA Sizes ==
  /\ PGSIZE \in Nat \ {0} /\ NPTENTRIES \in Nat \ {0} /\ PTSIZE \in Nat \ {0}
  /\ KERNDIR \in Nat /\ KERNBASE \in Nat /\ ULIM <= KERNBASE
  /\ KERNBASE >= 3 * PTSIZE
  /\ Text \in Nat /\ Stack \in Nat /\ KSTKSIZE \in Nat /\ Depth \in Nat
  /\ Text + 4 < Stack /\ Stack + KSTKSIZE + 5 <= PTSIZE
<1>1. /\ PGSIZE \in Nat \ {0} /\ NPTENTRIES \in Nat \ {0}
      /\ KERNDIR \in Nat /\ KERNDIR >= 3
      /\ Text \in Nat /\ Stack \in Nat /\ KSTKSIZE \in Nat /\ Depth \in Nat
      /\ Text + 4 < Stack /\ Stack + KSTKSIZE + 5 <= PTSIZE
  BY EntryAssumption
<1>2. PTSIZE \in Nat \ {0}
  BY <1>1 DEF PTSIZE
<1>3. KERNBASE \in Nat /\ KERNBASE >= 3 * PTSIZE
  BY <1>1, <1>2 DEF KERNBASE
<1>4. ULIM <= KERNBASE
  BY <1>2, <1>3 DEF ULIM
<1> QED
  BY <1>1, <1>2, <1>3, <1>4

(* The parts of an address in the D-th region that a page table maps. *)
LEMMA Parts ==
  ASSUME NEW D \in Nat, NEW a \in 0..PTSIZE-1
  PROVE  LET va == D * PTSIZE + a
         IN  /\ PDX(va) = D
             /\ PTX(va) \in 0..NPTENTRIES-1
             /\ PTX(va) * PGSIZE + PGOFF(va) = a
<1> DEFINE P == PGSIZE
           N == NPTENTRIES
           T == PTSIZE
           va == D * T + a
           q == a \div P
           r == a % P
<1>1. /\ P \in Nat \ {0} /\ N \in Nat \ {0} /\ T \in Nat \ {0} /\ T = P * N
      /\ a \in Nat /\ a < T
  BY Sizes DEF PTSIZE
<1>2. q \in Nat /\ r \in 0..P-1 /\ a = q * P + r
  BY <1>1
<1> HIDE DEF P, N, T, q, r
<1>3. q \in 0..N-1
  <2>1. ASSUME q >= N PROVE FALSE
    <3>1. q * P >= N * P /\ N * P = P * N /\ q * P \in Nat
      BY <1>1, <1>2, <2>1
    <3> QED
      BY <1>1, <1>2, <3>1
  <2> QED
    BY <1>1, <1>2, <2>1
<1>4. va \div T = D
  BY <1>1, Quotient
<1>5. va = (D * N + q) * P + r
  <2>1. D * T = (D * N) * P
    BY <1>1
  <2>2. (D * N + q) * P = (D * N) * P + q * P
    BY <1>1, <1>2
  <2>3. D * N \in Nat /\ D * T \in Nat /\ q * P \in Nat
    BY <1>1, <1>2
  <2> QED
    BY <1>1, <1>2, <2>1, <2>2, <2>3
<1>6. D * N + q \in Nat
  BY <1>1, <1>2
<1> HIDE DEF va
<1>7. va \div P = D * N + q /\ va % P = r
  BY <1>1, <1>2, <1>5, <1>6, Quotient
<1>8. (va \div P) % N = q
  BY <1>1, <1>3, <1>7, Quotient
<1> QED
  BY <1>2, <1>3, <1>4, <1>7, <1>8 DEF PDX, PTX, PGOFF, va, P, N, T

PagingOn == cr3 /\ cr0 = {"CR0_PE", "CR0_PG", "CR0_WP"}

(* Under paging, the linked addresses reach the loaded kernel, and its     *)
(* physical addresses can still be read.                                   *)
LEMMA Mapped ==
  ASSUME PagingOn, NEW a \in 0..PTSIZE-1
  PROVE  /\ \A write \in BOOLEAN : Reaches(KERNBASE + a, write, a)
         /\ Reaches(a, FALSE, a)
<1>1. PTSIZE \in Nat \ {0} /\ KERNDIR \in Nat /\ KERNDIR >= 3
  BY Sizes, EntryAssumption
<1>2. PDX(KERNBASE) = KERNDIR
  <2>1. 0 \in 0..PTSIZE-1 /\ KERNBASE = KERNDIR * PTSIZE + 0
    BY <1>1 DEF KERNBASE
  <2> QED
    BY <1>1, <2>1, Parts
<1>3. entry_pgdir(KERNDIR) = {PTE_P, PTE_W} /\ entry_pgdir(0) = {PTE_P}
  BY <1>1, <1>2 DEF entry_pgdir
<1>4. ASSUME NEW v, PTX(v) \in 0..NPTENTRIES-1
      PROVE  /\ entry_pgtable[PTX(v)].addr = PTX(v) * PGSIZE
             /\ entry_pgtable[PTX(v)].flags = {PTE_P, PTE_W}
  BY <1>4 DEF entry_pgtable
<1>5. "CR0_PG" \in cr0 /\ cr3
  BY DEF PagingOn
<1>6. ASSUME NEW write \in BOOLEAN PROVE Reaches(KERNBASE + a, write, a)
  <2> DEFINE v == KERNBASE + a
  <2>1. /\ PDX(v) = KERNDIR /\ PTX(v) \in 0..NPTENTRIES-1
        /\ PTX(v) * PGSIZE + PGOFF(v) = a
    BY <1>1, Parts DEF KERNBASE
  <2> HIDE DEF v
  <2> QED
    BY <1>3, <1>4, <1>5, <2>1 DEF Reaches, v
<1>7. Reaches(a, FALSE, a)
  <2>1. 0 * PTSIZE + a = a
    BY <1>1
  <2>2. /\ PDX(a) = 0 /\ PTX(a) \in 0..NPTENTRIES-1
        /\ PTX(a) * PGSIZE + PGOFF(a) = a
    BY <2>1, Parts
  <2> QED
    BY <1>3, <1>4, <1>5, <2>2 DEF Reaches
<1> QED
  BY <1>6, <1>7

(* What the code fetches, loads and stores once the kernel has moved up. *)
LEMMA MappedKernel ==
  ASSUME PagingOn, NEW a \in KERNBASE..KERNBASE+PTSIZE-1
  PROVE  Load(a) /\ Store(a)
<1>1. a - KERNBASE \in 0..PTSIZE-1 /\ KERNBASE + (a - KERNBASE) = a
  BY Sizes
<1> QED
  BY <1>1, Mapped DEF Load, Store

-----------------------------------------------------------------------------
(* The next instruction is fetched from the kernel's code at every stage. *)
LEMMA Fetched ==
  ASSUME MachineOK
  PROVE  Fetch(0)
<1>1. Text \in 0..PTSIZE-1 /\ Text + 0 = Text /\ KERNBASE \in Nat
  BY Sizes
<1>2. CASE at \in {"entry", "load_cr3", "set_cr0"}
  <2>1. "CR0_PG" \notin cr0 /\ base = 0
    BY <1>2 DEF MachineOK, Low
  <2> QED
    BY <1>1, <2>1 DEF Fetch, Reaches
<1>3. CASE at = "jump"
  <2>1. PagingOn /\ base = 0 /\ base + Text = Text
    BY <1>1, <1>3 DEF MachineOK, Low, PagingOn
  <2> QED
    BY <1>1, <2>1, Mapped DEF Fetch
<1>4. CASE at \notin Low
  <2>1. PagingOn /\ base = KERNBASE /\ base + Text + 0 = KERNBASE + Text
    BY <1>1, <1>4 DEF MachineOK, Low, PagingOn
  <2> QED
    BY <1>1, <2>1, Mapped DEF Fetch
<1> QED
  BY <1>2, <1>3, <1>4 DEF Low

LEMMA StackFacts ==
  /\ bootstack \in Nat /\ bootstacktop \in Nat
  /\ bootstack > KERNBASE /\ KERNBASE \in Nat
  /\ bootstacktop = bootstack + KSTKSIZE
  /\ bootstacktop + 5 <= KERNBASE + PTSIZE
BY Sizes DEF bootstack, bootstacktop

(* How far the calls can get down the stack. *)
LEMMA RoomFacts ==
  /\ Room \in Nat
  /\ \A n \in Other : n \in Nat /\ n + 3 <= Room
  /\ \A m \in 0..Depth+2 : m * Room \in Nat /\ bootstack + 5 <= bootstacktop - m * Room
  /\ \A m \in Nat : (m + 1) * Room = m * Room + Room
<1> DEFINE D == Depth + 2
           S == KSTKSIZE - 5
           R == Room
<1>1. D \in Nat \ {0} /\ KSTKSIZE \in Nat
  BY Sizes
<1>2. ASSUME NEW n \in Other PROVE n \in Nat /\ D * (n + 3) <= S
  <2>1. n \in Nat /\ (Depth + 2) * (n + 3) + 5 <= KSTKSIZE
    BY EntryAssumption
  <2> DEFINE w == (Depth + 2) * (n + 3)
  <2>2. w \in Nat /\ w + 5 <= KSTKSIZE
    BY <1>1, <2>1
  <2> HIDE DEF w
  <2>3. w <= KSTKSIZE - 5
    BY <1>1, <2>2
  <2> QED
    BY <2>1, <2>3 DEF w
<1>3. S \in Nat
  <2>1. PICK n \in Other : TRUE
    BY EntryAssumption
  <2>2. n \in Nat /\ D * (n + 3) <= S /\ D * (n + 3) \in Nat
    BY <1>1, <1>2
  <2> QED
    BY <1>1, <2>2
<1>4. R = S \div D
  BY DEF Room
<1> HIDE DEF D, S, R
<1>5. R \in Nat /\ R * D <= S /\ S < R * D + D
  <2>1. R \in Nat /\ S % D \in 0..D-1 /\ S = R * D + (S % D)
    BY <1>1, <1>3, <1>4
  <2>2. R * D \in Nat
    BY <1>1, <2>1
  <2> QED
    BY <1>1, <2>1, <2>2
<1>6. ASSUME NEW n \in Other PROVE n \in Nat /\ n + 3 <= R
  <2>1. n \in Nat /\ D * (n + 3) <= S
    BY <1>2
  <2>2. ASSUME n + 3 >= R + 1 PROVE FALSE
    <3> DEFINE e == n + 3
    <3>1. e \in Nat /\ e >= R + 1 /\ D * e <= S
      BY <2>1, <2>2
    <3> HIDE DEF e
    <3>2. (R + 1) * D <= e * D /\ (R + 1) * D = R * D + D /\ e * D = D * e
      BY <1>1, <1>5, <3>1
    <3>3. R * D \in Nat /\ D * e \in Nat
      BY <1>1, <1>5, <3>1
    <3> QED
      BY <1>1, <1>3, <1>5, <3>1, <3>2, <3>3
  <2> QED
    BY <1>5, <2>1, <2>2
<1>7. ASSUME NEW m \in 0..D PROVE m * R \in Nat /\ m * R <= S
  <2>1. m * R \in Nat /\ m * R <= D * R /\ D * R = R * D
    BY <1>1, <1>5
  <2> QED
    BY <1>1, <1>3, <1>5, <2>1
<1>8. \A m \in Nat : (m + 1) * R = m * R + R
  BY <1>5
<1>9. ASSUME NEW m \in 0..D PROVE bootstack + 5 <= bootstacktop - m * R
  BY <1>1, <1>7, StackFacts DEF S
<1> QED
  BY <1>5, <1>6, <1>7, <1>8, <1>9 DEF D, R

(* What the stack held before a call is still there. *)
LEMMA Untouched ==
  ASSUME NEW c \in CallRec, NEW e \in Nat, e <= c.frame + 1, FrameOK(stack, c),
         \A a \in Region : a >= e => stack'[a] = stack[a]
  PROVE  FrameOK(stack', c) /\ (e <= c.frame => stack'[c.frame] = stack[c.frame])
<1> DEFINE f == c.frame
           z == Len(c.args)
<1>1. f \in Nat /\ z \in Nat
  BY DEF CallRec
<1>2. /\ f \in Region /\ f + 1 + z \in Region /\ z <= 5
      /\ stack[f + 1] = c.eip
      /\ \A n \in 1..z : stack[f + 1 + n] = c.args[n]
  BY DEF FrameOK
<1>3. bootstack \in Nat /\ bootstacktop \in Nat
  BY StackFacts
<1> HIDE DEF f, z
<1>4. e <= f + 1 /\ e \in Nat
  BY DEF f
<1>5. ASSUME NEW n \in 1..1+z PROVE f + n \in Region /\ f + n >= e
  <2>1. n \in Nat /\ n >= 1 /\ n <= 1 + z
    BY <1>1
  <2>2. f >= bootstack /\ f + 1 + z <= bootstacktop - 1
    BY <1>2 DEF Region
  <2> QED
    BY <1>1, <1>3, <1>4, <2>1, <2>2 DEF Region
<1>6. \A n \in 1..1+z : stack'[f + n] = stack[f + n]
  BY <1>5
<1>7. stack'[f + 1] = stack[f + 1]
  <2>1. 1 \in 1..1+z
    BY <1>1
  <2> QED
    BY <1>6, <2>1
<1>8. ASSUME NEW n \in 1..z PROVE stack'[f + 1 + n] = c.args[n]
  <2>1. 1 + n \in 1..1+z /\ f + 1 + n = f + (1 + n)
    BY <1>1
  <2> QED
    BY <1>2, <1>6, <2>1
<1>9. e <= f => stack'[f] = stack[f]
  BY <1>1, <1>2, <1>4
<1> QED
  BY <1>2, <1>7, <1>8, <1>9 DEF FrameOK, f, z

-----------------------------------------------------------------------------
(* A sequence with one more element in front. *)
LEMMA InFront ==
  ASSUME NEW S, NEW first \in S, NEW s \in Seq(S)
  PROVE  /\ <<first>> \o s \in Seq(S)
         /\ Len(<<first>> \o s) = Len(s) + 1
         /\ (<<first>> \o s)[1] = first
         /\ \A n \in 1..Len(s) : (<<first>> \o s)[n + 1] = s[n]
<1> DEFINE one == <<first>>
           t == one \o s
<1>1. one = <<first>>
  OBVIOUS
<1> HIDE DEF one
<1>2. one \in Seq(S)
  BY <1>1
<1>3. Len(one) = 1 /\ one[1] = first
  BY <1>1
<1>4. /\ t \in Seq(S) /\ Len(t) = Len(one) + Len(s)
      /\ \A n \in 1..Len(one)+Len(s) : t[n] = IF n <= Len(one) THEN one[n] ELSE s[n - Len(one)]
  BY <1>2, ConcatProperties
<1>5. Len(s) \in Nat
  BY LenProperties
<1>6. t \in Seq(S) /\ Len(t) = 1 + Len(s)
  BY <1>3, <1>4, <1>5
<1>7. \A n \in 1..1+Len(s) : t[n] = IF n <= 1 THEN one[n] ELSE s[n - 1]
  BY <1>3, <1>4, <1>5
<1> HIDE DEF t
<1>8. t[1] = first
  BY <1>3, <1>5, <1>7
<1>9. ASSUME NEW n \in 1..Len(s) PROVE t[n + 1] = s[n]
  <2>1. n + 1 \in 1..1+Len(s) /\ ~(n + 1 <= 1) /\ (n + 1) - 1 = n
    BY <1>5
  <2> QED
    BY <1>7, <2>1
<1> QED
  BY <1>5, <1>6, <1>8, <1>9 DEF t, one

(* What a call and a return do to the list of calls. *)
LEMMA Pushed ==
  ASSUME NEW s \in Seq(CallRec), NEW c \in CallRec
  PROVE  LET t == <<c>> \o s
         IN  /\ t \in Seq(CallRec) /\ Len(t) = Len(s) + 1 /\ t[1] = c
             /\ Outer(t, 1) = IF Len(s) = 0 THEN 0 ELSE s[1].frame
             /\ \A j \in 1..Len(s) :
                  /\ t[j + 1] = s[j] /\ Outer(t, j + 1) = Outer(s, j)
                  /\ ReturnOK(s, j) => ReturnOK(t, j + 1)
<1> DEFINE t == <<c>> \o s
           z == Len(s)
<1>1. /\ t \in Seq(CallRec) /\ Len(t) = z + 1 /\ t[1] = c
      /\ \A j \in 1..z : t[j + 1] = s[j]
  BY InFront
<1>2. z \in Nat
  BY LenProperties
<1> HIDE DEF z, t
<1>3. Outer(t, 1) = IF z = 0 THEN 0 ELSE s[1].frame
  <2>1. z # 0 => 1 \in 1..z
    BY <1>2
  <2>2. z # 0 => t[1 + 1] = s[1]
    BY <1>1, <2>1
  <2>3. (1 = Len(t)) <=> (z = 0)
    BY <1>1, <1>2
  <2> QED
    BY <2>2, <2>3 DEF Outer
<1>4. ASSUME NEW j \in 1..z
      PROVE  Outer(t, j + 1) = Outer(s, j) /\ (ReturnOK(s, j) => ReturnOK(t, j + 1))
  <2>1. /\ (j + 1 = Len(t)) <=> (j = z)
        /\ (j + 1 = Len(t) - 1) <=> (j = z - 1)
        /\ (j + 1 < Len(t) - 1) <=> (j < z - 1)
    BY <1>1, <1>2
  <2>2. j # z => j + 1 \in 1..z
    BY <1>2
  <2>3. j # z => t[(j + 1) + 1] = s[j + 1]
    BY <1>1, <2>2
  <2>4. t[j + 1] = s[j]
    BY <1>1
  <2> QED
    BY <2>1, <2>3, <2>4 DEF Outer, ReturnOK, z
<1> QED
  BY <1>1, <1>3, <1>4 DEF z, t

LEMMA Popped ==
  ASSUME NEW s \in Seq(CallRec), s # <<>>
  PROVE  LET t == Tail(s)
         IN  /\ t \in Seq(CallRec) /\ Len(t) = Len(s) - 1
             /\ \A j \in 1..Len(s)-1 :
                  /\ j + 1 \in 1..Len(s)
                  /\ t[j] = s[j + 1] /\ Outer(t, j) = Outer(s, j + 1)
                  /\ ReturnOK(s, j + 1) => ReturnOK(t, j)
<1> DEFINE t == Tail(s)
           z == Len(s)
<1>1. /\ t \in Seq(CallRec) /\ Len(t) = z - 1
      /\ \A j \in 1..z-1 : t[j] = s[j + 1]
  BY HeadTailProperties
<1>2. z \in Nat /\ z >= 1
  BY EmptySeq, LenProperties
<1> HIDE DEF z, t
<1>3. ASSUME NEW j \in 1..z-1
      PROVE  /\ j + 1 \in 1..z /\ Outer(t, j) = Outer(s, j + 1)
             /\ ReturnOK(s, j + 1) => ReturnOK(t, j)
  <2>1. /\ (j + 1 = z) <=> (j = Len(t))
        /\ (j + 1 = z - 1) <=> (j = Len(t) - 1)
        /\ (j + 1 < z - 1) <=> (j < Len(t) - 1)
        /\ j + 1 \in 1..z
    BY <1>1, <1>2
  <2>2. j # Len(t) => j + 1 \in 1..z-1
    BY <1>1, <1>2
  <2>3. j # Len(t) => t[j + 1] = s[(j + 1) + 1]
    BY <1>1, <2>2
  <2>4. t[j] = s[j + 1]
    BY <1>1
  <2> QED
    BY <2>1, <2>3, <2>4 DEF Outer, ReturnOK, z
<1> QED
  BY <1>1, <1>3 DEF z, t

(* entry.S: nothing has been called yet. *)
LEMMA BootStep ==
  ASSUME EntryInv, WarmBoot \/ LoadCr3 \/ TurnOnPaging \/ JumpUp \/ relocated
  PROVE  EntryInv'
<1>1. MachineOK /\ EntryTypeOK /\ Fetch(0)
  BY Fetched DEF EntryInv
<1>2. /\ at \in Low \cup {"relocated"} /\ calls = <<>> /\ calls' = <<>>
      /\ stack' = stack /\ trace' = trace
      /\ at' \in {"load_cr3", "set_cr0", "jump", "relocated", "call_init"}
  BY DEF EntryInv, StackOK, WarmBoot, LoadCr3, TurnOnPaging, JumpUp, relocated,
         Run, Low, frames, listing
<1>3. EntryTypeOK'
  <2>1. esp' \in Nat /\ ebp' \in Nat
    <3>1. \/ esp' = esp /\ ebp' = ebp
          \/ esp' = bootstacktop /\ ebp' = 0
      BY DEF WarmBoot, LoadCr3, TurnOnPaging, JumpUp, relocated, frames
    <3> QED
      BY <1>1, <3>1, StackFacts DEF EntryTypeOK
  <2> QED
    BY <1>1, <1>2, <2>1 DEF EntryTypeOK
<1>4. MachineOK'
  <2>1. CASE WarmBoot
    <3>1. Reaches(0, TRUE, 0)
      BY <1>1, <2>1 DEF MachineOK, WarmBoot, Run, Reaches
    <3> QED
      BY <1>1, <2>1, <3>1 DEF WarmBoot, Run, MachineOK, machine, Low, Body
  <2>2. CASE LoadCr3
    BY <1>1, <2>2 DEF LoadCr3, Run, MachineOK, Low, Body
  <2>3. CASE TurnOnPaging
    <3>1. cr0' = {"CR0_PE", "CR0_PG", "CR0_WP"} /\ cr3' = cr3 /\ base' = base
      BY <1>1, <2>3 DEF TurnOnPaging, Run, MachineOK
    <3>2. at = "set_cr0" /\ at' = "jump" /\ cr3 /\ base = 0
      BY <1>1, <2>3 DEF TurnOnPaging, Run, MachineOK, Low
    <3>3. ~stray'
      BY <1>1, <2>3 DEF TurnOnPaging, Run, MachineOK
    <3>4. cr3'
      BY <3>1, <3>2
    <3> QED
      BY <3>1, <3>2, <3>3, <3>4 DEF MachineOK, Low, Body
  <2>4. CASE JumpUp
    BY <1>1, <2>4 DEF JumpUp, Run, MachineOK, Low, Body
  <2>5. CASE relocated
    BY <1>1, <2>5 DEF relocated, Run, MachineOK, machine, Low, Body
  <2> QED
    BY <2>1, <2>2, <2>3, <2>4, <2>5
<1>5. k' = 0
  BY <1>2 DEF k
<1>6. StackOK'
  <2>1. at' = "call_init" => ebp' = 0 /\ esp' = bootstacktop
    BY DEF WarmBoot, LoadCr3, TurnOnPaging, JumpUp, relocated, Run
  <2> QED
    BY <1>2, <1>5, <2>1 DEF StackOK, Low, Body
<1>7. CallsOK' /\ PhaseOK' /\ TraceOK'
  BY <1>2, <1>5 DEF CallsOK, PhaseOK, TraceOK, Body
<1> QED
  BY <1>3, <1>4, <1>6, <1>7 DEF EntryInv

(* A call pushes its arguments and its return address below all frames. *)
LEMMA CallPushes ==
  ASSUME EntryInv, NEW from \in {"call_init", "i386_init", "test_backtrace"},
         NEW f \in Body, NEW args \in Seq(Nat), Len(args) <= 3,
         NEW ret \in 1..4, k = 0 => ret = 1, k = 1 => ret = 2, k > 1 => ret \in {3, 4},
         Call(from, f, args, ret),
         esp - Len(args) - 2 >= bootstack
  PROVE  /\ EntryTypeOK' /\ MachineOK' /\ CallsOK'
         /\ at' = "prologue" /\ fn' = f /\ k' = k + 1
         /\ calls'[1].args = args /\ esp' = esp - 1 - Len(args)
         /\ esp' - 1 = calls'[1].frame /\ ebp' = Outer(calls', 1)
         /\ \A j \in 2..k' : esp' <= calls'[j].frame
<1> DEFINE pushed == <<base + Text + ret>> \o args
           top == esp - Len(pushed)
           new == [eip |-> pushed[1], args |-> args, frame |-> top - 1]
           z == Len(args)
           e == KERNBASE + Text + ret
<1>1. EntryTypeOK /\ MachineOK /\ Fetch(0) /\ at = from /\ PagingOn /\ base = KERNBASE
  BY Fetched DEF EntryInv, MachineOK, Call, Run, PagingOn, Low
<1>2. /\ esp \in Nat /\ ebp \in Nat /\ stack \in [Region -> Nat] /\ calls \in Seq(CallRec)
      /\ z \in Nat /\ z <= 3 /\ e \in Nat /\ k \in Nat /\ Len(calls) = k
      /\ trace \in Seq([eip : Nat, args : [1..5 -> Nat]])
  BY <1>1, Sizes DEF EntryTypeOK, k
<1>3. /\ pushed \in Seq(Nat) /\ Len(pushed) = 1 + z /\ pushed[1] = e
      /\ \A n \in 1..z : pushed[1 + n] = args[n]
  <2>1. pushed = <<e>> \o args
    BY <1>1
  <2> HIDE DEF pushed, e
  <2>2. /\ pushed \in Seq(Nat) /\ Len(pushed) = Len(args) + 1 /\ pushed[1] = e
        /\ \A n \in 1..Len(args) : pushed[n + 1] = args[n]
    <3>1. e \in Nat /\ args \in Seq(Nat)
      BY <1>2
    <3> QED
      BY <2>1, <3>1, InFront
  <2> QED
    BY <1>2, <2>2
<1>4. /\ calls' = <<new>> \o calls /\ esp' = top /\ ebp' = ebp /\ fn' = f
      /\ at' = "prologue" /\ trace' = trace
      /\ stack' = [a \in Region |->
                   IF a \in top..esp-1 THEN pushed[a - top + 1] ELSE stack[a]]
      /\ UNCHANGED machine
      /\ stray' = (stray \/ ~Fetch(0) \/ ~(\A a \in top..esp-1 : Store(a)))
  BY <1>2 DEF Call, Run, listing
<1>5. /\ \A j \in 1..k : esp <= calls[j].frame
      /\ esp <= bootstacktop
      /\ ebp = IF k = 0 THEN 0 ELSE calls[1].frame
  <2>1. CASE from = "call_init"
    BY <1>1, <1>2, <2>1, StackFacts DEF EntryInv, StackOK, k
  <2>2. CASE from \in Body
    <3>1. (\A j \in 1..k : esp <= calls[j].frame) /\ ebp = calls[1].frame /\ k > 0
      BY <1>1, <2>2 DEF EntryInv, StackOK
    <3>2. calls[1].frame \in Region /\ 1 \in 1..k
      BY <1>2, <3>1 DEF EntryInv, CallsOK, FrameOK
    <3>3. calls[1].frame <= bootstacktop - 1 /\ calls[1].frame \in Nat
      BY <3>2, StackFacts DEF Region
    <3>4. esp <= calls[1].frame
      BY <3>1, <3>2
    <3>5. esp \in Nat /\ bootstacktop \in Nat
      BY <1>2, StackFacts
    <3>6. esp <= bootstacktop
      BY <3>3, <3>4, <3>5
    <3> QED
      BY <1>2, <3>1, <3>6
  <2> QED
    BY <2>1, <2>2 DEF Body
<1> HIDE DEF pushed, top, new, z, e
<1>6. /\ top \in Nat /\ top = esp - 1 - z /\ top - 1 \in Region /\ esp - 1 \in Region
      /\ top \in Region /\ (top - 1) + 1 + z = esp - 1
  <2>1. top = esp - 1 - z /\ top - 1 >= bootstack
    BY <1>2, <1>3 DEF top, z
  <2>2. top \in Nat /\ bootstack \in Nat /\ bootstacktop \in Nat
    BY <1>2, <2>1, StackFacts
  <2> QED
    BY <1>2, <1>5, <2>1, <2>2 DEF Region
<1>7. /\ new \in CallRec /\ new.eip = e /\ new.args = args /\ new.frame = top - 1
  BY <1>2, <1>3, <1>6, StackFacts DEF new, CallRec, Region
<1>8. /\ stack' \in [Region -> Nat]
      /\ \A a \in Region : a >= esp => stack'[a] = stack[a]
      /\ stack'[top] = e
      /\ \A n \in 1..z : stack'[top + n] = args[n]
  <2>1. ASSUME NEW a \in Region, a \in top..esp-1
        PROVE  a - top + 1 \in 1..Len(pushed) /\ pushed[a - top + 1] \in Nat
    <3>1. a - top + 1 \in 1..Len(pushed)
      BY <1>2, <1>3, <1>6, <2>1, StackFacts DEF Region
    <3> QED
      BY <1>3, <3>1, ElementOfSeq
  <2>2. stack' \in [Region -> Nat]
    BY <1>2, <1>4, <2>1
  <2>3. \A a \in Region : a >= esp => stack'[a] = stack[a]
    BY <1>2, <1>4, <1>6, StackFacts DEF Region
  <2>4. stack'[top] = e
    <3>1. top \in top..esp-1 /\ top - top + 1 = 1
      BY <1>2, <1>6
    <3> QED
      BY <1>3, <1>4, <1>6, <3>1
  <2>5. ASSUME NEW n \in 1..z PROVE stack'[top + n] = args[n]
    <3>1. /\ top \in Nat /\ z \in Nat /\ esp \in Nat /\ bootstack \in Nat /\ bootstacktop \in Nat
          /\ top = esp - 1 - z
      BY <1>2, <1>6, StackFacts
    <3>2. bootstack <= top - 1 /\ esp - 1 <= bootstacktop - 1
      BY <1>6, <3>1 DEF Region
    <3>3. n \in Nat /\ 1 <= n /\ n <= z
      BY <3>1
    <3>4. bootstack <= top + n /\ top <= top + n /\ top + n <= esp - 1
      BY <3>1, <3>2, <3>3
    <3>5. top + n \in Region /\ top + n \in top..esp-1 /\ (top + n) - top + 1 = 1 + n
      BY <3>1, <3>2, <3>3, <3>4 DEF Region
    <3> QED
      BY <1>3, <1>4, <3>5
  <2> QED
    BY <2>2, <2>3, <2>4, <2>5
<1>9. /\ calls' \in Seq(CallRec) /\ k' = k + 1 /\ calls'[1] = new
      /\ Outer(calls', 1) = IF k = 0 THEN 0 ELSE calls[1].frame
      /\ \A j \in 1..k : /\ calls'[j + 1] = calls[j]
                         /\ Outer(calls', j + 1) = Outer(calls, j)
                         /\ ReturnOK(calls, j) => ReturnOK(calls', j + 1)
  <2>1. PICK c \in CallRec : c = new
    BY <1>7
  <2> DEFINE t == <<c>> \o calls
  <2>2. calls' = t
    BY <1>4, <2>1
  <2>3. /\ t \in Seq(CallRec) /\ Len(t) = Len(calls) + 1 /\ t[1] = c
        /\ Outer(t, 1) = IF Len(calls) = 0 THEN 0 ELSE calls[1].frame
        /\ \A j \in 1..Len(calls) : /\ t[j + 1] = calls[j]
                                    /\ Outer(t, j + 1) = Outer(calls, j)
                                    /\ ReturnOK(calls, j) => ReturnOK(t, j + 1)
    <3>1. calls \in Seq(CallRec)
      BY <1>2
    <3> QED
      BY <3>1, Pushed
  <2> HIDE DEF t
  <2>4. k' = k + 1
    BY <2>2, <2>3 DEF k
  <2> QED
    BY <2>1, <2>2, <2>3, <2>4 DEF k
<1>10. EntryTypeOK'
  BY <1>2, <1>4, <1>6, <1>8, <1>9 DEF EntryTypeOK
<1>11. MachineOK'
  <2>1. \A a \in top..esp-1 : Store(a)
    <3>1. \A a \in top..esp-1 : a \in KERNBASE..KERNBASE+PTSIZE-1
      BY <1>2, <1>5, <1>6, StackFacts, Sizes DEF Region
    <3> QED
      BY <1>1, <3>1, MappedKernel
  <2>2. ~stray'
    BY <1>1, <1>4, <2>1 DEF MachineOK
  <2> QED
    BY <1>1, <1>4, <2>2 DEF MachineOK, machine, PagingOn, Low, Body
<1>12. ASSUME NEW j \in 1..k, NEW c \in CallRec, c = calls[j]
       PROVE  FrameOK(stack', c) /\ stack'[c.frame] = Outer(calls, j) /\ esp <= c.frame
  <2>1. FrameOK(stack, c) /\ esp <= c.frame
    BY <1>5, <1>12 DEF EntryInv, CallsOK
  <2>2. stack[c.frame] = Outer(calls, j)
    BY <1>1, <1>12 DEF EntryInv, CallsOK
  <2>3. c.frame \in Nat
    BY DEF CallRec
  <2>4. esp <= c.frame + 1
    BY <1>2, <2>1, <2>3
  <2> QED
    BY <1>2, <1>8, <2>1, <2>2, <2>4, Untouched
<1>13. FrameOK(stack', new)
  <2>1. Len(new.args) = z /\ new.frame + 1 = top
    BY <1>6, <1>7 DEF z
  <2>2. new.frame \in Region /\ new.frame + 1 + Len(new.args) \in Region
    BY <1>6, <1>7, <2>1
  <2> QED
    BY <1>2, <1>7, <1>8, <2>1, <2>2 DEF FrameOK
<1>14. FrameOK(stack', calls'[1]) /\ ReturnOK(calls', 1)
  <2>1. calls'[1].eip = KERNBASE + Text + ret
    BY <1>7, <1>9 DEF e
  <2>2. /\ 1 = Len(calls') => ret = 1
        /\ 1 = Len(calls') - 1 => ret = 2
        /\ 1 < Len(calls') - 1 => ret \in {3, 4}
    BY <1>2, <1>9 DEF k
  <2>3. ReturnOK(calls', 1)
    BY <2>1, <2>2 DEF ReturnOK
  <2> QED
    BY <1>9, <1>13, <2>3
<1>15. ASSUME NEW j \in 1..k
       PROVE  /\ FrameOK(stack', calls'[j + 1]) /\ ReturnOK(calls', j + 1)
              /\ stack'[calls'[j + 1].frame] = Outer(calls', j + 1)
              /\ esp <= calls'[j + 1].frame /\ calls'[j + 1].frame \in Nat
  <2>1. calls[j] \in CallRec
    BY <1>2, ElementOfSeq
  <2>2. PICK d \in CallRec : d = calls[j]
    BY <2>1
  <2>3. FrameOK(stack', d) /\ stack'[d.frame] = Outer(calls, j) /\ esp <= d.frame
    BY <1>12, <2>2
  <2>4. ReturnOK(calls, j)
    BY DEF EntryInv, CallsOK
  <2>5. d.frame \in Nat
    BY DEF CallRec
  <2>6. calls'[j + 1] = d /\ Outer(calls', j + 1) = Outer(calls, j)
    BY <1>9, <2>2
  <2>7. ReturnOK(calls', j + 1)
    BY <1>9, <2>4
  <2> QED
    BY <2>3, <2>5, <2>6, <2>7
<1>16. ASSUME NEW i \in 1..k'
       PROVE  /\ FrameOK(stack', calls'[i]) /\ ReturnOK(calls', i)
              /\ i # 1 => /\ stack'[calls'[i].frame] = Outer(calls', i)
                          /\ esp <= calls'[i].frame /\ calls'[i].frame \in Nat
  <2>1. i = 1 \/ \E j \in 1..k : i = j + 1
    <3>1. i # 1 => i - 1 \in 1..k /\ i = (i - 1) + 1
      BY <1>2, <1>9
    <3> QED
      BY <3>1
  <2> QED
    BY <1>14, <1>15, <2>1
<1>17. CallsOK'
  BY <1>4, <1>16 DEF CallsOK
<1>18. ASSUME NEW j \in 2..k' PROVE esp' <= calls'[j].frame
  <2>0. k' \in Nat
    BY <1>2, <1>9
  <2>1. j \in 1..k' /\ j # 1
    BY <2>0
  <2> DEFINE g == calls'[j].frame
  <2>2. esp <= g /\ g \in Nat
    BY <1>16, <2>1
  <2> HIDE DEF g
  <2>3. esp' <= g
    BY <1>2, <1>4, <1>6, <2>2
  <2> QED
    BY <2>3 DEF g
<1>19. /\ calls'[1].args = args /\ esp' = esp - 1 - Len(args)
       /\ esp' - 1 = calls'[1].frame
  BY <1>4, <1>6, <1>7, <1>9 DEF z
<1>20. ebp' = Outer(calls', 1)
  BY <1>4, <1>5, <1>9
<1> QED
  BY <1>4, <1>9, <1>10, <1>11, <1>17, <1>18, <1>19, <1>20

(* Whose turn it is to be called, with which arguments and from where. *)
Turn(f, args, ret) ==
  /\ Len(args) <= 3 /\ (f # "mon_backtrace" => Len(args) <= 1)
  /\ k = 0 => ret = 1
  /\ k = 1 => ret = 2
  /\ k > 1 => ret \in {3, 4}
  /\ f = "i386_init" => k = 0
  /\ f = "test_backtrace" => k \in 1..Depth+1 /\ args = <<Depth + 1 - k>>
  /\ f = "mon_backtrace" => k \in 2..Depth+2
  /\ k <= Depth + 2 /\ esp >= bootstacktop - k * Room

LEMMA Called ==
  ASSUME EntryInv, NEW from \in {"call_init", "i386_init", "test_backtrace"},
         NEW f \in Body, NEW args \in Seq(Nat), NEW ret \in 1..4,
         Turn(f, args, ret), Call(from, f, args, ret)
  PROVE  EntryInv'
<1> USE DEF Turn
<1> DEFINE z == Len(args)
<1>1. esp \in Nat /\ k \in Nat /\ z \in Nat /\ Depth \in Nat
  BY Sizes DEF EntryInv, EntryTypeOK, k
<1>2. bootstack \in Nat /\ bootstacktop \in Nat
  BY StackFacts
<1>3. k * Room \in Nat /\ bootstack + 5 <= bootstacktop - k * Room
  <2>1. k \in 0..Depth+2
    BY <1>1
  <2> QED
    BY <2>1, RoomFacts
<1> HIDE DEF z
<1>4. z <= 3 /\ (f # "mon_backtrace" => z <= 1)
  BY DEF z
<1>5. esp - z - 2 >= bootstack
  <2> DEFINE r == k * Room
  <2>1. r \in Nat /\ bootstack + 5 <= bootstacktop - r /\ esp >= bootstacktop - r
    BY <1>3
  <2> HIDE DEF r
  <2> QED
    BY <1>1, <1>2, <1>4, <2>1
<1>6. /\ EntryTypeOK' /\ MachineOK' /\ CallsOK'
      /\ at' = "prologue" /\ fn' = f /\ k' = k + 1
      /\ calls'[1].args = args /\ esp' = esp - 1 - z
      /\ esp' - 1 = calls'[1].frame /\ ebp' = Outer(calls', 1)
      /\ \A j \in 2..k' : esp' <= calls'[j].frame
  BY <1>5, CallPushes DEF z
<1>7. f # "mon_backtrace" => esp' + 2 >= bootstacktop - (k' - 1) * Room
  <2> DEFINE r == k * Room
  <2>1. k' - 1 = k
    BY <1>1, <1>6
  <2>2. r \in Nat /\ esp >= bootstacktop - r
    BY <1>3
  <2> HIDE DEF r
  <2>3. f # "mon_backtrace" => esp' + 2 >= bootstacktop - r
    BY <1>1, <1>2, <1>4, <1>6, <2>2, SMTT(20)
  <2> QED
    BY <2>1, <2>3 DEF r
<1>8. StackOK'
  <2>1. k' > 0
    BY <1>1, <1>6
  <2> QED
    BY <1>6, <1>7, <2>1 DEF StackOK, Low, Body
<1>9. PhaseOK'
  <2>1. f = "i386_init" => k' = 1
    BY <1>6
  <2>2. f = "test_backtrace" => k' \in 2..Depth+2 /\ Depth + 2 - k' = Depth + 1 - k
    BY <1>1, <1>6
  <2>3. f = "mon_backtrace" => k' \in 3..Depth+3
    BY <1>1, <1>6
  <2> QED
    BY <1>6, <2>1, <2>2, <2>3 DEF PhaseOK
<1>10. TraceOK'
  BY <1>6 DEF TraceOK
<1> QED
  BY <1>6, <1>8, <1>9, <1>10 DEF EntryInv

(* The argument that test_backtrace reads from its frame. *)
LEMMA ReadsArgument ==
  ASSUME EntryInv, at = "test_backtrace"
  PROVE  k \in 2..Depth+2 /\ x = Depth + 2 - k
<1>1. /\ k \in 2..Depth+2 /\ calls[1].args = <<Depth + 2 - k>>
      /\ ebp = calls[1].frame /\ k \in Nat
  BY DEF EntryInv, StackOK, PhaseOK, Body, EntryTypeOK, k
<1>2. 1 \in 1..k /\ calls \in Seq(CallRec)
  BY <1>1, Sizes DEF EntryInv, EntryTypeOK
<1>3. PICK c \in CallRec : c = calls[1]
  BY <1>2, ElementOfSeq DEF k
<1>4. FrameOK(stack, c)
  BY <1>2, <1>3 DEF EntryInv, CallsOK
<1>5. c.args = <<Depth + 2 - k>> /\ ebp = c.frame /\ c.frame \in Nat
  BY <1>1, <1>3 DEF CallRec
<1>6. Len(c.args) = 1 /\ c.args[1] = Depth + 2 - k
  BY <1>5
<1>7. stack[c.frame + 1 + 1] = c.args[1]
  BY <1>4, <1>6 DEF FrameOK
<1>8. ebp + 2 = c.frame + 1 + 1
  BY <1>5
<1> QED
  BY <1>1, <1>6, <1>7, <1>8 DEF x

LEMMA CallStep ==
  ASSUME EntryInv,
         CallInit \/ i386_init \/ (at = "test_backtrace" /\ (Recurse \/ Innermost))
  PROVE  EntryInv'
<1>1. Depth \in Nat /\ bootstacktop \in Nat /\ Room \in Nat /\ k \in Nat
  BY Sizes, StackFacts, RoomFacts DEF EntryInv, EntryTypeOK, k
<1>2. CASE CallInit
  <2>1. at = "call_init" /\ Call("call_init", "i386_init", <<>>, 1)
    BY <1>2 DEF CallInit, Call, Run
  <2>2. calls = <<>> /\ esp = bootstacktop
    BY <2>1 DEF EntryInv, StackOK
  <2>3. k = 0
    BY <2>2 DEF k
  <2>4. esp >= bootstacktop - k * Room
    BY <1>1, <2>2, <2>3
  <2>5. <<>> \in Seq(Nat) /\ Len(<<>>) = 0
    OBVIOUS
  <2>6. Turn("i386_init", <<>>, 1)
    BY <1>1, <2>3, <2>4, <2>5 DEF Turn
  <2>7. "i386_init" \in Body /\ 1 \in 1..4
    BY DEF Body
  <2> QED
    BY <2>1, <2>5, <2>6, <2>7, Called
<1>3. CASE i386_init
  <2>1. at = "i386_init" /\ Call("i386_init", "test_backtrace", <<Depth>>, 2)
    BY <1>3 DEF i386_init, Call, Run
  <2>2. k = 1 /\ esp >= bootstacktop - k * Room
    BY <2>1 DEF EntryInv, StackOK, PhaseOK, Body
  <2>3. <<Depth>> \in Seq(Nat) /\ Len(<<Depth>>) = 1 /\ Depth + 1 - k = Depth
    BY <1>1, <2>2
  <2>4. k \in 1..Depth+1 /\ k <= Depth + 2
    BY <1>1, <2>2
  <2>5. Turn("test_backtrace", <<Depth>>, 2)
    BY <2>2, <2>3, <2>4 DEF Turn
  <2>6. "test_backtrace" \in Body /\ 2 \in 1..4
    BY DEF Body
  <2> QED
    BY <2>1, <2>3, <2>5, <2>6, Called
<1>4. CASE at = "test_backtrace" /\ (Recurse \/ Innermost)
  <2>1. k \in 2..Depth+2 /\ x = Depth + 2 - k
    BY <1>4, ReadsArgument
  <2>2. esp >= bootstacktop - k * Room /\ k <= Depth + 2 /\ k > 1
    BY <1>1, <1>4, <2>1 DEF EntryInv, StackOK, Body
  <2>3. CASE Recurse
    <3> DEFINE y == x - 1
    <3>1. Call("test_backtrace", "test_backtrace", <<y>>, 3) /\ x > 0
      BY <2>3 DEF Recurse
    <3>2. y = Depth + 1 - k /\ y \in Nat /\ k \in 1..Depth+1
      BY <1>1, <2>1, <3>1
    <3> HIDE DEF y
    <3>3. <<y>> \in Seq(Nat) /\ Len(<<y>>) = 1
      BY <3>2
    <3>4. Turn("test_backtrace", <<y>>, 3)
      BY <1>1, <2>2, <3>2, <3>3 DEF Turn
    <3>5. "test_backtrace" \in Body /\ 3 \in 1..4
      BY DEF Body
    <3> QED
      BY <3>1, <3>3, <3>4, <3>5, Called
  <2>4. CASE Innermost
    <3>1. Call("test_backtrace", "mon_backtrace", <<0, 0, 0>>, 4)
      BY <2>4 DEF Innermost
    <3>2. <<0, 0, 0>> \in Seq(Nat) /\ Len(<<0, 0, 0>>) = 3
      OBVIOUS
    <3>3. Turn("mon_backtrace", <<0, 0, 0>>, 4)
      BY <1>1, <2>1, <2>2, <3>2 DEF Turn
    <3>4. "mon_backtrace" \in Body /\ 4 \in 1..4
      BY DEF Body
    <3> QED
      BY <3>1, <3>2, <3>3, <3>4, Called
  <2> QED
    BY <1>4, <2>3, <2>4
<1> QED
  BY <1>2, <1>3, <1>4

(* The prologue saves ebp below the return address and points ebp there. *)
LEMMA PrologueStep ==
  ASSUME EntryInv, Prologue
  PROVE  EntryInv'
<1> DEFINE b == esp - 1
<1>1. EntryTypeOK /\ MachineOK /\ Fetch(0) /\ at = "prologue" /\ PagingOn
  BY Fetched DEF EntryInv, MachineOK, Prologue, Run, PagingOn, Low
<1>2. /\ esp \in Nat /\ ebp \in Nat /\ stack \in [Region -> Nat] /\ calls \in Seq(CallRec)
      /\ trace \in Seq([eip : Nat, args : [1..5 -> Nat]])
      /\ k \in Nat /\ Len(calls) = k
  BY <1>1 DEF EntryTypeOK, k
<1>3. /\ k > 0 /\ fn \in Body /\ b = calls[1].frame /\ ebp = Outer(calls, 1)
      /\ \A j \in 2..k : esp <= calls[j].frame
      /\ fn # "mon_backtrace" => esp + 2 >= bootstacktop - (k - 1) * Room
  BY <1>1 DEF EntryInv, StackOK
<1>4. PICK n \in Other : esp' = esp - 1 - n
  BY DEF Prologue
<1>5. /\ at' = fn /\ fn' = fn /\ calls' = calls /\ trace' = trace /\ ebp' = b
      /\ stack' = [stack EXCEPT ![b] = ebp] /\ UNCHANGED machine /\ k' = k
      /\ stray' = (stray \/ ~Fetch(0) \/ ~Store(b))
  BY DEF Prologue, Run, listing, k
<1>6. /\ b \in Region /\ 1 \in 1..k
  <2>1. 1 \in 1..k
    BY <1>2, <1>3
  <2>2. FrameOK(stack, calls[1])
    BY <2>1 DEF EntryInv, CallsOK
  <2>3. calls[1].frame \in Region
    BY <2>2 DEF FrameOK
  <2> QED
    BY <1>3, <2>1, <2>3
<1> HIDE DEF b
<1>7. /\ b = esp - 1 /\ b \in Nat /\ b >= bootstack /\ b <= bootstacktop - 1
      /\ bootstack \in Nat /\ bootstacktop \in Nat
  BY <1>6, StackFacts DEF b, Region
<1>8. n \in Nat /\ Room \in Nat /\ n + 3 <= Room
  BY RoomFacts
<1>9. esp' \in Nat /\ esp' <= b
  <2>1. Room <= KSTKSIZE
    <3>1. 1 \in 0..Depth+2 /\ KSTKSIZE \in Nat
      BY Sizes
    <3>2. 1 * Room \in Nat /\ bootstack + 5 <= bootstacktop - 1 * Room /\ 1 * Room = Room
      BY <1>8, <3>1, RoomFacts
    <3> QED
      BY <1>7, <1>8, <3>1, <3>2, StackFacts
  <2>2. KSTKSIZE <= bootstack
    BY Sizes, StackFacts
  <2> QED
    BY <1>2, <1>4, <1>7, <1>8, <2>1, <2>2, Sizes
<1>10. EntryTypeOK'
  BY <1>2, <1>5, <1>7, <1>9 DEF EntryTypeOK
<1>11. MachineOK'
  <2>1. Store(b)
    <3>1. b \in KERNBASE..KERNBASE+PTSIZE-1
      BY <1>7, StackFacts, Sizes
    <3> QED
      BY <1>1, <3>1, MappedKernel
  <2>2. ~stray'
    BY <1>1, <1>5, <2>1 DEF MachineOK
  <2> QED
    BY <1>1, <1>3, <1>5, <2>2 DEF MachineOK, machine, PagingOn, Low, Body
<1>12. /\ stack'[b] = ebp
       /\ \A a \in Region : a >= esp => stack'[a] = stack[a]
  <2>1. stack'[b] = ebp
    BY <1>2, <1>5, <1>6
  <2>2. ASSUME NEW a \in Region, a >= esp PROVE stack'[a] = stack[a]
    <3>1. a # b
      BY <1>2, <1>7, <2>2 DEF Region
    <3> QED
      BY <1>2, <1>5, <3>1
  <2> QED
    BY <2>1, <2>2
<1>13. ASSUME NEW j \in 1..k
       PROVE  /\ FrameOK(stack', calls'[j]) /\ ReturnOK(calls', j)
              /\ stack'[calls'[j].frame] = Outer(calls', j)
              /\ esp' <= calls'[j].frame
  <2>1. PICK c \in CallRec : c = calls[j]
    BY <1>2, ElementOfSeq
  <2>2. FrameOK(stack, c) /\ ReturnOK(calls, j)
    BY <2>1 DEF EntryInv, CallsOK
  <2>3. c.frame \in Nat
    BY DEF CallRec
  <2>4. j = 1 => c.frame = b
    BY <1>3, <2>1
  <2>5. j # 1 => esp <= c.frame
    <3>1. j # 1 => j \in 2..k
      BY <1>2
    <3> QED
      BY <1>3, <2>1, <3>1
  <2>6. esp <= c.frame + 1 /\ esp' <= c.frame
    <3> DEFINE g == c.frame
    <3>1. g \in Nat /\ (g = b \/ esp <= g)
      BY <2>3, <2>4, <2>5
    <3> HIDE DEF g
    <3>2. esp <= g + 1 /\ esp' <= g
      BY <1>2, <1>7, <1>9, <3>1
    <3> QED
      BY <3>2 DEF g
  <2>7. FrameOK(stack', c) /\ (esp <= c.frame => stack'[c.frame] = stack[c.frame])
    BY <1>2, <1>12, <2>2, <2>6, Untouched
  <2>8. j # 1 => stack[c.frame] = Outer(calls, j)
    BY <2>1 DEF EntryInv, CallsOK
  <2>9. stack'[c.frame] = Outer(calls, j)
    BY <1>3, <1>12, <2>4, <2>5, <2>7, <2>8
  <2> QED
    BY <1>5, <2>1, <2>2, <2>6, <2>7, <2>9
<1>14. CallsOK'
  BY <1>5, <1>13 DEF CallsOK
<1>15. fn # "mon_backtrace" => esp' >= bootstacktop - k * Room
  <2>1. k - 1 \in Nat /\ (k - 1) + 1 = k
    BY <1>2, <1>3
  <2>2. k * Room = (k - 1) * Room + Room /\ (k - 1) * Room \in Nat
    BY <1>8, <2>1, RoomFacts
  <2> DEFINE r == (k - 1) * Room
  <2>3. r \in Nat /\ (fn # "mon_backtrace" => esp + 2 >= bootstacktop - r)
    BY <1>3, <2>2
  <2> HIDE DEF r
  <2>4. fn # "mon_backtrace" => esp' >= bootstacktop - (r + Room)
    BY <1>2, <1>4, <1>7, <1>8, <2>3
  <2> QED
    BY <2>2, <2>4 DEF r
<1>16. StackOK'
  <2>1. ebp' = calls'[1].frame
    BY <1>3, <1>5, <1>7 DEF b
  <2>2. \A j \in 1..k' : esp' <= calls'[j].frame
    BY <1>5, <1>13
  <2> QED
    BY <1>3, <1>5, <1>15, <2>1, <2>2 DEF StackOK, Low, Body
<1>17. PhaseOK'
  <2>1. /\ fn = "i386_init" => k = 1
        /\ fn = "test_backtrace" => k \in 2..Depth+2 /\ calls[1].args = <<Depth + 2 - k>>
        /\ fn = "mon_backtrace" => k \in 3..Depth+3
    BY <1>1 DEF EntryInv, PhaseOK
  <2> QED
    BY <1>5, <2>1 DEF PhaseOK
<1>18. TraceOK'
  BY <1>3, <1>5 DEF TraceOK, Body
<1> QED
  BY <1>10, <1>11, <1>14, <1>16, <1>17, <1>18 DEF EntryInv

(* mon_backtrace starts at its own frame. *)
LEMMA ReadEbpStep ==
  ASSUME EntryInv, read_ebp
  PROVE  EntryInv'
<1>1. /\ EntryTypeOK /\ MachineOK /\ Fetch(0) /\ at = "mon_backtrace" /\ CallsOK
      /\ k \in Nat
  BY Fetched DEF EntryInv, read_ebp, Run, EntryTypeOK, k
<1>2. fn = "mon_backtrace" /\ ebp = calls[1].frame /\ k >= 3
  BY <1>1 DEF EntryInv, StackOK, PhaseOK, Body
<1>3. /\ at' = "walk" /\ walk' = ebp /\ trace' = <<>> /\ UNCHANGED <<machine, fn>>
      /\ esp' = esp /\ ebp' = ebp /\ stack' = stack /\ calls' = calls /\ k' = k
      /\ stray' = (stray \/ ~Fetch(0) \/ ~TRUE)
  BY DEF read_ebp, Run, frames, k
<1>4. EntryTypeOK'
  BY <1>1, <1>3 DEF EntryTypeOK
<1>5. MachineOK'
  <2>1. ~stray'
    BY <1>1, <1>3 DEF MachineOK
  <2> QED
    BY <1>1, <1>3, <2>1 DEF MachineOK, machine, Low, Body
<1>6. CallsOK'
  BY <1>1, <1>3 DEF CallsOK
<1>7. StackOK' /\ PhaseOK'
  BY <1>1, <1>2, <1>3 DEF StackOK, PhaseOK, Low, Body
<1>8. TraceOK'
  <2>1. Len(trace') = 0 /\ 0 <= k /\ 0 # k /\ 0 + 1 = 1
    BY <1>1, <1>2, <1>3
  <2> QED
    BY <1>2, <1>3, <2>1 DEF TraceOK
<1> QED
  BY <1>4, <1>5, <1>6, <1>7, <1>8 DEF EntryInv

(* The words of a frame, as mon_backtrace reads them. *)
LEMMA FrameWords ==
  ASSUME EntryTypeOK, NEW c \in CallRec, FrameOK(stack, c)
  PROVE  LET f == c.frame
         IN  /\ f \in Region /\ f + 1 \in Region
             /\ Word(f) = stack[f] /\ Word(f + 1) = c.eip
             /\ \A n \in 1..Len(c.args) : Word(f + 1 + n) = c.args[n]
             /\ Len(c.args) <= 5
<1> DEFINE f == c.frame
           z == Len(c.args)
<1>1. f \in Nat /\ z \in Nat
  BY DEF CallRec
<1>2. /\ f \in Region /\ f + 1 + z \in Region /\ z <= 5
      /\ stack[f + 1] = c.eip
      /\ \A n \in 1..z : stack[f + 1 + n] = c.args[n]
  BY DEF FrameOK
<1>3. DOMAIN stack = Region /\ bootstack \in Nat /\ bootstacktop \in Nat
  BY StackFacts DEF EntryTypeOK
<1> HIDE DEF f, z
<1>4. ASSUME NEW n \in 0..z PROVE f + 1 + n \in Region
  BY <1>1, <1>2, <1>3 DEF Region
<1>5. f + 1 \in Region
  <2>1. 0 \in 0..z /\ f + 1 + 0 = f + 1
    BY <1>1
  <2> QED
    BY <1>4, <2>1
<1>6. ASSUME NEW n \in 1..z PROVE Word(f + 1 + n) = c.args[n]
  <2>1. n \in 0..z
    BY <1>1
  <2>2. f + 1 + n \in Region
    BY <1>4, <2>1
  <2> QED
    BY <1>2, <1>3, <2>2 DEF Word
<1> QED
  BY <1>2, <1>3, <1>5, <1>6 DEF Word, f, z

(* One turn of mon_backtrace's loop lists the next call. *)
LEMMA ListFrameStep ==
  ASSUME EntryInv, ListFrame
  PROVE  EntryInv'
<1> DEFINE t == Len(trace)
           i == t + 1
           rec == [eip |-> Word(walk + 1), args |-> Args(walk)]
           Listed == [eip : Nat, args : [1..5 -> Nat]]
<1>1. /\ EntryTypeOK /\ MachineOK /\ Fetch(0) /\ at = "walk" /\ PagingOn /\ CallsOK
      /\ base = KERNBASE
  BY Fetched DEF EntryInv, MachineOK, ListFrame, Run, PagingOn, Low
<1>2. /\ stack \in [Region -> Nat] /\ calls \in Seq(CallRec) /\ trace \in Seq(Listed)
      /\ k \in Nat /\ Len(calls) = k /\ t \in Nat
  BY <1>1 DEF EntryTypeOK, k
<1>3. /\ t <= k /\ walk # 0
      /\ \A j \in 1..t : Agrees(trace[j], calls[j])
      /\ walk = IF t = k THEN 0 ELSE calls[i].frame
  BY <1>1 DEF EntryInv, TraceOK, ListFrame
<1>4. t # k /\ walk = calls[i].frame
  BY <1>3
<1>5. i \in 1..k
  BY <1>2, <1>3, <1>4
<1>6. /\ k >= 2 /\ ebp = calls[1].frame
  BY <1>1 DEF EntryInv, StackOK
<1>7. PICK c \in CallRec : c = calls[i]
  BY <1>2, <1>5, ElementOfSeq
<1>8. /\ FrameOK(stack, c) /\ walk = c.frame /\ ReturnOK(calls, i)
      /\ stack[c.frame] = Outer(calls, i)
  BY <1>1, <1>4, <1>5, <1>7 DEF CallsOK
<1>9. /\ walk \in Region /\ walk + 1 \in Region
      /\ Word(walk) = Outer(calls, i) /\ Word(walk + 1) = c.eip
      /\ \A n \in 1..Len(c.args) : Word(walk + 1 + n) = c.args[n]
      /\ Len(c.args) <= 5 /\ Len(c.args) \in Nat
  <2>1. Len(c.args) \in Nat
    BY DEF CallRec
  <2> QED
    BY <1>1, <1>8, <2>1, FrameWords
<1>10. c.eip \in Nat /\ c.eip >= ULIM
  <2>1. c.eip \in {KERNBASE + Text + 1, KERNBASE + Text + 2, KERNBASE + Text + 3,
                   KERNBASE + Text + 4}
    <3>1. i = k \/ i = k - 1 \/ i < k - 1
      <4>1. k \in Nat /\ i \in 1..k
        BY <1>2, <1>5
      <4> HIDE DEF i
      <4> QED
        BY <4>1
    <3>2. \/ c.eip = KERNBASE + Text + 1
          \/ c.eip = KERNBASE + Text + 2
          \/ c.eip \in {KERNBASE + Text + 3, KERNBASE + Text + 4}
      <4>1. c.eip = calls[i].eip /\ Len(calls) = k
        BY <1>2, <1>7
      <4>2. ReturnOK(calls, i)
        BY <1>8
      <4> HIDE DEF i
      <4> QED
        BY <3>1, <4>1, <4>2 DEF ReturnOK
    <3> QED
      BY <3>2
  <2> QED
    BY <2>1, Sizes DEF ULIM
<1>11. \A a \in walk..walk+6 : Load(a)
  <2>1. \A a \in walk..walk+6 : a \in KERNBASE..KERNBASE+PTSIZE-1
    BY <1>9, StackFacts, Sizes DEF Region
  <2> QED
    BY <1>1, <2>1, MappedKernel
<1>12. /\ at' = "walk" /\ trace' = Append(trace, rec) /\ walk' = Word(walk)
       /\ UNCHANGED <<machine, fn>>
       /\ esp' = esp /\ ebp' = ebp /\ stack' = stack /\ calls' = calls /\ k' = k
       /\ ~stray'
  <2>1. Word(walk + 1) >= ULIM
    BY <1>9, <1>10
  <2>2. ~stray'
    BY <1>1, <1>11 DEF MachineOK, ListFrame, Run
  <2> QED
    BY <2>1, <2>2 DEF ListFrame, Run, frames, k
<1>13. rec \in Listed /\ Agrees(rec, c)
  <2>1. \A a : Word(a) \in Nat
    BY <1>2 DEF Word
  <2>2. rec.eip = c.eip /\ \A n \in 1..5 : rec.args[n] = Word(walk + 1 + n)
    BY <1>9 DEF Args
  <2>3. rec \in Listed
    BY <2>1 DEF Args
  <2> HIDE DEF rec
  <2>4. ASSUME NEW n \in 1..Len(c.args) PROVE rec.args[n] = c.args[n]
    <3>1. n \in 1..5
      BY <1>9
    <3> QED
      BY <1>9, <2>2, <3>1
  <2> QED
    BY <2>2, <2>3, <2>4 DEF Agrees
<1> HIDE DEF rec, Listed
<1>14. /\ trace' \in Seq(Listed) /\ Len(trace') = i /\ trace'[i] = rec
       /\ \A j \in 1..t : trace'[j] = trace[j]
  BY <1>2, <1>12, <1>13, AppendProperties
<1>15. EntryTypeOK'
  BY <1>1, <1>12, <1>14 DEF EntryTypeOK, Listed
<1>16. MachineOK'
  BY <1>1, <1>12 DEF MachineOK, machine, Low, Body
<1>17. CallsOK'
  BY <1>1, <1>12 DEF CallsOK
<1>18. StackOK' /\ PhaseOK'
  BY <1>2, <1>6, <1>12 DEF StackOK, PhaseOK, Low, Body
<1>19. TraceOK'
  <2>1. Len(trace') <= k'
    BY <1>2, <1>5, <1>12, <1>14
  <2>2. ASSUME NEW j \in 1..Len(trace') PROVE Agrees(trace'[j], calls'[j])
    <3>1. j \in 1..t \/ j = i
      BY <1>2, <1>14
    <3> QED
      BY <1>3, <1>7, <1>12, <1>13, <1>14, <3>1
  <2>3. walk' = IF Len(trace') = k' THEN 0 ELSE calls'[Len(trace') + 1].frame
    BY <1>2, <1>9, <1>12, <1>14 DEF Outer
  <2> QED
    BY <1>12, <2>1, <2>2, <2>3 DEF TraceOK
<1> QED
  BY <1>15, <1>16, <1>17, <1>18, <1>19 DEF EntryInv

(* The walk ends at the ebp that entry.S cleared, so it has listed all. *)
LEMMA WalkEndsStep ==
  ASSUME EntryInv, WalkEnds
  PROVE  EntryInv'
<1> DEFINE t == Len(trace)
<1>1. /\ EntryTypeOK /\ MachineOK /\ Fetch(0) /\ at = "walk" /\ CallsOK /\ walk = 0
  BY Fetched DEF EntryInv, WalkEnds, Run
<1>2. /\ calls \in Seq(CallRec) /\ k \in Nat /\ t \in Nat
  BY <1>1 DEF EntryTypeOK, k
<1>3. /\ t <= k
      /\ \A j \in 1..t : Agrees(trace[j], calls[j])
      /\ walk = IF t = k THEN 0 ELSE calls[t + 1].frame
      /\ k >= 2 /\ ebp = calls[1].frame
  BY <1>1 DEF EntryInv, TraceOK, StackOK
<1>4. t = k
  <2>1. ASSUME t # k PROVE FALSE
    <3>1. t + 1 \in 1..k
      BY <1>2, <1>3, <2>1
    <3>2. calls[t + 1].frame \in Region
      BY <1>1, <3>1 DEF CallsOK, FrameOK
    <3> QED
      BY <1>1, <1>3, <2>1, <3>2, StackFacts DEF Region
  <2> QED
    BY <2>1
<1>5. /\ at' = "return" /\ UNCHANGED <<machine, fn, walk, trace>>
      /\ esp' = esp /\ ebp' = ebp /\ stack' = stack /\ calls' = calls /\ k' = k
      /\ stray' = (stray \/ ~Fetch(0) \/ ~TRUE)
  BY DEF WalkEnds, Run, frames, listing, k
<1>6. EntryTypeOK'
  BY <1>1, <1>5 DEF EntryTypeOK
<1>7. MachineOK'
  <2>1. ~stray'
    BY <1>1, <1>5 DEF MachineOK
  <2> QED
    BY <1>1, <1>5, <2>1 DEF MachineOK, machine, Low, Body
<1>8. CallsOK'
  BY <1>1, <1>5 DEF CallsOK
<1>9. StackOK' /\ PhaseOK'
  BY <1>2, <1>3, <1>5 DEF StackOK, PhaseOK, Low, Body
<1>10. TraceOK'
  BY <1>2, <1>3, <1>4, <1>5 DEF TraceOK
<1> QED
  BY <1>6, <1>7, <1>8, <1>9, <1>10 DEF EntryInv

(* A return drops the innermost call and restores its caller's frame. *)
LEMMA ReturnStep ==
  ASSUME EntryInv, at = "return", Return
  PROVE  EntryInv'
<1>1. /\ EntryTypeOK /\ MachineOK /\ Fetch(0) /\ PagingOn /\ CallsOK /\ base = KERNBASE
  BY Fetched DEF EntryInv, MachineOK, PagingOn, Low
<1>2. /\ stack \in [Region -> Nat] /\ calls \in Seq(CallRec) /\ k \in Nat /\ Len(calls) = k
      /\ trace \in Seq([eip : Nat, args : [1..5 -> Nat]])
  BY <1>1 DEF EntryTypeOK, k
<1>3. k >= 2 /\ ebp = calls[1].frame
  BY DEF EntryInv, StackOK
<1>4. 1 \in 1..k /\ calls # <<>>
  BY <1>2, <1>3
<1>5. PICK c \in CallRec : c = calls[1]
  BY <1>2, <1>4, ElementOfSeq
<1>6. FrameOK(stack, c) /\ ebp = c.frame /\ ReturnOK(calls, 1) /\ stack[ebp] = Outer(calls, 1)
  BY <1>1, <1>3, <1>4, <1>5 DEF CallsOK
<1>7. ebp \in Region /\ ebp + 1 \in Region /\ stack[ebp + 1] = c.eip /\ stack[ebp] \in Nat
  <2>1. ebp \in Region /\ ebp + 1 \in Region
    BY <1>1, <1>6, FrameWords
  <2> QED
    BY <1>2, <1>6, <2>1 DEF FrameOK
<1> DEFINE r == c.eip - KERNBASE - Text
<1>8. (k = 2 => r = 2) /\ (k # 2 => r \in {3, 4})
  <2>1. /\ k = 2 => c.eip = KERNBASE + Text + 2
        /\ k # 2 => c.eip \in {KERNBASE + Text + 3, KERNBASE + Text + 4}
    <3>1. (k = 2 => 1 = k - 1) /\ (k # 2 => 1 < k - 1)
      BY <1>2, <1>3
    <3> QED
      BY <1>2, <1>5, <1>6, <3>1 DEF ReturnOK
  <2> QED
    BY <2>1, Sizes
<1>9. stack[ebp + 1] - base - Text = r
  BY <1>1, <1>7
<1> HIDE DEF r
<1>10. /\ k = 2 => at' = "monitor"
       /\ k # 2 => at' = "return" /\ fn' = "test_backtrace"
  <2>1. /\ fn' = Caller(r)
        /\ at' = IF fn' = "i386_init" THEN "monitor" ELSE "return"
    BY <1>9 DEF Return, Run
  <2> QED
    BY <1>8, <2>1 DEF Caller
<1>11. ~stray'
  <2>1. ebp \in KERNBASE..KERNBASE+PTSIZE-1 /\ ebp + 1 \in KERNBASE..KERNBASE+PTSIZE-1
    BY <1>7, StackFacts, Sizes DEF Region
  <2>2. Load(ebp) /\ Load(ebp + 1)
    BY <1>1, <2>1, MappedKernel
  <2> QED
    BY <1>1, <2>2 DEF MachineOK, Return, Run
<1>12. /\ esp' = ebp + 2 /\ ebp' = stack[ebp] /\ stack' = stack /\ trace' = trace
       /\ UNCHANGED machine
  BY DEF Return, listing
<1>13. /\ calls' \in Seq(CallRec) /\ k' = k - 1
       /\ \A j \in 1..k-1 : /\ j + 1 \in 1..k /\ calls'[j] = calls[j + 1]
                            /\ Outer(calls', j) = Outer(calls, j + 1)
                            /\ ReturnOK(calls, j + 1) => ReturnOK(calls', j)
  <2> DEFINE t == Tail(calls)
  <2>1. /\ t \in Seq(CallRec) /\ Len(t) = Len(calls) - 1
        /\ \A j \in 1..Len(calls)-1 : /\ j + 1 \in 1..Len(calls) /\ t[j] = calls[j + 1]
                                      /\ Outer(t, j) = Outer(calls, j + 1)
                                      /\ ReturnOK(calls, j + 1) => ReturnOK(t, j)
    <3>1. calls \in Seq(CallRec) /\ calls # <<>>
      BY <1>2, <1>4
    <3> QED
      BY <3>1, Popped
  <2>2. calls' = t
    BY DEF Return
  <2> HIDE DEF t
  <2>3. k' = k - 1
    BY <2>1, <2>2 DEF k
  <2> QED
    BY <1>2, <2>1, <2>2, <2>3
<1>14. EntryTypeOK'
  <2>1. ebp + 2 \in Nat
    BY <1>7, StackFacts DEF Region
  <2> QED
    BY <1>2, <1>7, <1>12, <1>13, <2>1 DEF EntryTypeOK
<1>15. MachineOK'
  BY <1>1, <1>10, <1>11, <1>12 DEF MachineOK, machine, PagingOn, Low, Body
<1>16. CallsOK'
  <2>1. ASSUME NEW j \in 1..k'
        PROVE  /\ FrameOK(stack', calls'[j]) /\ ReturnOK(calls', j)
               /\ stack'[calls'[j].frame] = Outer(calls', j)
    <3>1. /\ j + 1 \in 1..k /\ calls'[j] = calls[j + 1]
          /\ Outer(calls', j) = Outer(calls, j + 1)
          /\ ReturnOK(calls, j + 1) => ReturnOK(calls', j)
      BY <1>13
    <3>2. FrameOK(stack, calls[j + 1]) /\ ReturnOK(calls, j + 1)
      BY <1>1, <3>1 DEF CallsOK
    <3>3. stack[calls[j + 1].frame] = Outer(calls, j + 1)
      BY <1>1, <3>1 DEF CallsOK
    <3> QED
      BY <1>12, <3>1, <3>2, <3>3
  <2> QED
    BY <2>1 DEF CallsOK
<1>17. StackOK'
  <2>1. k' > 0 /\ (k # 2 => k' >= 2)
    BY <1>2, <1>3, <1>13
  <2>2. ebp' = calls'[1].frame
    <3>1. 1 \in 1..k-1 /\ 1 # k
      BY <1>2, <1>3
    <3> QED
      BY <1>2, <1>6, <1>12, <1>13, <3>1 DEF Outer
  <2> QED
    BY <1>10, <2>1, <2>2 DEF StackOK, Low, Body
<1>18. PhaseOK' /\ TraceOK'
  BY <1>10 DEF PhaseOK, TraceOK, Body
<1> QED
  BY <1>14, <1>15, <1>16, <1>17, <1>18 DEF EntryInv

LEMMA EntryStutter ==
  ASSUME EntryInv, UNCHANGED entryVars
  PROVE  EntryInv'
<1>1. /\ UNCHANGED <<cr0, cr3, base, esp, ebp, stack, at, fn, walk, trace, stray, calls>>
      /\ k' = k
  BY DEF entryVars, machine, frames, listing, k
<1>2. EntryTypeOK'
  BY <1>1 DEF EntryInv, EntryTypeOK
<1>3. MachineOK'
  BY <1>1 DEF EntryInv, MachineOK
<1>4. CallsOK'
  BY <1>1 DEF EntryInv, CallsOK
<1>5. StackOK' /\ PhaseOK'
  BY <1>1 DEF EntryInv, StackOK, PhaseOK
<1>6. TraceOK'
  BY <1>1 DEF EntryInv, TraceOK
<1> QED
  BY <1>2, <1>3, <1>4, <1>5, <1>6 DEF EntryInv

LEMMA EntryStarts ==
  ASSUME EntryInit
  PROVE  EntryInv
<1>1. EntryTypeOK
  BY EntryAssumption DEF EntryInit, EntryTypeOK, Region
<1>2. k = 0
  BY DEF EntryInit, k
<1>3. MachineOK
  BY DEF EntryInit, MachineOK, Low
<1>4. CallsOK /\ StackOK /\ PhaseOK /\ TraceOK
  BY <1>2 DEF EntryInit, CallsOK, StackOK, PhaseOK, TraceOK, Low, Body
<1> QED
  BY <1>1, <1>3, <1>4 DEF EntryInv

(* Every step of the entry code, of the calls and of the backtrace keeps   *)
(* the machine, the stack and the listing in order.                        *)
THEOREM EntryInductive == EntrySpec => []EntryInv
<1>1. EntryInv /\ [EntryNext]_entryVars => EntryInv'
  BY BootStep, CallStep, PrologueStep, ReadEbpStep, ListFrameStep, WalkEndsStep,
     ReturnStep, EntryStutter DEF EntryNext, Step, Monitor
<1> QED
  BY EntryStarts, <1>1, PTL DEF EntrySpec

(* No fetch, load or store from the entry point on faults or reaches other *)
(* memory than the loaded kernel's, whatever the sizes of pages and tables,*)
(* the place of the code and the layout of the frames, provided the frames *)
(* fit on the stack.                                                       *)
THEOREM NothingStray == EntrySpec => []NoStrayAccess
<1>1. EntryInv => NoStrayAccess
  BY DEF EntryInv, MachineOK, NoStrayAccess
<1> QED
  BY EntryInductive, <1>1, PTL

(* The backtrace lists exactly the calls under way with their return       *)
(* addresses and arguments, for every depth of test_backtrace, and never   *)
(* looks up an address that debuginfo_eip would panic on.                  *)
THEOREM BacktraceRight == EntrySpec => []TraceIsCallStack
<1>1. EntryInv => TraceIsCallStack
  BY DEF EntryInv, MachineOK, TraceOK, TraceIsCallStack, Low, Body, k
<1> QED
  BY EntryInductive, <1>1, PTL

-----------------------------------------------------------------------------
(* A step of the whole start is one of the loader or none, and one of the  *)
(* kernel or none.                                                         *)
LEMMA StartupStep ==
  ASSUME [StartupNext]_startupVars
  PROVE  [Next]_vars /\ [EntryNext]_entryVars
<1>1. CASE Loads
  BY <1>1 DEF Loads, Next
<1>2. CASE Kernel
  BY <1>2 DEF Kernel, EntryNext
<1>3. CASE Hardware
  BY <1>3 DEF Hardware, Next
<1>4. CASE Stays \/ UNCHANGED startupVars
  BY <1>4 DEF Stays, startupVars
<1> QED
  BY <1>1, <1>2, <1>3, <1>4 DEF StartupNext

(* The start of the machine implements its two parts: the kernel's steps   *)
(* leave the loader's state alone and the reverse, although i386_init      *)
(* completes the loading.  What is proved of either part holds of the      *)
(* whole, and so no access of the started kernel goes astray and its       *)
(* backtrace is right.                                                     *)
THEOREM StartupImplementsParts ==
  StartupSpec => Spec /\ EntrySpec /\ []NoStrayAccess /\ []TraceIsCallStack
<1>1. StartupInit => Init /\ EntryInit
  BY DEF StartupInit
<1>2. StartupSpec => Spec /\ EntrySpec
  BY <1>1, StartupStep, PTL DEF StartupSpec, Spec, EntrySpec
<1> QED
  BY <1>2, NothingStray, BacktraceRight, PTL
=============================================================================
