-------------------------- MODULE BootLoaderProofs --------------------------
(***************************************************************************)
(* The boot loader puts the kernel in its place and damages nothing, for   *)
(* every sector and memory size and every kernel as the linker makes it,   *)
(* however the controller, the disk and the processor take turns.          *)
(***************************************************************************)
EXTENDS BootLoader, TLAPS

(***************************************************************************)
(* The inductive invariant.  Segment 0 stands for the headers: their       *)
(* reading is a readseg like the others.  A byte of the file that belongs  *)
(* to segment n ends up Shift(n) below its place in the file, and the      *)
(* bytes Keep(n) must survive to the end.                                  *)
(***************************************************************************)
From(e, n)  == IF n = 0 THEN ELFHDR ELSE RoundDown(e.segs[n].p_pa)
To(e, n)    == IF n = 0 THEN HdrEnd ELSE e.segs[n].p_pa + e.segs[n].p_memsz
Shift(e, n) == IF n = 0 THEN -ELFHDR ELSE e.segs[n].p_offset - e.segs[n].p_pa
Keep(e, n)  == IF n = 0 THEN ELFHDR..HdrEnd-1
               ELSE e.segs[n].p_pa..e.segs[n].p_pa+e.segs[n].p_filesz-1

Loaded(m, e, n) == \A a \in Keep(e, n) : m[a] = a + Shift(e, n)

Early   == {"start", "seta20.1", "seta20.2", "prot"}
Reading == {"loop", "readsect", "insl"}

LoaderTypeOK ==
  /\ image \in Images /\ pc \in Early \cup Reading \cup {"bad", "entry", "running"}
  /\ seg \in [pa : Nat, end_pa : Nat, sector : Nat] /\ ph \in 0..Len(image.segs)
  /\ mem \in [Address -> Int] /\ a20 \in BOOLEAN /\ kbc_in \in Nat
  /\ kbc_port \in BOOLEAN /\ disk \in [state : {"ready", "busy"}, sector : Nat]

(* Line 20 is open before the first byte is read from the disk. *)
LineOK ==
  /\ pc = "seta20.2" => kbc_in = 209 \/ (kbc_in = 0 /\ kbc_port)
  /\ pc \notin {"start", "seta20.1", "seta20.2"} =>
       (kbc_in = 223 /\ kbc_port) \/ (kbc_in = 0 /\ a20)
  /\ pc \in Reading /\ ~a20 => ph = 0 /\ seg.pa = ELFHDR
  /\ pc = "insl" /\ Ready => a20
  /\ pc \notin Early \cup Reading => a20

(* The segment that is being read. *)
SegOK ==
  pc \in Reading =>
    /\ ph > 0 => image.elf
    /\ seg.pa % SECTSIZE = 0 /\ seg.pa >= From(image, ph) /\ seg.end_pa = To(image, ph)
    /\ seg.sector >= 1 /\ (seg.sector - 1) * SECTSIZE = seg.pa + Shift(image, ph)
    /\ pc # "loop" => seg.pa < seg.end_pa
    /\ pc = "insl" => disk.sector = seg.sector
    /\ \A a \in Address : a \in From(image, ph)..seg.pa-1 => mem[a] = a + Shift(image, ph)

MemOK ==
  /\ pc \in Early => ph = 0
  /\ pc \in Reading => \A n \in 0..ph-1 : Loaded(mem, image, n)
  /\ pc \in {"entry", "running"} =>
       image.elf /\ \A n \in 1..Len(image.segs) : Loaded(mem, image, n)
  /\ pc = "running" => \A a \in image.edata..image.end-1 : mem[a] = Zero
  /\ \A a \in Address \ Asked : mem[a] = Stale

LoaderInv == LoaderTypeOK /\ LineOK /\ SegOK /\ MemOK

-----------------------------------------------------------------------------
(* Division with remainder. *)
LEMMA Quotient ==
  ASSUME NEW C \in Nat \ {0}, NEW q \in Nat, NEW r \in 0..C-1
  PROVE  (q * C + r) \div C = q /\ (q * C + r) % C = r
<1> DEFINE n == q * C + r
           d == n \div C
           m == n % C
<1>1. C \in Nat /\ C >= 1 /\ r \in Nat /\ r < C /\ q * C \in Nat /\ n \in Nat
  OBVIOUS
<1>2. d \in Nat /\ m \in Nat /\ m < C /\ n = d * C + m
  BY <1>1
<1>3. n = q * C + r
  OBVIOUS
<1> HIDE DEF d, m, n
<1>4. ASSUME d >= q + 1 PROVE FALSE
  <2>1. d * C >= (q + 1) * C /\ (q + 1) * C = q * C + C /\ d * C \in Nat
    BY <1>1, <1>2, <1>4
  <2> QED
    BY <1>1, <1>2, <1>3, <2>1
<1>5. ASSUME q >= d + 1 PROVE FALSE
  <2>1. q * C >= (d + 1) * C /\ (d + 1) * C = d * C + C /\ d * C \in Nat
    BY <1>1, <1>2, <1>5
  <2> QED
    BY <1>1, <1>2, <1>3, <2>1
<1>6. d = q
  BY <1>2, <1>4, <1>5
<1>7. m = r
  BY <1>1, <1>2, <1>3, <1>6
<1> QED
  BY <1>6, <1>7 DEF d, m, n

LEMMA Layout ==
  /\ SECTSIZE \in Nat \ {0} /\ HdrSectors \in Nat \ {0} /\ A20 \in Nat \ {0}
  /\ MemSize \in Nat \ {0} /\ ELFHDR \in Nat /\ HdrEnd \in Nat
  /\ ELFHDR < HdrEnd /\ HdrEnd <= MemSize
<1>1. /\ SECTSIZE \in Nat \ {0} /\ HdrSectors \in Nat \ {0} /\ A20 \in Nat \ {0}
      /\ MemSize \in Nat \ {0} /\ ELFHDR \in Nat /\ HdrEnd <= MemSize
  BY LayoutAssumption
<1>2. SECTSIZE * HdrSectors \in Nat \ {0}
  BY <1>1
<1> QED
  BY <1>1, <1>2 DEF HdrEnd

(* Multiples of the sector size. *)
LEMMA Multiple ==
  ASSUME NEW q \in Nat
  PROVE  q * SECTSIZE \in Nat /\ (q * SECTSIZE) % SECTSIZE = 0
<1>1. SECTSIZE \in Nat \ {0} /\ 0 \in 0..SECTSIZE-1
  BY Layout
<1>2. q * SECTSIZE \in Nat /\ q * SECTSIZE + 0 = q * SECTSIZE
  BY <1>1
<1> QED
  BY <1>1, <1>2, Quotient

LEMMA Times ==
  ASSUME NEW a \in Nat, a % SECTSIZE = 0
  PROVE  \E q \in Nat : a = q * SECTSIZE
<1>1. SECTSIZE \in Nat \ {0}
  BY Layout
<1>2. a \div SECTSIZE \in Nat /\ a = (a \div SECTSIZE) * SECTSIZE + (a % SECTSIZE)
  BY <1>1
<1>3. (a \div SECTSIZE) * SECTSIZE \in Nat
  BY <1>1, <1>2
<1> QED
  BY <1>2, <1>3

LEMMA NextMultiple ==
  ASSUME NEW a \in Nat, a % SECTSIZE = 0
  PROVE  (a + SECTSIZE) % SECTSIZE = 0
<1>1. PICK q \in Nat : a = q * SECTSIZE
  BY Times
<1>2. a + SECTSIZE = (q + 1) * SECTSIZE /\ q + 1 \in Nat
  BY <1>1, Layout
<1> QED
  BY <1>2, Multiple

(* Two of them are a sector apart. *)
LEMMA Apart ==
  ASSUME NEW a \in Nat, NEW b \in Nat, a % SECTSIZE = 0, b % SECTSIZE = 0, a < b
  PROVE  a + SECTSIZE <= b
<1>1. PICK q \in Nat : a = q * SECTSIZE
  BY Times
<1>2. PICK t \in Nat : b = t * SECTSIZE
  BY Times
<1>3. SECTSIZE \in Nat \ {0}
  BY Layout
<1>4. q < t
  <2>1. ASSUME t <= q PROVE FALSE
    <3>1. t * SECTSIZE <= q * SECTSIZE
      BY <1>3, <2>1
    <3> QED
      BY <1>1, <1>2, <3>1
  <2> QED
    BY <2>1
<1>5. (q + 1) * SECTSIZE <= t * SECTSIZE /\ (q + 1) * SECTSIZE = q * SECTSIZE + SECTSIZE
  BY <1>3, <1>4
<1> QED
  BY <1>1, <1>2, <1>5

LEMMA RoundDownFacts ==
  ASSUME NEW a \in Nat
  PROVE  /\ RoundDown(a) \in Nat /\ RoundDown(a) % SECTSIZE = 0
         /\ RoundDown(a) <= a /\ a < RoundDown(a) + SECTSIZE
         /\ RoundDown(a) = (a \div SECTSIZE) * SECTSIZE
<1> DEFINE q == a \div SECTSIZE
           r == a % SECTSIZE
<1>1. SECTSIZE \in Nat \ {0}
  BY Layout
<1>2. q \in Nat /\ r \in 0..SECTSIZE-1 /\ a = q * SECTSIZE + r
  BY <1>1
<1>3. RoundDown(a) = a - r
  BY DEF RoundDown
<1> HIDE DEF q, r
<1>4. q * SECTSIZE \in Nat /\ (q * SECTSIZE) % SECTSIZE = 0
  BY <1>2, Multiple
<1>5. RoundDown(a) = q * SECTSIZE
  BY <1>1, <1>2, <1>3, <1>4
<1> QED
  BY <1>1, <1>2, <1>4, <1>5 DEF q

LEMMA RoundUpFacts ==
  ASSUME NEW a \in Nat
  PROVE  RoundUp(a) \in Nat /\ RoundUp(a) % SECTSIZE = 0 /\ a <= RoundUp(a)
<1> DEFINE b == -a
           d == b \div SECTSIZE
           r == b % SECTSIZE
           q == -d
<1>1. SECTSIZE \in Nat \ {0} /\ b \in Int
  BY Layout
<1>2. d \in Int /\ r \in 0..SECTSIZE-1 /\ b = d * SECTSIZE + r
  BY <1>1
<1>3. RoundUp(a) = a + r
  BY DEF RoundUp
<1>4. -b = a /\ q \in Int /\ d = -q
  BY <1>2
<1> HIDE DEF b, d, r, q
<1>5. d * SECTSIZE = -(q * SECTSIZE) /\ q * SECTSIZE \in Int
  BY <1>1, <1>2, <1>4
<1>6. RoundUp(a) = q * SECTSIZE /\ a <= RoundUp(a) /\ RoundUp(a) \in Nat
  BY <1>1, <1>2, <1>3, <1>4, <1>5
<1>7. q \in Nat
  <2>1. ASSUME q <= -1 PROVE FALSE
    <3>1. q * SECTSIZE <= (-1) * SECTSIZE
      BY <1>1, <1>4, <2>1
    <3> QED
      BY <1>1, <1>6, <3>1
  <2> QED
    BY <1>4, <2>1
<1> QED
  BY <1>6, <1>7, Multiple

-----------------------------------------------------------------------------
(* The headers lie on whole sectors. *)
LEMMA HeaderSectors == ELFHDR % SECTSIZE = 0 /\ HdrEnd % SECTSIZE = 0
<1>1. ELFHDR % SECTSIZE = 0
  BY LayoutAssumption
<1>2. PICK q \in Nat : ELFHDR = q * SECTSIZE
  BY <1>1, Layout, Times
<1>3. HdrEnd = (q + HdrSectors) * SECTSIZE
  <2>1. (q + HdrSectors) * SECTSIZE = q * SECTSIZE + SECTSIZE * HdrSectors
    BY Layout
  <2> QED
    BY <1>2, <2>1 DEF HdrEnd
<1>4. q + HdrSectors \in Nat
  BY Layout
<1> QED
  BY <1>1, <1>3, <1>4, Multiple

LEMMA SegType ==
  ASSUME NEW e \in Images, NEW n \in 1..Len(e.segs)
  PROVE  /\ e.segs[n].p_pa \in Nat /\ e.segs[n].p_memsz \in Nat
         /\ e.segs[n].p_filesz \in Nat /\ e.segs[n].p_offset \in Nat
<1>1. e \in Elf
  BY LayoutAssumption
<1>2. e.segs \in Seq(Proghdr)
  BY <1>1 DEF Elf
<1>3. e.segs[n] \in Proghdr
  BY <1>2
<1> QED
  BY <1>3 DEF Proghdr

(* A segment that is not empty is placed behind all that was kept before. *)
LEMMA SegPlaced ==
  ASSUME NEW e \in Images, e.elf, NEW n \in 1..Len(e.segs)
  PROVE  LET s == e.segs[n]
         IN  \/ Nothing(s)
             \/ /\ Placed(s) /\ s.p_pa + s.p_filesz <= e.edata
                /\ \A j \in 1..n-1 :
                     e.segs[j].p_pa + e.segs[j].p_filesz <= RoundDown(s.p_pa)
BY ImageAssumption DEF Linked

LEMMA Geometry ==
  ASSUME NEW e \in Images, NEW n \in 0..Len(e.segs), n # 0 => e.elf
  PROVE  /\ From(e, n) \in Nat /\ From(e, n) % SECTSIZE = 0
         /\ To(e, n) \in Nat /\ Shift(e, n) \in Int
         /\ Keep(e, n) \subseteq From(e, n)..To(e, n)-1
         /\ Keep(e, n) \subseteq Address
<1>1. CASE n = 0
  <2>1. /\ From(e, n) = ELFHDR /\ To(e, n) = HdrEnd /\ Shift(e, n) = -ELFHDR
        /\ Keep(e, n) = ELFHDR..HdrEnd-1
    BY <1>1 DEF From, To, Shift, Keep
  <2> QED
    BY <2>1, Layout, HeaderSectors DEF Address
<1>2. CASE n # 0
  <2> DEFINE s == e.segs[n]
             p == s.p_pa
             z == s.p_memsz
             f == s.p_filesz
             o == s.p_offset
  <2>1. n \in 1..Len(e.segs) /\ e.elf
    BY <1>2
  <2>2. p \in Nat /\ z \in Nat /\ f \in Nat /\ o \in Nat
    BY <2>1, SegType
  <2>3. /\ From(e, n) = RoundDown(p) /\ To(e, n) = p + z /\ Shift(e, n) = o - p
        /\ Keep(e, n) = p..p+f-1
    BY <1>2 DEF From, To, Shift, Keep
  <2>4. f <= z /\ (f > 0 => p + z <= MemSize)
    <3>1. CASE Nothing(s)
      BY <2>2, <3>1 DEF Nothing
    <3>2. CASE Placed(s)
      BY <2>2, <3>2 DEF Placed
    <3> QED
      BY <2>1, <3>1, <3>2, SegPlaced
  <2> HIDE DEF p, z, f, o
  <2>5. RoundDown(p) \in Nat /\ RoundDown(p) % SECTSIZE = 0 /\ RoundDown(p) <= p
    BY <2>2, RoundDownFacts
  <2>6. MemSize \in Nat
    BY Layout
  <2>7. p..p+f-1 \subseteq RoundDown(p)..p+z-1
    BY <2>2, <2>4, <2>5
  <2>8. p..p+f-1 \subseteq Address
    BY <2>2, <2>4, <2>6 DEF Address
  <2> QED
    BY <2>2, <2>3, <2>5, <2>7, <2>8
<1> QED
  BY <1>1, <1>2

(* What is read for a segment lies behind what was kept before. *)
LEMMA BehindKept ==
  ASSUME NEW e \in Images, NEW n \in 0..Len(e.segs), n # 0 => e.elf,
         From(e, n) < To(e, n),
         NEW m \in 0..n-1, NEW a \in Keep(e, m)
  PROVE  a < From(e, n)
<1>1. n # 0 /\ n \in 1..Len(e.segs) /\ e.elf /\ Len(e.segs) \in Nat
  <2>1. n # 0
    OBVIOUS
  <2>2. e.segs \in Seq(Proghdr)
    BY LayoutAssumption DEF Elf
  <2> QED
    BY <2>1, <2>2
<1> DEFINE s == e.segs[n]
           p == s.p_pa
           z == s.p_memsz
<1>2. p \in Nat /\ z \in Nat
  BY <1>1, SegType
<1>3. From(e, n) = RoundDown(p) /\ To(e, n) = p + z
  BY <1>1 DEF From, To
<1>4. /\ RoundDown(p) \in Nat /\ RoundDown(p) % SECTSIZE = 0 /\ RoundDown(p) <= p
      /\ p < RoundDown(p) + SECTSIZE
  BY <1>2, RoundDownFacts
<1>5. ~Nothing(s)
  <2>1. ASSUME Nothing(s) PROVE FALSE
    <3>1. z = 0 /\ p % SECTSIZE = 0
      BY <2>1 DEF Nothing
    <3>2. RoundDown(p) = p - 0
      BY <3>1 DEF RoundDown
    <3> HIDE DEF p, z
    <3> QED
      BY <1>2, <1>3, <3>1, <3>2
  <2> QED
    BY <2>1
<1>6. /\ p >= HdrEnd
      /\ \A j \in 1..n-1 : e.segs[j].p_pa + e.segs[j].p_filesz <= RoundDown(p)
  BY <1>1, <1>5, SegPlaced DEF Placed
<1> HIDE DEF p, z
<1>7. CASE m = 0
  <2>1. a \in Nat /\ a < HdrEnd
    BY <1>7, Layout DEF Keep
  <2>2. HdrEnd <= RoundDown(p)
    <3>1. ASSUME RoundDown(p) < HdrEnd PROVE FALSE
      <4>1. RoundDown(p) + SECTSIZE <= HdrEnd
        BY <1>4, <3>1, Apart, HeaderSectors, Layout
      <4> QED
        BY <1>2, <1>4, <1>6, <4>1, Layout
    <3> QED
      BY <1>4, <3>1, Layout
  <2> QED
    BY <1>3, <1>4, <2>1, <2>2, Layout
<1>8. CASE m # 0
  <2>1. m \in 1..n-1 /\ m \in 1..Len(e.segs)
    BY <1>1, <1>8
  <2> DEFINE t == e.segs[m].p_pa
             f == e.segs[m].p_filesz
  <2>2. t \in Nat /\ f \in Nat
    BY <2>1, SegType
  <2>3. a \in t..t+f-1
    BY <1>8 DEF Keep
  <2>4. t + f <= RoundDown(p)
    BY <1>6, <2>1
  <2> HIDE DEF t, f
  <2> QED
    BY <1>3, <1>4, <2>2, <2>3, <2>4
<1> QED
  BY <1>7, <1>8

(* The sectors that are read for a segment are asked for. *)
LEMMA SectorAsked ==
  ASSUME NEW n \in 0..Len(image.segs), image \in Images, n # 0 => image.elf,
         NEW p \in Nat, p % SECTSIZE = 0, From(image, n) <= p, p < To(image, n)
  PROVE  p..p+SECTSIZE-1 \subseteq Asked
<1>1. SECTSIZE \in Nat \ {0} /\ HdrEnd \in Nat
  BY Layout
<1>2. CASE n = 0
  <2>1. p >= ELFHDR /\ p + SECTSIZE <= HdrEnd
    BY <1>1, <1>2, Apart, HeaderSectors DEF From, To
  <2>2. p..p+SECTSIZE-1 \subseteq ELFHDR..HdrEnd-1
    BY <1>1, <2>1, Layout
  <2> QED
    BY <2>2 DEF Asked
<1>3. CASE n # 0
  <2> DEFINE s == image.segs[n]
             a == s.p_pa
             t == s.p_pa + s.p_memsz
  <2>1. n \in 1..Len(image.segs)
    BY <1>3
  <2>2. a \in Nat /\ t \in Nat
    BY <2>1, SegType
  <2>3. From(image, n) = RoundDown(a) /\ To(image, n) = t
    BY <1>3 DEF From, To
  <2> DEFINE R == RoundDown(a)..RoundUp(t)-1
  <2>4. R \subseteq Asked
    BY <2>1 DEF Asked
  <2> HIDE DEF a, t
  <2>5. RoundDown(a) \in Nat /\ RoundUp(t) \in Nat /\ RoundUp(t) % SECTSIZE = 0 /\ t <= RoundUp(t)
    BY <2>2, RoundDownFacts, RoundUpFacts
  <2>6. p < RoundUp(t)
    BY <2>2, <2>3, <2>5
  <2>7. p + SECTSIZE <= RoundUp(t)
    BY <2>5, <2>6, Apart
  <2>8. p..p+SECTSIZE-1 \subseteq R
    BY <1>1, <2>3, <2>5, <2>7
  <2> QED
    BY <2>4, <2>8
<1> QED
  BY <1>2, <1>3

-----------------------------------------------------------------------------
(* With line 20 open, a sector that is ready arrives where it is put. *)
LEMMA SectorArrives ==
  ASSUME LoaderTypeOK, a20, Ready, NEW p \in Nat, NEW h \in Int,
         (disk.sector - 1) * SECTSIZE = p + h
  PROVE  Stored(p) = [a \in Address |->
                        IF a \in p..p+SECTSIZE-1 THEN a + h ELSE mem[a]]
<1>1. \A a : Wired(a) = a
  BY DEF Wired
<1>2. SECTSIZE \in Nat \ {0} /\ MemSize \in Nat
  BY Layout
<1>3. ASSUME NEW a \in Address
      PROVE  Stored(p)[a] = IF a \in p..p+SECTSIZE-1 THEN a + h ELSE mem[a]
  <2> DEFINE K == {j \in 0..SECTSIZE-1 : Wired(p + j) = a}
             c == CHOOSE j \in K : TRUE
  <2>1. Stored(p)[a] = IF K = {} THEN mem[a] ELSE DataPort(c)
    BY DEF Stored
  <2>2. a \in Nat
    BY <1>2 DEF Address
  <2>3. CASE a \in p..p+SECTSIZE-1
    <3>1. a - p \in 0..SECTSIZE-1 /\ p + (a - p) = a
      BY <1>2, <2>2, <2>3
    <3>2. a - p \in K
      BY <1>1, <3>1
    <3>3. c \in K
      BY <3>2
    <3> HIDE DEF c
    <3>4. c \in 0..SECTSIZE-1 /\ p + c = a
      BY <1>1, <3>3
    <3>5. DataPort(c) = (p + h) + c
      BY DEF DataPort
    <3>6. DataPort(c) = a + h
      BY <1>2, <3>4, <3>5
    <3> QED
      BY <2>1, <2>3, <3>2, <3>6
  <2>4. CASE a \notin p..p+SECTSIZE-1
    <3>1. K = {}
      <4>1. ASSUME NEW j \in 0..SECTSIZE-1, Wired(p + j) = a PROVE FALSE
        BY <1>1, <1>2, <2>4, <4>1
      <4> QED
        BY <4>1
    <3> QED
      BY <2>1, <2>4, <3>1
  <2> QED
    BY <2>3, <2>4
<1>4. Stored(p) = [a \in Address |-> Stored(p)[a]]
  BY DEF Stored
<1> QED
  BY <1>3, <1>4

(* The headers are found where they were put. *)
LEMMA HeaderRead ==
  ASSUME a20, \A a \in ELFHDR..HdrEnd-1 : mem[a] = a + (-ELFHDR)
  PROVE  HeaderIntact
<1> DEFINE z == SECTSIZE * HdrSectors
<1>1. z \in Nat /\ HdrEnd = ELFHDR + z
  BY Layout DEF HdrEnd
<1> HIDE DEF z
<1>2. ASSUME NEW j \in 0..z-1 PROVE mem[Wired(ELFHDR + j)] = j
  <2>1. Wired(ELFHDR + j) = ELFHDR + j
    BY DEF Wired
  <2>2. ELFHDR + j \in ELFHDR..HdrEnd-1 /\ (ELFHDR + j) + (-ELFHDR) = j
    BY <1>1, Layout
  <2> QED
    BY <2>1, <2>2
<1> QED
  BY <1>2 DEF HeaderIntact, z

(* A segment has been read to its end. *)
LEMMA SegComplete ==
  ASSUME LoaderInv, SegDone
  PROVE  /\ a20 /\ HeaderIntact
         /\ \A n \in 0..ph : Loaded(mem, image, n)
<1>1. /\ LoaderTypeOK /\ LineOK /\ SegOK /\ MemOK /\ pc = "loop" /\ pc \in Reading
      /\ seg.pa >= seg.end_pa
  BY DEF LoaderInv, SegDone, Reading
<1>2. seg.pa \in Nat /\ ph \in 0..Len(image.segs) /\ image \in Images
  BY <1>1 DEF LoaderTypeOK
<1>3. /\ ph # 0 => image.elf
      /\ seg.end_pa = To(image, ph)
      /\ \A a \in Address : a \in From(image, ph)..seg.pa-1 => mem[a] = a + Shift(image, ph)
  BY <1>1, <1>2 DEF SegOK
<1>4. /\ From(image, ph) \in Nat /\ To(image, ph) \in Nat
      /\ Keep(image, ph) \subseteq From(image, ph)..To(image, ph)-1
      /\ Keep(image, ph) \subseteq Address
  BY <1>2, <1>3, Geometry
<1>5. a20
  <2>1. ASSUME ~a20 PROVE FALSE
    <3>1. ph = 0 /\ seg.pa = ELFHDR
      BY <1>1, <2>1 DEF LineOK
    <3>2. To(image, ph) = HdrEnd
      BY <3>1 DEF To
    <3> QED
      BY <1>1, <1>3, <3>1, <3>2, Layout
  <2> QED
    BY <2>1
<1>6. Loaded(mem, image, ph)
  <2> SUFFICES ASSUME NEW a \in Keep(image, ph) PROVE mem[a] = a + Shift(image, ph)
    BY DEF Loaded
  <2>1. a \in Address /\ a \in From(image, ph)..To(image, ph)-1
    BY <1>4
  <2>2. a \in From(image, ph)..seg.pa-1
    BY <1>1, <1>2, <1>3, <1>4, <2>1
  <2> QED
    BY <1>3, <2>1, <2>2
<1>7. \A n \in 0..ph : Loaded(mem, image, n)
  <2>1. \A n \in 0..ph-1 : Loaded(mem, image, n)
    BY <1>1 DEF MemOK
  <2>2. \A n \in 0..ph : n = ph \/ n \in 0..ph-1
    BY <1>2
  <2> QED
    BY <1>6, <2>1, <2>2
<1>8. HeaderIntact
  <2>1. 0 \in 0..ph
    BY <1>2
  <2>2. \A a \in ELFHDR..HdrEnd-1 : mem[a] = a + (-ELFHDR)
    BY <1>7, <2>1 DEF Loaded, Keep, Shift
  <2> QED
    BY <1>5, <2>2, HeaderRead
<1> QED
  BY <1>5, <1>7, <1>8

(* The arguments of readseg for segment n, and where it starts to read. *)
Arguments(e, n, pa, count, offset) ==
  \/ n = 0 /\ pa = ELFHDR /\ count = SECTSIZE * HdrSectors /\ offset = 0
  \/ /\ n # 0 /\ pa = e.segs[n].p_pa /\ count = e.segs[n].p_memsz
     /\ offset = e.segs[n].p_offset

Starts(e, n, pa, count, offset) ==
  /\ RoundDown(pa) = From(e, n) /\ pa + count = To(e, n)
  /\ Sector(offset) \in Nat /\ Sector(offset) >= 1
  /\ (Sector(offset) - 1) * SECTSIZE = RoundDown(pa) + Shift(e, n)

LEMMA Started ==
  ASSUME NEW e \in Images, NEW n \in 0..Len(e.segs), n # 0 => e.elf,
         NEW pa \in Nat, NEW count \in Nat, NEW offset \in Nat,
         Arguments(e, n, pa, count, offset)
  PROVE  Starts(e, n, pa, count, offset)
<1> USE DEF Arguments
<1> DEFINE q == offset \div SECTSIZE
<1>1. SECTSIZE \in Nat \ {0}
  BY Layout
<1>2. q \in Nat
  BY <1>1
<1>3. Sector(offset) = q + 1
  BY DEF Sector
<1>4. RoundDown(offset) = q * SECTSIZE
  BY RoundDownFacts
<1>5. pa % SECTSIZE = offset % SECTSIZE
  <2>1. CASE n = 0
    <3>1. 0 % SECTSIZE = 0
      <4>1. 0 * SECTSIZE = 0
        BY <1>1
      <4> QED
        BY <4>1, Multiple
    <3> QED
      BY <2>1, <3>1, HeaderSectors
  <2>2. CASE n # 0
    <3>1. n \in 1..Len(e.segs)
      BY <2>2
    <3>2. Aligned(e.segs[n])
      BY <2>2, <3>1, SegPlaced DEF Nothing, Placed
    <3> QED
      BY <2>2, <3>2 DEF Aligned
  <2> QED
    BY <2>1, <2>2
<1>6. offset % SECTSIZE \in Nat
  BY <1>1
<1>7. RoundDown(offset) = RoundDown(pa) + (offset - pa)
  BY <1>5, <1>6 DEF RoundDown
<1> HIDE DEF q
<1>8. Shift(e, n) = offset - pa
  BY Layout DEF Shift
<1>9. RoundDown(pa) = From(e, n) /\ pa + count = To(e, n)
  <2>1. CASE n = 0
    <3>1. RoundDown(ELFHDR) = ELFHDR
      BY HeaderSectors, Layout DEF RoundDown
    <3> QED
      BY <2>1, <3>1 DEF From, To, HdrEnd
  <2>2. CASE n # 0
    BY <2>2 DEF From, To
  <2> QED
    BY <2>1, <2>2
<1>10. (Sector(offset) - 1) * SECTSIZE = q * SECTSIZE
  BY <1>2, <1>3
<1> QED
  BY <1>2, <1>3, <1>4, <1>7, <1>8, <1>9, <1>10 DEF Starts

-----------------------------------------------------------------------------
LEMMA AskedStays ==
  ASSUME image' = image
  PROVE  Asked' = Asked
BY DEF Asked

(* boot.S: line 20 is asked for, and the headers are the first to be read. *)
LEMMA BootStep ==
  ASSUME LoaderInv,
         \/ start
         \/ seta20("seta20.1", 209, "seta20.2")
         \/ seta20("seta20.2", 223, "prot")
  PROVE  LoaderInv'
<1>1. LoaderTypeOK /\ LineOK /\ SegOK /\ MemOK
  BY DEF LoaderInv
<1>2. /\ image' = image /\ seg' = seg /\ ph' = ph /\ mem' = mem /\ disk' = disk
      /\ a20' = a20 /\ kbc_port' = kbc_port
      /\ pc \in Early /\ pc' \in {"seta20.1", "seta20.2", "prot"}
  BY DEF start, seta20, kbc, Early
<1>3. LoaderTypeOK'
  <2>1. kbc_in' \in Nat
    BY <1>1 DEF start, seta20, kbc, LoaderTypeOK
  <2> QED
    BY <1>1, <1>2, <2>1 DEF LoaderTypeOK, Early
<1>4. LineOK'
  BY <1>1, <1>2 DEF LineOK, start, seta20, KbcReady, Early, Reading
<1>5. SegOK'
  BY <1>2 DEF SegOK, Reading
<1>6. MemOK'
  BY <1>1, <1>2, AskedStays DEF MemOK, Reading, Early
<1> QED
  BY <1>3, <1>4, <1>5, <1>6 DEF LoaderInv

LEMMA ProtStep ==
  ASSUME LoaderInv, protcseg
  PROVE  LoaderInv'
<1> DEFINE z == SECTSIZE * HdrSectors
<1>1. LoaderTypeOK /\ LineOK /\ SegOK /\ MemOK /\ pc = "prot"
  BY DEF LoaderInv, protcseg
<1>2. /\ image' = image /\ ph' = ph /\ mem' = mem /\ disk' = disk
      /\ a20' = a20 /\ kbc_port' = kbc_port /\ kbc_in' = kbc_in /\ pc' = "loop"
      /\ seg' = [pa |-> RoundDown(ELFHDR), end_pa |-> ELFHDR + z, sector |-> Sector(0)]
  BY DEF protcseg, readseg, kbc
<1>3. ph = 0 /\ image \in Images /\ ph \in 0..Len(image.segs)
  BY <1>1 DEF MemOK, Early, LoaderTypeOK
<1>4. /\ RoundDown(ELFHDR) = From(image, 0) /\ ELFHDR + z = To(image, 0)
      /\ Sector(0) \in Nat /\ Sector(0) >= 1
      /\ (Sector(0) - 1) * SECTSIZE = RoundDown(ELFHDR) + Shift(image, 0)
  <2>1. z \in Nat /\ ELFHDR \in Nat /\ 0 \in Nat
    BY Layout
  <2>2. 0 \in 0..Len(image.segs)
    BY <1>3
  <2> QED
    BY <1>3, <2>1, <2>2, Started DEF Arguments, Starts
<1>5. /\ From(image, 0) \in Nat /\ From(image, 0) % SECTSIZE = 0 /\ To(image, 0) \in Nat
      /\ From(image, 0) = ELFHDR
  BY <1>3, Geometry DEF From
<1> HIDE DEF z
<1>6. /\ seg'.pa = From(image, 0) /\ seg'.end_pa = To(image, 0)
      /\ seg'.sector = Sector(0)
      /\ seg' \in [pa : Nat, end_pa : Nat, sector : Nat]
  BY <1>2, <1>4, <1>5
<1>7. LoaderTypeOK'
  BY <1>1, <1>2, <1>6 DEF LoaderTypeOK, Reading
<1>8. LineOK'
  BY <1>1, <1>2, <1>3, <1>5, <1>6 DEF LineOK, Early, Reading
<1>9. SegOK'
  <2>1. \A a \in Address : a \notin From(image, 0)..From(image, 0)-1
    BY <1>5
  <2> QED
    BY <1>2, <1>3, <1>4, <1>5, <1>6, <2>1 DEF SegOK
<1>10. MemOK'
  BY <1>1, <1>2, <1>3, AskedStays DEF MemOK, Early, Reading
<1> QED
  BY <1>7, <1>8, <1>9, <1>10 DEF LoaderInv

(* The loop of readseg goes on to the next sector. *)
LEMMA CommandStep ==
  ASSUME LoaderInv, NextSector \/ Command
  PROVE  LoaderInv'
<1>1. LoaderTypeOK /\ LineOK /\ SegOK /\ MemOK /\ pc \in Reading
  BY DEF LoaderInv, NextSector, Command, Reading
<1>2. /\ image' = image /\ ph' = ph /\ mem' = mem /\ seg' = seg
      /\ a20' = a20 /\ kbc_port' = kbc_port /\ kbc_in' = kbc_in
      /\ \/ pc = "loop" /\ pc' = "readsect" /\ seg.pa < seg.end_pa /\ disk' = disk
         \/ /\ pc = "readsect" /\ pc' = "insl"
            /\ disk' = [state |-> "busy", sector |-> seg.sector]
  BY DEF NextSector, Command, kbc
<1>3. LoaderTypeOK'
  <2>1. disk' \in [state : {"ready", "busy"}, sector : Nat]
    BY <1>1, <1>2 DEF LoaderTypeOK
  <2> QED
    BY <1>1, <1>2, <2>1 DEF LoaderTypeOK, Reading
<1>4. LineOK'
  <2>1. pc' = "insl" => ~Ready'
    BY <1>2 DEF Ready
  <2> QED
    BY <1>1, <1>2, <2>1 DEF LineOK, Early, Reading
<1>5. SegOK'
  BY <1>1, <1>2 DEF SegOK, Reading
<1>6. MemOK'
  BY <1>1, <1>2, AskedStays DEF MemOK, Early, Reading
<1> QED
  BY <1>3, <1>4, <1>5, <1>6 DEF LoaderInv

(* The steps of the controller and the disk. *)
LEMMA HardwareStep ==
  ASSUME LoaderInv, KbcTakes \/ DiskDone
  PROVE  LoaderInv'
<1>1. LoaderTypeOK /\ LineOK /\ SegOK /\ MemOK
  BY DEF LoaderInv
<1>2. image' = image /\ ph' = ph /\ mem' = mem /\ seg' = seg /\ pc' = pc
  BY DEF KbcTakes, DiskDone
<1>3. /\ disk'.sector = disk.sector
      /\ disk' \in [state : {"ready", "busy"}, sector : Nat]
  BY <1>1 DEF KbcTakes, DiskDone, LoaderTypeOK
<1>4. LoaderTypeOK'
  <2>1. kbc_in' \in Nat
    BY <1>1 DEF KbcTakes, DiskDone, LoaderTypeOK, kbc
  <2>2. a20' \in BOOLEAN /\ kbc_port' \in BOOLEAN
    <3>1. a20 \in BOOLEAN /\ kbc_port \in BOOLEAN
      BY <1>1 DEF LoaderTypeOK
    <3>2. CASE KbcTakes
      BY <3>2 DEF KbcTakes
    <3>3. CASE DiskDone
      BY <3>1, <3>3 DEF DiskDone, kbc
    <3> QED
      BY <3>2, <3>3
  <2> QED
    BY <1>1, <1>2, <1>3, <2>1, <2>2 DEF LoaderTypeOK
<1>5. LineOK'
  <2>1. CASE KbcTakes
    <3>1. /\ kbc_in # 0 /\ kbc_in' = 0 /\ disk' = disk
          /\ kbc_port' = (kbc_in = 209) /\ a20' = (a20 \/ (kbc_port /\ kbc_in = 223))
      BY <2>1 DEF KbcTakes
    <3>2. a20 => a20'
      BY <3>1
    <3>3. kbc_in = 209 => kbc_port'
      BY <3>1
    <3>4. kbc_in = 223 /\ kbc_port => a20'
      BY <3>1
    <3>5. Ready' = Ready
      BY <3>1 DEF Ready
    <3> QED
      BY <1>1, <1>2, <3>1, <3>2, <3>3, <3>4, <3>5 DEF LineOK
  <2>2. CASE DiskDone
    <3>1. kbc_in = 0 /\ a20' = a20 /\ kbc_port' = kbc_port /\ kbc_in' = kbc_in
      BY <2>2 DEF DiskDone, kbc
    <3>2. pc = "insl" => a20
      BY <1>1, <3>1 DEF LineOK
    <3> QED
      BY <1>1, <1>2, <3>1, <3>2 DEF LineOK
  <2> QED
    BY <2>1, <2>2
<1>6. SegOK'
  BY <1>1, <1>2, <1>3 DEF SegOK
<1>7. MemOK'
  BY <1>1, <1>2, AskedStays DEF MemOK
<1> QED
  BY <1>4, <1>5, <1>6, <1>7 DEF LoaderInv

(* A sector is read: it extends the segment and hits nothing else. *)
LEMMA ReadStep ==
  ASSUME LoaderInv, insl
  PROVE  LoaderInv'
<1> DEFINE p == seg.pa
           h == Shift(image, ph)
           f == From(image, ph)
           new == [a \in Address |-> IF a \in p..p+SECTSIZE-1 THEN a + h ELSE mem[a]]
<1>1. LoaderTypeOK /\ LineOK /\ SegOK /\ MemOK /\ pc = "insl" /\ Ready /\ pc \in Reading
  BY DEF LoaderInv, insl, Reading
<1>2. /\ image' = image /\ ph' = ph /\ disk' = disk /\ mem' = Stored(p)
      /\ seg' = [seg EXCEPT !.pa = @ + SECTSIZE, !.sector = @ + 1]
      /\ a20' = a20 /\ kbc_port' = kbc_port /\ kbc_in' = kbc_in /\ pc' = "loop"
  BY DEF insl, kbc, Advanced
<1>3. /\ image \in Images /\ ph \in 0..Len(image.segs) /\ mem \in [Address -> Int]
      /\ seg \in [pa : Nat, end_pa : Nat, sector : Nat] /\ p \in Nat
  BY <1>1 DEF LoaderTypeOK
<1>4. /\ ph # 0 => image.elf
      /\ p % SECTSIZE = 0 /\ p >= f /\ seg.end_pa = To(image, ph) /\ p < To(image, ph)
      /\ seg.sector >= 1 /\ (seg.sector - 1) * SECTSIZE = p + h
      /\ disk.sector = seg.sector
      /\ \A a \in Address : a \in f..p-1 => mem[a] = a + h
  BY <1>1, <1>3 DEF SegOK
<1>5. a20
  BY <1>1 DEF LineOK
<1>6. f \in Nat /\ h \in Int /\ SECTSIZE \in Nat \ {0} /\ MemSize \in Nat
  BY <1>3, <1>4, Geometry, Layout
<1> HIDE DEF p, h, f
<1>7. mem' = new
  BY <1>1, <1>2, <1>3, <1>4, <1>5, <1>6, SectorArrives
<1>8. /\ seg' \in [pa : Nat, end_pa : Nat, sector : Nat]
      /\ seg'.pa = p + SECTSIZE /\ seg'.end_pa = seg.end_pa
      /\ seg'.sector = seg.sector + 1
  <2>1. seg.pa \in Nat /\ seg.end_pa \in Nat /\ seg.sector \in Nat
    BY <1>3
  <2>2. seg' = [pa |-> seg.pa + SECTSIZE, end_pa |-> seg.end_pa, sector |-> seg.sector + 1]
    BY <1>2, <1>3
  <2>3. seg.pa + SECTSIZE \in Nat /\ seg.sector + 1 \in Nat
    BY <1>6, <2>1
  <2> QED
    BY <2>1, <2>2, <2>3 DEF p
<1>9. LoaderTypeOK'
  <2>1. mem' \in [Address -> Int]
    <3>1. \A a \in Address : a \in Int
      BY <1>6 DEF Address
    <3> QED
      BY <1>3, <1>6, <1>7, <3>1
  <2> QED
    BY <1>1, <1>2, <1>8, <2>1 DEF LoaderTypeOK, Reading
<1>10. LineOK'
  BY <1>1, <1>2, <1>5 DEF LineOK, Early, Reading
<1>11. SegOK'
  <2>1. (p + SECTSIZE) % SECTSIZE = 0
    BY <1>3, <1>4, NextMultiple
  <2>2. (seg'.sector - 1) * SECTSIZE = seg'.pa + h /\ seg'.sector >= 1
    <3> DEFINE t == seg.sector - 1
    <3>1. t \in Nat /\ t * SECTSIZE = p + h
      BY <1>3, <1>4
    <3>2. seg'.sector - 1 = t + 1
      BY <1>3, <1>8
    <3>3. seg'.sector >= 1
      BY <1>3, <1>8
    <3> HIDE DEF t
    <3>4. (t + 1) * SECTSIZE = t * SECTSIZE + SECTSIZE
      BY <1>6, <3>1
    <3>5. (seg'.sector - 1) * SECTSIZE = t * SECTSIZE + SECTSIZE
      BY <3>2, <3>4
    <3> DEFINE m == t * SECTSIZE
    <3>6. m = p + h
      BY <3>1
    <3> HIDE DEF m
    <3>7. m + SECTSIZE = (p + SECTSIZE) + h
      BY <1>3, <1>6, <3>6
    <3>8. (seg'.sector - 1) * SECTSIZE = seg'.pa + h
      BY <1>8, <3>5, <3>7 DEF m
    <3> QED
      BY <3>3, <3>8
  <2>3. ASSUME NEW a \in Address, a \in f..(p+SECTSIZE)-1 PROVE mem'[a] = a + h
    <3>1. CASE a \in p..p+SECTSIZE-1
      BY <1>7, <3>1
    <3>2. CASE a \notin p..p+SECTSIZE-1
      <4>1. a \in f..p-1
        BY <1>3, <1>6, <2>3, <3>2
      <4> QED
        BY <1>4, <1>7, <3>2, <4>1
    <3> QED
      BY <3>1, <3>2
  <2>4. p + SECTSIZE >= f
    BY <1>3, <1>4, <1>6
  <2>5. From(image, ph)' = f /\ To(image, ph)' = To(image, ph) /\ Shift(image, ph)' = h
    BY <1>2 DEF f, h, From, To, Shift
  <2>6. \A a \in Address : a \in From(image, ph)'..seg'.pa-1 => mem'[a] = a + Shift(image, ph)'
    BY <1>8, <2>3, <2>5
  <2>7. seg'.pa % SECTSIZE = 0 /\ seg'.pa >= From(image, ph)'
    BY <1>8, <2>1, <2>4, <2>5
  <2> QED
    BY <1>2, <1>3, <1>4, <1>8, <2>2, <2>5, <2>6, <2>7 DEF SegOK
<1>12. MemOK'
  <2>1. ASSUME NEW n \in 0..ph-1 PROVE Loaded(mem', image, n)
    <3>1. Loaded(mem, image, n) /\ n \in 0..Len(image.segs) /\ (n # 0 => image.elf)
      BY <1>1, <1>3, <1>4 DEF MemOK
    <3> SUFFICES ASSUME NEW a \in Keep(image, n) PROVE mem'[a] = a + Shift(image, n)
      BY DEF Loaded
    <3>2. a \in Address
      BY <1>3, <3>1, Geometry
    <3>3. From(image, ph) < To(image, ph)
      BY <1>3, <1>4, <1>6, Geometry DEF f
    <3>4. a < f
      BY <1>3, <1>4, <3>3, BehindKept DEF f
    <3>5. a \notin p..p+SECTSIZE-1
      BY <1>3, <1>4, <1>6, <3>2, <3>4 DEF Address
    <3>6. mem[a] = a + Shift(image, n)
      BY <3>1 DEF Loaded
    <3> QED
      BY <1>7, <3>2, <3>5, <3>6
  <2>2. ASSUME NEW a \in Address \ Asked PROVE mem'[a] = Stale
    <3>1. p..p+SECTSIZE-1 \subseteq Asked
      BY <1>3, <1>4, SectorAsked DEF f
    <3>2. mem[a] = Stale
      BY <1>1 DEF MemOK
    <3> QED
      BY <1>7, <3>1, <3>2
  <2>3. Asked' = Asked
    BY <1>2, AskedStays
  <2> QED
    BY <1>2, <2>1, <2>2, <2>3 DEF MemOK, Early, Reading
<1> QED
  BY <1>9, <1>10, <1>11, <1>12 DEF LoaderInv

(* bootmain between two segments. *)
LEMMA SegmentStep ==
  ASSUME LoaderInv, NextSegment
  PROVE  LoaderInv'
<1> DEFINE n == ph + 1
           s == image.segs[n]
<1>1. LoaderTypeOK /\ LineOK /\ SegOK /\ MemOK /\ SegDone /\ pc = "loop" /\ pc \in Reading
  BY DEF LoaderInv, NextSegment, SegDone, Reading
<1>2. a20 /\ HeaderIntact /\ \A j \in 0..ph : Loaded(mem, image, j)
  BY <1>1, SegComplete
<1>3. /\ image' = image /\ ph' = n /\ disk' = disk /\ mem' = mem /\ pc' = "loop"
      /\ a20' = a20 /\ kbc_port' = kbc_port /\ kbc_in' = kbc_in
      /\ readseg(s.p_pa, s.p_memsz, s.p_offset)
      /\ ph < Len(image.segs) /\ (ph = 0 => image.elf)
  BY <1>2 DEF NextSegment, kbc
<1>4. /\ image \in Images /\ ph \in 0..Len(image.segs) /\ ph \in Nat
      /\ ph # 0 => image.elf
  BY <1>1 DEF LoaderTypeOK, SegOK
<1>5. image.elf
  BY <1>3, <1>4
<1>6. n \in 1..Len(image.segs) /\ n # 0 /\ n \in 0..Len(image.segs)
  <2>1. image.segs \in Seq(Proghdr)
    BY <1>4, LayoutAssumption DEF Elf
  <2> QED
    BY <1>3, <1>4, <2>1
<1> HIDE DEF n
<1>7. s.p_pa \in Nat /\ s.p_memsz \in Nat /\ s.p_offset \in Nat
  BY <1>4, <1>6, SegType
<1>8. /\ RoundDown(s.p_pa) = From(image, n) /\ s.p_pa + s.p_memsz = To(image, n)
      /\ Sector(s.p_offset) \in Nat /\ Sector(s.p_offset) >= 1
      /\ (Sector(s.p_offset) - 1) * SECTSIZE = RoundDown(s.p_pa) + Shift(image, n)
  <2> DEFINE pa == s.p_pa
             count == s.p_memsz
             offset == s.p_offset
  <2>1. pa \in Nat /\ count \in Nat /\ offset \in Nat
    BY <1>7
  <2>2. Arguments(image, n, pa, count, offset)
    BY <1>6 DEF Arguments
  <2> HIDE DEF pa, count, offset, s
  <2>3. Starts(image, n, pa, count, offset)
    BY <1>4, <1>5, <1>6, <2>1, <2>2, Started, Zenon
  <2> QED
    BY <2>3 DEF Starts, pa, count, offset, s
<1>9. From(image, n) \in Nat /\ From(image, n) % SECTSIZE = 0 /\ To(image, n) \in Nat
  BY <1>4, <1>5, <1>6, Geometry
<1>10. /\ seg'.pa = From(image, n) /\ seg'.end_pa = To(image, n)
       /\ seg'.sector = Sector(s.p_offset)
       /\ seg' \in [pa : Nat, end_pa : Nat, sector : Nat]
  BY <1>3, <1>8, <1>9 DEF readseg
<1>11. LoaderTypeOK'
  BY <1>1, <1>3, <1>6, <1>10 DEF LoaderTypeOK, Reading
<1>12. LineOK'
  BY <1>1, <1>2, <1>3 DEF LineOK, Early, Reading
<1>13. SegOK'
  <2>1. \A a \in Address : a \notin From(image, n)..From(image, n)-1
    BY <1>9
  <2> QED
    BY <1>3, <1>5, <1>8, <1>9, <1>10, <2>1 DEF SegOK
<1>14. MemOK'
  <2>1. \A j \in 0..n-1 : Loaded(mem, image, j)
    <3>1. n - 1 = ph
      BY <1>4 DEF n
    <3> QED
      BY <1>2, <3>1
  <2>2. \A a \in Address \ Asked : mem[a] = Stale
    BY <1>1 DEF MemOK
  <2> QED
    BY <1>3, <2>1, <2>2, AskedStays DEF MemOK, Early, Reading
<1> QED
  BY <1>11, <1>12, <1>13, <1>14 DEF LoaderInv

LEMMA LeaveStep ==
  ASSUME LoaderInv, BadMagic \/ Enter
  PROVE  LoaderInv'
<1>1. LoaderTypeOK /\ LineOK /\ SegOK /\ MemOK /\ SegDone
  BY DEF LoaderInv, BadMagic, Enter
<1>2. a20 /\ HeaderIntact /\ \A j \in 0..ph : Loaded(mem, image, j)
  BY <1>1, SegComplete
<1>3. /\ image' = image /\ ph' = ph /\ disk' = disk /\ mem' = mem /\ seg' = seg
      /\ a20' = a20 /\ kbc_port' = kbc_port /\ kbc_in' = kbc_in
      /\ \/ pc' = "bad"
         \/ pc' = "entry" /\ ph = Len(image.segs) /\ (ph = 0 => image.elf)
  BY <1>2 DEF BadMagic, Enter, kbc
<1>4. ph \in 0..Len(image.segs) /\ (ph # 0 => image.elf) /\ pc = "loop"
  BY <1>1 DEF LoaderTypeOK, SegOK, SegDone, Reading
<1>5. LoaderTypeOK'
  BY <1>1, <1>3 DEF LoaderTypeOK
<1>6. LineOK'
  BY <1>1, <1>2, <1>3, <1>4 DEF LineOK, Early, Reading
<1>7. SegOK'
  BY <1>3 DEF SegOK, Reading
<1>8. MemOK'
  <2>1. \A a \in Address \ Asked : mem[a] = Stale
    BY <1>1 DEF MemOK
  <2>2. pc' = "entry" => image.elf /\ \A n \in 1..Len(image.segs) : Loaded(mem, image, n)
    BY <1>2, <1>3, <1>4
  <2> QED
    BY <1>3, <2>1, <2>2, AskedStays DEF MemOK, Early, Reading
<1> QED
  BY <1>5, <1>6, <1>7, <1>8 DEF LoaderInv

(* The BSS is cleared: it is part of what was asked for, and no byte that  *)
(* came from the file is in it.                                            *)
LEMMA BssStep ==
  ASSUME LoaderInv, ClearBss
  PROVE  LoaderInv'
<1> DEFINE b == image.edata
           z == image.end
<1>1. LoaderTypeOK /\ LineOK /\ SegOK /\ MemOK /\ pc = "entry"
  BY DEF LoaderInv, ClearBss
<1>2. a20 /\ image.elf /\ image \in Images /\ mem \in [Address -> Int]
  BY <1>1 DEF LineOK, MemOK, LoaderTypeOK, Early, Reading
<1>3. b \in Nat /\ z \in Nat /\ MemSize \in Nat /\ image.segs \in Seq(Proghdr)
  BY <1>2, LayoutAssumption, Layout DEF Elf
<1>4. /\ image' = image /\ ph' = ph /\ disk' = disk /\ seg' = seg
      /\ a20' = a20 /\ kbc_port' = kbc_port /\ kbc_in' = kbc_in /\ pc' = "running"
      /\ mem' = [a \in Address |-> IF \E v \in b..z-1 : Wired(v) = a THEN Zero ELSE mem[a]]
  BY DEF ClearBss, kbc
<1>5. \A v : Wired(v) = v
  BY <1>2 DEF Wired
<1> HIDE DEF b, z
<1>6. mem' = [a \in Address |-> IF a \in b..z-1 THEN Zero ELSE mem[a]]
  <2>1. \A a : (\E v \in b..z-1 : Wired(v) = a) <=> a \in b..z-1
    BY <1>5
  <2> QED
    BY <1>4, <2>1
<1>7. PICK k \in 1..Len(image.segs) :
         LET s == image.segs[k] IN Placed(s) /\ s.p_pa <= b /\ z <= s.p_pa + s.p_memsz
  BY <1>2, ImageAssumption DEF Linked, b, z
<1>8. b..z-1 \subseteq Address /\ b..z-1 \subseteq Asked
  <2> DEFINE s == image.segs[k]
             p == s.p_pa
             t == s.p_pa + s.p_memsz
             R == RoundDown(p)..RoundUp(t)-1
  <2>1. p \in Nat /\ t \in Nat
    BY <1>2, SegType
  <2>2. t <= MemSize /\ p <= b /\ z <= t
    BY <1>7 DEF Placed
  <2>3. R \subseteq Asked
    BY DEF Asked
  <2> HIDE DEF p, t
  <2>4. RoundDown(p) \in Nat /\ RoundDown(p) <= p /\ RoundUp(t) \in Nat /\ t <= RoundUp(t)
    BY <2>1, RoundDownFacts, RoundUpFacts
  <2>5. b..z-1 \subseteq R
    BY <1>3, <2>1, <2>2, <2>4
  <2>6. b..z-1 \subseteq Address
    BY <1>3, <2>1, <2>2 DEF Address
  <2> QED
    BY <2>3, <2>5, <2>6
<1>9. LoaderTypeOK'
  <2>1. mem' \in [Address -> Int]
    BY <1>2, <1>6 DEF Zero
  <2> QED
    BY <1>1, <1>4, <2>1 DEF LoaderTypeOK
<1>10. LineOK'
  BY <1>1, <1>2, <1>4 DEF LineOK, Early, Reading
<1>11. SegOK'
  BY <1>4 DEF SegOK, Reading
<1>12. MemOK'
  <2>1. ASSUME NEW n \in 1..Len(image.segs) PROVE Loaded(mem', image, n)
    <3> SUFFICES ASSUME NEW a \in Keep(image, n) PROVE mem'[a] = a + Shift(image, n)
      BY DEF Loaded
    <3>1. n \in 0..Len(image.segs) /\ n # 0
      BY <1>3
    <3>2. a \in Address /\ a \in Nat
      BY <1>2, <1>3, <3>1, Geometry DEF Address
    <3>3. mem[a] = a + Shift(image, n)
      BY <1>1 DEF MemOK, Loaded
    <3> DEFINE p == image.segs[n].p_pa
               f == image.segs[n].p_filesz
    <3>4. p \in Nat /\ f \in Nat
      BY <1>2, SegType
    <3>5. a \in p..p+f-1
      BY <3>1 DEF Keep
    <3>6. p + f <= b
      <4>1. f # 0
        BY <3>4, <3>5
      <4>2. ~Nothing(image.segs[n])
        BY <4>1 DEF Nothing
      <4> QED
        BY <1>2, <4>2, SegPlaced DEF b
    <3> HIDE DEF p, f
    <3>7. a \notin b..z-1
      BY <1>3, <3>4, <3>5, <3>6
    <3> QED
      BY <1>6, <3>2, <3>3, <3>7
  <2>2. \A a \in b..z-1 : mem'[a] = Zero
    BY <1>6, <1>8
  <2>3. \A a \in Address \ Asked : mem'[a] = Stale
    BY <1>1, <1>6, <1>8 DEF MemOK
  <2> QED
    BY <1>2, <1>4, <2>1, <2>2, <2>3, AskedStays DEF MemOK, Early, Reading, b, z
<1> QED
  BY <1>9, <1>10, <1>11, <1>12 DEF LoaderInv

LEMMA LoaderStutter ==
  ASSUME LoaderInv, UNCHANGED vars
  PROVE  LoaderInv'
<1>1. UNCHANGED <<image, pc, seg, ph, mem, a20, kbc_in, kbc_port, disk>>
  BY DEF vars, kbc
<1>2. LoaderTypeOK' /\ LineOK'
  BY <1>1 DEF LoaderInv, LoaderTypeOK, LineOK, Ready
<1>3. SegOK'
  BY <1>1 DEF LoaderInv, SegOK
<1>4. MemOK'
  BY <1>1, AskedStays DEF LoaderInv, MemOK
<1> QED
  BY <1>2, <1>3, <1>4 DEF LoaderInv

LEMMA LoaderInit ==
  ASSUME Init
  PROVE  LoaderInv
<1>1. image \in Images /\ 0 \in 0..Len(image.segs)
  <2>1. image.segs \in Seq(Proghdr)
    BY LayoutAssumption DEF Init, Elf
  <2> QED
    BY <2>1 DEF Init
<1>2. LoaderTypeOK
  <2>1. mem \in [Address -> Int]
    BY DEF Init, Stale
  <2>2. a20 \in BOOLEAN /\ kbc_port \in BOOLEAN /\ kbc_in \in Nat
    <3>1. a20 \in BOOLEAN /\ kbc_port = FALSE /\ kbc_in \in {0, 174}
      BY DEF Init
    <3>2. kbc_in \in Nat
      BY <3>1
    <3> QED
      BY <3>1, <3>2, Zenon
  <2>3. disk \in [state : {"ready", "busy"}, sector : Nat]
    BY DEF Init
  <2>4. seg \in [pa : Nat, end_pa : Nat, sector : Nat] /\ pc \in Early /\ ph = 0
    BY DEF Init, Early
  <2> QED
    BY <1>1, <2>1, <2>2, <2>3, <2>4 DEF LoaderTypeOK
<1>3. LineOK /\ SegOK /\ MemOK
  BY DEF Init, LineOK, SegOK, MemOK, Early, Reading
<1> QED
  BY <1>2, <1>3 DEF LoaderInv

(* The invariant that the two properties rest on holds, whatever the BIOS   *)
(* has left and in whatever order the devices answer.                      *)
THEOREM LoaderInductive == Spec => []LoaderInv
<1>1. LoaderInv /\ [Next]_vars => LoaderInv'
  BY BootStep, ProtStep, CommandStep, HardwareStep, ReadStep, SegmentStep, LeaveStep,
     BssStep, LoaderStutter DEF Next, Loader, Spin
<1> QED
  BY LoaderInit, <1>1, PTL DEF Spec

(* For every kernel that kernel.ld can produce, when control is handed to  *)
(* it, every byte of the file is in its place, and once i386_init has      *)
(* begun, its static variables are zero.                                   *)
THEOREM KernelIsInPlace == Spec => []KernelInPlace
<1>1. LoaderInv => KernelInPlace
  <2> SUFFICES ASSUME LoaderInv PROVE KernelInPlace
    OBVIOUS
  <2>1. image \in Images
    BY DEF LoaderInv, LoaderTypeOK
  <2>2. ASSUME pc \in {"entry", "running"}, NEW n \in 1..Len(image.segs),
               NEW j \in 0..image.segs[n].p_filesz-1
        PROVE  mem[image.segs[n].p_pa + j] = image.segs[n].p_offset + j
    <3> DEFINE p == image.segs[n].p_pa
               f == image.segs[n].p_filesz
               o == image.segs[n].p_offset
    <3>1. p \in Nat /\ f \in Nat /\ o \in Nat
      BY <2>1, SegType
    <3>2. Loaded(mem, image, n)
      BY <2>2 DEF LoaderInv, MemOK
    <3>3. n # 0
      OBVIOUS
    <3>4. \A a \in p..p+f-1 : mem[a] = a + (o - p)
      BY <3>2, <3>3 DEF Loaded, Keep, Shift
    <3>5. j \in 0..f-1
      OBVIOUS
    <3> HIDE DEF p, f, o
    <3>6. p + j \in p..p+f-1 /\ (p + j) + (o - p) = o + j
      BY <3>1, <3>5
    <3>7. mem[p + j] = o + j
      BY <3>4, <3>6
    <3> QED
      BY <3>7 DEF p, o
  <2>3. pc = "running" => \A a \in image.edata..image.end-1 : mem[a] = Zero
    BY DEF LoaderInv, MemOK
  <2> QED
    BY <2>2, <2>3 DEF KernelInPlace
<1> QED
  BY LoaderInductive, <1>1, PTL

(* Reading whole sectors and the address line that starts out tied low     *)
(* touch nothing that was not asked for, and the headers survive as long   *)
(* as they are needed.                                                     *)
THEOREM NothingDamaged == Spec => []NoDamage
<1>1. LoaderInv => NoDamage
  <2> SUFFICES ASSUME LoaderInv PROVE NoDamage
    OBVIOUS
  <2>1. \A a \in Address \ Asked : mem[a] = Stale
    BY DEF LoaderInv, MemOK
  <2>2. ASSUME pc \in Reading, ph > 0 PROVE HeaderIntact
    <3>1. a20 /\ ph \in Nat
      BY <2>2 DEF LoaderInv, LineOK, LoaderTypeOK
    <3>2. 0 \in 0..ph-1
      BY <2>2, <3>1
    <3>3. \A a \in ELFHDR..HdrEnd-1 : mem[a] = a + (-ELFHDR)
      BY <2>2, <3>2 DEF LoaderInv, MemOK, Loaded, Keep, Shift
    <3> QED
      BY <3>1, <3>3, HeaderRead
  <2> QED
    BY <2>1, <2>2 DEF NoDamage, Reading
<1> QED
  BY LoaderInductive, <1>1, PTL

-----------------------------------------------------------------------------
(* What is left of the loading: its stages, the segments, the bytes of the *)
(* one that is being read, and the halves of a sector.                     *)
BootStage ==
  CASE pc = "start" -> 6 [] pc = "seta20.1" -> 5 [] pc = "seta20.2" -> 4
    [] pc = "prot" -> 3 [] pc \in Reading -> 2 [] pc = "entry" -> 1 [] OTHER -> 0

SegsLeft    == Len(image.segs) - ph
BytesLeft   == IF seg.pa < seg.end_pa THEN seg.end_pa - seg.pa ELSE 0
HalvesLeft  == CASE pc = "loop" -> 2 [] pc = "readsect" -> 1 [] OTHER -> 0

BootNearer ==
  \/ BootStage' < BootStage
  \/ /\ BootStage' = BootStage
     /\ \/ SegsLeft' < SegsLeft
        \/ SegsLeft' = SegsLeft /\ BytesLeft' < BytesLeft
        \/ SegsLeft' = SegsLeft /\ BytesLeft' = BytesLeft /\ HalvesLeft' < HalvesLeft

(* Where the loading ends: not at addresses that damaged headers give, and *)
(* in the loop for a bad image only with one.                              *)
EndsRight == pc # "lost" /\ (pc = "bad" => ~image.elf) /\ (pc = "running" => image.elf)

LEMMA LeftFinite ==
  ASSUME LoaderInv
  PROVE  /\ BootStage \in 0..6 /\ SegsLeft \in Nat /\ BytesLeft \in Nat
         /\ HalvesLeft \in 0..2
<1>1. LoaderTypeOK
  BY DEF LoaderInv
<1>2. BootStage \in 0..6 /\ HalvesLeft \in 0..2
  BY DEF BootStage, HalvesLeft
<1>3. BytesLeft \in Nat
  BY <1>1 DEF LoaderTypeOK, BytesLeft
<1>4. Len(image.segs) \in Nat
  <2>1. image.segs \in Seq(Proghdr)
    BY <1>1, LayoutAssumption DEF LoaderTypeOK, Elf
  <2> QED
    BY <2>1
<1>5. SegsLeft \in Nat
  BY <1>1, <1>4 DEF LoaderTypeOK, SegsLeft
<1> QED
  BY <1>2, <1>3, <1>5

LEMMA StageNearer ==
  ASSUME LoaderInv,
         \/ start \/ seta20("seta20.1", 209, "seta20.2") \/ seta20("seta20.2", 223, "prot")
         \/ protcseg \/ BadMagic \/ Enter \/ ClearBss
  PROVE  BootNearer /\ (pc' = "bad" => ~image'.elf)
<1>1. SegDone => HeaderIntact
  BY SegComplete
<1>2. \/ pc = "start" /\ pc' = "seta20.1"
      \/ pc = "seta20.1" /\ pc' = "seta20.2"
      \/ pc = "seta20.2" /\ pc' = "prot"
      \/ pc = "prot" /\ pc' = "loop"
      \/ pc = "loop" /\ pc' = "bad" /\ ~image'.elf
      \/ pc = "loop" /\ pc' = "entry"
      \/ pc = "entry" /\ pc' = "running"
  BY <1>1 DEF start, seta20, protcseg, BadMagic, Enter, ClearBss, SegDone
<1> QED
  BY <1>2 DEF BootNearer, BootStage, Reading

LEMMA SectorNearer ==
  ASSUME LoaderInv, NextSector \/ Command \/ insl
  PROVE  BootNearer /\ pc' # "bad"
<1>1. image' = image /\ ph' = ph /\ pc \in Reading /\ pc' \in Reading
  BY DEF NextSector, Command, insl, Reading
<1>2. BootStage' = BootStage /\ SegsLeft' = SegsLeft
  BY <1>1 DEF BootStage, SegsLeft, Reading
<1>3. CASE NextSector \/ Command
  <2>1. BytesLeft' = BytesLeft
    BY <1>3 DEF NextSector, Command, BytesLeft
  <2>2. HalvesLeft' < HalvesLeft
    BY <1>3 DEF NextSector, Command, HalvesLeft
  <2> QED
    BY <1>1, <1>2, <2>1, <2>2 DEF BootNearer, Reading
<1>4. CASE insl
  <2>1. /\ seg \in [pa : Nat, end_pa : Nat, sector : Nat] /\ seg.pa < seg.end_pa
        /\ SECTSIZE \in Nat \ {0}
    BY <1>4, Layout DEF LoaderInv, LoaderTypeOK, SegOK, insl, Reading
  <2>2. seg'.pa = seg.pa + SECTSIZE /\ seg'.end_pa = seg.end_pa
    BY <1>4, <2>1 DEF insl, Advanced
  <2>3. BytesLeft' < BytesLeft
    BY <2>1, <2>2 DEF BytesLeft
  <2> QED
    BY <1>1, <1>2, <2>3 DEF BootNearer, Reading
<1> QED
  BY <1>3, <1>4

LEMMA SegmentNearer ==
  ASSUME LoaderInv, NextSegment
  PROVE  BootNearer /\ pc' # "bad"
<1>1. HeaderIntact
  BY SegComplete DEF NextSegment
<1>2. image' = image /\ ph' = ph + 1 /\ pc = "loop" /\ pc' = "loop"
  BY <1>1 DEF NextSegment, SegDone
<1>3. SegsLeft \in Nat /\ ph \in Nat
  BY LeftFinite DEF LoaderInv, LoaderTypeOK
<1>4. Len(image.segs) \in Nat
  <2>1. image.segs \in Seq(Proghdr)
    BY LayoutAssumption DEF LoaderInv, LoaderTypeOK, Elf
  <2> QED
    BY <2>1
<1>5. BootStage' = BootStage
  BY <1>2 DEF BootStage
<1>6. SegsLeft' = Len(image.segs) - (ph + 1)
  BY <1>2 DEF SegsLeft
<1>7. SegsLeft' < SegsLeft
  BY <1>3, <1>4, <1>6 DEF SegsLeft
<1> QED
  BY <1>2, <1>5, <1>7 DEF BootNearer

(* The loader: every step of the processor brings it nearer to its end, in *)
(* an order in which nothing goes down for ever, for every kernel and      *)
(* however the devices take turns; the devices leave its state alone; and  *)
(* it ends in the kernel or, for an image without the magic number and for *)
(* no other, in the loop.  With the fairness of FairStartup this is Boots. *)
THEOREM LoadingProgresses ==
  Spec => /\ [](/\ BootStage \in 0..6 /\ SegsLeft \in Nat /\ BytesLeft \in Nat
                /\ HalvesLeft \in 0..2 /\ EndsRight)
          /\ [][IF Loader THEN BootNearer
                          ELSE UNCHANGED <<image, pc, seg, ph>>]_vars
<1>1. ASSUME LoaderInv, Loader PROVE BootNearer /\ (pc' = "bad" => ~image'.elf)
  BY <1>1, StageNearer, SectorNearer, SegmentNearer DEF Loader
<1>2. ASSUME Next, ~Loader PROVE UNCHANGED <<image, pc, seg, ph>>
  BY <1>2 DEF Next, KbcTakes, DiskDone, Spin, vars
<1>3. LoaderInv /\ [Next]_vars =>
        [IF Loader THEN BootNearer ELSE UNCHANGED <<image, pc, seg, ph>>]_vars
  BY <1>1, <1>2
<1> DEFINE Bad == pc = "bad" => ~image.elf
<1>4. Init => Bad
  BY DEF Init
<1>5. LoaderInv /\ Bad /\ [Next]_vars => Bad'
  <2>1. UNCHANGED vars => UNCHANGED <<image, pc>>
    BY DEF vars
  <2> QED
    BY <1>1, <1>2, <2>1
<1>6. LoaderInv /\ Bad => EndsRight
  BY DEF LoaderInv, LoaderTypeOK, MemOK, EndsRight, Early, Reading
<1>7. LoaderInv => /\ BootStage \in 0..6 /\ SegsLeft \in Nat /\ BytesLeft \in Nat
                   /\ HalvesLeft \in 0..2
  BY LeftFinite
<1> QED
  BY <1>3, <1>4, <1>5, <1>6, <1>7, LoaderInductive, PTL DEF Spec
=============================================================================
