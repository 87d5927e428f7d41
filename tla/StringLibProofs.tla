-------------------------- MODULE StringLibProofs ---------------------------
(***************************************************************************)
(* memmove, memcpy and memset are exact for every memory, every legal call *)
(* and every overlap; so are the functions that copy, compare and search   *)
(* strings, and strtol reads the number that its text begins with.         *)
(***************************************************************************)
EXTENDS StringLib, SequenceTheorems, NaturalsInduction, WellFoundedInduction, TLAPS

(***************************************************************************)
(* The inductive invariant.  While a string instruction repeats, the bytes *)
(* it has passed are final and every other byte is as it was at the call;  *)
(* memmove goes up only when the source does not begin below a destination *)
(* that it reaches into, and down only when it does, so that no unit is    *)
(* overwritten before it is read.                                          *)
(***************************************************************************)
dst == call.dst
src == call.src

NotStarted ==
  pc \notin RepLoop \cup {"done"} =>
    /\ mem = call.mem /\ d = dst /\ s = src /\ n = call.n
    /\ pc \in MemFns => call.fn \in MemFns
    /\ (pc = "memset") <=> (call.fn = "memset")

Counting ==
  pc \in RepLoop =>
    /\ call.fn \in MemFns
    /\ n <= call.n
    /\ n % unit = 0
    /\ (pc = "stos") <=> (call.fn = "memset")

Filling ==
  pc = "stos" =>
    /\ d = dst + (call.n - n)
    /\ \A a \in Addr :
         mem[a] = IF a \in dst..d-1 THEN call.c % 256 ELSE call.mem[a]

MovingUp ==
  pc = "up" =>
    /\ d = dst + (call.n - n) /\ s = src + (call.n - n)
    /\ dst <= src \/ src + call.n <= dst
    /\ \A a \in Addr :
         mem[a] = IF a \in dst..d-1 THEN call.mem[src + (a - dst)] ELSE call.mem[a]

MovingDown ==
  pc = "down" =>
    /\ d = dst + n /\ s = src + n
    /\ src < dst
    /\ \A a \in Addr :
         mem[a] = IF a \in d..dst+call.n-1 THEN call.mem[src + (a - dst)]
                  ELSE call.mem[a]

MemInv ==
  /\ MemTypeOK /\ NotStarted /\ Counting /\ Filling /\ MovingUp /\ MovingDown
  /\ MemExact

(* What the assumption says of the call under way. *)
LEMMA CallFacts ==
  ASSUME MemTypeOK
  PROVE  /\ MemSize \in Nat
         /\ call.mem \in [Addr -> Byte]
         /\ dst \in Nat /\ src \in Nat /\ call.n \in Nat /\ call.c \in Int
         /\ call.fn \notin RepLoop \cup {"done"}
         /\ call.fn \in MemFns => dst + call.n <= MemSize
         /\ call.fn \in {"memmove", "memcpy"} => src + call.n <= MemSize
  BY MemAssumption DEF MemTypeOK, dst, src

(* A count that is a multiple of the unit holds a whole one. *)
LEMMA WholeUnit ==
  ASSUME NEW k \in Nat, NEW u \in {1, Word}, k % u = 0, k > 0
  PROVE  k >= u /\ (k - u) \in Nat /\ (k - u) % u = 0
  <1>1. CASE u = 1
    BY <1>1
  <1>2. CASE u = 4
    BY <1>2
  <1> QED BY <1>1, <1>2 DEF Word

(* The unit that is chosen divides the count. *)
LEMMA WidthDivides ==
  ASSUME NEW a \in Int, NEW b \in Int, NEW k \in Nat
  PROVE  Width(a, b, k) \in {1, Word} /\ k % Width(a, b, k) = 0
  BY DEF Width, Word

LEMMA ByteOfInt ==
  ASSUME NEW k \in Int PROVE k % 256 \in Byte
  BY DEF Byte

LEMMA InitHolds == MemInit => MemInv
  <1> SUFFICES ASSUME MemInit PROVE MemInv
    OBVIOUS
  <1>1. MemTypeOK
    BY MemAssumption DEF MemInit, MemTypeOK
  <1>2. pc \notin RepLoop \cup {"done"}
    BY <1>1, CallFacts DEF MemInit
  <1>3. NotStarted
    BY DEF MemInit, NotStarted, dst, src
  <1> QED BY <1>1, <1>2, <1>3
          DEF MemInv, Counting, Filling, MovingUp, MovingDown, MemExact, RepLoop

LEMMA MemsetHolds == MemInv /\ memset => MemInv'
  <1> SUFFICES ASSUME MemInv, memset PROVE MemInv'
    OBVIOUS
  <1>1. MemTypeOK /\ d \in Int /\ n \in Nat
    BY DEF MemInv, MemTypeOK
  <1>2. Width(d, 0, n) \in {1, Word} /\ n % Width(d, 0, n) = 0
    BY <1>1, WidthDivides
  <1>3. MemTypeOK'
    BY <1>1, <1>2 DEF MemTypeOK, memset
  <1>4. mem = call.mem /\ d = dst /\ n = call.n /\ call.fn = "memset"
    BY DEF MemInv, NotStarted, memset, RepLoop
  <1>5. CASE n = 0
    <2>1. pc' = "done" /\ mem' = call.mem /\ call' = call
      BY <1>4, <1>5 DEF memset
    <2>2. mem' = [a \in Addr |-> IF a \notin dst..dst+call.n-1 THEN call.mem[a]
                                 ELSE call.c % 256]
      BY <1>1, <1>4, <1>5, <2>1, CallFacts
    <2> QED BY <1>3, <1>4, <2>1, <2>2
            DEF MemInv, NotStarted, Counting, Filling, MovingUp, MovingDown, MemExact,
                RepLoop, dst
  <1>6. CASE n # 0
    <2>1. pc' = "stos" /\ mem' = mem /\ call' = call /\ d' = d /\ n' = n
          /\ unit' = Width(d, 0, n)
      BY <1>6 DEF memset
    <2>2. Filling'
      BY <1>1, <1>4, <2>1, CallFacts DEF Filling, dst
    <2> QED BY <1>1, <1>2, <1>3, <1>4, <2>1, <2>2
            DEF MemInv, NotStarted, Counting, MovingUp, MovingDown, MemExact,
                RepLoop, MemFns
  <1> QED BY <1>5, <1>6

LEMMA MemmoveHolds == MemInv /\ memmove => MemInv'
  <1> SUFFICES ASSUME MemInv, memmove PROVE MemInv'
    OBVIOUS
  <1>1. MemTypeOK /\ d \in Int /\ s \in Int /\ n \in Nat
    BY DEF MemInv, MemTypeOK
  <1>2. /\ Width(s, d, n) \in {1, Word} /\ n % Width(s, d, n) = 0
        /\ Width(s + n, d + n, n) \in {1, Word} /\ n % Width(s + n, d + n, n) = 0
    <2>1. s + n \in Int /\ d + n \in Int
      BY <1>1
    <2> QED BY <1>1, <2>1, WidthDivides
  <1>3. MemTypeOK'
    BY <1>1, <1>2 DEF MemTypeOK, memmove
  <1>4. /\ mem = call.mem /\ d = dst /\ s = src /\ n = call.n
        /\ call.fn \in MemFns /\ call.fn # "memset"
    BY DEF MemInv, NotStarted, memmove, RepLoop, MemFns
  <1>5. mem' = mem /\ call' = call /\ n' = n /\ dst' = dst /\ src' = src
    BY DEF memmove, dst, src
  <1>0. dst \in Nat /\ src \in Nat /\ call.n \in Nat
    BY <1>1, CallFacts
  <1>6. CASE Overlaps
    <2>1. pc' = "down" /\ d' = d + n /\ s' = s + n /\ unit' = Width(s + n, d + n, n)
      BY <1>6 DEF memmove
    <2>2. MovingDown'
      <3>1. \A a \in Addr : a \notin d'..dst+call.n-1
        BY <1>0, <1>1, <1>4, <2>1 DEF Addr
      <3>2. d' = dst + n /\ s' = src + n /\ src < dst
        BY <1>4, <1>6, <2>1 DEF Overlaps
      <3> QED BY <1>4, <1>5, <3>1, <3>2 DEF MovingDown
    <2> QED BY <1>1, <1>2, <1>3, <1>4, <1>5, <2>1, <2>2
            DEF MemInv, NotStarted, Counting, Filling, MovingUp, MemExact, RepLoop
  <1>7. CASE ~Overlaps
    <2>1. pc' = "up" /\ d' = d /\ s' = s /\ unit' = Width(s, d, n)
      BY <1>7 DEF memmove
    <2>2. MovingUp'
      <3>1. \A a \in Addr : a \notin dst..d'-1
        BY <1>0, <1>1, <1>4, <2>1 DEF Addr
      <3>2. /\ d' = dst + (call.n - n) /\ s' = src + (call.n - n)
            /\ dst <= src \/ src + call.n <= dst
        BY <1>0, <1>1, <1>4, <1>7, <2>1 DEF Overlaps
      <3> QED BY <1>4, <1>5, <3>1, <3>2 DEF MovingUp
    <2> QED BY <1>1, <1>2, <1>3, <1>4, <1>5, <2>1, <2>2
            DEF MemInv, NotStarted, Counting, Filling, MovingDown, MemExact, RepLoop
  <1> QED BY <1>6, <1>7

LEMMA MemcpyHolds == MemInv /\ memcpy => MemInv'
  BY DEF MemInv, memcpy, MemTypeOK, NotStarted, Counting, Filling, MovingUp,
         MovingDown, MemExact, RepLoop, MemFns, dst, src

(* Each repetition: the count stays a multiple of the unit. *)
LEMMA StosHolds == MemInv /\ RepStos => MemInv'
  <1> SUFFICES ASSUME MemInv, RepStos PROVE MemInv'
    OBVIOUS
  <1>1. /\ MemTypeOK /\ d \in Int /\ n \in Nat /\ unit \in {1, Word} /\ unit \in Nat
        /\ mem \in [Addr -> Byte]
    BY DEF MemInv, MemTypeOK, Word
  <1>2. pc = "stos" /\ n % unit = 0 /\ call.fn = "memset" /\ n <= call.n
    BY DEF MemInv, RepStos, Counting, RepLoop
  <1>3. n >= unit /\ n - unit \in Nat /\ (n - unit) % unit = 0
    BY <1>1, <1>2, WholeUnit DEF RepStos
  <1>4. pc' = pc /\ call' = call /\ unit' = unit /\ d' = d + unit /\ n' = n - unit
    BY DEF RepStos
  <1>5. MemTypeOK'
    <2>1. mem' \in [Addr -> Byte]
      BY <1>1, CallFacts, ByteOfInt DEF RepStos
    <2> QED BY <1>1, <1>3, <2>1 DEF MemTypeOK, RepStos
  <1>6. Filling'
    <2>1. /\ d = dst + (call.n - n) /\ dst \in Nat /\ call.n \in Nat
          /\ \A a \in Addr : mem[a] = IF a \in dst..d-1 THEN call.c % 256 ELSE call.mem[a]
      BY <1>1, <1>2, CallFacts DEF MemInv, Filling
    <2>2. \A a \in Addr : mem'[a] = IF a \in d..d+unit-1 THEN call.c % 256 ELSE mem[a]
      BY DEF RepStos
    <2>3. \A a \in Addr : a \in dst..d+unit-1 <=> a \in dst..d-1 \/ a \in d..d+unit-1
      <3>1. d \in Nat /\ dst <= d /\ unit \in Nat /\ unit >= 1
        BY <1>1, <1>2, <2>1 DEF Word
      <3>2. \A a \in Addr : a \in Int
        BY DEF Addr
      <3> QED BY <2>1, <3>1, <3>2
    <2>4. d' = dst + (call.n - n')
      BY <1>1, <1>4, <2>1
    <2>5. dst' = dst
      BY <1>4 DEF dst
    <2>6. d' - 1 = d + unit - 1
      BY <1>1, <1>4
    <2>7. \A a \in Addr : mem'[a] = IF a \in dst..d'-1 THEN call.c % 256 ELSE call.mem[a]
      BY <2>1, <2>2, <2>3, <2>6
    <2> QED BY <1>4, <2>4, <2>5, <2>7 DEF Filling
  <1> QED BY <1>1, <1>2, <1>3, <1>4, <1>5, <1>6, CallFacts
          DEF MemInv, NotStarted, Counting, MovingUp, MovingDown, MemExact, RepLoop, MemFns

LEMMA UpHolds == MemInv /\ RepMovsUp => MemInv'
  <1> SUFFICES ASSUME MemInv, RepMovsUp PROVE MemInv'
    OBVIOUS
  <1>1. /\ MemTypeOK /\ d \in Int /\ s \in Int /\ n \in Nat /\ unit \in {1, Word}
        /\ unit \in Nat /\ mem \in [Addr -> Byte]
    BY DEF MemInv, MemTypeOK, Word
  <1>2. /\ pc = "up" /\ n % unit = 0 /\ n <= call.n
        /\ call.fn \in {"memmove", "memcpy"}
    BY DEF MemInv, RepMovsUp, Counting, RepLoop, MemFns
  <1>3. n >= unit /\ n - unit \in Nat /\ (n - unit) % unit = 0
    BY <1>1, <1>2, WholeUnit DEF RepMovsUp
  <1>4. /\ pc' = pc /\ call' = call /\ unit' = unit
        /\ d' = d + unit /\ s' = s + unit /\ n' = n - unit
    BY DEF RepMovsUp
  <1>5. /\ d = dst + (call.n - n) /\ s = src + (call.n - n)
        /\ dst <= src \/ src + call.n <= dst
        /\ \A a \in Addr : mem[a] = IF a \in dst..d-1 THEN call.mem[src + (a - dst)]
                                    ELSE call.mem[a]
    BY <1>2 DEF MemInv, MovingUp
  <1>6. ASSUME NEW a \in d..d+unit-1
        PROVE  /\ s + (a - d) \in Addr
               /\ mem[s + (a - d)] = call.mem[src + (a - dst)]
    <2>1. s + (a - d) = src + (a - dst) /\ a - dst >= call.n - n /\ a - dst < call.n
      BY <1>1, <1>2, <1>3, <1>5, <1>6, CallFacts
    <2>0. /\ dst \in Nat /\ src \in Nat /\ call.n \in Nat /\ MemSize \in Nat
          /\ src + call.n <= MemSize
      BY <1>1, <1>2, CallFacts
    <2>2. s + (a - d) \in Addr
      BY <1>1, <1>2, <2>0, <2>1 DEF Addr
    <2>3. s + (a - d) \notin dst..d-1
      BY <1>1, <1>2, <1>5, <2>0, <2>1
    <2> QED BY <1>5, <2>1, <2>2, <2>3
  <1>7. \A a \in Addr : mem'[a] = IF a \in d..d+unit-1 THEN mem[s + (a - d)] ELSE mem[a]
    BY DEF RepMovsUp, MoveUnit
  <1>8. MemTypeOK'
    <2>1. mem' \in [Addr -> Byte]
      BY <1>1, <1>6 DEF RepMovsUp, MoveUnit
    <2> QED BY <1>1, <1>3, <2>1 DEF MemTypeOK, RepMovsUp
  <1>9. MovingUp'
    <2>1. \A a \in Addr : mem'[a] = IF a \in dst..d+unit-1 THEN call.mem[src + (a - dst)]
                                    ELSE call.mem[a]
      <3> SUFFICES ASSUME NEW a \in Addr
                   PROVE  mem'[a] = IF a \in dst..d+unit-1
                                      THEN call.mem[src + (a - dst)] ELSE call.mem[a]
        OBVIOUS
      <3>0. a \in Int
        BY DEF Addr
      <3>1. CASE a \in d..d+unit-1
        BY <1>1, <1>2, <1>3, <1>5, <1>6, <1>7, <3>0, <3>1, CallFacts
      <3>2. CASE a \notin d..d+unit-1
        BY <1>1, <1>2, <1>3, <1>5, <1>7, <3>0, <3>2, CallFacts
      <3> QED BY <3>1, <3>2
    <2>2. dst' = dst /\ src' = src /\ dst \in Nat /\ src \in Nat /\ call.n \in Nat
      BY <1>1, <1>4, CallFacts DEF dst, src
    <2>3. d' = dst + (call.n - n') /\ s' = src + (call.n - n')
      BY <1>1, <1>4, <1>5, <2>2
    <2>4. d' - 1 = d + unit - 1
      BY <1>1, <1>4
    <2> QED BY <1>4, <1>5, <2>1, <2>2, <2>3, <2>4 DEF MovingUp
  <1> QED BY <1>1, <1>2, <1>3, <1>4, <1>8, <1>9, CallFacts
          DEF MemInv, NotStarted, Counting, Filling, MovingDown, MemExact, RepLoop, MemFns

LEMMA DownHolds == MemInv /\ RepMovsDown => MemInv'
  <1> SUFFICES ASSUME MemInv, RepMovsDown PROVE MemInv'
    OBVIOUS
  <1>1. /\ MemTypeOK /\ d \in Int /\ s \in Int /\ n \in Nat /\ unit \in {1, Word}
        /\ unit \in Nat /\ mem \in [Addr -> Byte]
    BY DEF MemInv, MemTypeOK, Word
  <1>2. /\ pc = "down" /\ n % unit = 0 /\ n <= call.n
        /\ call.fn \in {"memmove", "memcpy"}
    BY DEF MemInv, RepMovsDown, Counting, RepLoop, MemFns
  <1>3. n >= unit /\ n - unit \in Nat /\ (n - unit) % unit = 0
    BY <1>1, <1>2, WholeUnit DEF RepMovsDown
  <1>4. /\ pc' = pc /\ call' = call /\ unit' = unit
        /\ d' = d - unit /\ s' = s - unit /\ n' = n - unit
    BY DEF RepMovsDown
  <1>5. /\ d = dst + n /\ s = src + n /\ src < dst
        /\ \A a \in Addr :
             mem[a] = IF a \in d..dst+call.n-1 THEN call.mem[src + (a - dst)]
                      ELSE call.mem[a]
    BY <1>2 DEF MemInv, MovingDown
  <1>6. ASSUME NEW a \in d-unit..d-1
        PROVE  /\ (s - unit) + (a - (d - unit)) \in Addr
               /\ mem[(s - unit) + (a - (d - unit))] = call.mem[src + (a - dst)]
    <2>1. a \in Int /\ d - unit <= a /\ a < d
      BY <1>1, <1>6
    <2>2. (s - unit) + (a - (d - unit)) = src + (a - dst) /\ a - dst >= 0 /\ a - dst < n
      BY <1>1, <1>2, <1>3, <1>5, <2>1, CallFacts
    <2>0. /\ dst \in Nat /\ src \in Nat /\ call.n \in Nat /\ MemSize \in Nat
          /\ src + call.n <= MemSize
      BY <1>1, <1>2, CallFacts
    <2>3. src + (a - dst) \in Addr
      BY <1>1, <1>2, <2>0, <2>1, <2>2 DEF Addr
    <2>4. src + (a - dst) \notin d..dst+call.n-1
      BY <1>1, <1>2, <1>5, <2>0, <2>1, <2>2
    <2> QED BY <1>5, <2>2, <2>3, <2>4
  <1>7. \A a \in Addr : mem'[a] = IF a \in d-unit..d-1 THEN mem[(s - unit) + (a - (d - unit))]
                                  ELSE mem[a]
    BY <1>1 DEF RepMovsDown, MoveUnit
  <1>8. MemTypeOK'
    <2>1. mem' \in [Addr -> Byte]
      BY <1>1, <1>6 DEF RepMovsDown, MoveUnit
    <2> QED BY <1>1, <1>3, <2>1 DEF MemTypeOK, RepMovsDown
  <1>9. MovingDown'
    <2>1. \A a \in Addr :
            mem'[a] = IF a \in d-unit..dst+call.n-1 THEN call.mem[src + (a - dst)]
                      ELSE call.mem[a]
      <3> SUFFICES ASSUME NEW a \in Addr
                   PROVE  mem'[a] = IF a \in d-unit..dst+call.n-1
                                      THEN call.mem[src + (a - dst)] ELSE call.mem[a]
        OBVIOUS
      <3>0. a \in Int
        BY DEF Addr
      <3>1. CASE a \in d-unit..d-1
        BY <1>1, <1>2, <1>3, <1>5, <1>6, <1>7, <3>0, <3>1, CallFacts
      <3>2. CASE a \notin d-unit..d-1
        BY <1>1, <1>2, <1>3, <1>5, <1>7, <3>0, <3>2, CallFacts
      <3> QED BY <3>1, <3>2
    <2>2. dst' = dst /\ src' = src /\ dst \in Nat /\ src \in Nat /\ call.n \in Nat
      BY <1>1, <1>4, CallFacts DEF dst, src
    <2>3. d' = dst + n' /\ s' = src + n'
      BY <1>1, <1>4, <1>5, <2>2
    <2> QED BY <1>4, <1>5, <2>1, <2>2, <2>3 DEF MovingDown
  <1> QED BY <1>1, <1>2, <1>3, <1>4, <1>8, <1>9, CallFacts
          DEF MemInv, NotStarted, Counting, Filling, MovingUp, MemExact, RepLoop, MemFns

(* When nothing is left to repeat, every byte is final. *)
LEMMA EndHolds == MemInv /\ RepEnds => MemInv'
  <1> SUFFICES ASSUME MemInv, RepEnds PROVE MemInv'
    OBVIOUS
  <1>1. MemTypeOK /\ mem \in [Addr -> Byte] /\ n = 0 /\ pc \in RepLoop
    BY DEF MemInv, MemTypeOK, RepEnds
  <1>2. /\ pc' = "done" /\ mem' = mem /\ call' = call
    BY DEF RepEnds
  <1>3. MemTypeOK'
    BY DEF MemInv, MemTypeOK, RepEnds
  <1>4. \A a \in Addr :
          mem[a] = IF a \notin dst..dst+call.n-1 THEN call.mem[a]
                   ELSE IF call.fn = "memset" THEN call.c % 256
                   ELSE call.mem[src + (a - dst)]
    <2>1. dst \in Nat /\ src \in Nat /\ call.n \in Nat
      BY <1>1, CallFacts
    <2>2. CASE pc = "stos"
      <3>1. /\ call.fn = "memset" /\ d = dst + call.n
            /\ \A a \in Addr : mem[a] = IF a \in dst..d-1 THEN call.c % 256 ELSE call.mem[a]
        BY <1>1, <2>1, <2>2 DEF MemInv, Counting, Filling, RepLoop
      <3>2. d - 1 = dst + call.n - 1
        BY <2>1, <3>1
      <3> QED BY <3>1, <3>2, Zenon
    <2>3. CASE pc = "up"
      <3>1. /\ call.fn # "memset" /\ d = dst + call.n
            /\ \A a \in Addr :
                 mem[a] = IF a \in dst..d-1 THEN call.mem[src + (a - dst)] ELSE call.mem[a]
        BY <1>1, <2>1, <2>3 DEF MemInv, Counting, MovingUp, RepLoop
      <3>2. d - 1 = dst + call.n - 1
        BY <2>1, <3>1
      <3> QED BY <3>1, <3>2, Zenon
    <2>4. CASE pc = "down"
      <3>1. /\ call.fn # "memset" /\ d = dst
            /\ \A a \in Addr :
                 mem[a] = IF a \in d..dst+call.n-1 THEN call.mem[src + (a - dst)]
                          ELSE call.mem[a]
        BY <1>1, <2>1, <2>4 DEF MemInv, Counting, MovingDown, RepLoop
      <3> QED BY <3>1, Zenon
    <2> QED BY <1>1, <2>2, <2>3, <2>4 DEF RepLoop
  <1>5. MemExact'
    BY <1>1, <1>2, <1>4 DEF MemExact, dst, src
  <1> QED BY <1>2, <1>3, <1>5
          DEF MemInv, NotStarted, Counting, Filling, MovingUp, MovingDown, RepLoop

(* memset fills, and memmove and memcpy copy, exactly the bytes they are   *)
(* asked to, for every memory, address, count and overlap.                 *)
THEOREM MemFunctionsExact == MemSpec => []MemExact
  <1>1. MemInv /\ [MemStep]_memVars => MemInv'
    <2>1. MemInv /\ UNCHANGED memVars => MemInv'
      BY DEF MemInv, memVars, MemTypeOK, NotStarted, Counting, Filling, MovingUp,
             MovingDown, MemExact, dst, src
    <2> QED BY <2>1, MemsetHolds, MemmoveHolds, MemcpyHolds, StosHolds, UpHolds,
               DownHolds, EndHolds DEF MemStep
  <1>2. MemInv => MemExact
    BY DEF MemInv
  <1> QED BY <1>1, <1>2, InitHolds, PTL DEF MemSpec

-----------------------------------------------------------------------------
(***************************************************************************)
(* The functions on strings.  What a loop has passed is described by the   *)
(* bytes that were there when the function was called: none of them was    *)
(* what it looks for, all of them are stored, or both strings agree in     *)
(* them.  What ended the loop is added at the end.                         *)
(***************************************************************************)
passed == s - src

NoNul(a, k) == \A x \in 0..k-1 : call.mem[a + x] # 0
Same(k)     == \A x \in 0..k-1 : call.mem[dst + x] = call.mem[src + x]
Avoids(b)   == \A x \in src..s-1 : call.mem[x] # b

(* The first k bytes of the source are at a, and nothing else has changed. *)
Copied(a, k) ==
  \A x \in Addr :
    mem[x] = IF x \in a..a+k-1 THEN call.mem[src + (x - a)] ELSE call.mem[x]

StrFns ==
  {"strlen", "strnlen", "strcpy", "strcat", "strncpy", "strlcpy", "strcmp",
   "strncmp", "strchr", "strfind", "memcmp", "memfind", "strtol"}
Scans    == {"strlen", "strnlen", "strchr", "strfind", "memfind"}
Compares == {"strcmp", "strncmp", "memcmp"}

PlaceOK ==
  /\ call.fn \in StrFns
  /\ pc \in {call.fn, "done"}
       \cup (IF call.fn = "strcat" THEN {"strcpy"} ELSE {})
       \cup (IF call.fn = "strtol" THEN {"sign", "digits"} ELSE {})

Scanning ==
  call.fn \in Scans =>
    /\ mem = call.mem /\ passed \in Nat
    /\ call.fn # "memfind" => NoNul(src, passed)
    /\ call.fn \in {"strchr", "strfind"} => Avoids(call.c)
    /\ call.fn = "strnlen" => n = call.n - passed
    /\ call.fn = "memfind" => passed <= call.n /\ Avoids(call.c % 256)

Comparing ==
  call.fn \in Compares =>
    /\ mem = call.mem /\ passed \in Nat /\ d = dst + passed /\ Same(passed)
    /\ call.fn # "memcmp" => NoNul(dst, passed)
    /\ call.fn # "strcmp" => n = call.n - passed

(* Two bytes that end a comparison. *)
Decides == s \in Addr /\ d \in Addr /\ ret = call.mem[d] - call.mem[s]

Answered ==
  pc = "done" =>
    /\ call.fn = "strlen" => s \in Addr /\ call.mem[s] = 0 /\ ret = passed
    /\ call.fn = "strnlen" =>
         ret = passed /\ (n > 0 => s \in Addr /\ call.mem[s] = 0)
    /\ call.fn \in {"strchr", "strfind"} =>
         s \in Addr /\ (call.mem[s] = 0 \/ call.mem[s] = call.c)
    /\ call.fn = "strchr" => ret = IF call.mem[s] # 0 THEN s ELSE null
    /\ call.fn = "strfind" => ret = s
    /\ call.fn = "memfind" =>
         ret = s /\ (passed < call.n => call.mem[s] = call.c % 256)
    /\ call.fn = "strcmp" \/ (call.fn = "strncmp" /\ n > 0) =>
         Decides /\ (call.mem[d] = 0 \/ call.mem[d] # call.mem[s])
    /\ call.fn = "memcmp" /\ n > 0 => Decides /\ call.mem[d] # call.mem[s]
    /\ call.fn \in {"strncmp", "memcmp"} /\ n = 0 => ret = 0

Copying ==
  /\ pc = "strcat" =>
       mem = call.mem /\ s = src /\ d - dst \in Nat /\ NoNul(dst, d - dst)
  /\ call.fn \in {"strcpy", "strcat"} /\ pc # "strcat" =>
       /\ passed \in Nat /\ NoNul(src, passed)
       /\ call.fn = "strcpy" => d - passed = dst
       /\ call.fn = "strcat" =>
            d - passed - dst \in Nat /\ IsLength(call, dst, d - passed - dst)
       /\ pc # "done" => Copied(d - passed, passed)
       /\ pc = "done" =>
            s \in Addr /\ call.mem[s] = 0 /\ Copied(d - passed, passed + 1)

Cutting ==
  call.fn = "strlcpy" =>
    /\ passed \in Nat /\ NoNul(src, passed)
    /\ d = dst + passed /\ n = call.n - passed /\ (n > 0 \/ passed = 0)
    /\ pc # "done" \/ n = 0 => Copied(dst, passed)
    /\ pc = "done" => ret = passed
    /\ pc = "done" /\ n > 0 =>
         /\ n = 1 \/ (s \in Addr /\ call.mem[s] = 0)
         /\ \A x \in Addr :
              mem[x] = IF x = d THEN 0
                       ELSE IF x \in dst..d-1 THEN call.mem[src + (x - dst)]
                       ELSE call.mem[x]

(* strncpy stays at the NUL while it fills up with zeros. *)
Padding ==
  call.fn = "strncpy" =>
    /\ d - dst \in Nat /\ n = call.n - (d - dst)
    /\ passed \in Nat /\ passed <= d - dst /\ NoNul(src, passed)
    /\ passed < d - dst => s \in Addr /\ call.mem[s] = 0
    /\ \A x \in Addr :
         mem[x] = IF x \notin dst..d-1 THEN call.mem[x]
                  ELSE IF x - dst < passed THEN call.mem[src + (x - dst)] ELSE 0
    /\ pc = "done" => n = 0

StrInv ==
  /\ MemTypeOK /\ PlaceOK /\ Scanning /\ Comparing /\ Answered
  /\ Copying /\ Cutting /\ Padding

LibInv ==
  /\ call.fn \in MemFns => MemInv /\ pc \in MemFns \cup RepLoop \cup {"done"}
  /\ call.fn \notin MemFns => StrInv

-----------------------------------------------------------------------------
(* What the assumption says of the call under way. *)
LEMMA StringFacts ==
  ASSUME MemTypeOK
  PROVE  /\ call.fn \in {"strlen", "strcpy", "strcat", "strcmp", "strchr", "strfind"}
              => Terminated(call, src)
         /\ call.fn \in {"strnlen", "strncpy", "strlcpy", "strncmp"} => Bounded(call, src)
         /\ call.fn \in {"strcat", "strcmp"} => Terminated(call, dst)
         /\ call.fn = "strncmp" => Bounded(call, dst)
         /\ call.fn \in {"strncpy", "strlcpy"} =>
              dst + call.n <= MemSize /\ (dst <= src \/ src + call.n <= dst)
         /\ call.fn = "memcmp" => dst + call.n <= MemSize
         /\ call.fn \in {"memcmp", "memfind"} => src + call.n <= MemSize
         /\ call.fn = "strcpy" =>
              \A len \in Addr : IsLength(call, src, len) => Fits(call, dst, len)
         /\ call.fn = "strcat" =>
              \A len, end \in Addr :
                IsLength(call, src, len) /\ IsLength(call, dst, end) =>
                  Fits(call, dst + end, len)
  BY StringAssumption DEF MemTypeOK, dst, src

(* Every set of numbers has a least one. *)
LEMMA Least ==
  ASSUME NEW T \in SUBSET Nat, T # {}
  PROVE  \E x \in T : \A y \in T : x <= y
  <1>1. PICK x \in T : \A y \in T : ~(<<y, x>> \in OpToRel(<, Nat))
    BY WFMin, NatLessThanWellFounded
  <1>2. \A y \in T : ~(y < x)
    BY <1>1 DEF OpToRel
  <1> QED BY <1>2

LEMMA MinIs ==
  ASSUME NEW T \in SUBSET Int, NEW x \in T, \A y \in T : x <= y
  PROVE  Min(T) = x
  <1>1. \E z \in T : \A y \in T : z <= y
    OBVIOUS
  <1> DEFINE z == Min(T)
  <1>2. z \in T /\ \A y \in T : z <= y
    BY <1>1, Zenon DEF Min
  <1> HIDE DEF z
  <1>3. z \in Int /\ x \in Int /\ z <= x /\ x <= z
    BY <1>2
  <1>4. z = x
    BY <1>3
  <1> QED BY <1>4 DEF z

LEMMA FirstIs ==
  ASSUME NEW T \in SUBSET Int, NEW x \in T, \A y \in T : x <= y, NEW o
  PROVE  FirstOf(T, o) = x
  <1>1. T # {} /\ Min(T) = x
    BY MinIs
  <1> QED BY <1>1 DEF FirstOf

(* A string that ends has a length. *)
LEMMA HasLength ==
  ASSUME MemTypeOK, NEW a \in Nat, Terminated(call, a)
  PROVE  \E len \in Addr : IsLength(call, a, len)
  <1> DEFINE T == {k \in Nat : a + k < MemSize /\ call.mem[a + k] = 0}
  <1>1. MemSize \in Nat
    BY CallFacts
  <1>2. PICK x \in a..MemSize-1 : call.mem[x] = 0
    BY DEF Terminated
  <1>3. x - a \in T
    <2>1. x - a \in Nat /\ a + (x - a) = x /\ x < MemSize
      BY <1>1
    <2> QED BY <1>2, <2>1
  <1>4. PICK k \in T : \A y \in T : k <= y
    BY <1>3, Least
  <1>5. k \in Addr
    BY <1>1, <1>4 DEF Addr
  <1>6. ASSUME NEW y \in 0..k-1 PROVE call.mem[a + y] # 0
    <2>1. y \in Nat /\ y < k /\ a + y < MemSize
      BY <1>1, <1>4
    <2> QED BY <1>4, <2>1
  <1> QED BY <1>4, <1>5, <1>6 DEF IsLength

(* The reference definition of a string's length. *)
LEMMA StrLenFacts ==
  ASSUME MemTypeOK, NEW a \in Nat, a <= MemSize
  PROVE  /\ StrLen(a) \in Nat /\ a + StrLen(a) <= MemSize
         /\ NoNul(a, StrLen(a))
         /\ a + StrLen(a) < MemSize => call.mem[a + StrLen(a)] = 0
  <1> DEFINE T == {k \in 0..MemSize-1-a : call.mem[a + k] = 0}
  <1>1. MemSize \in Nat
    BY CallFacts
  <1>2. StrLen(a) = FirstOf(T, MemSize - a)
    BY DEF StrLen
  <1>3. CASE T = {}
    <2>1. StrLen(a) = MemSize - a
      BY <1>2, <1>3 DEF FirstOf
    <2>2. \A x \in 0..(MemSize-a)-1 : x \in 0..MemSize-1-a
      BY <1>1
    <2>3. NoNul(a, MemSize - a)
      BY <1>3, <2>2 DEF NoNul
    <2> QED BY <1>1, <2>1, <2>3
  <1>4. CASE T # {}
    <2>1. T \in SUBSET Nat
      BY <1>1
    <2>2. PICK k \in T : \A y \in T : k <= y
      BY <1>4, <2>1, Least
    <2>3. T \in SUBSET Int /\ k \in Nat /\ k <= MemSize - 1 - a
      BY <1>1, <2>1, <2>2
    <2>4. StrLen(a) = k
      BY <1>2, <2>2, <2>3, FirstIs
    <2>5. ASSUME NEW x \in 0..k-1 PROVE call.mem[a + x] # 0
      <3>1. x \in 0..MemSize-1-a /\ ~(k <= x)
        BY <1>1, <2>3
      <3> QED BY <2>2, <3>1
    <2> QED BY <1>1, <2>2, <2>3, <2>4, <2>5 DEF NoNul
  <1> QED BY <1>3, <1>4

(* The first NUL is where the string ends. *)
LEMMA LenIs ==
  ASSUME MemTypeOK, NEW a \in Nat, NEW k \in Nat, a + k < MemSize,
         call.mem[a + k] = 0, NoNul(a, k)
  PROVE  StrLen(a) = k
  <1>1. MemSize \in Nat /\ a <= MemSize
    BY CallFacts
  <1> DEFINE len == StrLen(a)
  <1>2. /\ len \in Nat /\ a + len <= MemSize
        /\ \A x \in 0..len-1 : call.mem[a + x] # 0
        /\ a + len < MemSize => call.mem[a + len] = 0
    BY <1>1, StrLenFacts DEF NoNul
  <1> HIDE DEF len
  <1>3. ASSUME len < k PROVE FALSE
    <2>1. a + len < MemSize /\ len \in 0..k-1
      BY <1>1, <1>2, <1>3
    <2> QED BY <1>2, <2>1 DEF NoNul
  <1>4. ASSUME k < len PROVE FALSE
    <2>1. k \in 0..len-1
      BY <1>2, <1>4
    <2> QED BY <1>2, <2>1
  <1>5. len = k
    BY <1>2, <1>3, <1>4
  <1> QED BY <1>5 DEF len

LEMMA LenAtLeast ==
  ASSUME MemTypeOK, NEW a \in Nat, NEW k \in Nat, a + k <= MemSize, NoNul(a, k)
  PROVE  StrLen(a) \in Nat /\ StrLen(a) >= k
  <1>1. MemSize \in Nat /\ a <= MemSize
    BY CallFacts
  <1> DEFINE len == StrLen(a)
  <1>2. len \in Nat /\ (a + len < MemSize => call.mem[a + len] = 0)
    BY <1>1, StrLenFacts
  <1> HIDE DEF len
  <1>3. ~(len < k)
    <2> SUFFICES ASSUME len < k PROVE FALSE
      OBVIOUS
    <2>1. a + len < MemSize /\ len \in 0..k-1
      BY <1>1, <1>2
    <2> QED BY <1>2, <2>1 DEF NoNul
  <1>4. len \in Nat /\ len >= k
    BY <1>2, <1>3
  <1> QED BY <1>4 DEF len

(* A loop that has met no NUL in a string that ends is still inside it. *)
LEMMA Inside ==
  ASSUME MemTypeOK, NEW a \in Nat, NEW k \in Nat, NoNul(a, k),
         \/ Terminated(call, a)
         \/ Bounded(call, a) /\ k < call.n
  PROVE  a + k \in Addr
  <1>1. MemSize \in Nat /\ call.n \in Nat
    BY CallFacts
  <1>2. CASE Terminated(call, a)
    <2>1. PICK x \in a..MemSize-1 : call.mem[x] = 0
      BY <1>2 DEF Terminated
    <2>2. x \in Nat /\ a <= x /\ x < MemSize /\ a + (x - a) = x
      BY <1>1
    <2>3. ~(x - a \in 0..k-1)
      BY <2>1, <2>2 DEF NoNul
    <2> QED BY <1>1, <2>2, <2>3 DEF Addr
  <1>3. CASE a + call.n <= MemSize /\ k < call.n
    BY <1>1, <1>3 DEF Addr
  <1> QED BY <1>2, <1>3 DEF Bounded

-----------------------------------------------------------------------------
(***************************************************************************)
(* The functions that look for something.                                  *)
(***************************************************************************)
LEMMA Pointers ==
  ASSUME MemTypeOK
  PROVE  /\ MemSize \in Nat /\ src \in Nat /\ dst \in Nat /\ call.n \in Nat
         /\ call.mem \in [Addr -> Byte] /\ mem \in [Addr -> Byte]
         /\ s \in Int /\ d \in Int /\ n \in Nat
         /\ passed \in Int /\ src + passed = s
  <1>1. s \in Int /\ d \in Int /\ n \in Nat /\ mem \in [Addr -> Byte]
    BY DEF MemTypeOK
  <1> QED BY <1>1, CallFacts DEF passed

LEMMA ScanFrame ==
  ASSUME StrInv, call.fn \in Scans, call' = call, pc' \in {call.fn, "done"},
         MemTypeOK', Scanning', Answered'
  PROVE  StrInv'
  <1>1. PlaceOK'
    BY DEF StrInv, PlaceOK
  <1>2. Comparing' /\ Cutting' /\ Padding'
    BY DEF Scans, Compares, Comparing, Cutting, Padding
  <1>3. Copying'
    BY DEF Scans, Copying
  <1> QED BY <1>1, <1>2, <1>3 DEF StrInv

LEMMA ScanMoves ==
  ASSUME StrInv, call.fn \in Scans, pc = call.fn, pc' = pc, call' = call, mem' = mem,
         d' = d, s' = s + 1, n' \in Nat, unit' = unit,
         call.fn # "memfind" => mem[s] # 0,
         call.fn \in {"strchr", "strfind"} => mem[s] # call.c,
         call.fn = "memfind" => s < src + call.n /\ mem[s] # call.c % 256,
         call.fn = "strnlen" => n' = n - 1
  PROVE  StrInv'
  <1>1. MemTypeOK /\ Scanning /\ call.fn # "done"
    BY DEF StrInv, Scans
  <1>2. src \in Nat /\ s \in Int /\ passed \in Int /\ src + passed = s /\ call.n \in Nat /\ n \in Nat
    BY <1>1, Pointers
  <1>3. mem = call.mem /\ passed \in Nat
    BY <1>1 DEF Scanning
  <1>4. MemTypeOK'
    BY <1>1, <1>2 DEF MemTypeOK
  <1>5. src' = src /\ passed' = passed + 1 /\ passed' \in Nat
    BY <1>2, <1>3 DEF src, passed
  <1>6. call.fn # "memfind" => NoNul(src, passed)'
    <2> SUFFICES ASSUME call.fn # "memfind", NEW x \in 0..passed
                 PROVE  call.mem[src + x] # 0
      BY <1>2, <1>5 DEF NoNul
    <2>1. x \in 0..passed-1 \/ x = passed
      BY <1>3
    <2> QED BY <1>1, <1>2, <1>3, <2>1 DEF Scanning, NoNul
  <1>7. ASSUME NEW b, Avoids(b), mem[s] # b PROVE \A x \in src'..s'-1 : call'.mem[x] # b
    <2> SUFFICES ASSUME NEW x \in src..s PROVE call.mem[x] # b
      BY <1>2, <1>5
    <2>1. x \in src..s-1 \/ x = s
      BY <1>2
    <2> QED BY <1>3, <1>7, <2>1 DEF Avoids
  <1>8. call.fn \in {"strchr", "strfind"} => Avoids(call.c)'
    BY <1>1, <1>7 DEF Scanning, Avoids
  <1>9. call.fn = "memfind" => Avoids(call.c % 256)' /\ passed' <= call.n
    BY <1>1, <1>2, <1>3, <1>5, <1>7 DEF Scanning, Avoids
  <1>10. call.fn = "strnlen" => n' = call.n - passed'
    BY <1>1, <1>2, <1>3, <1>5 DEF Scanning
  <1>11. Scanning'
    BY <1>3, <1>5, <1>6, <1>8, <1>9, <1>10 DEF Scanning
  <1>12. Answered'
    BY <1>1 DEF Answered
  <1> QED BY <1>4, <1>11, <1>12, ScanFrame

LEMMA ScanEnds ==
  ASSUME StrInv, call.fn \in Scans, pc' = "done", call' = call, mem' = mem,
         d' = d, s' = s, n' = n, unit' = unit, Answered'
  PROVE  StrInv'
  <1>1. MemTypeOK'
    BY DEF StrInv, MemTypeOK
  <1>2. Scanning'
    BY DEF StrInv, Scanning, NoNul, Avoids, passed, src
  <1> QED BY <1>1, <1>2, ScanFrame

(* Where a scan stands in its string. *)
LEMMA ScanPlace ==
  ASSUME StrInv, call.fn \in Scans, pc = call.fn
  PROVE  /\ MemTypeOK /\ mem = call.mem /\ passed \in Nat /\ src + passed = s
         /\ call.fn \in {"strlen", "strchr", "strfind"} => s \in Addr
         /\ call.fn = "strnlen" => n = call.n - passed /\ (n > 0 => s \in Addr)
         /\ call.fn = "memfind" => passed <= call.n
  <1>1. MemTypeOK /\ Scanning
    BY DEF StrInv
  <1>2. mem = call.mem /\ passed \in Nat
    BY <1>1 DEF Scanning
  <1>3. src \in Nat /\ src + passed = s /\ n \in Nat /\ call.n \in Nat
    BY <1>1, Pointers
  <1>4. CASE call.fn \in {"strlen", "strchr", "strfind"}
    <2>1. NoNul(src, passed) /\ Terminated(call, src)
      BY <1>1, <1>4, StringFacts DEF Scanning
    <2>2. s \in Addr
      BY <1>1, <1>2, <1>3, <2>1, Inside
    <2> QED BY <1>1, <1>2, <1>3, <1>4, <2>2
  <1>5. CASE call.fn = "strnlen"
    <2>1. NoNul(src, passed) /\ Bounded(call, src) /\ n = call.n - passed
      BY <1>1, <1>5, StringFacts DEF Scanning
    <2>2. n > 0 => passed < call.n
      BY <1>2, <1>3, <2>1
    <2>3. n > 0 => s \in Addr
      BY <1>1, <1>2, <1>3, <2>1, <2>2, Inside
    <2> QED BY <1>1, <1>2, <1>3, <1>5, <2>1, <2>3
  <1>6. CASE call.fn = "memfind"
    BY <1>1, <1>2, <1>3, <1>6 DEF Scanning
  <1> QED BY <1>4, <1>5, <1>6 DEF Scans

LEMMA ScanStep ==
  ASSUME StrInv, strlen \/ strnlen \/ strchr \/ strfind \/ memfind
  PROVE  StrInv'
  <1>1. PlaceOK
    BY DEF StrInv
  <1>2. CASE strlen
    <2>1. pc = "strlen" /\ call.fn = "strlen" /\ mem' = mem
      BY <1>1, <1>2 DEF strlen, PlaceOK
    <2>2. MemTypeOK /\ mem = call.mem /\ s \in Addr /\ n \in Nat
      BY <2>1, ScanPlace DEF Scans, MemTypeOK
    <2>3. CASE mem[s] # 0
      <3>1. /\ pc' = pc /\ call' = call /\ d' = d /\ s' = s + 1 /\ n' = n /\ unit' = unit
        BY <1>2, <2>2, <2>3 DEF strlen, Turn, MemTypeOK
      <3> QED BY <2>1, <2>2, <2>3, <3>1, ScanMoves DEF Scans
    <2>4. CASE mem[s] = 0
      <3>1. /\ pc' = "done" /\ call' = call /\ d' = d /\ s' = s /\ n' = n /\ unit' = unit
            /\ ret' = passed
        BY <1>2, <2>4 DEF strlen, Return, passed, src
      <3>2. Answered'
        BY <2>1, <2>2, <2>4, <3>1 DEF Answered, passed, src
      <3> QED BY <2>1, <3>1, <3>2, ScanEnds DEF Scans
    <2> QED BY <2>3, <2>4
  <1>3. CASE strnlen
    <2>1. pc = "strnlen" /\ call.fn = "strnlen" /\ mem' = mem
      BY <1>1, <1>3 DEF strnlen, PlaceOK
    <2>2. MemTypeOK /\ mem = call.mem /\ (n > 0 => s \in Addr) /\ n \in Nat
      BY <2>1, ScanPlace DEF Scans, MemTypeOK
    <2>3. CASE n > 0 /\ mem[s] # 0
      <3>1. /\ pc' = pc /\ call' = call /\ d' = d /\ s' = s + 1 /\ n' = n - 1 /\ unit' = unit
        BY <1>3, <2>2, <2>3 DEF strnlen, Turn, MemTypeOK
      <3>2. n' \in Nat
        BY <2>2, <2>3, <3>1
      <3> QED BY <2>1, <2>2, <2>3, <3>1, <3>2, ScanMoves DEF Scans
    <2>4. CASE ~(n > 0 /\ mem[s] # 0)
      <3>1. /\ pc' = "done" /\ call' = call /\ d' = d /\ s' = s /\ n' = n /\ unit' = unit
            /\ ret' = passed
        BY <1>3, <2>4 DEF strnlen, Return, passed, src
      <3>2. Answered'
        BY <2>1, <2>2, <2>4, <3>1 DEF Answered, passed, src
      <3> QED BY <2>1, <3>1, <3>2, ScanEnds DEF Scans
    <2> QED BY <2>3, <2>4
  <1>4. CASE strchr \/ strfind
    <2>1. pc \in {"strchr", "strfind"} /\ call.fn = pc /\ mem' = mem
      BY <1>1, <1>4 DEF strchr, strfind, PlaceOK
    <2>2. MemTypeOK /\ mem = call.mem /\ s \in Addr /\ n \in Nat
      BY <2>1, ScanPlace DEF Scans, MemTypeOK
    <2>3. CASE mem[s] # 0 /\ mem[s] # call.c
      <3>1. /\ pc' = pc /\ call' = call /\ d' = d /\ s' = s + 1 /\ n' = n /\ unit' = unit
        BY <1>4, <2>2, <2>3 DEF strchr, strfind, Turn, MemTypeOK
      <3> QED BY <2>1, <2>2, <2>3, <3>1, ScanMoves DEF Scans
    <2>4. CASE ~(mem[s] # 0 /\ mem[s] # call.c)
      <3>1. /\ pc' = "done" /\ call' = call /\ d' = d /\ s' = s /\ n' = n /\ unit' = unit
            /\ pc = "strchr" => ret' = IF mem[s] # 0 THEN s ELSE null
            /\ pc = "strfind" => ret' = s
        BY <1>4, <2>4 DEF strchr, strfind, Return
      <3>2. Answered'
        BY <2>1, <2>2, <2>4, <3>1 DEF Answered
      <3> QED BY <2>1, <3>1, <3>2, ScanEnds DEF Scans
    <2> QED BY <2>3, <2>4
  <1>5. CASE memfind
    <2>1. pc = "memfind" /\ call.fn = "memfind" /\ mem' = mem
      BY <1>1, <1>5 DEF memfind, PlaceOK
    <2>2. MemTypeOK /\ mem = call.mem /\ n \in Nat
      BY <2>1, ScanPlace DEF Scans, MemTypeOK
    <2>3. s \in Int /\ src \in Nat /\ call.n \in Nat
      BY <2>2, Pointers
    <2>4. CASE s < src + call.n /\ mem[s] # call.c % 256
      <3>1. /\ pc' = pc /\ call' = call /\ d' = d /\ s' = s + 1 /\ n' = n /\ unit' = unit
        BY <1>5, <2>2, <2>4 DEF memfind, Turn, MemTypeOK, src
      <3> QED BY <2>1, <2>2, <2>4, <3>1, ScanMoves DEF Scans
    <2>5. CASE ~(s < src + call.n /\ mem[s] # call.c % 256)
      <3>1. /\ pc' = "done" /\ call' = call /\ d' = d /\ s' = s /\ n' = n /\ unit' = unit
            /\ ret' = s
        BY <1>5, <2>5 DEF memfind, Return, src
      <3>2. passed' = passed /\ (passed < call.n => s < src + call.n)
        BY <2>3, <3>1 DEF passed, src
      <3>3. Answered'
        BY <2>1, <2>2, <2>5, <3>1, <3>2 DEF Answered
      <3> QED BY <2>1, <3>1, <3>3, ScanEnds DEF Scans
    <2> QED BY <2>4, <2>5
  <1> QED BY <1>2, <1>3, <1>4, <1>5

-----------------------------------------------------------------------------
(***************************************************************************)
(* The functions that compare.                                             *)
(***************************************************************************)
LEMMA CompareFrame ==
  ASSUME StrInv, call.fn \in Compares, call' = call, pc' \in {call.fn, "done"},
         MemTypeOK', Comparing', Answered'
  PROVE  StrInv'
  <1>1. PlaceOK'
    BY DEF StrInv, PlaceOK
  <1>2. Scanning' /\ Cutting' /\ Padding'
    BY DEF Scans, Compares, Scanning, Cutting, Padding
  <1>3. Copying'
    BY DEF Compares, Copying
  <1> QED BY <1>1, <1>2, <1>3 DEF StrInv

(* Where a comparison stands in its two strings. *)
LEMMA ComparePlace ==
  ASSUME StrInv, call.fn \in Compares, pc = call.fn
  PROVE  /\ MemTypeOK /\ mem = call.mem /\ passed \in Nat
         /\ src + passed = s /\ dst + passed = d
         /\ call.fn = "strcmp" \/ n > 0 => s \in Addr /\ d \in Addr
         /\ call.fn # "strcmp" => n = call.n - passed
  <1>1. MemTypeOK /\ Comparing
    BY DEF StrInv
  <1>2. /\ mem = call.mem /\ passed \in Nat /\ dst + passed = d /\ Same(passed)
        /\ call.fn # "memcmp" => NoNul(dst, passed)
        /\ call.fn # "strcmp" => n = call.n - passed
    BY <1>1 DEF Comparing
  <1>3. src \in Nat /\ dst \in Nat /\ src + passed = s /\ n \in Nat /\ call.n \in Nat
    BY <1>1, Pointers
  <1>4. call.fn # "memcmp" => NoNul(src, passed)
    BY <1>2 DEF NoNul, Same
  <1>5. n > 0 /\ call.fn # "strcmp" => passed < call.n
    BY <1>2, <1>3
  <1>6. CASE call.fn = "strcmp"
    <2>1. Terminated(call, src) /\ Terminated(call, dst)
      BY <1>1, <1>6, StringFacts
    <2>2. src + passed \in Addr
      BY <1>1, <1>2, <1>3, <1>4, <1>6, <2>1, Inside
    <2>3. dst + passed \in Addr
      BY <1>1, <1>2, <1>3, <1>6, <2>1, Inside
    <2> QED BY <1>1, <1>2, <1>3, <1>6, <2>2, <2>3
  <1>7. CASE call.fn = "strncmp"
    <2>1. Bounded(call, src) /\ Bounded(call, dst)
      BY <1>1, <1>7, StringFacts
    <2>2. n > 0 => src + passed \in Addr
      BY <1>1, <1>2, <1>3, <1>4, <1>5, <1>7, <2>1, Inside
    <2>3. n > 0 => dst + passed \in Addr
      BY <1>1, <1>2, <1>3, <1>5, <1>7, <2>1, Inside
    <2> QED BY <1>1, <1>2, <1>3, <1>7, <2>2, <2>3
  <1>8. CASE call.fn = "memcmp"
    <2>1. dst + call.n <= MemSize /\ src + call.n <= MemSize /\ MemSize \in Nat
      BY <1>1, <1>8, StringFacts, Pointers
    <2>2. n > 0 => src + passed \in Addr /\ dst + passed \in Addr
      BY <1>2, <1>3, <1>5, <1>8, <2>1 DEF Addr
    <2> QED BY <1>1, <1>2, <1>3, <1>8, <2>2
  <1> QED BY <1>6, <1>7, <1>8 DEF Compares

LEMMA CompareMoves ==
  ASSUME StrInv, call.fn \in Compares, pc = call.fn, pc' = pc, call' = call, mem' = mem,
         d' = d + 1, s' = s + 1, n' \in Nat, unit' = unit, mem[d] = mem[s],
         call.fn # "memcmp" => mem[d] # 0,
         call.fn # "strcmp" => n' = n - 1
  PROVE  StrInv'
  <1>1. MemTypeOK /\ Comparing /\ call.fn # "done"
    BY DEF StrInv, Compares
  <1>2. /\ src \in Nat /\ dst \in Nat /\ s \in Int /\ d \in Int
        /\ src + passed = s /\ call.n \in Nat /\ n \in Nat
    BY <1>1, Pointers
  <1>3. mem = call.mem /\ passed \in Nat /\ d = dst + passed /\ Same(passed)
    BY <1>1 DEF Comparing
  <1>4. MemTypeOK'
    BY <1>1, <1>2 DEF MemTypeOK
  <1>5. src' = src /\ dst' = dst /\ passed' = passed + 1 /\ passed' \in Nat
    BY <1>2, <1>3 DEF src, dst, passed
  <1>6. \A x \in 0..passed'-1 : x \in 0..passed-1 \/ x = passed
    BY <1>3, <1>5
  <1>7. Same(passed)'
    BY <1>2, <1>3, <1>5, <1>6 DEF Same
  <1>8. call.fn # "memcmp" => NoNul(dst, passed)'
    BY <1>1, <1>2, <1>3, <1>5, <1>6 DEF NoNul, Comparing
  <1>9. d' = dst' + passed' /\ (call.fn # "strcmp" => n' = call.n - passed')
    BY <1>1, <1>2, <1>3, <1>5 DEF Comparing
  <1>10. Comparing'
    BY <1>3, <1>5, <1>7, <1>8, <1>9 DEF Comparing
  <1>11. Answered'
    BY <1>1 DEF Answered
  <1> QED BY <1>4, <1>10, <1>11, CompareFrame

LEMMA CompareEnds ==
  ASSUME StrInv, call.fn \in Compares, pc' = "done", call' = call, mem' = mem,
         d' = d, s' = s, n' = n, unit' = unit, Answered'
  PROVE  StrInv'
  <1>1. MemTypeOK'
    BY DEF StrInv, MemTypeOK
  <1>2. Comparing'
    BY DEF StrInv, Comparing, NoNul, Same, passed, src, dst
  <1> QED BY <1>1, <1>2, CompareFrame

LEMMA CompareStep ==
  ASSUME StrInv, strcmp \/ strncmp \/ memcmp
  PROVE  StrInv'
  <1>1. PlaceOK
    BY DEF StrInv
  <1>2. CASE strcmp
    <2>1. pc = "strcmp" /\ call.fn = "strcmp" /\ mem' = mem
      BY <1>1, <1>2 DEF strcmp, PlaceOK
    <2>2. MemTypeOK /\ mem = call.mem /\ s \in Addr /\ d \in Addr /\ n \in Nat
      BY <2>1, ComparePlace DEF Compares, MemTypeOK
    <2>3. CASE mem[d] # 0 /\ mem[d] = mem[s]
      <3>1. pc' = pc /\ call' = call /\ d' = d + 1 /\ s' = s + 1 /\ n' = n /\ unit' = unit
        BY <1>2, <2>2, <2>3 DEF strcmp, Turn, MemTypeOK
      <3> QED BY <2>1, <2>2, <2>3, <3>1, CompareMoves DEF Compares
    <2>4. CASE ~(mem[d] # 0 /\ mem[d] = mem[s])
      <3>1. /\ pc' = "done" /\ call' = call /\ d' = d /\ s' = s /\ n' = n /\ unit' = unit
            /\ ret' = mem[d] - mem[s]
        BY <1>2, <2>4 DEF strcmp, Return
      <3>2. Answered'
        BY <2>1, <2>2, <2>4, <3>1 DEF Answered, Decides
      <3> QED BY <2>1, <3>1, <3>2, CompareEnds DEF Compares
    <2> QED BY <2>3, <2>4
  <1>3. CASE strncmp \/ memcmp
    <2>1. pc \in {"strncmp", "memcmp"} /\ call.fn = pc /\ mem' = mem
      BY <1>1, <1>3 DEF strncmp, memcmp, PlaceOK
    <2>2. MemTypeOK /\ mem = call.mem /\ n \in Nat /\ (n > 0 => s \in Addr /\ d \in Addr)
      BY <2>1, ComparePlace DEF Compares, MemTypeOK
    <2> DEFINE more == /\ n > 0 /\ mem[d] = mem[s]
                       /\ call.fn = "strncmp" => mem[d] # 0
    <2>3. CASE more
      <3>1. pc' = pc /\ call' = call /\ d' = d + 1 /\ s' = s + 1 /\ n' = n - 1 /\ unit' = unit
        BY <1>3, <2>1, <2>2, <2>3 DEF strncmp, memcmp, MoreToCompare, Turn, MemTypeOK
      <3>2. n' \in Nat
        BY <2>2, <2>3, <3>1
      <3> QED BY <2>1, <2>2, <2>3, <3>1, <3>2, CompareMoves DEF Compares
    <2>4. CASE ~more
      <3>1. /\ pc' = "done" /\ call' = call /\ d' = d /\ s' = s /\ n' = n /\ unit' = unit
            /\ ret' = IF n = 0 THEN 0 ELSE mem[d] - mem[s]
        BY <1>3, <2>1, <2>2, <2>4 DEF strncmp, memcmp, MoreToCompare, Return
      <3>2. n # 0 => n > 0
        BY <2>2
      <3>3. Answered'
        BY <2>1, <2>2, <2>4, <3>1, <3>2 DEF Answered, Decides
      <3> QED BY <2>1, <3>1, <3>3, CompareEnds DEF Compares
    <2> QED BY <2>3, <2>4
  <1> QED BY <1>2, <1>3

-----------------------------------------------------------------------------
(***************************************************************************)
(* strcpy and strcat.                                                      *)
(***************************************************************************)
LEMMA CopyFrame ==
  ASSUME StrInv, call.fn \in {"strcpy", "strcat"}, call' = call,
         pc' \in {call.fn, "strcpy", "done"}, MemTypeOK', Copying'
  PROVE  StrInv'
  <1>1. PlaceOK'
    BY DEF StrInv, PlaceOK
  <1>2. Scanning' /\ Comparing' /\ Cutting' /\ Padding'
    BY DEF Scans, Compares, Scanning, Comparing, Cutting, Padding
  <1>3. Answered'
    BY DEF Answered
  <1> QED BY <1>1, <1>2, <1>3 DEF StrInv

(* strcat looks for the end of its destination. *)
LEMMA EndStep ==
  ASSUME StrInv, strcat
  PROVE  StrInv'
  <1> DEFINE k == d - dst
  <1>1. /\ MemTypeOK /\ pc = "strcat" /\ call.fn = "strcat" /\ mem' = mem
        /\ mem = call.mem /\ s = src /\ k \in Nat /\ NoNul(dst, k)
    BY DEF StrInv, PlaceOK, Copying, strcat
  <1>2. dst \in Nat /\ src \in Nat /\ d \in Int /\ s \in Int /\ n \in Nat /\ MemSize \in Nat
    BY <1>1, Pointers
  <1>3. dst + k = d
    BY <1>2
  <1>4. Terminated(call, dst)
    BY <1>1, StringFacts
  <1>5. d \in Addr
    BY <1>1, <1>2, <1>3, <1>4, Inside
  <1>6. CASE mem[d] # 0
    <2>1. pc' = pc /\ call' = call /\ d' = d + 1 /\ s' = s /\ n' = n /\ unit' = unit
      BY <1>1, <1>2, <1>6 DEF strcat, Turn
    <2>2. MemTypeOK'
      BY <1>1, <1>2, <2>1 DEF MemTypeOK
    <2>3. src' = src /\ dst' = dst /\ d' - dst = k + 1
      BY <1>2, <2>1 DEF src, dst
    <2>4. \A x \in 0..(k+1)-1 : x \in 0..k-1 \/ x = k
      BY <1>1
    <2>5. \A x \in 0..(k+1)-1 : call.mem[dst + x] # 0
      BY <1>1, <1>3, <1>6, <2>4 DEF NoNul
    <2>6. NoNul(dst, d - dst)'
      BY <2>1, <2>3, <2>5 DEF NoNul
    <2>7. Copying'
      BY <1>1, <2>1, <2>3, <2>6 DEF Copying
    <2> QED BY <1>1, <2>1, <2>2, <2>7, CopyFrame
  <1>7. CASE mem[d] = 0
    <2>1. pc' = "strcpy" /\ call' = call /\ d' = d /\ s' = s /\ n' = n /\ unit' = unit
      BY <1>1, <1>7 DEF strcat, Goto
    <2>2. MemTypeOK'
      BY <1>1, <2>1 DEF MemTypeOK
    <2>3. src' = src /\ dst' = dst /\ passed' = 0 /\ d' - passed' - dst' = k
          /\ d' - passed' = d
      BY <1>1, <1>2, <2>1 DEF src, dst, passed
    <2>4. IsLength(call, dst, k)
      BY <1>1, <1>2, <1>3, <1>5, <1>7 DEF IsLength, NoNul, Addr
    <2>5. IsLength(call, dst, d - passed - dst)'
      BY <2>1, <2>3, <2>4 DEF IsLength
    <2>6. NoNul(src, passed)'
      BY <2>3 DEF NoNul
    <2>7. \A x \in Addr : x \notin d..d+0-1
      BY <1>2 DEF Addr
    <2>8. Copied(d - passed, passed)'
      BY <1>1, <2>1, <2>3, <2>7 DEF Copied
    <2>9. Copying'
      BY <1>1, <2>1, <2>3, <2>5, <2>6, <2>8 DEF Copying
    <2> QED BY <1>1, <2>1, <2>2, <2>9, CopyFrame
  <1> QED BY <1>6, <1>7

(* Where strcpy stands: inside the source, whose bytes ahead of it are     *)
(* still those of the call, and inside the room it was given.              *)
LEMMA CopyPlace ==
  ASSUME StrInv, pc = "strcpy"
  PROVE  /\ MemTypeOK /\ call.fn \in {"strcpy", "strcat"}
         /\ passed \in Nat /\ NoNul(src, passed) /\ Copied(d - passed, passed)
         /\ src + passed = s /\ d - passed \in Nat
         /\ s \in Addr /\ d \in Addr /\ mem[s] = call.mem[s]
         /\ s \notin (d - passed)..d-1
  <1> DEFINE a == d - passed
  <1>1. /\ MemTypeOK /\ call.fn \in {"strcpy", "strcat"}
        /\ passed \in Nat /\ NoNul(src, passed) /\ Copied(a, passed)
        /\ call.fn = "strcpy" => a = dst
        /\ call.fn = "strcat" => a - dst \in Nat /\ IsLength(call, dst, a - dst)
    BY DEF StrInv, PlaceOK, Copying
  <1>2. /\ dst \in Nat /\ src \in Nat /\ d \in Int /\ s \in Int /\ MemSize \in Nat
        /\ src + passed = s
    BY <1>1, Pointers
  <1>3. a \in Nat /\ a + passed = d
    BY <1>1, <1>2
  <1>4. Terminated(call, src)
    BY <1>1, StringFacts
  <1>5. s \in Addr
    BY <1>1, <1>2, <1>4, Inside
  <1>6. PICK len \in Addr : IsLength(call, src, len)
    BY <1>1, <1>2, <1>4, HasLength
  <1>7. len \in Nat /\ passed <= len
    <2>1. len \in Nat
      BY <1>2 DEF Addr
    <2>2. ~(len \in 0..passed-1)
      BY <1>1, <1>6 DEF IsLength, NoNul
    <2> QED BY <1>1, <2>1, <2>2
  <1> HIDE DEF a
  <1>8. Fits(call, a, len)
    <2>1. CASE call.fn = "strcpy"
      BY <1>1, <1>6, <2>1, StringFacts
    <2>2. CASE call.fn = "strcat"
      <3>1. a - dst \in Addr /\ dst + (a - dst) = a
        BY <1>1, <1>2, <1>3, <2>2 DEF IsLength, Addr
      <3>2. IsLength(call, dst, a - dst)
        BY <1>1, <2>2
      <3>3. Fits(call, dst + (a - dst), len)
        BY <1>1, <1>6, <2>2, <3>1, <3>2, StringFacts
      <3> QED BY <3>1, <3>3
    <2> QED BY <1>1, <2>1, <2>2
  <1>9. a + len < MemSize /\ (a <= src \/ src + len < a)
    BY <1>8 DEF Fits, src
  <1>10. d \in Addr
    BY <1>1, <1>2, <1>3, <1>7, <1>9 DEF Addr
  <1>11. s \notin a..d-1
    BY <1>1, <1>2, <1>3, <1>7, <1>9
  <1>12. d - 1 = a + passed - 1
    BY <1>1, <1>2, <1>3
  <1>13. mem[s] = call.mem[s]
    BY <1>1, <1>5, <1>11, <1>12 DEF Copied
  <1> QED BY <1>1, <1>2, <1>3, <1>5, <1>10, <1>11, <1>13 DEF a

(* One byte more is at its place. *)
LEMMA OneMore ==
  ASSUME MemTypeOK, NEW a \in Nat, NEW k \in Nat, Copied(a, k), a + k \in Addr,
         call' = call, mem' = [mem EXCEPT ![a + k] = call.mem[src + k]]
  PROVE  \A x \in Addr : mem'[x] = IF x \in a..a+(k+1)-1 THEN call.mem[src + (x - a)]
                                   ELSE call.mem[x]
  <1> SUFFICES ASSUME NEW x \in Addr
               PROVE  mem'[x] = IF x \in a..a+(k+1)-1 THEN call.mem[src + (x - a)]
                                ELSE call.mem[x]
    OBVIOUS
  <1>1. x \in Int /\ mem \in [Addr -> Byte] /\ MemSize \in Nat
    BY Pointers DEF Addr
  <1>2. CASE x = a + k
    <2>1. x - a = k /\ x \in a..a+(k+1)-1
      BY <1>1, <1>2
    <2> QED BY <1>1, <1>2, <2>1
  <1>3. CASE x # a + k
    <2>1. mem'[x] = mem[x]
      BY <1>1, <1>3
    <2>2. x \in a..a+(k+1)-1 <=> x \in a..a+k-1
      BY <1>1, <1>3
    <2> QED BY <2>1, <2>2 DEF Copied
  <1> QED BY <1>2, <1>3

LEMMA CopyStep ==
  ASSUME StrInv, strcpy
  PROVE  StrInv'
  <1> DEFINE a == d - passed
  <1>1. /\ pc = "strcpy" /\ mem' = [mem EXCEPT ![d] = mem[s]]
        /\ IF mem[s] # 0 THEN Turn(1, 1, 0) ELSE Return(call.dst)
    BY DEF strcpy, Put
  <1>2. /\ MemTypeOK /\ call.fn \in {"strcpy", "strcat"}
        /\ passed \in Nat /\ NoNul(src, passed) /\ Copied(a, passed)
        /\ src + passed = s /\ a \in Nat
        /\ s \in Addr /\ d \in Addr /\ mem[s] = call.mem[s]
    BY <1>1, CopyPlace
  <1>3. /\ dst \in Nat /\ src \in Nat /\ d \in Int /\ s \in Int /\ n \in Nat
        /\ mem \in [Addr -> Byte]
    BY <1>2, Pointers
  <1>4. a + passed = d
    BY <1>2, <1>3
  <1>5. call' = call /\ n' = n /\ unit' = unit /\ src' = src /\ dst' = dst
    BY <1>1, <1>3 DEF Turn, Return, src, dst
  <1>6. /\ call.fn = "strcpy" => a = dst
        /\ call.fn = "strcat" => a - dst \in Nat /\ IsLength(call, dst, a - dst)
    BY <1>1, <1>2 DEF StrInv, Copying
  <1> HIDE DEF a
  <1>7. \A x \in Addr : mem'[x] = IF x \in a..a+(passed+1)-1 THEN call.mem[src + (x - a)]
                                  ELSE call.mem[x]
    <2>1. mem' = [mem EXCEPT ![a + passed] = call.mem[src + passed]]
      BY <1>1, <1>2, <1>4
    <2>2. a + passed \in Addr
      BY <1>2, <1>4
    <2> QED BY <1>2, <1>5, <2>1, <2>2, OneMore
  <1>8. mem' \in [Addr -> Byte]
    BY <1>1, <1>2, <1>3
  <1>9. CASE mem[s] # 0
    <2>1. pc' = pc /\ d' = d + 1 /\ s' = s + 1
      BY <1>1, <1>9 DEF Turn
    <2>2. MemTypeOK'
      BY <1>2, <1>3, <1>5, <1>8, <2>1 DEF MemTypeOK
    <2>3. passed' = passed + 1
      BY <1>3, <1>5, <2>1 DEF passed
    <2>4. d' - passed' = a
      BY <1>2, <1>3, <1>4, <2>1, <2>3
    <2>5. Copied(d - passed, passed)'
      BY <1>5, <1>7, <2>3, <2>4 DEF Copied
    <2>6. \A x \in 0..(passed+1)-1 : x \in 0..passed-1 \/ x = passed
      BY <1>2
    <2>7. NoNul(src, passed)'
      BY <1>2, <1>5, <1>9, <2>3, <2>6 DEF NoNul
    <2>8. passed' \in Nat
      BY <1>2, <2>3
    <2>9. call.fn = "strcat" => d' - passed' - dst' \in Nat
                                /\ IsLength(call, dst, d - passed - dst)'
      BY <1>5, <1>6, <2>4 DEF IsLength
    <2>10. Copying'
      BY <1>1, <1>5, <1>6, <2>1, <2>4, <2>5, <2>7, <2>8, <2>9 DEF Copying
    <2> QED BY <1>1, <1>2, <1>5, <2>1, <2>2, <2>10, CopyFrame
  <1>10. CASE mem[s] = 0
    <2>1. pc' = "done" /\ d' = d /\ s' = s
      BY <1>1, <1>10 DEF Return
    <2>2. MemTypeOK'
      BY <1>2, <1>3, <1>5, <1>8, <2>1 DEF MemTypeOK
    <2>3. passed' = passed
      BY <1>5, <2>1 DEF passed
    <2>4. d' - passed' = a
      BY <2>1, <2>3 DEF a
    <2>5. Copied(d - passed, passed + 1)'
      BY <1>5, <1>7, <2>3, <2>4 DEF Copied
    <2>6. NoNul(src, passed)'
      BY <1>2, <1>5, <2>3 DEF NoNul
    <2>7. call.fn = "strcat" => d' - passed' - dst' \in Nat
                                /\ IsLength(call, dst, d - passed - dst)'
      BY <1>5, <1>6, <2>4 DEF IsLength
    <2>8. Copying'
      BY <1>2, <1>5, <1>6, <1>10, <2>1, <2>3, <2>4, <2>5, <2>6, <2>7 DEF Copying
    <2> QED BY <1>2, <1>5, <2>1, <2>2, <2>8, CopyFrame
  <1> QED BY <1>9, <1>10

-----------------------------------------------------------------------------
(***************************************************************************)
(* strlcpy.                                                                *)
(***************************************************************************)
LEMMA CutFrame ==
  ASSUME StrInv, call.fn = "strlcpy", call' = call, pc' \in {"strlcpy", "done"},
         MemTypeOK', Cutting'
  PROVE  StrInv'
  <1>1. PlaceOK'
    BY DEF StrInv, PlaceOK
  <1>2. Scanning' /\ Comparing' /\ Padding'
    BY DEF Scans, Compares, Scanning, Comparing, Padding
  <1>3. Answered' /\ Copying'
    BY DEF Answered, Copying
  <1> QED BY <1>1, <1>2, <1>3 DEF StrInv

LEMMA CutPlace ==
  ASSUME StrInv, pc = "strlcpy"
  PROVE  /\ MemTypeOK /\ call.fn = "strlcpy"
         /\ passed \in Nat /\ NoNul(src, passed) /\ Copied(dst, passed)
         /\ src + passed = s /\ d = dst + passed /\ n = call.n - passed
         /\ n > 0 \/ passed = 0
         /\ n > 0 => s \in Addr /\ d \in Addr /\ mem[s] = call.mem[s]
  <1>1. /\ MemTypeOK /\ call.fn = "strlcpy"
        /\ passed \in Nat /\ NoNul(src, passed) /\ Copied(dst, passed)
        /\ d = dst + passed /\ n = call.n - passed /\ (n > 0 \/ passed = 0)
    BY DEF StrInv, PlaceOK, Cutting
  <1>2. /\ dst \in Nat /\ src \in Nat /\ d \in Int /\ s \in Int /\ MemSize \in Nat
        /\ src + passed = s /\ call.n \in Nat /\ n \in Nat
    BY <1>1, Pointers
  <1>3. /\ Bounded(call, src) /\ dst + call.n <= MemSize
        /\ dst <= src \/ src + call.n <= dst
    BY <1>1, StringFacts
  <1>4. ASSUME n > 0 PROVE s \in Addr /\ d \in Addr /\ mem[s] = call.mem[s]
    <2>1. passed < call.n
      BY <1>1, <1>2, <1>4
    <2>2. s \in Addr
      BY <1>1, <1>2, <1>3, <2>1, Inside
    <2>3. d \in Addr
      BY <1>1, <1>2, <1>3, <2>1 DEF Addr
    <2>4. s \notin dst..dst+passed-1
      BY <1>1, <1>2, <1>3, <2>1
    <2>5. mem[s] = call.mem[s]
      BY <1>1, <2>2, <2>4 DEF Copied
    <2> QED BY <2>2, <2>3, <2>5
  <1> QED BY <1>1, <1>2, <1>4

LEMMA CutStep ==
  ASSUME StrInv, strlcpy
  PROVE  StrInv'
  <1>1. pc = "strlcpy"
    BY DEF strlcpy
  <1>2. /\ MemTypeOK /\ call.fn = "strlcpy"
        /\ passed \in Nat /\ NoNul(src, passed) /\ Copied(dst, passed)
        /\ src + passed = s /\ d = dst + passed /\ n = call.n - passed
        /\ n > 0 \/ passed = 0
        /\ n > 0 => s \in Addr /\ d \in Addr /\ mem[s] = call.mem[s]
    BY <1>1, CutPlace
  <1>3. /\ dst \in Nat /\ src \in Nat /\ d \in Int /\ s \in Int /\ n \in Nat
        /\ mem \in [Addr -> Byte] /\ call.n \in Nat
    BY <1>2, Pointers
  <1>4. CASE n > 0 /\ MoreRoom /\ mem[s] # 0
    <2>1. /\ mem' = [mem EXCEPT ![d] = mem[s]] /\ call' = call /\ pc' = pc
          /\ d' = d + 1 /\ s' = s + 1 /\ n' = n - 1 /\ unit' = unit
      BY <1>3, <1>4 DEF strlcpy, Put, Turn
    <2>2. n' \in Nat /\ n' > 0
      BY <1>3, <1>4, <2>1 DEF MoreRoom
    <2>3. MemTypeOK'
      BY <1>2, <1>3, <1>4, <2>1, <2>2 DEF MemTypeOK
    <2>4. src' = src /\ dst' = dst /\ passed' = passed + 1 /\ passed' \in Nat
      BY <1>2, <1>3, <2>1 DEF src, dst, passed
    <2>5. Copied(dst, passed)'
      <3>1. \A x \in Addr : mem'[x] = IF x \in dst..dst+(passed+1)-1
                                        THEN call.mem[src + (x - dst)] ELSE call.mem[x]
        BY <1>2, <1>3, <1>4, <2>1, OneMore
      <3> QED BY <2>1, <2>4, <3>1 DEF Copied
    <2>6. \A x \in 0..(passed+1)-1 : x \in 0..passed-1 \/ x = passed
      BY <1>2
    <2>7. NoNul(src, passed)'
      BY <1>2, <1>4, <2>1, <2>4, <2>6 DEF NoNul
    <2>8. d' = dst' + passed' /\ n' = call.n - passed'
      BY <1>2, <1>3, <2>1, <2>4
    <2>9. pc' # "done"
      BY <1>1, <2>1
    <2>10. Cutting'
      BY <2>1, <2>2, <2>4, <2>5, <2>7, <2>8, <2>9 DEF Cutting
    <2> QED BY <1>1, <1>2, <2>1, <2>3, <2>10, CutFrame
  <1>5. CASE n > 0 /\ ~(MoreRoom /\ mem[s] # 0)
    <2>1. /\ mem' = [mem EXCEPT ![d] = 0] /\ call' = call /\ pc' = "done"
          /\ d' = d /\ s' = s /\ n' = n /\ unit' = unit /\ ret' = d - dst
      BY <1>3, <1>5 DEF strlcpy, Put, Return, dst
    <2>2. 0 \in Byte
      BY DEF Byte
    <2>3. MemTypeOK'
      BY <1>2, <1>3, <1>5, <2>1, <2>2 DEF MemTypeOK
    <2>4. src' = src /\ dst' = dst /\ passed' = passed /\ ret' = passed
      BY <1>2, <1>3, <2>1 DEF src, dst, passed
    <2>5. n = 1 \/ call.mem[s] = 0
      BY <1>2, <1>3, <1>5 DEF MoreRoom
    <2>6. d - 1 = dst + passed - 1
      BY <1>2, <1>3
    <2>7. \A x \in Addr : mem'[x] = IF x = d THEN 0
                                    ELSE IF x \in dst..d-1 THEN call.mem[src + (x - dst)]
                                    ELSE call.mem[x]
      BY <1>2, <1>3, <1>5, <2>1, <2>6 DEF Copied
    <2>8. NoNul(src, passed)'
      BY <1>2, <2>1, <2>4 DEF NoNul
    <2>9. n' # 0
      BY <1>3, <1>5, <2>1
    <2>10. Cutting'
      BY <1>2, <1>5, <2>1, <2>4, <2>5, <2>7, <2>8, <2>9 DEF Cutting
    <2> QED BY <1>2, <2>1, <2>3, <2>10, CutFrame
  <1>6. CASE n = 0
    <2>1. /\ mem' = mem /\ call' = call /\ pc' = "done"
          /\ d' = d /\ s' = s /\ n' = n /\ unit' = unit /\ ret' = 0
      BY <1>3, <1>6 DEF strlcpy, Return
    <2>2. MemTypeOK'
      BY <1>2, <2>1 DEF MemTypeOK
    <2>3. src' = src /\ dst' = dst /\ passed' = passed /\ passed = 0
      BY <1>2, <1>3, <1>6, <2>1 DEF src, dst, passed
    <2>4. Copied(dst, passed)' /\ NoNul(src, passed)'
      BY <1>2, <2>1, <2>3 DEF Copied, NoNul
    <2>5. Cutting'
      BY <1>2, <1>6, <2>1, <2>3, <2>4 DEF Cutting
    <2> QED BY <1>2, <2>1, <2>2, <2>5, CutFrame
  <1> QED BY <1>3, <1>4, <1>5, <1>6

-----------------------------------------------------------------------------
(***************************************************************************)
(* strncpy.                                                                *)
(***************************************************************************)
LEMMA PadFrame ==
  ASSUME StrInv, call.fn = "strncpy", call' = call, pc' \in {"strncpy", "done"},
         MemTypeOK', Padding'
  PROVE  StrInv'
  <1>1. PlaceOK'
    BY DEF StrInv, PlaceOK
  <1>2. Scanning' /\ Comparing' /\ Cutting'
    BY DEF Scans, Compares, Scanning, Comparing, Cutting
  <1>3. Answered' /\ Copying'
    BY DEF Answered, Copying
  <1> QED BY <1>1, <1>2, <1>3 DEF StrInv

(* The first k bytes of the source and j - k zeros are at the destination. *)
Padded(j, k) ==
  \A x \in Addr :
    mem[x] = IF x \notin dst..dst+j-1 THEN call.mem[x]
             ELSE IF x - dst < k THEN call.mem[src + (x - dst)] ELSE 0

(* The byte strncpy reads is the one of the call even where the zeros have *)
(* reached it.                                                             *)
LEMMA PadPlace ==
  ASSUME StrInv, pc = "strncpy"
  PROVE  \E j \in Nat :
           /\ MemTypeOK /\ call.fn = "strncpy"
           /\ d = dst + j /\ n = call.n - j /\ Padded(j, passed)
           /\ passed \in Nat /\ passed <= j /\ NoNul(src, passed)
           /\ passed < j => s \in Addr /\ call.mem[s] = 0
           /\ src + passed = s
           /\ n > 0 => s \in Addr /\ d \in Addr /\ mem[s] = call.mem[s]
  <1> DEFINE j == d - dst
  <1>1. /\ MemTypeOK /\ call.fn = "strncpy" /\ j \in Nat /\ n = call.n - j
        /\ passed \in Nat /\ passed <= j /\ NoNul(src, passed)
        /\ passed < j => s \in Addr /\ call.mem[s] = 0
        /\ \A x \in Addr :
             mem[x] = IF x \notin dst..d-1 THEN call.mem[x]
                      ELSE IF x - dst < passed THEN call.mem[src + (x - dst)] ELSE 0
    BY DEF StrInv, PlaceOK, Padding
  <1>2. /\ dst \in Nat /\ src \in Nat /\ d \in Int /\ s \in Int /\ MemSize \in Nat
        /\ src + passed = s /\ call.n \in Nat /\ n \in Nat
    BY <1>1, Pointers
  <1>3. d = dst + j /\ d - 1 = dst + j - 1
    BY <1>2
  <1> HIDE DEF j
  <1>4. /\ Bounded(call, src) /\ dst + call.n <= MemSize
        /\ dst <= src \/ src + call.n <= dst
    BY <1>1, StringFacts
  <1>5. Padded(j, passed)
    BY <1>1, <1>3 DEF Padded
  <1>6. ASSUME n > 0 PROVE s \in Addr /\ d \in Addr /\ mem[s] = call.mem[s]
    <2>1. j < call.n /\ passed < call.n
      BY <1>1, <1>2, <1>6
    <2>2. s \in Addr
      BY <1>1, <1>2, <1>4, <2>1, Inside
    <2>3. d \in Addr
      BY <1>1, <1>2, <1>3, <1>4, <2>1 DEF Addr
    <2>4. CASE s \notin dst..d-1
      BY <1>1, <2>2, <2>3, <2>4
    <2>5. CASE s \in dst..d-1
      <3>1. dst <= src /\ ~(s - dst < passed) /\ passed < j
        BY <1>1, <1>2, <1>3, <1>4, <2>1, <2>5
      <3> QED BY <1>1, <2>2, <2>3, <2>5, <3>1
    <2> QED BY <2>4, <2>5
  <1> QED BY <1>1, <1>2, <1>3, <1>5, <1>6

LEMMA PadStep ==
  ASSUME StrInv, strncpy
  PROVE  StrInv'
  <1>1. pc = "strncpy"
    BY DEF strncpy
  <1>2. PICK j \in Nat :
           /\ MemTypeOK /\ call.fn = "strncpy"
           /\ d = dst + j /\ n = call.n - j /\ Padded(j, passed)
           /\ passed \in Nat /\ passed <= j /\ NoNul(src, passed)
           /\ passed < j => s \in Addr /\ call.mem[s] = 0
           /\ src + passed = s
           /\ n > 0 => s \in Addr /\ d \in Addr /\ mem[s] = call.mem[s]
    BY <1>1, PadPlace
  <1>3. /\ dst \in Nat /\ src \in Nat /\ d \in Int /\ s \in Int /\ n \in Nat
        /\ mem \in [Addr -> Byte] /\ call.n \in Nat /\ MemSize \in Nat
    BY <1>2, Pointers
  <1>4. CASE n > 0
    <2> DEFINE k == IF mem[s] # 0 THEN passed + 1 ELSE passed
    <2>1. /\ mem' = [mem EXCEPT ![d] = mem[s]] /\ call' = call /\ pc' = pc
          /\ d' = d + 1 /\ s' = s + (IF mem[s] # 0 THEN 1 ELSE 0) /\ n' = n - 1
          /\ unit' = unit
      BY <1>3, <1>4 DEF strncpy, Put, Turn
    <2>2. n' \in Nat
      BY <1>3, <1>4, <2>1
    <2>3. s' \in Int /\ d' \in Int
      BY <1>3, <2>1
    <2>4. MemTypeOK'
      BY <1>2, <1>3, <1>4, <2>1, <2>2, <2>3 DEF MemTypeOK
    <2>5. src' = src /\ dst' = dst
      BY <2>1 DEF src, dst
    <2>6. passed' = k
      BY <1>2, <1>3, <2>1, <2>5 DEF passed
    <2>7. k \in Nat /\ k <= j + 1 /\ d' - dst = j + 1 /\ n' = call.n - (j + 1)
      BY <1>2, <1>3, <2>1
    <2>8. mem[s] # 0 => passed = j
      BY <1>2, <1>3, <1>4
    <2>9. \A x \in Addr :
            mem'[x] = IF x \notin dst..dst+(j+1)-1 THEN call.mem[x]
                      ELSE IF x - dst < k THEN call.mem[src + (x - dst)] ELSE 0
      <3> SUFFICES ASSUME NEW x \in Addr
                   PROVE  mem'[x] = IF x \notin dst..dst+(j+1)-1 THEN call.mem[x]
                                    ELSE IF x - dst < k THEN call.mem[src + (x - dst)]
                                    ELSE 0
        OBVIOUS
      <3>1. x \in Int
        BY <1>3 DEF Addr
      <3>2. CASE x = d
        <4>1. x \in dst..dst+(j+1)-1 /\ x - dst = j /\ mem'[x] = call.mem[s]
          BY <1>2, <1>3, <1>4, <2>1, <3>1, <3>2
        <4>2. CASE mem[s] # 0
          <5>1. x - dst < k /\ src + (x - dst) = s
            BY <1>2, <1>3, <2>8, <4>1, <4>2
          <5> QED BY <4>1, <5>1
        <4>3. CASE mem[s] = 0
          <5>1. ~(x - dst < k) /\ call.mem[s] = 0
            BY <1>2, <1>3, <1>4, <4>1, <4>3
          <5> QED BY <4>1, <5>1
        <4> QED BY <4>2, <4>3
      <3>3. CASE x # d
        <4>1. mem'[x] = mem[x]
          BY <1>3, <2>1, <3>3
        <4>2. x \in dst..dst+(j+1)-1 <=> x \in dst..dst+j-1
          BY <1>2, <1>3, <3>1, <3>3
        <4>3. x \in dst..dst+j-1 => (x - dst < k <=> x - dst < passed)
          BY <1>2, <1>3, <2>8, <3>1
        <4> QED BY <1>2, <4>1, <4>2, <4>3 DEF Padded
      <3> QED BY <3>2, <3>3
    <2>10. NoNul(src, k)
      <3>1. CASE mem[s] # 0
        <4>1. \A x \in 0..k-1 : x \in 0..passed-1 \/ x = passed
          BY <1>2, <3>1
        <4> QED BY <1>2, <1>4, <3>1, <4>1 DEF NoNul
      <3>2. CASE mem[s] = 0
        BY <1>2, <3>2
      <3> QED BY <3>1, <3>2
    <2>11. k < j + 1 => s' \in Addr /\ call.mem[s'] = 0
      BY <1>2, <1>3, <1>4, <2>1, <2>8
    <2> HIDE DEF k
    <2>12. d' - 1 = dst + (j + 1) - 1
      BY <1>2, <1>3, <2>1
    <2>13. NoNul(src, passed)'
      BY <2>1, <2>5, <2>6, <2>10 DEF NoNul
    <2>14. pc' # "done"
      BY <1>1, <2>1
    <2>15. j + 1 \in Nat
      OBVIOUS
    <2>16. Padding'
      BY <2>1, <2>5, <2>6, <2>7, <2>9, <2>11, <2>12, <2>13, <2>14, <2>15 DEF Padding
    <2> QED BY <1>1, <1>2, <2>1, <2>4, <2>16, PadFrame
  <1>5. CASE n = 0
    <2>1. /\ mem' = mem /\ call' = call /\ pc' = "done"
          /\ d' = d /\ s' = s /\ n' = n /\ unit' = unit
      BY <1>3, <1>5 DEF strncpy, Return
    <2>2. MemTypeOK'
      BY <1>2, <2>1 DEF MemTypeOK
    <2>3. Padding'
      BY <1>5, <2>1 DEF StrInv, Padding, NoNul, passed, src, dst
    <2> QED BY <1>2, <2>1, <2>2, <2>3, PadFrame
  <1> QED BY <1>3, <1>4, <1>5

-----------------------------------------------------------------------------
(* strtol: only that it leaves the memory and the other functions alone.   *)
LEMMA StrtolStep ==
  ASSUME StrInv, strtol \/ SignAndBase \/ Digits
  PROVE  StrInv'
  <1>1. MemTypeOK /\ PlaceOK
    BY DEF StrInv
  <1>2. call.fn = "strtol" /\ pc \in {"strtol", "sign", "digits"}
    <2>1. pc \in {"strtol", "sign", "digits"}
      BY DEF strtol, SignAndBase, Digits
    <2> QED BY <1>1, <2>1 DEF PlaceOK, StrFns
  <1>3. /\ mem' = mem /\ call' = call /\ d' = d /\ unit' = unit
        /\ pc' \in {"strtol", "sign", "digits", "done"}
    BY <1>1 DEF strtol, SignAndBase, Digits, Turn, Goto, Return, MemTypeOK
  <1>4. s' \in Int /\ n' \in Nat
    <2>1. s \in Int /\ n \in Nat
      BY <1>1 DEF MemTypeOK
    <2>2. CASE strtol
      BY <2>1, <2>2 DEF strtol, Turn, Goto
    <2>3. CASE SignAndBase
      <3> DEFINE a == IF mem[s] \in {43, 45} THEN s + 1 ELSE s
      <3>1. a \in Int
        BY <2>1
      <3>2. /\ s' = a + 2 \/ s' = a + 1 \/ s' = a
            /\ n' \in {16, 8, 10, n}
        BY <2>3 DEF SignAndBase
      <3> HIDE DEF a
      <3> QED BY <2>1, <3>1, <3>2
    <2>4. CASE Digits
      BY <2>1, <2>4 DEF Digits, Return
    <2> QED BY <2>2, <2>3, <2>4
  <1>5. MemTypeOK'
    BY <1>1, <1>3, <1>4 DEF MemTypeOK
  <1>6. PlaceOK'
    BY <1>1, <1>2, <1>3 DEF PlaceOK
  <1>7. Scanning' /\ Comparing' /\ Cutting' /\ Padding'
    BY <1>2, <1>3 DEF Scans, Compares, Scanning, Comparing, Cutting, Padding
  <1>8. Answered' /\ Copying'
    BY <1>2, <1>3 DEF Answered, Copying
  <1> QED BY <1>5, <1>6, <1>7, <1>8 DEF StrInv

-----------------------------------------------------------------------------
(***************************************************************************)
(* The invariant of the whole library.                                     *)
(***************************************************************************)
LEMMA LibInit == Init => LibInv
  <1> SUFFICES ASSUME Init PROVE LibInv
    OBVIOUS
  <1>1. MemInit /\ MemInv
    BY InitHolds DEF Init
  <1>2. /\ MemTypeOK /\ call \in Calls /\ mem = call.mem /\ pc = call.fn
        /\ d = dst /\ s = src /\ n = call.n
    BY <1>1 DEF MemInit, MemInv, dst, src
  <1>3. ASSUME call.fn \notin MemFns PROVE StrInv
    <2>1. call.fn \in StrFns
      BY <1>2, <1>3, StringAssumption DEF StrFns
    <2>2. PlaceOK /\ pc # "done"
      BY <1>2, <2>1 DEF PlaceOK, StrFns
    <2>3. dst \in Nat /\ src \in Nat /\ call.n \in Nat /\ MemSize \in Nat
      BY <1>2, Pointers
    <2>4. /\ passed = 0 /\ d - dst = 0 /\ d = dst + 0 /\ n = call.n - 0
          /\ d - passed = dst
      BY <1>2, <2>3 DEF passed
    <2>5. \A a : NoNul(a, 0) /\ Same(0)
      BY DEF NoNul, Same
    <2>6. \A b : Avoids(b)
      BY <1>2, <2>3 DEF Avoids
    <2>7. \A x \in Addr : x \notin dst..dst+0-1 /\ x \notin dst..d-1
      BY <1>2, <2>3 DEF Addr
    <2>8. Copied(dst, 0)
      BY <1>2, <2>7 DEF Copied
    <2>9. Scanning /\ Comparing
      BY <1>2, <2>3, <2>4, <2>5, <2>6 DEF Scanning, Comparing
    <2>10. Copying
      BY <1>2, <2>2, <2>4, <2>5, <2>8 DEF Copying
    <2>11. Cutting
      BY <1>2, <2>2, <2>4, <2>5, <2>8 DEF Cutting
    <2>12. Padding
      BY <1>2, <2>2, <2>4, <2>5, <2>7 DEF Padding
    <2> QED BY <1>2, <2>2, <2>9, <2>10, <2>11, <2>12 DEF StrInv, Answered
  <1> QED BY <1>1, <1>2, <1>3 DEF LibInv

LEMMA MemStepsHold ==
  ASSUME MemInv, MemStep
  PROVE  MemInv' /\ call' = call /\ pc' \in MemFns \cup RepLoop \cup {"done"}
  <1>1. MemInv'
    BY MemsetHolds, MemmoveHolds, MemcpyHolds, StosHolds, UpHolds, DownHolds, EndHolds
       DEF MemStep
  <1>2. call' = call /\ pc' \in MemFns \cup RepLoop \cup {"done"}
    BY DEF MemStep, memset, RepStos, memmove, memcpy, RepMovsUp, RepMovsDown, RepEnds,
           MemFns, RepLoop
  <1> QED BY <1>1, <1>2

LEMMA StringStepsHold ==
  ASSUME StrInv,
         \/ strlen \/ strnlen \/ strcpy \/ strcat \/ strncpy \/ strlcpy
         \/ strcmp \/ strncmp \/ strchr \/ strfind \/ memcmp \/ memfind
         \/ strtol \/ SignAndBase \/ Digits
  PROVE  StrInv'
  BY ScanStep, CompareStep, EndStep, CopyStep, CutStep, PadStep, StrtolStep

(* Each loop belongs to its own functions. *)
LEMMA OwnLoops ==
  /\ memset \/ memmove \/ memcpy \/ RepStos \/ RepMovsUp \/ RepMovsDown \/ RepEnds =>
       pc \in MemFns \cup RepLoop
  /\ \/ strlen \/ strnlen \/ strcpy \/ strcat \/ strncpy \/ strlcpy
     \/ strcmp \/ strncmp \/ strchr \/ strfind \/ memcmp \/ memfind
     \/ strtol \/ SignAndBase \/ Digits
     => pc \in StrFns \cup {"sign", "digits"} /\ call' = call
  <1>1. memset \/ memmove \/ memcpy \/ RepStos \/ RepMovsUp \/ RepMovsDown \/ RepEnds =>
          pc \in MemFns \cup RepLoop
    BY DEF memset, RepStos, memmove, memcpy, RepMovsUp, RepMovsDown, RepEnds, MemFns,
           RepLoop
  <1>2. strlen \/ strnlen \/ strcpy \/ strcat =>
          pc \in StrFns \cup {"sign", "digits"} /\ call' = call
    BY DEF strlen, strnlen, strcpy, strcat, Turn, Return, Goto, StrFns
  <1>3. strncpy \/ strlcpy \/ strcmp \/ strncmp =>
          pc \in StrFns \cup {"sign", "digits"} /\ call' = call
    BY DEF strncpy, strlcpy, strcmp, strncmp, Turn, Return, Goto, StrFns
  <1>4. strchr \/ strfind \/ memcmp \/ memfind =>
          pc \in StrFns \cup {"sign", "digits"} /\ call' = call
    BY DEF strchr, strfind, memcmp, memfind, Turn, Return, Goto, StrFns
  <1>5. strtol \/ SignAndBase \/ Digits =>
          pc \in StrFns \cup {"sign", "digits"} /\ call' = call
    BY DEF strtol, SignAndBase, Digits, Turn, Return, Goto, StrFns
  <1> QED BY <1>1, <1>2, <1>3, <1>4, <1>5

LEMMA LibStays == LibInv /\ UNCHANGED vars => LibInv'
  <1> SUFFICES ASSUME LibInv, UNCHANGED vars PROVE LibInv'
    OBVIOUS
  <1>1. /\ mem' = mem /\ call' = call /\ pc' = pc /\ d' = d /\ s' = s /\ n' = n
        /\ unit' = unit /\ ret' = ret
    BY DEF vars, memVars
  <1>2. MemInv => MemInv'
    BY <1>1 DEF MemInv, MemTypeOK, NotStarted, Counting, Filling, MovingUp,
                MovingDown, MemExact, dst, src
  <1>3. passed' = passed /\ src' = src /\ dst' = dst
    BY <1>1 DEF passed, src, dst
  <1>4. (MemTypeOK => MemTypeOK') /\ (PlaceOK => PlaceOK')
    BY <1>1 DEF MemTypeOK, PlaceOK
  <1>5. (Scanning => Scanning') /\ (Comparing => Comparing')
    BY <1>1, <1>3 DEF Scanning, Comparing, NoNul, Avoids, Same
  <1>6. Answered => Answered'
    BY <1>1, <1>3 DEF Answered, Decides
  <1>7. Copying => Copying'
    BY <1>1, <1>3 DEF Copying, NoNul, Copied, IsLength
  <1>8. (Cutting => Cutting') /\ (Padding => Padding')
    BY <1>1, <1>3 DEF Cutting, Padding, NoNul, Copied
  <1>9. StrInv => StrInv'
    BY <1>4, <1>5, <1>6, <1>7, <1>8 DEF StrInv
  <1> QED BY <1>1, <1>2, <1>9 DEF LibInv

LEMMA LibNext == LibInv /\ [Next]_vars => LibInv'
  <1> DEFINE StrStep ==
        \/ strlen \/ strnlen \/ strcpy \/ strcat \/ strncpy \/ strlcpy
        \/ strcmp \/ strncmp \/ strchr \/ strfind \/ memcmp \/ memfind
        \/ strtol \/ SignAndBase \/ Digits
  <1> SUFFICES ASSUME LibInv, [Next]_vars PROVE LibInv'
    OBVIOUS
  <1>1. MemStep \/ StrStep \/ UNCHANGED vars
    BY DEF Next, Step, Done
  <1>2. (MemStep => pc \in MemFns \cup RepLoop)
        /\ (StrStep => pc \in StrFns \cup {"sign", "digits"} /\ call' = call)
    BY OwnLoops DEF MemStep
  <1>3. (MemInv /\ MemStep =>
           MemInv' /\ call' = call /\ pc' \in MemFns \cup RepLoop \cup {"done"})
        /\ (StrInv /\ StrStep => StrInv')
    BY MemStepsHold, StringStepsHold
  <1> HIDE DEF StrStep
  <1>4. CASE MemStep
    <2>1. call.fn \in MemFns
      <3> SUFFICES ASSUME call.fn \notin MemFns PROVE FALSE
        OBVIOUS
      <3>1. PlaceOK
        BY DEF LibInv, StrInv
      <3> QED BY <1>2, <1>4, <3>1 DEF PlaceOK, StrFns, MemFns, RepLoop
    <2> QED BY <1>3, <1>4, <2>1 DEF LibInv
  <1>5. CASE StrStep
    <2>1. call.fn \notin MemFns
      BY <1>2, <1>5 DEF LibInv, StrFns, MemFns, RepLoop
    <2> QED BY <1>2, <1>3, <1>5, <2>1 DEF LibInv
  <1>6. CASE UNCHANGED vars
    BY <1>6, LibStays
  <1> QED BY <1>1, <1>4, <1>5, <1>6

-----------------------------------------------------------------------------
(***************************************************************************)
(* From what a loop has passed to what the function promises.              *)
(***************************************************************************)
LEMMA DiffNone ==
  ASSUME NEW k \in Nat, NEW len \in Int, Same(k), len <= k
  PROVE  FirstDiff(len) = 0
  <1>1. \A x \in 0..len-1 : x \in 0..k-1
    OBVIOUS
  <1>2. {x \in 0..len-1 : call.mem[call.dst + x] # call.mem[call.src + x]} = {}
    BY <1>1 DEF Same, dst, src
  <1> QED BY <1>2 DEF FirstDiff

LEMMA DiffAt ==
  ASSUME NEW k \in Nat, NEW len \in Int, Same(k), k < len,
         call.mem[dst + k] # call.mem[src + k]
  PROVE  FirstDiff(len) = call.mem[dst + k] - call.mem[src + k]
  <1> DEFINE D == {x \in 0..len-1 : call.mem[call.dst + x] # call.mem[call.src + x]}
  <1>1. D \in SUBSET Int /\ k \in D
    BY DEF dst, src
  <1>2. ASSUME NEW y \in D PROVE k <= y
    <2>1. y \in Nat /\ ~(y \in 0..k-1)
      BY DEF Same, dst, src
    <2> QED BY <2>1
  <1>3. Min(D) = k /\ D # {}
    BY <1>1, <1>2, MinIs
  <1>4. FirstDiff(len) = IF D = {} THEN 0
                         ELSE call.mem[call.dst + Min(D)] - call.mem[call.src + Min(D)]
    BY DEF FirstDiff
  <1> HIDE DEF D
  <1> QED BY <1>3, <1>4 DEF dst, src

LEMMA MinOfTwo ==
  ASSUME NEW x \in Int, NEW y \in Int
  PROVE  Min({x, y}) = IF x <= y THEN x ELSE y
  <1>1. CASE x <= y
    <2>1. {x, y} \in SUBSET Int /\ x \in {x, y} /\ \A z \in {x, y} : x <= z
      BY <1>1
    <2> QED BY <1>1, <2>1, MinIs
  <1>2. CASE ~(x <= y)
    <2>1. {x, y} \in SUBSET Int /\ y \in {x, y} /\ \A z \in {x, y} : y <= z
      BY <1>2
    <2> QED BY <1>2, <2>1, MinIs
  <1> QED BY <1>1, <1>2

LEMMA SelfSign ==
  ASSUME NEW x PROVE SameSign(x, x)
  BY DEF SameSign

(* The lengths found by the scans. *)
LEMMA LengthsRight ==
  ASSUME StrInv, pc = "done"
  PROVE  /\ call.fn = "strlen" => ret = StrLen(call.src)
         /\ call.fn = "strnlen" =>
              ret = FirstOf({a \in call.src..call.src+call.n-1 : call.mem[a] = 0},
                            call.src + call.n) - call.src
  <1>1. MemTypeOK /\ Scanning /\ Answered
    BY DEF StrInv
  <1>2. src \in Nat /\ src + passed = s /\ n \in Nat /\ call.n \in Nat /\ MemSize \in Nat
        /\ passed \in Int /\ s \in Int
    BY <1>1, Pointers
  <1>3. CASE call.fn = "strlen"
    <2>1. passed \in Nat /\ NoNul(src, passed) /\ s \in Addr /\ call.mem[s] = 0 /\ ret = passed
      BY <1>1, <1>3 DEF Scanning, Answered, Scans
    <2>2. src + passed < MemSize
      BY <1>2, <2>1 DEF Addr
    <2>3. StrLen(src) = passed
      BY <1>1, <1>2, <2>1, <2>2, LenIs
    <2> QED BY <1>3, <2>1, <2>3 DEF src
  <1>4. CASE call.fn = "strnlen"
    <2> DEFINE T == {a \in src..src+call.n-1 : call.mem[a] = 0}
    <2>1. /\ passed \in Nat /\ NoNul(src, passed) /\ n = call.n - passed /\ ret = passed
          /\ n > 0 => call.mem[s] = 0
      BY <1>1, <1>4 DEF Scanning, Answered, Scans
    <2>2. T \in SUBSET Int
      BY <1>2
    <2>3. \A y \in T : s <= y
      <3> SUFFICES ASSUME NEW y \in T, ~(s <= y) PROVE FALSE
        OBVIOUS
      <3>1. y - src \in 0..passed-1 /\ src + (y - src) = y
        BY <1>2, <2>1
      <3> QED BY <2>1, <3>1 DEF NoNul
    <2>4. CASE n > 0
      <3>1. s \in T
        BY <1>2, <2>1, <2>4
      <3>2. FirstOf(T, src + call.n) = s
        BY <2>2, <2>3, <3>1, FirstIs
      <3>3. ret = FirstOf(T, src + call.n) - src
        BY <1>2, <2>1, <3>2
      <3> QED BY <1>4, <3>3 DEF src
    <2>5. CASE n = 0
      <3>0. passed = call.n /\ s = src + call.n
        BY <1>2, <2>1, <2>5
      <3>1. T = {}
        BY <1>2, <2>3, <3>0
      <3>2. ret = FirstOf(T, src + call.n) - src
        BY <1>2, <2>1, <3>0, <3>1 DEF FirstOf
      <3> QED BY <1>4, <3>2 DEF src
    <2> QED BY <1>2, <2>4, <2>5
  <1> QED BY <1>3, <1>4

(* The places found by the searches. *)
LEMMA PlacesRight ==
  ASSUME StrInv, pc = "done",
         NEW hits, hits = {a \in src..src+StrLen(src)-1 : call.mem[a] = call.c},
         NEW span, span = {a \in src..src+call.n-1 : call.mem[a] = call.c % 256}
  PROVE  /\ call.fn = "strchr" => ret = FirstOf(hits, null)
         /\ call.fn = "strfind" => ret = FirstOf(hits, src + StrLen(src))
         /\ call.fn = "memfind" => ret = FirstOf(span, src + call.n)
  <1>1. MemTypeOK /\ Scanning /\ Answered
    BY DEF StrInv
  <1>2. src \in Nat /\ src + passed = s /\ call.n \in Nat /\ MemSize \in Nat
        /\ passed \in Int /\ s \in Int
    BY <1>1, Pointers
  <1>3. CASE call.fn \in {"strchr", "strfind"}
    <2>1. /\ passed \in Nat /\ NoNul(src, passed) /\ Avoids(call.c) /\ s \in Addr
          /\ call.mem[s] = 0 \/ call.mem[s] = call.c
          /\ call.fn = "strchr" => ret = IF call.mem[s] # 0 THEN s ELSE null
          /\ call.fn = "strfind" => ret = s
      BY <1>1, <1>3 DEF Scanning, Answered, Scans
    <2>2. s < MemSize
      BY <1>2, <2>1 DEF Addr
    <2>3. CASE call.mem[s] = 0
      <3>1. StrLen(src) = passed
        BY <1>1, <1>2, <2>1, <2>2, <2>3, LenIs
      <3>2. src + StrLen(src) = s
        BY <1>2, <3>1
      <3>3. hits = {}
        <4>1. src + StrLen(src) - 1 = s - 1
          BY <1>2, <3>1
        <4>2. \A a \in src..s-1 : call.mem[a] # call.c
          BY <2>1 DEF Avoids
        <4> QED BY <4>1, <4>2, Zenon
      <3> QED BY <1>3, <2>1, <2>3, <3>2, <3>3 DEF FirstOf
    <2>4. CASE call.mem[s] # 0
      <3>1. \A x \in 0..(passed+1)-1 : x \in 0..passed-1 \/ x = passed
        BY <2>1
      <3>2. NoNul(src, passed + 1) /\ passed + 1 \in Nat /\ src + (passed + 1) <= MemSize
        BY <1>2, <2>1, <2>2, <2>4, <3>1 DEF NoNul
      <3>3. StrLen(src) \in Nat /\ StrLen(src) >= passed + 1
        BY <1>1, <1>2, <3>2, LenAtLeast
      <3>4. s \in src..src+StrLen(src)-1
        BY <1>2, <2>1, <3>3
      <3>5. s \in hits
        BY <2>1, <2>4, <3>4
      <3>6. hits \in SUBSET Int
        BY <1>2, <3>3
      <3>7. \A y \in hits : s <= y
        <4> SUFFICES ASSUME NEW y \in hits, ~(s <= y) PROVE FALSE
          OBVIOUS
        <4>1. y \in src..s-1 /\ call.mem[y] = call.c
          BY <1>2, <3>3
        <4> QED BY <2>1, <4>1 DEF Avoids
      <3>8. FirstOf(hits, null) = s /\ FirstOf(hits, src + StrLen(src)) = s
        BY <3>5, <3>6, <3>7, FirstIs
      <3> QED BY <1>3, <2>1, <2>4, <3>8
    <2> QED BY <2>3, <2>4
  <1>4. CASE call.fn = "memfind"
    <2>1. /\ passed \in Nat /\ passed <= call.n /\ Avoids(call.c % 256) /\ ret = s
          /\ passed < call.n => call.mem[s] = call.c % 256
      BY <1>1, <1>4 DEF Scanning, Answered, Scans
    <2>2. \A y \in span : y \in Int /\ s <= y /\ y < src + call.n
      <3> SUFFICES ASSUME NEW y \in span
                   PROVE  y \in Int /\ s <= y /\ y < src + call.n
        OBVIOUS
      <3>1. y \in Int /\ y >= src /\ y < src + call.n /\ call.mem[y] = call.c % 256
        BY <1>2
      <3>2. y \notin src..s-1
        BY <2>1, <3>1 DEF Avoids
      <3> QED BY <1>2, <3>1, <3>2
    <2>3. CASE passed < call.n
      <3>1. s \in src..src+call.n-1
        BY <1>2, <2>1, <2>3
      <3>2. s \in span
        BY <2>1, <2>3, <3>1
      <3>3. FirstOf(span, src + call.n) = s
        BY <2>2, <3>2, FirstIs
      <3> QED BY <1>4, <2>1, <3>3
    <2>4. CASE passed = call.n
      <3>1. span = {} /\ s = src + call.n
        BY <1>2, <2>2, <2>4
      <3> QED BY <1>4, <2>1, <3>1 DEF FirstOf
    <2> QED BY <1>2, <2>1, <2>3, <2>4
  <1> QED BY <1>3, <1>4

(* A comparison that two bytes ended, of strings that are compared as far  *)
(* as len: both were equal up to there, and len goes no further than a NUL.*)
LEMMA DecidesRight ==
  ASSUME NEW k \in Nat, NEW len \in Int, Same(k), k < len,
         ret = call.mem[dst + k] - call.mem[src + k],
         call.mem[dst + k] \in Int, call.mem[src + k] \in Int,
         call.mem[dst + k] # call.mem[src + k] \/ len = k + 1
  PROVE  SameSign(ret, FirstDiff(len))
  <1>1. CASE call.mem[dst + k] # call.mem[src + k]
    <2>1. FirstDiff(len) = ret
      BY <1>1, DiffAt
    <2> QED BY <2>1, SelfSign
  <1>2. CASE call.mem[dst + k] = call.mem[src + k]
    <2>1. \A x \in 0..(k+1)-1 : x \in 0..k-1 \/ x = k
      OBVIOUS
    <2>2. Same(k + 1) /\ k + 1 \in Nat
      BY <1>2, <2>1 DEF Same
    <2>3. FirstDiff(len) = 0
      BY <1>2, <2>2, DiffNone
    <2>4. ret = 0
      BY <1>2
    <2> QED BY <2>3, <2>4, SelfSign
  <1> QED BY <1>1, <1>2

(* How far two strings are compared: up to the NUL of the shorter. *)
Reach == Min({StrLen(dst), StrLen(src)}) + 1

LEMMA ComparesRight ==
  ASSUME StrInv, pc = "done"
  PROVE  /\ call.fn = "strcmp" => SameSign(ret, FirstDiff(Reach))
         /\ call.fn = "strncmp" => SameSign(ret, FirstDiff(Min({Reach, call.n})))
         /\ call.fn = "memcmp" => SameSign(ret, FirstDiff(call.n))
  <1>1. MemTypeOK /\ Comparing /\ Answered
    BY DEF StrInv
  <1>2. /\ src \in Nat /\ dst \in Nat /\ src + passed = s /\ call.n \in Nat
        /\ MemSize \in Nat /\ n \in Nat /\ s \in Int /\ d \in Int
        /\ call.mem \in [Addr -> Byte]
    BY <1>1, Pointers
  <1> SUFFICES ASSUME call.fn \in Compares
               PROVE  /\ call.fn = "strcmp" => SameSign(ret, FirstDiff(Reach))
                      /\ call.fn = "strncmp" =>
                           SameSign(ret, FirstDiff(Min({Reach, call.n})))
                      /\ call.fn = "memcmp" => SameSign(ret, FirstDiff(call.n))
    BY DEF Compares
  <1>3. /\ passed \in Nat /\ dst + passed = d /\ Same(passed)
        /\ call.fn # "memcmp" => NoNul(dst, passed) /\ NoNul(src, passed)
        /\ call.fn # "strcmp" => n = call.n - passed
    BY <1>1 DEF Comparing, NoNul, Same
  <1>4. ASSUME Decides
        PROVE  /\ ret = call.mem[dst + passed] - call.mem[src + passed]
               /\ call.mem[dst + passed] \in Int /\ call.mem[src + passed] \in Int
               /\ dst + passed < MemSize /\ src + passed < MemSize
    <2>1. dst + passed = d /\ src + passed = s /\ s \in Addr /\ d \in Addr
          /\ ret = call.mem[d] - call.mem[s]
      BY <1>2, <1>3, <1>4 DEF Decides
    <2>2. call.mem[d] \in Byte /\ call.mem[s] \in Byte
      BY <1>2, <2>1
    <2>3. call.mem[d] \in Int /\ call.mem[s] \in Int
      BY <2>2 DEF Byte
    <2>4. d < MemSize /\ s < MemSize
      BY <1>2, <2>1 DEF Addr
    <2> QED BY <2>1, <2>3, <2>4
  <1>5. ASSUME call.fn # "memcmp", Decides,
               call.mem[d] = 0 \/ call.mem[d] # call.mem[s]
        PROVE  /\ Reach \in Int /\ passed < Reach
               /\ call.mem[dst + passed] # call.mem[src + passed] \/ Reach = passed + 1
    <2> DEFINE l == StrLen(src)
               m == StrLen(dst)
    <2>1. l \in Nat /\ l >= passed /\ m \in Nat /\ m >= passed
      BY <1>1, <1>2, <1>3, <1>4, <1>5, LenAtLeast
    <2>2. call.mem[d] = 0 /\ call.mem[d] = call.mem[s] => l = passed /\ m = passed
      BY <1>1, <1>2, <1>3, <1>4, <1>5, LenIs
    <2> HIDE DEF l, m
    <2>3. Min({m, l}) = IF m <= l THEN m ELSE l
      BY <2>1, MinOfTwo
    <2>4. Reach = (IF m <= l THEN m ELSE l) + 1
      BY <2>3 DEF Reach, l, m
    <2>5. Reach \in Int /\ passed < Reach /\ (l = passed /\ m = passed => Reach = passed + 1)
      BY <1>3, <2>1, <2>4
    <2> QED BY <1>2, <1>3, <1>5, <2>2, <2>5
  <1>6. CASE call.fn = "strcmp"
    <2>1. Decides /\ (call.mem[d] = 0 \/ call.mem[d] # call.mem[s])
      BY <1>1, <1>6 DEF Answered
    <2>2. SameSign(ret, FirstDiff(Reach))
      BY <1>3, <1>4, <1>5, <1>6, <2>1, DecidesRight
    <2> QED BY <1>6, <2>2
  <1>7. CASE call.fn = "strncmp" /\ n > 0
    <2>1. Decides /\ (call.mem[d] = 0 \/ call.mem[d] # call.mem[s])
      BY <1>1, <1>7 DEF Answered
    <2>2. /\ Reach \in Int /\ passed < Reach
          /\ call.mem[dst + passed] # call.mem[src + passed] \/ Reach = passed + 1
      BY <1>5, <1>7, <2>1
    <2> DEFINE len == Min({Reach, call.n})
    <2>3. len = IF Reach <= call.n THEN Reach ELSE call.n
      BY <1>2, <2>2, MinOfTwo
    <2> HIDE DEF len
    <2>4. /\ len \in Int /\ passed < len
          /\ call.mem[dst + passed] # call.mem[src + passed] \/ len = passed + 1
      BY <1>2, <1>3, <1>7, <2>2, <2>3
    <2>5. SameSign(ret, FirstDiff(len))
      BY <1>3, <1>4, <2>1, <2>4, DecidesRight
    <2> QED BY <1>7, <2>5 DEF len
  <1>8. CASE call.fn = "strncmp" /\ n = 0
    <2>1. ret = 0 /\ passed = call.n
      BY <1>1, <1>2, <1>3, <1>8 DEF Answered
    <2>2. src + passed <= MemSize /\ dst + passed <= MemSize
      <3>1. Bounded(call, src) /\ Bounded(call, dst)
        BY <1>1, <1>8, StringFacts
      <3>2. CASE Terminated(call, src)
        <4>1. src + passed \in Addr
          BY <1>1, <1>2, <1>3, <1>8, <3>2, Inside
        <4>2. CASE Terminated(call, dst)
          <5>1. dst + passed \in Addr
            BY <1>1, <1>2, <1>3, <1>8, <4>2, Inside
          <5> QED BY <1>2, <4>1, <5>1 DEF Addr
        <4>3. CASE dst + call.n <= MemSize
          BY <1>2, <2>1, <4>1, <4>3 DEF Addr
        <4> QED BY <3>1, <4>2, <4>3 DEF Bounded
      <3>3. CASE src + call.n <= MemSize
        <4>2. CASE Terminated(call, dst)
          <5>1. dst + passed \in Addr
            BY <1>1, <1>2, <1>3, <1>8, <4>2, Inside
          <5> QED BY <1>2, <2>1, <3>3, <5>1 DEF Addr
        <4>3. CASE dst + call.n <= MemSize
          BY <2>1, <3>3, <4>3
        <4> QED BY <3>1, <4>2, <4>3 DEF Bounded
      <3> QED BY <3>1, <3>2, <3>3 DEF Bounded
    <2> DEFINE l == StrLen(src)
               m == StrLen(dst)
               len == Min({Reach, call.n})
    <2>3. l \in Nat /\ m \in Nat
      BY <1>1, <1>2, <1>3, <1>8, <2>2, LenAtLeast
    <2> HIDE DEF l, m
    <2>4. Min({m, l}) = IF m <= l THEN m ELSE l
      BY <2>3, MinOfTwo
    <2>5. Reach \in Int
      BY <2>3, <2>4 DEF Reach, l, m
    <2>6. len = IF Reach <= call.n THEN Reach ELSE call.n
      BY <1>2, <2>5, MinOfTwo
    <2> HIDE DEF len
    <2>7. len \in Int /\ len <= passed
      BY <1>2, <2>1, <2>5, <2>6
    <2>8. FirstDiff(len) = 0
      BY <1>3, <2>7, DiffNone
    <2>9. SameSign(ret, FirstDiff(len))
      BY <2>1, <2>8, SelfSign
    <2> QED BY <1>8, <2>9 DEF len
  <1>9. CASE call.fn = "memcmp" /\ n > 0
    <2>1. Decides /\ call.mem[d] # call.mem[s] /\ passed < call.n
      BY <1>1, <1>2, <1>3, <1>9 DEF Answered
    <2>2. call.mem[dst + passed] # call.mem[src + passed]
      BY <1>2, <1>3, <2>1
    <2>3. SameSign(ret, FirstDiff(call.n))
      BY <1>2, <1>3, <1>4, <2>1, <2>2, DecidesRight
    <2> QED BY <1>9, <2>3
  <1>10. CASE call.fn = "memcmp" /\ n = 0
    <2>1. ret = 0 /\ passed = call.n
      BY <1>1, <1>2, <1>3, <1>10 DEF Answered
    <2>2. FirstDiff(call.n) = 0
      BY <1>2, <1>3, <2>1, DiffNone
    <2>3. SameSign(ret, FirstDiff(call.n))
      BY <2>1, <2>2, SelfSign
    <2> QED BY <1>10, <2>3
  <1> QED BY <1>2, <1>6, <1>7, <1>8, <1>9, <1>10 DEF Compares

LEMMA AnswersHold == StrInv => AnswersRight
  <1> SUFFICES ASSUME StrInv, pc = "done" PROVE AnswersRight
    BY DEF AnswersRight
  <1> DEFINE len  == StrLen(call.src)
             both == Min({StrLen(call.dst), len}) + 1
             span == call.src..call.src+call.n-1
             hits == {a \in call.src..call.src+len-1 : call.mem[a] = call.c}
  <1>1. /\ call.fn = "strlen" => ret = len
        /\ call.fn = "strnlen" =>
             ret = FirstOf({a \in span : call.mem[a] = 0}, call.src + call.n) - call.src
    BY LengthsRight
  <1>2. /\ call.fn = "strcmp" => SameSign(ret, FirstDiff(both))
        /\ call.fn = "strncmp" => SameSign(ret, FirstDiff(Min({both, call.n})))
        /\ call.fn = "memcmp" => SameSign(ret, FirstDiff(call.n))
    BY ComparesRight DEF Reach, dst, src
  <1>3. /\ call.fn = "strchr" => ret = FirstOf(hits, null)
        /\ call.fn = "strfind" => ret = FirstOf(hits, call.src + len)
        /\ call.fn = "memfind" =>
             ret = FirstOf({a \in span : call.mem[a] = call.c % 256}, call.src + call.n)
    BY PlacesRight DEF src
  <1> QED BY <1>1, <1>2, <1>3, Zenon DEF AnswersRight

-----------------------------------------------------------------------------
(* A memory that holds b from a on, and else what it held at the call. *)
LEMMA WithIs ==
  ASSUME MemTypeOK, NEW a \in Nat, NEW b, Len(b) \in Nat,
         \A x \in Addr : mem[x] = IF x - a \in 0..Len(b)-1 THEN b[x - a + 1]
                                  ELSE call.mem[x]
  PROVE  mem = With(a, b)
  BY DEF MemTypeOK, With

LEMMA StrIs ==
  ASSUME MemTypeOK, NEW a \in Nat, NEW l \in Nat, StrLen(a) = l, a + l <= MemSize
  PROVE  /\ Str(a) \in Seq(Byte) /\ Len(Str(a)) = l
         /\ \A i \in 1..l : Str(a)[i] = call.mem[a + i - 1]
  <1>1. Str(a) = [i \in 1..l |-> call.mem[a + i - 1]]
    BY DEF Str
  <1>2. call.mem \in [Addr -> Byte] /\ MemSize \in Nat
    BY Pointers
  <1>3. \A i \in 1..l : a + i - 1 \in Addr
    BY <1>2 DEF Addr
  <1>4. \A i \in 1..l : call.mem[a + i - 1] \in Byte
    BY <1>2, <1>3
  <1>5. Str(a) \in [1..l -> Byte]
    BY <1>1, <1>4
  <1>6. Str(a) \in Seq(Byte) /\ Len(Str(a)) = l
    BY <1>5
  <1> QED BY <1>1, <1>6

(* A string and the byte behind it. *)
LEMMA AppendIs ==
  ASSUME NEW S, NEW f \in Seq(S), NEW b
  PROVE  /\ Len(Append(f, b)) = Len(f) + 1
         /\ \A i \in 1..Len(f)+1 : Append(f, b)[i] = IF i <= Len(f) THEN f[i] ELSE b
  OBVIOUS

LEMMA StrcpyRight ==
  ASSUME StrInv, pc = "done", call.fn = "strcpy"
  PROVE  mem = With(call.dst, Append(Str(call.src), 0))
  <1> DEFINE f == Str(src)
  <1>1. /\ MemTypeOK /\ passed \in Nat /\ NoNul(src, passed) /\ d - passed = dst
        /\ s \in Addr /\ call.mem[s] = 0 /\ Copied(dst, passed + 1)
    BY DEF StrInv, Copying
  <1>2. dst \in Nat /\ src \in Nat /\ src + passed = s /\ MemSize \in Nat
    BY <1>1, Pointers
  <1>3. src + passed < MemSize
    BY <1>1, <1>2 DEF Addr
  <1>4. StrLen(src) = passed
    BY <1>1, <1>2, <1>3, LenIs
  <1>5. /\ f \in Seq(Byte) /\ Len(f) = passed
        /\ \A i \in 1..passed : f[i] = call.mem[src + i - 1]
    BY <1>1, <1>2, <1>3, <1>4, StrIs
  <1> HIDE DEF f
  <1>6. /\ Len(Append(f, 0)) = passed + 1
        /\ \A i \in 1..passed+1 : Append(f, 0)[i] = IF i <= passed THEN f[i] ELSE 0
    BY <1>5, AppendIs
  <1> DEFINE b == Append(f, 0)
  <1>7. Len(b) = passed + 1
        /\ \A i \in 1..passed+1 : b[i] = IF i <= passed THEN f[i] ELSE 0
    BY <1>6
  <1> HIDE DEF b
  <1>8. ASSUME NEW x \in Addr
        PROVE  mem[x] = IF x - dst \in 0..Len(b)-1 THEN b[x - dst + 1] ELSE call.mem[x]
    <2>1. x \in Int
      BY <1>2 DEF Addr
    <2>2. x - dst \in 0..Len(b)-1 <=> x \in dst..dst+(passed+1)-1
      BY <1>1, <1>2, <1>7, <2>1
    <2>3. CASE x \in dst..dst+(passed+1)-1
      <3>1. x - dst + 1 \in 1..passed+1
        BY <1>1, <1>2, <2>1, <2>3
      <3>2. b[x - dst + 1] = call.mem[src + (x - dst)]
        <4>1. CASE x - dst + 1 <= passed
          <5>1. x - dst + 1 \in 1..passed /\ src + (x - dst + 1) - 1 = src + (x - dst)
            BY <1>1, <1>2, <2>1, <3>1, <4>1
          <5> QED BY <1>5, <1>7, <3>1, <4>1, <5>1
        <4>2. CASE ~(x - dst + 1 <= passed)
          <5>1. src + (x - dst) = s
            BY <1>1, <1>2, <2>1, <3>1, <4>2
          <5> QED BY <1>1, <1>7, <3>1, <4>2, <5>1
        <4> QED BY <4>1, <4>2
      <3>3. mem[x] = call.mem[src + (x - dst)]
        BY <1>1, <2>3 DEF Copied
      <3> QED BY <2>2, <2>3, <3>2, <3>3
    <2>4. CASE x \notin dst..dst+(passed+1)-1
      <3>1. mem[x] = call.mem[x]
        BY <1>1, <2>4 DEF Copied
      <3> QED BY <2>2, <2>4, <3>1
    <2> QED BY <2>3, <2>4
  <1>9. Len(b) \in Nat
    BY <1>1, <1>7
  <1>10. mem = With(dst, b)
    BY <1>1, <1>2, <1>8, <1>9, WithIs
  <1> QED BY <1>10 DEF b, f, dst, src

LEMMA StrcatRight ==
  ASSUME StrInv, pc = "done", call.fn = "strcat"
  PROVE  mem = With(call.dst, Append(Str(call.dst) \o Str(call.src), 0))
  <1> DEFINE e == d - passed - dst
             f == Str(src)
             g == Str(dst)
  <1>1. /\ MemTypeOK /\ passed \in Nat /\ NoNul(src, passed)
        /\ e \in Nat /\ IsLength(call, dst, e)
        /\ s \in Addr /\ call.mem[s] = 0 /\ Copied(d - passed, passed + 1)
    BY DEF StrInv, Copying
  <1>2. dst \in Nat /\ src \in Nat /\ src + passed = s /\ MemSize \in Nat /\ d \in Int
    BY <1>1, Pointers
  <1>3. src + passed < MemSize /\ d - passed = dst + e
    BY <1>1, <1>2 DEF Addr
  <1> HIDE DEF e
  <1>4. StrLen(src) = passed
    BY <1>1, <1>2, <1>3, LenIs
  <1>5. dst + e < MemSize /\ call.mem[dst + e] = 0 /\ NoNul(dst, e)
    BY <1>1 DEF IsLength, NoNul
  <1>6. StrLen(dst) = e
    BY <1>1, <1>2, <1>5, LenIs
  <1>7. /\ f \in Seq(Byte) /\ Len(f) = passed
        /\ \A i \in 1..passed : f[i] = call.mem[src + i - 1]
    BY <1>1, <1>2, <1>3, <1>4, StrIs
  <1>8. /\ g \in Seq(Byte) /\ Len(g) = e
        /\ \A i \in 1..e : g[i] = call.mem[dst + i - 1]
    BY <1>1, <1>2, <1>5, <1>6, StrIs
  <1> HIDE DEF f, g
  <1> DEFINE h == g \o f
  <1>9. /\ h \in Seq(Byte) /\ Len(h) = e + passed
        /\ \A i \in 1..e+passed : h[i] = IF i <= e THEN g[i] ELSE f[i - e]
    <2>1. /\ g \o f \in Seq(Byte) /\ Len(g \o f) = Len(g) + Len(f)
          /\ \A i \in 1..Len(g)+Len(f) :
               (g \o f)[i] = IF i <= Len(g) THEN g[i] ELSE f[i - Len(g)]
      BY <1>7, <1>8, ConcatProperties
    <2> QED BY <1>7, <1>8, <2>1
  <1> HIDE DEF h
  <1> DEFINE b == Append(h, 0)
  <1>10. /\ Len(b) = e + passed + 1
         /\ \A i \in 1..e+passed+1 : b[i] = IF i <= e + passed THEN h[i] ELSE 0
    BY <1>9, AppendIs
  <1> HIDE DEF b
  <1>11. ASSUME NEW x \in Addr
         PROVE  mem[x] = IF x - dst \in 0..Len(b)-1 THEN b[x - dst + 1] ELSE call.mem[x]
    <2> DEFINE i == x - dst + 1
    <2>1. x \in Int /\ i \in Int
      BY <1>2 DEF Addr
    <2>2. /\ x - dst \in 0..Len(b)-1 <=> i \in 1..e+passed+1
          /\ x \in (dst+e)..(dst+e)+(passed+1)-1 <=> i \in e+1..e+passed+1
      BY <1>1, <1>2, <1>10, <2>1
    <2>3. mem[x] = IF i \in e+1..e+passed+1 THEN call.mem[src + (x - (dst + e))]
                   ELSE call.mem[x]
      BY <1>1, <1>3, <2>2 DEF Copied
    <2>4. CASE i \in 1..e
      <3>1. i \in 1..e+passed /\ i \in 1..e+passed+1 /\ i <= e + passed /\ i <= e
            /\ i \notin e+1..e+passed+1 /\ dst + i - 1 = x
        BY <1>1, <1>2, <2>1, <2>4
      <3>2. b[i] = call.mem[x]
        BY <1>8, <1>9, <1>10, <2>4, <3>1
      <3> QED BY <2>2, <2>3, <3>1, <3>2
    <2>5. CASE i \in e+1..e+passed
      <3>1. i \in 1..e+passed /\ i \in 1..e+passed+1 /\ i <= e + passed /\ ~(i <= e)
            /\ i \in e+1..e+passed+1 /\ i - e \in 1..passed
            /\ src + (i - e) - 1 = src + (x - (dst + e))
        BY <1>1, <1>2, <2>1, <2>5
      <3>2. b[i] = call.mem[src + (x - (dst + e))]
        BY <1>7, <1>9, <1>10, <3>1
      <3> QED BY <2>2, <2>3, <3>1, <3>2
    <2>6. CASE i = e + passed + 1
      <3>1. i \in 1..e+passed+1 /\ ~(i <= e + passed) /\ i \in e+1..e+passed+1
            /\ src + (x - (dst + e)) = s
        BY <1>1, <1>2, <2>1, <2>6
      <3>2. b[i] = 0
        BY <1>10, <3>1
      <3> QED BY <1>1, <2>2, <2>3, <3>1, <3>2
    <2>7. CASE i \notin 1..e+passed+1
      <3>1. i \notin e+1..e+passed+1
        BY <1>1, <2>1, <2>7
      <3> QED BY <2>2, <2>3, <2>7, <3>1
    <2>8. i \in 1..e \/ i \in e+1..e+passed \/ i = e + passed + 1 \/ i \notin 1..e+passed+1
      BY <1>1, <2>1
    <2> QED BY <2>4, <2>5, <2>6, <2>7, <2>8
  <1>12. Len(b) \in Nat
    BY <1>1, <1>10
  <1>13. mem = With(dst, b)
    BY <1>1, <1>2, <1>11, <1>12, WithIs
  <1> QED BY <1>13 DEF b, h, f, g, dst, src

LEMMA StrncpyRight ==
  ASSUME StrInv, pc = "done", call.fn = "strncpy"
  PROVE  mem = With(call.dst, [k \in 1..call.n |->
                                 IF k <= Len(Str(call.src)) THEN Str(call.src)[k] ELSE 0])
  <1> DEFINE f == Str(src)
             l == StrLen(src)
  <1>1. /\ MemTypeOK /\ passed \in Nat /\ passed <= d - dst /\ NoNul(src, passed)
        /\ d - dst \in Nat /\ n = call.n - (d - dst) /\ n = 0
        /\ passed < d - dst => s \in Addr /\ call.mem[s] = 0
        /\ \A x \in Addr :
             mem[x] = IF x \notin dst..d-1 THEN call.mem[x]
                      ELSE IF x - dst < passed THEN call.mem[src + (x - dst)] ELSE 0
    BY DEF StrInv, Padding
  <1>2. dst \in Nat /\ src \in Nat /\ src + passed = s /\ MemSize \in Nat
        /\ d \in Int /\ s \in Int /\ call.n \in Nat
    BY <1>1, Pointers
  <1>3. d - dst = call.n /\ d - 1 = dst + call.n - 1
    BY <1>1, <1>2
  <1>4. src + passed <= MemSize
    <2>1. Bounded(call, src)
      BY <1>1, StringFacts
    <2>2. CASE Terminated(call, src)
      <3>1. src + passed \in Addr
        BY <1>1, <1>2, <2>2, Inside
      <3> QED BY <1>2, <3>1 DEF Addr
    <2>3. CASE src + call.n <= MemSize
      BY <1>1, <1>2, <1>3, <2>3
    <2> QED BY <2>1, <2>2, <2>3 DEF Bounded
  <1>5. l \in Nat /\ l >= passed
    BY <1>1, <1>2, <1>4, LenAtLeast
  <1>6. passed < call.n => l = passed
    <2> SUFFICES ASSUME passed < call.n PROVE l = passed
      OBVIOUS
    <2>1. s \in Addr /\ call.mem[s] = 0
      BY <1>1, <1>3
    <2>2. src + passed < MemSize
      BY <1>2, <2>1 DEF Addr
    <2> QED BY <1>1, <1>2, <2>1, <2>2, LenIs
  <1>7. src + l <= MemSize
    <2>1. src <= MemSize
      BY <1>1, <1>2, <1>4
    <2> QED BY <1>1, <1>2, <2>1, StrLenFacts
  <1>8. /\ Len(f) = l
        /\ \A i \in 1..l : f[i] = call.mem[src + i - 1]
    BY <1>1, <1>2, <1>5, <1>7, StrIs
  <1> HIDE DEF f, l
  <1> DEFINE b == [k \in 1..call.n |-> IF k <= Len(f) THEN f[k] ELSE 0]
  <1>9. Len(b) = call.n
    BY <1>2
  <1>10. \A k \in 1..call.n : b[k] = IF k <= l THEN f[k] ELSE 0
    BY <1>8
  <1> HIDE DEF b
  <1>11. ASSUME NEW x \in Addr
         PROVE  mem[x] = IF x - dst \in 0..Len(b)-1 THEN b[x - dst + 1] ELSE call.mem[x]
    <2> DEFINE i == x - dst + 1
    <2>1. x \in Int /\ i \in Int
      BY <1>2 DEF Addr
    <2>2. (x - dst \in 0..Len(b)-1 <=> i \in 1..call.n) /\ (x \in dst..d-1 <=> i \in 1..call.n)
      BY <1>2, <1>3, <1>9, <2>1
    <2>3. CASE i \in 1..call.n
      <3>1. i <= l <=> x - dst < passed
        BY <1>1, <1>2, <1>3, <1>5, <1>6, <2>1, <2>3
      <3>2. i <= l => i \in 1..l /\ src + i - 1 = src + (x - dst)
        BY <1>2, <1>5, <2>1, <2>3
      <3>3. b[i] = IF x - dst < passed THEN call.mem[src + (x - dst)] ELSE 0
        BY <1>8, <1>10, <2>3, <3>1, <3>2
      <3> QED BY <1>1, <2>2, <2>3, <3>3
    <2>4. CASE i \notin 1..call.n
      BY <1>1, <2>2, <2>4
    <2> QED BY <2>3, <2>4
  <1>12. mem = With(dst, b)
    BY <1>1, <1>2, <1>9, <1>11, WithIs
  <1> QED BY <1>12 DEF b, f, dst, src

LEMMA PrefixIs ==
  ASSUME NEW S, NEW f \in Seq(S), NEW k \in 0..Len(f)
  PROVE  /\ SubSeq(f, 1, k) \in Seq(S) /\ Len(SubSeq(f, 1, k)) = k
         /\ \A i \in 1..k : SubSeq(f, 1, k)[i] = f[i]
  OBVIOUS

(* What of the source strlcpy has room for. *)
Cut == SubSeq(Str(src), 1, Min({Len(Str(src)), call.n - 1}))

LEMMA StrlcpyRight ==
  ASSUME StrInv, pc = "done", call.fn = "strlcpy"
  PROVE  IF call.n = 0 THEN mem = call.mem /\ ret = 0
         ELSE mem = With(call.dst, Append(Cut, 0)) /\ ret = Len(Cut)
  <1> DEFINE f == Str(src)
             l == StrLen(src)
  <1>1. /\ MemTypeOK /\ passed \in Nat /\ NoNul(src, passed)
        /\ d = dst + passed /\ n = call.n - passed /\ (n > 0 \/ passed = 0) /\ ret = passed
        /\ n = 0 => Copied(dst, passed)
        /\ n > 0 =>
             /\ n = 1 \/ (s \in Addr /\ call.mem[s] = 0)
             /\ \A x \in Addr :
                  mem[x] = IF x = d THEN 0
                           ELSE IF x \in dst..d-1 THEN call.mem[src + (x - dst)]
                           ELSE call.mem[x]
    BY DEF StrInv, Cutting
  <1>2. dst \in Nat /\ src \in Nat /\ src + passed = s /\ MemSize \in Nat /\ n \in Nat
        /\ d \in Int /\ s \in Int /\ call.n \in Nat
        /\ mem \in [Addr -> Byte] /\ call.mem \in [Addr -> Byte]
    BY <1>1, Pointers
  <1>0. passed \in Nat /\ d = dst + passed /\ n = call.n - passed /\ (n > 0 \/ passed = 0)
    BY <1>1
  <1>3. CASE call.n = 0
    <2>1. passed = 0 /\ n = 0
      BY <1>0, <1>2, <1>3
    <2>2. \A x \in Addr : x \notin dst..dst+0-1
      BY <1>2 DEF Addr
    <2>3. \A x \in Addr : mem[x] = call.mem[x]
      BY <1>1, <2>1, <2>2 DEF Copied
    <2>4. mem = call.mem
      BY <1>2, <2>3
    <2> QED BY <1>1, <1>3, <2>1, <2>4
  <1>4. CASE call.n # 0
    <2>1. n > 0 /\ passed < call.n
      BY <1>0, <1>2, <1>4
    <2>2. Bounded(call, src)
      BY <1>1, StringFacts
    <2>3. src + passed \in Addr
      BY <1>1, <1>2, <2>1, <2>2, Inside
    <2>4. src + passed < MemSize /\ src + passed <= MemSize /\ src <= MemSize
      BY <1>0, <1>2, <2>3 DEF Addr
    <2>5. l \in Nat /\ l >= passed
      BY <1>1, <1>2, <2>4, LenAtLeast
    <2>6. call.mem[s] = 0 => l = passed
      BY <1>1, <1>2, <2>4, LenIs
    <2>7. src + l <= MemSize
      BY <1>1, <1>2, <2>4, StrLenFacts
    <2>8. /\ f \in Seq(Byte) /\ Len(f) = l
          /\ \A i \in 1..l : f[i] = call.mem[src + i - 1]
      BY <1>1, <1>2, <2>5, <2>7, StrIs
    <2>9. Min({l, call.n - 1}) = passed
      <3>1. call.n - 1 \in Int /\ l \in Int
        BY <1>2, <2>5
      <3>2. Min({l, call.n - 1}) = IF l <= call.n - 1 THEN l ELSE call.n - 1
        BY <3>1, MinOfTwo
      <3>3. n = 1 \/ l = passed
        BY <1>1, <2>1, <2>6
      <3>4. (IF l <= call.n - 1 THEN l ELSE call.n - 1) = passed
        <4> HIDE DEF l
        <4> QED BY <1>0, <1>2, <2>1, <2>5, <3>3
      <3> QED BY <3>2, <3>4
    <2> HIDE DEF f, l
    <2>10. Cut = SubSeq(f, 1, passed)
      BY <2>8, <2>9 DEF Cut, f
    <2>11. /\ Cut \in Seq(Byte) /\ Len(Cut) = passed
           /\ \A i \in 1..passed : Cut[i] = call.mem[src + i - 1]
      <3>1. passed \in 0..Len(f) /\ \A i \in 1..passed : i \in 1..l
        BY <1>0, <2>5, <2>8
      <3>2. /\ Cut \in Seq(Byte) /\ Len(Cut) = passed
            /\ \A i \in 1..passed : Cut[i] = f[i]
        BY <2>8, <2>10, <3>1, PrefixIs
      <3> QED BY <2>8, <3>1, <3>2
    <2> DEFINE b == Append(Cut, 0)
    <2>12. /\ Len(b) = passed + 1
           /\ \A i \in 1..passed+1 : b[i] = IF i <= passed THEN Cut[i] ELSE 0
      BY <2>11, AppendIs
    <2> HIDE DEF b
    <2>13. ASSUME NEW x \in Addr
           PROVE  mem[x] = IF x - dst \in 0..Len(b)-1 THEN b[x - dst + 1] ELSE call.mem[x]
      <3> DEFINE i == x - dst + 1
      <3>1. x \in Int /\ i \in Int
        BY <1>2 DEF Addr
      <3>2. /\ x - dst \in 0..Len(b)-1 <=> i \in 1..passed+1
            /\ x \in dst..d-1 <=> i \in 1..passed
            /\ x = d <=> i = passed + 1
        <4>1. Len(b) - 1 = passed /\ d - 1 = dst + passed - 1
          BY <1>0, <1>2, <2>12
        <4>2. x - dst \in 0..passed <=> i \in 1..passed+1
          BY <1>0, <1>2, <3>1
        <4>3. x \in dst..dst+passed-1 <=> i \in 1..passed
          BY <1>0, <1>2, <3>1
        <4>4. x = d <=> i = passed + 1
          BY <1>0, <1>2, <3>1
        <4> QED BY <4>1, <4>2, <4>3, <4>4
      <3>3. mem[x] = IF i = passed + 1 THEN 0
                     ELSE IF i \in 1..passed THEN call.mem[src + (x - dst)]
                     ELSE call.mem[x]
        BY <1>1, <2>1, <3>2
      <3>4. CASE i \in 1..passed
        <4>1. i \in 1..passed+1 /\ i <= passed /\ i # passed + 1
              /\ src + i - 1 = src + (x - dst)
          BY <1>0, <1>2, <3>1, <3>4
        <4> QED BY <2>11, <2>12, <3>2, <3>3, <3>4, <4>1
      <3>5. CASE i = passed + 1
        <4>1. i \in 1..passed+1 /\ ~(i <= passed)
          BY <1>0, <3>1, <3>5
        <4> QED BY <2>12, <3>2, <3>3, <3>5, <4>1
      <3>6. CASE i \notin 1..passed+1
        <4>1. i \notin 1..passed /\ i # passed + 1
          BY <1>0, <3>1, <3>6
        <4> QED BY <3>2, <3>3, <3>6, <4>1
      <3>7. i \in 1..passed \/ i = passed + 1 \/ i \notin 1..passed+1
        BY <1>0, <3>1
      <3> QED BY <3>4, <3>5, <3>6, <3>7
    <2>14. Len(b) \in Nat
      BY <1>0, <2>12
    <2>15. mem = With(dst, b)
      BY <1>1, <1>2, <2>13, <2>14, WithIs
    <2> QED BY <1>1, <1>4, <2>11, <2>15 DEF b, dst
  <1> QED BY <1>3, <1>4

LEMMA CopiesHold == StrInv => CopiesExact
  <1> SUFFICES ASSUME StrInv, pc = "done" PROVE CopiesExact
    BY DEF CopiesExact
  <1> DEFINE from == Str(call.src)
             cut  == SubSeq(from, 1, Min({Len(from), call.n - 1}))
  <1>1. call.fn = "strcpy" => mem = With(call.dst, Append(from, 0))
    BY StrcpyRight
  <1>2. call.fn = "strcat" => mem = With(call.dst, Append(Str(call.dst) \o from, 0))
    BY StrcatRight
  <1>3. call.fn = "strncpy" =>
          mem = With(call.dst, [k \in 1..call.n |-> IF k <= Len(from) THEN from[k] ELSE 0])
    BY StrncpyRight
  <1>4. call.fn = "strlcpy" =>
          IF call.n = 0 THEN mem = call.mem /\ ret = 0
          ELSE mem = With(call.dst, Append(cut, 0)) /\ ret = Len(cut)
    BY StrlcpyRight DEF Cut, src
  <1> QED BY <1>1, <1>2, <1>3, <1>4, Zenon DEF CopiesExact

(* Nothing is said of the strings while a memory function runs. *)
LEMMA OnlyStrings ==
  call.fn \in MemFns => CopiesExact /\ AnswersRight
  BY DEF CopiesExact, AnswersRight, MemFns

LEMMA OnlyMemory ==
  LibInv => MemExact
  BY DEF LibInv, MemInv, MemExact

-----------------------------------------------------------------------------
LEMMA LibraryInvariant == Spec => []LibInv
  BY LibInit, LibNext, PTL DEF Spec

(* In the whole library, too, memset fills and memmove and memcpy copy     *)
(* exactly the bytes they are asked to.                                    *)
THEOREM LibraryMemExact == Spec => []MemExact
  BY LibraryInvariant, OnlyMemory, PTL

(* strcpy, strcat, strncpy and strlcpy leave at the destination exactly    *)
(* the string their source held at the call, whole, joined, padded or cut, *)
(* with its NUL, and change no other byte: for every memory, every string  *)
(* in it and every legal overlap.                                          *)
THEOREM CopiesAreExact == Spec => []CopiesExact
  <1>1. LibInv => CopiesExact
    BY CopiesHold, OnlyStrings DEF LibInv
  <1> QED BY <1>1, LibraryInvariant, PTL

(* strlen, strnlen, the comparisons and the searches return what the       *)
(* strings in the memory say, for every memory, every pair of strings in   *)
(* it and every count.                                                     *)
THEOREM AnswersAreRight == Spec => []AnswersRight
  <1>1. LibInv => AnswersRight
    BY AnswersHold, OnlyStrings DEF LibInv
  <1> QED BY <1>1, LibraryInvariant, PTL

-----------------------------------------------------------------------------
(***************************************************************************)
(* Arithmetic modulo the width of a long.                                  *)
(***************************************************************************)
(* A remainder is told by its dividend and its range alone. *)
LEMMA Remainder ==
  ASSUME NEW M \in Nat \ {0}, NEW a \in Int
  PROVE  a = (M * (a \div M)) + (a % M) /\ a \div M \in Int /\ a % M \in 0..M-1
  OBVIOUS

LEMMA OneRemainder ==
  ASSUME NEW M \in Nat \ {0}, NEW q \in Int, NEW x \in 0..M-1, NEW k \in Int,
         NEW y \in 0..M-1, (M * q) + x = (M * k) + y
  PROVE  x = y
  OBVIOUS

LEMMA Multiples ==
  ASSUME NEW M \in Nat \ {0}, NEW a \in Int, NEW q \in Int
  PROVE  (a + (M * q)) % M = a % M
  <1> DEFINE b == a + (M * q)
  <1>1. M * q \in Int /\ b \in Int
    OBVIOUS
  <1>2. a = (M * (a \div M)) + (a % M) /\ a \div M \in Int /\ a % M \in 0..M-1
    BY Remainder
  <1>3. b = (M * (b \div M)) + (b % M) /\ b \div M \in Int /\ b % M \in 0..M-1
    BY <1>1, Remainder
  <1> DEFINE i == a \div M
             j == b \div M
             x == a % M
             y == b % M
  <1>4. b = a + (M * q)
    OBVIOUS
  <1> HIDE DEF b, i, j, x, y
  <1>5. /\ a = (M * i) + x /\ i \in Int /\ x \in 0..M-1
        /\ b = (M * j) + y /\ j \in Int /\ y \in 0..M-1
    BY <1>2, <1>3 DEF i, j, x, y
  <1>6. (M * (i + q)) + x = (M * j) + y
    BY <1>1, <1>4, <1>5
  <1>7. x = y
    <2>1. i + q \in Int
      BY <1>5
    <2> QED BY <1>5, <1>6, <2>1, OneRemainder
  <1> QED BY <1>7 DEF x, y, b

LEMMA WrapIs ==
  ASSUME NEW v \in Int
  PROVE  Wrap(v) \in Int /\ \E q \in Int : Wrap(v) = v + ((2 * LongHalf) * q)
  <1> DEFINE M == 2 * LongHalf
             a == v + LongHalf
             i == a \div M
             x == a % M
  <1>1. LongHalf \in Int /\ M \in Nat \ {0} /\ a \in Int
    BY StringAssumption
  <1>2. Wrap(v) = x - LongHalf
    BY DEF Wrap
  <1>3. a = v + LongHalf
    OBVIOUS
  <1> HIDE DEF M, a
  <1>4. a = (M * i) + x /\ i \in Int /\ x \in 0..M-1
    BY <1>1, Remainder
  <1> HIDE DEF i, x
  <1>5. x \in Int /\ -i \in Int /\ M * (-i) = -(M * i) /\ M * i \in Int
    BY <1>1, <1>4
  <1>6. Wrap(v) = v + (M * (-i)) /\ Wrap(v) \in Int
    BY <1>1, <1>2, <1>3, <1>4, <1>5
  <1> QED BY <1>5, <1>6 DEF M

LEMMA WrapMoved ==
  ASSUME NEW v \in Int, NEW q \in Int
  PROVE  Wrap(v + ((2 * LongHalf) * q)) = Wrap(v)
  <1> DEFINE M == 2 * LongHalf
  <1>1. LongHalf \in Int /\ M \in Nat \ {0} /\ v + LongHalf \in Int
    BY StringAssumption
  <1>2. (v + LongHalf + (M * q)) % M = (v + LongHalf) % M
    BY <1>1, Multiples
  <1>3. /\ Wrap(v + (M * q)) = ((v + (M * q) + LongHalf) % M) - LongHalf
        /\ Wrap(v) = ((v + LongHalf) % M) - LongHalf
    BY DEF Wrap
  <1> HIDE DEF M
  <1>4. v + (M * q) + LongHalf = v + LongHalf + (M * q)
    BY <1>1
  <1>5. Wrap(v + (M * q)) = Wrap(v)
    BY <1>2, <1>3, <1>4
  <1> QED BY <1>5 DEF M

(* Wrapping around after every digit comes to the same as doing it once. *)
LEMMA WrapOnce ==
  ASSUME NEW v \in Int, NEW B \in Int, NEW x \in Int
  PROVE  Wrap((Wrap(v) * B) + x) = Wrap((v * B) + x) /\ Wrap(-Wrap(v)) = Wrap(-v)
  <1> DEFINE M == 2 * LongHalf
  <1>1. M \in Int
    BY StringAssumption
  <1>2. PICK q \in Int : Wrap(v) = v + (M * q)
    BY WrapIs
  <1>3. /\ \A y, k \in Int : Wrap(y + (M * k)) = Wrap(y)
    BY WrapMoved
  <1> HIDE DEF M
  <1>4. /\ (Wrap(v) * B) + x = ((v * B) + x) + (M * (q * B))
        /\ (v * B) + x \in Int /\ q * B \in Int
    <2>1. M * q \in Int /\ q * B \in Int /\ v * B \in Int
      BY <1>1
    <2>2. (v + (M * q)) * B = (v * B) + ((M * q) * B)
      BY <1>1, <2>1
    <2>3. (M * q) * B = M * (q * B)
      BY <1>1
    <2>4. M * (q * B) \in Int
      BY <1>1, <2>1
    <2> HIDE DEF M
    <2> QED BY <1>2, <2>1, <2>2, <2>3, <2>4
  <1>5. -Wrap(v) = (-v) + (M * (-q)) /\ -v \in Int /\ -q \in Int
    BY <1>1, <1>2
  <1> QED BY <1>3, <1>4, <1>5

-----------------------------------------------------------------------------
(***************************************************************************)
(* The value of a row of digits: read from the left as strtol does, and as *)
(* the sum of the digits times their weights.                              *)
(***************************************************************************)
(* A function that is told by its first value and by each next one. *)
Recurs(u, m, a, B, c) ==
  /\ u \in [0..m -> Nat] /\ u[0] = a
  /\ \A k \in 1..m : u[k] = (u[k - 1] * B) + c[k]

LEMMA RecursMore ==
  ASSUME NEW m \in Nat, NEW a \in Nat, NEW B \in Nat, NEW c, NEW u,
         Recurs(u, m, a, B, c), c[m + 1] \in Nat
  PROVE  \E v : /\ Recurs(v, m + 1, a, B, c)
                /\ v[m + 1] = (u[m] * B) + c[m + 1]
  <1> DEFINE v == [k \in 0..m+1 |-> IF k <= m THEN u[k] ELSE (u[m] * B) + c[m + 1]]
  <1>1. /\ u \in [0..m -> Nat] /\ u[0] = a
        /\ \A k \in 1..m : u[k] = (u[k - 1] * B) + c[k]
    BY DEF Recurs
  <1>2. u[m] \in Nat /\ (u[m] * B) + c[m + 1] \in Nat
    <2>1. u[m] \in Nat
      BY <1>1
    <2>2. u[m] * B \in Nat
      BY <2>1
    <2> QED BY <2>1, <2>2
  <1>3. \A k \in 0..m+1 : IF k <= m THEN k \in 0..m /\ u[k] \in Nat ELSE k = m + 1
    BY <1>1
  <1>4. v \in [0..m+1 -> Nat]
    BY <1>2, <1>3
  <1>5. v[0] = a /\ v[m + 1] = (u[m] * B) + c[m + 1] /\ \A k \in 0..m : v[k] = u[k]
    BY <1>1
  <1> HIDE DEF v
  <1>6. ASSUME NEW k \in 1..m+1 PROVE v[k] = (v[k - 1] * B) + c[k]
    <2>1. CASE k \in 1..m
      <3>1. k \in 0..m /\ k - 1 \in 0..m
        BY <2>1
      <3> QED BY <1>1, <1>5, <2>1, <3>1
    <2>2. CASE k = m + 1
      <3>1. k - 1 = m /\ m \in 0..m
        BY <2>2
      <3>2. v[k - 1] = u[m]
        BY <1>5, <3>1
      <3> QED BY <1>5, <2>2, <3>2
    <2> QED BY <2>1, <2>2
  <1>7. Recurs(v, m + 1, a, B, c)
    BY <1>4, <1>5, <1>6 DEF Recurs
  <1> QED BY <1>5, <1>7

LEMMA RecursExists ==
  ASSUME NEW m \in Nat, NEW a \in Nat, NEW B \in Nat, NEW c \in [1..m -> Nat]
  PROVE  \E u : Recurs(u, m, a, B, c)
  <1> DEFINE T == {k \in 0..m : ~\E u : Recurs(u, k, a, B, c)}
  <1> SUFFICES ASSUME T # {} PROVE FALSE
    <2>1. m \in 0..m
      OBVIOUS
    <2> QED BY <2>1
  <1>1. PICK k \in T : \A y \in T : k <= y
    <2>1. T \in SUBSET Nat
      OBVIOUS
    <2> QED BY <2>1, Least
  <1>2. k # 0
    <2> DEFINE u == [y \in 0..0 |-> a]
    <2>1. u \in [0..0 -> Nat] /\ u[0] = a /\ \A y \in 1..0 : FALSE
      OBVIOUS
    <2>2. Recurs(u, 0, a, B, c)
      BY <2>1 DEF Recurs
    <2> QED BY <1>1, <2>2
  <1>3. k - 1 \in 0..m /\ k - 1 \in Nat /\ (k - 1) + 1 = k /\ k \in 1..m /\ ~(k <= k - 1)
    BY <1>1, <1>2
  <1>4. PICK u : Recurs(u, k - 1, a, B, c)
    BY <1>1, <1>3
  <1>5. c[(k - 1) + 1] \in Nat
    BY <1>3
  <1>6. \E v : Recurs(v, (k - 1) + 1, a, B, c)
    BY <1>3, <1>4, <1>5, RecursMore
  <1> QED BY <1>1, <1>3, <1>6

(* Reading digits from the left, each one after B times what was read, and *)
(* adding them up from the right, each one times its weight.               *)
Weighs(wt, m, B) ==
  wt \in [0..m -> Nat] /\ wt[0] = 1 /\ \A k \in 1..m : wt[k] = wt[k - 1] * B

AddsUp(lst, m, c, wt) ==
  /\ lst \in [0..m -> Nat] /\ lst[0] = 0
  /\ \A k \in 1..m : lst[k] = lst[k - 1] + (c[m - k + 1] * wt[k - 1])

BothWays(m, B, c, h, wt, lst) ==
  /\ m \in Nat /\ B \in Nat /\ c \in [1..m -> Nat]
  /\ Recurs(h, m, 0, B, c) /\ Weighs(wt, m, B) /\ AddsUp(lst, m, c, wt)

LEMMA PlaceValue ==
  ASSUME NEW m, NEW B, NEW c, NEW h, NEW wt, NEW lst, BothWays(m, B, c, h, wt, lst)
  PROVE  lst[m] = h[m]
  <1> USE DEF BothWays, Weighs, AddsUp
  <1> DEFINE T == {k \in 0..m : (h[m - k] * wt[k]) + lst[k] # h[m]}
  <1>1. /\ h \in [0..m -> Nat] /\ h[0] = 0
        /\ \A k \in 1..m : h[k] = (h[k - 1] * B) + c[k]
    BY DEF Recurs
  <1>2. T = {}
    <2> SUFFICES ASSUME T # {} PROVE FALSE
      OBVIOUS
    <2>1. PICK k \in T : \A y \in T : k <= y
      <3>1. T \in SUBSET Nat
        OBVIOUS
      <3> QED BY <3>1, Least
    <2>2. k \in 0..m /\ (h[m - k] * wt[k]) + lst[k] # h[m]
      BY <2>1
    <2>3. k # 0
      <3>1. h[m] \in Nat /\ m - 0 = m
        BY <1>1
      <3>2. (h[m] * 1) + 0 = h[m]
        BY <3>1
      <3> QED BY <2>2, <3>1, <3>2
    <2>4. /\ k \in 1..m /\ k - 1 \in 0..m /\ ~(k <= k - 1)
          /\ m - k + 1 \in 1..m /\ m - k \in 0..m /\ m - (k - 1) = m - k + 1
          /\ (m - k + 1) - 1 = m - k
      BY <2>2, <2>3
    <2>5. (h[m - (k - 1)] * wt[k - 1]) + lst[k - 1] = h[m]
      BY <2>1, <2>4
    <2>6. h[m - k + 1] = (h[m - k] * B) + c[m - k + 1]
      BY <1>1, <2>4
    <2>7. wt[k] = wt[k - 1] * B /\ lst[k] = lst[k - 1] + (c[m - k + 1] * wt[k - 1])
      BY <2>4
    <2> DEFINE x == h[m - k]
               y == c[m - k + 1]
               z == wt[k - 1]
               o == lst[k - 1]
    <2>8. x \in Nat /\ y \in Nat /\ z \in Nat /\ o \in Nat
      BY <1>1, <2>4
    <2>9. (((x * B) + y) * z) + o = h[m]
      BY <2>4, <2>5, <2>6
    <2>10. (x * (z * B)) + (o + (y * z)) # h[m]
      BY <2>2, <2>7
    <2> HIDE DEF x, y, z, o
    <2>11. ((x * B) + y) * z = (x * (z * B)) + (y * z)
      BY <2>8
    <2>12. x * (z * B) \in Nat /\ y * z \in Nat
      <3>1. z * B \in Nat /\ y * z \in Nat
        BY <2>8
      <3> QED BY <2>8, <3>1
    <2> QED BY <2>8, <2>9, <2>10, <2>11, <2>12
  <1>3. (h[m - m] * wt[m]) + lst[m] = h[m]
    <2>1. m \in 0..m
      OBVIOUS
    <2> QED BY <1>2, <2>1
  <1>4. m - m = 0 /\ wt[m] \in Nat /\ lst[m] \in Nat /\ h[m - m] = 0
    BY <1>1
  <1>5. h[m - m] * wt[m] = 0
    BY <1>4
  <1>6. 0 + lst[m] = h[m]
    BY <1>3, <1>5
  <1> QED BY <1>4, <1>6

LEMMA StaysNat ==
  ASSUME NEW m \in Nat, NEW f, f[0] \in Nat,
         \A k \in 1..m : f[k - 1] \in Nat => f[k] \in Nat
  PROVE  \A k \in 0..m : f[k] \in Nat
  <1> DEFINE T == {k \in 0..m : f[k] \notin Nat}
  <1> SUFFICES ASSUME T # {} PROVE FALSE
    OBVIOUS
  <1>1. PICK k \in T : \A y \in T : k <= y
    <2>1. T \in SUBSET Nat
      OBVIOUS
    <2> QED BY <2>1, Least
  <1>2. k \in 0..m /\ f[k] \notin Nat
    BY <1>1
  <1>3. k \in 1..m /\ k - 1 \in 0..m /\ ~(k <= k - 1)
    BY <1>2
  <1> QED BY <1>1, <1>2, <1>3

LEMMA DigitType ==
  ASSUME NEW ch \in Int, NEW B \in Nat
  PROVE  Digit(ch, B) \in Nat
  <1>1. ch \in 48..57 => ch - 48 \in Nat
    OBVIOUS
  <1>2. ch \in 97..122 => ch - 97 + 10 \in Nat
    OBVIOUS
  <1>3. ch \in 65..90 => ch - 65 + 10 \in Nat
    OBVIOUS
  <1> QED BY <1>1, <1>2, <1>3 DEF Digit

(* The digits of the text from b on. *)
DigitsFrom(b, m, B) == [k \in 1..m |-> Digit(call.mem[b + k - 1], B)]

Reads(h, b, m, B) == Recurs(h, m, 0, B, DigitsFrom(b, m, B))

LEMMA ValueIs ==
  ASSUME MemTypeOK, NEW b \in Nat, NEW e \in Nat, b <= e, e <= MemSize, NEW B \in Nat,
         NEW h, Reads(h, b, e - b, B)
  PROVE  Value(b, e, B) = h[e - b]
  <1> DEFINE m  == e - b
             c  == DigitsFrom(b, m, B)
             wt == CHOOSE wt : wt = [k \in 0..e-b |-> IF k = 0 THEN 1 ELSE wt[k - 1] * B]
             lst == CHOOSE lst : lst = [k \in 0..e-b |->
                      IF k = 0 THEN 0
                      ELSE lst[k - 1] + (Digit(call.mem[e - k], B) * wt[k - 1])]
  <1>1. Value(b, e, B) = lst[m]
    BY Zenon DEF Value
  <1>2. m \in Nat /\ call.mem \in [Addr -> Byte] /\ MemSize \in Nat /\ b + m = e
    BY Pointers
  <1>3. m = e - b
    OBVIOUS
  <1> HIDE DEF m, wt, lst
  <1>4. ASSUME NEW k \in 1..m PROVE c[k] \in Nat /\ c[m - k + 1] = Digit(call.mem[e - k], B)
    <2>1. b + k - 1 \in Addr /\ m - k + 1 \in 1..m /\ b + (m - k + 1) - 1 = e - k
      BY <1>2 DEF Addr
    <2>2. call.mem[b + k - 1] \in Int
      BY <1>2, <2>1 DEF Byte
    <2>3. Digit(call.mem[b + k - 1], B) \in Nat
      BY <2>2, DigitType
    <2> QED BY <2>1, <2>3 DEF DigitsFrom
  <1>5. c \in [1..m -> Nat]
    BY <1>4 DEF DigitsFrom
  <1> HIDE DEF c
  <1>6. Weighs(wt, m, B)
    <2> DEFINE zero == [k \in 1..m |-> 0]
    <2>1. PICK u : Recurs(u, m, 1, B, zero)
      BY <1>2, RecursExists
    <2>2. /\ u \in [0..m -> Nat] /\ u[0] = 1
          /\ \A k \in 1..m : u[k] = (u[k - 1] * B) + 0
      BY <2>1 DEF Recurs
    <2>3. ASSUME NEW k \in 1..m PROVE u[k] = u[k - 1] * B
      <3>1. u[k - 1] \in Nat
        BY <1>2, <2>2
      <3>2. u[k - 1] * B \in Nat
        BY <3>1
      <3> QED BY <2>2, <3>2
    <2>4. \A k \in 0..m : k # 0 => k \in 1..m
      BY <1>2
    <2>5. u = [k \in 0..m |-> IF k = 0 THEN 1 ELSE u[k - 1] * B]
      BY <2>2, <2>3, <2>4
    <2>6. wt = [k \in 0..m |-> IF k = 0 THEN 1 ELSE wt[k - 1] * B]
      BY <1>3, <2>5, Zenon DEF wt
    <2> HIDE DEF wt
    <2>7. wt[0] = 1 /\ \A k \in 1..m : wt[k] = wt[k - 1] * B
      BY <1>2, <2>4, <2>6
    <2>8. ASSUME NEW k \in 1..m, wt[k - 1] \in Nat PROVE wt[k] \in Nat
      <3>1. wt[k - 1] * B \in Nat
        BY <2>8
      <3> QED BY <2>7, <3>1
    <2>9. \A k \in 0..m : wt[k] \in Nat
      BY <1>2, <2>7, <2>8, StaysNat
    <2>10. wt \in [0..m -> Nat]
      BY <2>6, <2>9
    <2> QED BY <2>7, <2>10 DEF Weighs
  <1>7. AddsUp(lst, m, c, wt)
    <2> DEFINE g == [k \in 1..m |-> c[m - k + 1] * wt[k - 1]]
    <2>0. ASSUME NEW k \in 1..m
          PROVE  /\ g[k] = c[m - k + 1] * wt[k - 1] /\ g[k] \in Nat
                 /\ g[k] = Digit(call.mem[e - k], B) * wt[k - 1]
      <3>1. m - k + 1 \in 1..m /\ k - 1 \in 0..m
        BY <1>2
      <3>2. c[m - k + 1] \in Nat /\ wt[k - 1] \in Nat
        BY <1>5, <1>6, <3>1 DEF Weighs
      <3>3. c[m - k + 1] * wt[k - 1] \in Nat
        BY <3>2
      <3> QED BY <1>4, <3>3
    <2>1. g \in [1..m -> Nat]
      BY <2>0
    <2> HIDE DEF g
    <2>2. PICK u : Recurs(u, m, 0, 1, g)
      BY <1>2, <2>1, RecursExists
    <2>3. /\ u \in [0..m -> Nat] /\ u[0] = 0
          /\ \A k \in 1..m : u[k] = (u[k - 1] * 1) + g[k]
      BY <2>2 DEF Recurs
    <2>4. ASSUME NEW k \in 1..m
          PROVE  u[k] = u[k - 1] + (Digit(call.mem[e - k], B) * wt[k - 1])
      <3>1. u[k - 1] \in Nat
        BY <1>2, <2>3
      <3> QED BY <2>0, <2>3, <3>1
    <2>5. \A k \in 0..m : k # 0 => k \in 1..m
      BY <1>2
    <2>6. u = [k \in 0..m |-> IF k = 0 THEN 0
                 ELSE u[k - 1] + (Digit(call.mem[e - k], B) * wt[k - 1])]
      BY <2>3, <2>4, <2>5
    <2>7. lst = [k \in 0..m |-> IF k = 0 THEN 0
                 ELSE lst[k - 1] + (Digit(call.mem[e - k], B) * wt[k - 1])]
      BY <1>3, <2>6, Zenon DEF lst
    <2> HIDE DEF lst
    <2>8. /\ lst[0] = 0
          /\ \A k \in 1..m : lst[k] = lst[k - 1] + g[k]
      BY <1>2, <2>0, <2>5, <2>7
    <2>9. ASSUME NEW k \in 1..m, lst[k - 1] \in Nat PROVE lst[k] \in Nat
      BY <2>0, <2>8, <2>9
    <2>10. \A k \in 0..m : lst[k] \in Nat
      BY <1>2, <2>8, <2>9, StaysNat
    <2>11. lst \in [0..m -> Nat]
      BY <2>7, <2>10
    <2> QED BY <2>0, <2>8, <2>11 DEF AddsUp
  <1>8. Recurs(h, m, 0, B, c)
    BY <1>3 DEF Reads, c
  <1>9. lst[m] = h[m]
    <2>1. BothWays(m, B, c, h, wt, lst)
      BY <1>2, <1>5, <1>6, <1>7, <1>8 DEF BothWays
    <2> QED BY <2>1, PlaceValue
  <1> QED BY <1>1, <1>3, <1>9

-----------------------------------------------------------------------------
(***************************************************************************)
(* strtol.  Before the digits, blanks only have been passed; among them,   *)
(* what was read so far is the value of the digits passed, wrapped around. *)
(* The text's NUL is ahead, because it is neither blank, nor part of a     *)
(* prefix, nor a digit.                                                    *)
(***************************************************************************)
Ahead == \E z \in s..MemSize-1 : call.mem[z] = 0

Skipping ==
  pc \in {"strtol", "sign"} =>
    /\ src <= s /\ Ahead /\ n = call.n /\ val = 0
    /\ \A k \in src..s-1 : call.mem[k] \in {32, 9}
    /\ pc = "sign" => call.mem[s] \notin {32, 9}

Passed(w, g, b, B) ==
  /\ w \in src..MemSize-1 /\ g \in w..w+1 /\ b \in g..g+2 /\ B \in {8, 10, 16, call.n}
  /\ Begins(w, g, b, B)
  /\ b <= s /\ \A k \in b..s-1 : Digit(call.mem[k], B) < B

IsRead(v, b, e, B) == \E h : Reads(h, b, e - b, B) /\ v = Wrap(h[e - b])

Reading ==
  pc = "digits" =>
    /\ Ahead
    /\ \E w, g, b : /\ Passed(w, g, b, n) /\ IsRead(val, b, s, n)
                    /\ neg = (call.mem[w] = 45)

NumInv == call.fn = "strtol" => mem = call.mem /\ Skipping /\ Reading /\ StrtolRight

LEMMA InText ==
  ASSUME MemTypeOK, Ahead
  PROVE  /\ s <= MemSize - 1
         /\ call.mem[s] # 0 => \E z \in s+1..MemSize-1 : call.mem[z] = 0
  <1>1. MemSize \in Nat /\ s \in Int
    BY Pointers
  <1>2. PICK z \in s..MemSize-1 : call.mem[z] = 0
    BY DEF Ahead
  <1>3. z # s => z \in s+1..MemSize-1
    BY <1>1
  <1> QED BY <1>1, <1>2, <1>3

LEMMA BlankStep ==
  ASSUME MemTypeOK, NumInv, call.fn = "strtol", strtol
  PROVE  NumInv'
  <1>1. /\ mem = call.mem /\ src <= s /\ Ahead /\ n = call.n /\ val = 0
        /\ \A k \in src..s-1 : call.mem[k] \in {32, 9}
    BY DEF NumInv, Skipping, strtol
  <1>2. s \in Int /\ src \in Nat /\ MemSize \in Nat
    BY Pointers
  <1>3. call' = call /\ mem' = mem /\ src' = src
    BY DEF strtol, Turn, Goto, src
  <1>4. CASE mem[s] \in {32, 9}
    <2>1. s' = s + 1 /\ n' = n /\ val' = val /\ pc' = "strtol"
      BY <1>2, <1>4, Pointers DEF strtol, Turn
    <2>2. call.mem[s] # 0
      BY <1>1, <1>4
    <2>3. Ahead'
      BY <1>1, <1>3, <2>1, <2>2, InText DEF Ahead
    <2>4. ASSUME NEW k \in src..s PROVE call.mem[k] \in {32, 9}
      <3>1. k = s \/ k \in src..s-1
        BY <1>2
      <3> QED BY <1>1, <1>4, <3>1
    <2>5. (s + 1) - 1 = s /\ src <= s + 1
      BY <1>1, <1>2
    <2>6. \A k \in src'..s'-1 : call'.mem[k] \in {32, 9}
      BY <1>3, <2>1, <2>4, <2>5
    <2>7. Skipping'
      BY <1>1, <1>3, <2>1, <2>3, <2>5, <2>6 DEF Skipping
    <2> QED BY <1>1, <1>3, <2>1, <2>7 DEF NumInv, Reading, StrtolRight
  <1>5. CASE mem[s] \notin {32, 9}
    <2>1. s' = s /\ n' = n /\ val' = val /\ pc' = "sign"
      BY <1>5 DEF strtol, Goto
    <2>2. Skipping'
      BY <1>1, <1>3, <1>5, <2>1 DEF Skipping, Ahead
    <2> QED BY <1>1, <1>3, <2>1, <2>2 DEF NumInv, Reading, StrtolRight
  <1> QED BY <1>4, <1>5

LEMMA WrapZero == Wrap(0) = 0
  <1> DEFINE M == 2 * LongHalf
             i == LongHalf \div M
             x == LongHalf % M
  <1>1. LongHalf \in 0..M-1 /\ M \in Nat \ {0} /\ LongHalf \in Int
    BY StringAssumption
  <1>2. Wrap(0) = x - LongHalf
    BY <1>1 DEF Wrap
  <1> HIDE DEF M
  <1>3. LongHalf = (M * i) + x /\ i \in Int /\ x \in 0..M-1
    BY <1>1, Remainder
  <1> HIDE DEF i, x
  <1>4. (M * i) + x = (M * 0) + LongHalf
    BY <1>1, <1>3
  <1>5. x = LongHalf
    BY <1>1, <1>3, <1>4, OneRemainder
  <1> QED BY <1>1, <1>2, <1>5

(* No digit has been read. *)
LEMMA NothingRead ==
  ASSUME NEW b \in Nat, NEW B \in Nat
  PROVE  IsRead(0, b, b, B)
  <1> DEFINE h == [k \in 0..0 |-> 0]
  <1>1. h \in [0..0 -> Nat] /\ h[0] = 0 /\ (\A k \in 1..0 : FALSE) /\ b - b = 0
    OBVIOUS
  <1>2. Reads(h, b, 0, B)
    BY <1>1 DEF Reads, Recurs
  <1> QED BY <1>1, <1>2, WrapZero DEF IsRead

LEMMA PrefixStep ==
  ASSUME MemTypeOK, NumInv, call.fn = "strtol", SignAndBase
  PROVE  NumInv'
  <1>1. /\ mem = call.mem /\ src <= s /\ Ahead /\ n = call.n /\ val = 0
        /\ \A k \in src..s-1 : call.mem[k] \in {32, 9}
        /\ call.mem[s] \notin {32, 9}
    BY DEF NumInv, Skipping, SignAndBase
  <1>2. s \in Nat /\ src \in Nat /\ MemSize \in Nat /\ n \in Nat
    BY <1>1, Pointers
  <1>3. /\ call' = call /\ mem' = mem /\ src' = src /\ pc' = "digits" /\ val' = val
        /\ neg' = (mem[s] = 45)
    BY DEF SignAndBase, src
  <1>4. PICK z \in s..MemSize-1 : call.mem[z] = 0
    BY <1>1 DEF Ahead
  <1> DEFINE a == IF mem[s] \in {43, 45} THEN s + 1 ELSE s
             hex == n \in {0, 16} /\ mem[a] = 48 /\ mem[a + 1] = 120
  <1>5. \/ hex /\ s' = a + 2 /\ n' = 16
        \/ ~hex /\ n = 0 /\ mem[a] = 48 /\ s' = a + 1 /\ n' = 8
        \/ ~hex /\ n = 0 /\ mem[a] # 48 /\ s' = a /\ n' = 10
        \/ ~hex /\ n # 0 /\ s' = a /\ n' = n
    BY DEF SignAndBase, Octal
  <1>6. a \in s..s+1 /\ a \in Nat /\ a = s + (IF mem[s] \in {43, 45} THEN 1 ELSE 0)
    BY <1>2
  <1>7. a <= z
    <2>1. mem[s] \in {43, 45} => z # s
      BY <1>1, <1>4
    <2> QED BY <1>2, <1>4, <2>1
  <1> HIDE DEF a
  <1>8. (mem[a] = 48 => a + 1 <= z) /\ (mem[a] = 48 /\ mem[a + 1] = 120 => a + 2 <= z)
    <2>1. (mem[a] = 48 => z # a) /\ (mem[a + 1] = 120 => z # a + 1)
      BY <1>1, <1>4
    <2> QED BY <1>4, <1>6, <1>7, <2>1
  <1>9. s' \in a..a+2 /\ s' \in Nat /\ s' <= z /\ n' \in {8, 10, 16, call.n} /\ n' \in Nat
    BY <1>1, <1>2, <1>5, <1>6, <1>7, <1>8
  <1>10. Ahead'
    <2>1. z \in s'..MemSize-1
      BY <1>2, <1>4, <1>9
    <2> QED BY <1>3, <1>4, <2>1 DEF Ahead
  <1>11. PICK w, b, B : w = s /\ b = s' /\ B = n'
    OBVIOUS
  <1>12. /\ w \in src..MemSize-1 /\ a \in w..w+1 /\ b \in a..a+2 /\ b \in Nat
         /\ B \in {8, 10, 16, call.n} /\ B \in Nat /\ a \in Nat
    <2>1. s \in src..MemSize-1
      BY <1>1, <1>2, <1>4
    <2> QED BY <1>6, <1>9, <1>11, <2>1
  <1>13. Begins(w, a, b, B)
    BY <1>1, <1>5, <1>6, <1>11 DEF Begins, src
  <1>14. PICK g : g = a
    OBVIOUS
  <1>15. Begins(w, g, b, B)'
    BY <1>3, <1>13, <1>14 DEF Begins
  <1>16. b <= b /\ \A k \in b..b-1 : FALSE
    BY <1>12
  <1>17. Passed(w, g, b, B)'
    BY <1>3, <1>11, <1>12, <1>14, <1>15, <1>16 DEF Passed
  <1>18. IsRead(val, b, s, B)'
    <2>1. IsRead(0, b, b, B)
      BY <1>12, NothingRead
    <2>2. val' = 0 /\ s' = b /\ call' = call
      BY <1>1, <1>3, <1>11
    <2> QED BY <2>1, <2>2 DEF IsRead, Reads, DigitsFrom
  <1>19. Reading'
    BY <1>1, <1>3, <1>10, <1>11, <1>17, <1>18 DEF Reading
  <1> QED BY <1>1, <1>3, <1>19 DEF NumInv, Skipping, StrtolRight

(* One digit more. *)
LEMMA ReadsMore ==
  ASSUME NEW b \in Nat, NEW e \in Nat, b <= e, NEW B \in Nat, NEW v, IsRead(v, b, e, B),
         Digit(call.mem[e], B) \in Nat
  PROVE  IsRead(Wrap((v * B) + Digit(call.mem[e], B)), b, e + 1, B)
  <1> DEFINE m == e - b
             c == DigitsFrom(b, m + 1, B)
             x == Digit(call.mem[e], B)
  <1>1. PICK h : Reads(h, b, m, B) /\ v = Wrap(h[m])
    BY DEF IsRead
  <1>2. m \in Nat /\ (e + 1) - b = m + 1 /\ b + (m + 1) - 1 = e /\ m + 1 \in 1..m+1
    OBVIOUS
  <1> HIDE DEF m
  <1>3. c[m + 1] = x
    BY <1>2 DEF DigitsFrom
  <1>4. \A k \in 1..m : c[k] = DigitsFrom(b, m, B)[k]
    BY <1>2 DEF DigitsFrom
  <1> HIDE DEF c
  <1>5. Recurs(h, m, 0, B, c) /\ h[m] \in Nat
    <2>1. Recurs(h, m, 0, B, DigitsFrom(b, m, B))
      BY <1>1 DEF Reads
    <2> QED BY <1>2, <1>4, <2>1 DEF Recurs
  <1>6. PICK q : Recurs(q, m + 1, 0, B, c) /\ q[m + 1] = (h[m] * B) + x
    BY <1>2, <1>3, <1>5, RecursMore
  <1> HIDE DEF x
  <1>7. x \in Int
    BY DEF x
  <1>8. Wrap((v * B) + x) = Wrap(q[m + 1])
    BY <1>1, <1>5, <1>6, <1>7, WrapOnce
  <1>9. Reads(q, b, m + 1, B)
    BY <1>6 DEF Reads, c
  <1> QED BY <1>2, <1>8, <1>9 DEF IsRead, x

LEMMA DigitsStep ==
  ASSUME MemTypeOK, NumInv, call.fn = "strtol", Digits
  PROVE  NumInv'
  <1>1. mem = call.mem /\ Ahead /\ pc = "digits"
    BY DEF NumInv, Reading, Digits
  <1>2. PICK w, g, b : /\ Passed(w, g, b, n) /\ IsRead(val, b, s, n)
                       /\ neg = (call.mem[w] = 45)
    BY DEF NumInv, Reading, Digits
  <1>3. PICK B : B = n
    OBVIOUS
  <1>4. /\ w \in src..MemSize-1 /\ g \in w..w+1 /\ b \in g..g+2
        /\ B \in {8, 10, 16, call.n} /\ Begins(w, g, b, B)
        /\ b <= s /\ \A k \in b..s-1 : Digit(call.mem[k], B) < B
    BY <1>2, <1>3 DEF Passed
  <1>5. /\ src \in Nat /\ MemSize \in Nat /\ B \in Nat /\ s \in Int
        /\ call.mem \in [Addr -> Byte] /\ s <= MemSize - 1
    BY <1>1, <1>3, Pointers, InText
  <1>6. b \in Nat /\ s \in Nat /\ s \in Addr
    BY <1>4, <1>5 DEF Addr
  <1>7. Digit(call.mem[s], B) \in Nat
    <2>1. call.mem[s] \in Int
      BY <1>5, <1>6 DEF Byte
    <2> QED BY <1>5, <2>1, DigitType
  <1>8. call' = call /\ mem' = mem /\ src' = src /\ n' = n /\ neg' = neg
    BY DEF Digits, Return, src
  <1>9. Begins(w, g, b, B)'
    BY <1>4, <1>8 DEF Begins
  <1>10. CASE Digit(mem[s], n) < n
    <2>1. s' = s + 1 /\ val' = Wrap((val * n) + Digit(mem[s], n)) /\ pc' = pc
      BY <1>10 DEF Digits
    <2>2. call.mem[s] # 0
      <3>1. Digit(0, n) = n
        BY DEF Digit
      <3> QED BY <1>1, <1>3, <1>5, <1>10, <3>1
    <2>3. Ahead'
      BY <1>1, <1>8, <2>1, <2>2, InText DEF Ahead
    <2>4. IsRead(Wrap((val * B) + Digit(call.mem[s], B)), b, s + 1, B)
      BY <1>2, <1>3, <1>4, <1>5, <1>6, <1>7, ReadsMore
    <2>5. IsRead(val, b, s, B)'
      BY <1>1, <1>3, <1>8, <2>1, <2>4 DEF IsRead, Reads, DigitsFrom
    <2>6. b <= s + 1 /\ \A k \in b..(s + 1) - 1 : Digit(call.mem[k], B) < B
      <3>1. \A k \in b..(s + 1) - 1 : k = s \/ k \in b..s-1
        BY <1>6
      <3> QED BY <1>1, <1>3, <1>4, <1>6, <1>10, <3>1
    <2>7. Passed(w, g, b, B)'
      BY <1>4, <1>8, <1>9, <2>1, <2>6 DEF Passed
    <2>8. n' = B /\ neg' = (call'.mem[w] = 45)
      BY <1>2, <1>3, <1>8
    <2>9. Reading'
      BY <2>3, <2>5, <2>7, <2>8 DEF Reading
    <2> QED BY <1>1, <1>8, <2>1, <2>9 DEF NumInv, Skipping, StrtolRight
  <1>11. CASE ~(Digit(mem[s], n) < n)
    <2>1. /\ s' = s /\ val' = val /\ pc' = "done"
          /\ ret' = IF neg THEN Wrap(-val) ELSE val
      BY <1>11 DEF Digits, Return
    <2>2. PICK h : Reads(h, b, s - b, B) /\ val = Wrap(h[s - b])
      BY <1>2, <1>3 DEF IsRead
    <2>3. Value(b, s, B) = h[s - b]
      <3>1. s <= MemSize
        BY <1>5
      <3> QED BY <1>4, <1>5, <1>6, <2>2, <3>1, ValueIs
    <2>4. h[s - b] \in Int
      <3>1. s - b \in Nat
        BY <1>4, <1>6
      <3>2. h \in [0..s-b -> Nat]
        BY <2>2 DEF Reads, Recurs
      <3> QED BY <3>1, <3>2
    <2>5. Wrap(-val) = Wrap(-Value(b, s, B)) /\ val = Wrap(Value(b, s, B))
      BY <2>2, <2>3, <2>4, WrapOnce
    <2>6. ret' = Wrap(IF call.mem[w] = 45 THEN -Value(b, s, B) ELSE Value(b, s, B))
      BY <1>2, <2>1, <2>5
    <2>7. PICK e : e = s
      OBVIOUS
    <2>8. /\ s' = e /\ e \in b..MemSize-1 /\ \A k \in b..e-1 : Digit(call.mem[k], B) < B
          /\ Digit(call.mem[e], B) >= B
      BY <1>1, <1>3, <1>4, <1>5, <1>6, <1>7, <1>11, <2>1, <2>7
    <2>9. Value(b, e, B)' = Value(b, e, B)
      BY <1>8 DEF Value
    <2>10. StrtolRight'
      BY <1>4, <1>8, <1>9, <2>6, <2>7, <2>8, <2>9 DEF StrtolRight, src
    <2> QED BY <1>1, <1>8, <2>1, <2>10 DEF NumInv, Skipping, Reading
  <1> QED BY <1>10, <1>11

LEMMA NumInit == Init => NumInv
  <1> SUFFICES ASSUME Init, call.fn = "strtol" PROVE NumInv
    BY DEF NumInv
  <1>1. /\ mem = call.mem /\ pc = "strtol" /\ s = src /\ n = call.n /\ val = 0
        /\ call \in Calls
    BY DEF Init, MemInit, src
  <1>2. Terminated(call, src) /\ src \in Nat
    BY <1>1, StringAssumption, MemAssumption DEF src
  <1>3. Ahead /\ src <= s /\ \A k \in src..s-1 : FALSE
    BY <1>1, <1>2 DEF Ahead, Terminated
  <1> QED BY <1>1, <1>3 DEF NumInv, Skipping, Reading, StrtolRight

LEMMA NumNext == LibInv /\ NumInv /\ [Next]_vars => NumInv'
  <1> SUFFICES ASSUME LibInv, NumInv, [Next]_vars PROVE NumInv'
    OBVIOUS
  <1>1. call' = call
    <2>1. MemStep => call' = call
      BY DEF MemStep, memset, RepStos, memmove, memcpy, RepMovsUp, RepMovsDown, RepEnds
    <2>2. Next => MemStep \/ call' = call
      BY OwnLoops DEF Next, Step, Done, vars, memVars
    <2> QED BY <2>1, <2>2 DEF vars, memVars
  <1> SUFFICES ASSUME call.fn = "strtol" PROVE NumInv'
    BY <1>1 DEF NumInv
  <1>2. MemTypeOK /\ pc \in {"strtol", "sign", "digits", "done"}
    <2>1. StrInv
      BY DEF LibInv, MemFns
    <2> QED BY <2>1 DEF StrInv, PlaceOK
  <1>3. ~MemStep
    BY <1>2 DEF MemStep, memset, RepStos, memmove, memcpy, RepMovsUp, RepMovsDown,
                RepEnds, RepLoop
  <1>4. ~(strlen \/ strnlen \/ strcpy \/ strcat \/ strncpy \/ strlcpy)
    BY <1>2 DEF strlen, strnlen, strcpy, strcat, strncpy, strlcpy
  <1>5. ~(strcmp \/ strncmp \/ strchr \/ strfind \/ memcmp \/ memfind)
    BY <1>2 DEF strcmp, strncmp, strchr, strfind, memcmp, memfind
  <1>6. strtol \/ SignAndBase \/ Digits \/ UNCHANGED vars
    BY <1>3, <1>4, <1>5 DEF Next, Step, Done
  <1>7. CASE UNCHANGED vars
    <2>1. /\ mem' = mem /\ call' = call /\ pc' = pc /\ s' = s /\ n' = n /\ ret' = ret
          /\ val' = val /\ neg' = neg /\ src' = src
      BY <1>7 DEF vars, memVars, src
    <2>2. Skipping => Skipping'
      BY <2>1 DEF Skipping, Ahead
    <2>3. \A w, g, b, B : /\ Begins(w, g, b, B) => Begins(w, g, b, B)'
                          /\ Value(w, b, B)' = Value(w, b, B)
      BY <2>1 DEF Begins, Value
    <2>4. \A w, g, b, B : Passed(w, g, b, B) => Passed(w, g, b, B)'
      BY <2>1, <2>3 DEF Passed
    <2>5. \A v, b, e, B : IsRead(v, b, e, B) => IsRead(v, b, e, B)'
      BY <2>1 DEF IsRead, Reads, DigitsFrom
    <2>6. ASSUME Reading PROVE Reading'
      <3> SUFFICES ASSUME pc' = "digits"
                   PROVE  Ahead' /\ \E w, g, b : /\ Passed(w, g, b, n)' /\ IsRead(val, b, s, n)'
                                                /\ neg' = (call'.mem[w] = 45)
        BY DEF Reading
      <3>1. PICK w, g, b : /\ Passed(w, g, b, n) /\ IsRead(val, b, s, n)
                           /\ neg = (call.mem[w] = 45)
        BY <2>1, <2>6 DEF Reading
      <3>2. PICK B, v, e : B = n /\ v = val /\ e = s
        OBVIOUS
      <3>3. Passed(w, g, b, B)' /\ IsRead(v, b, e, B)'
        BY <2>4, <2>5, <3>1, <3>2
      <3>4. Ahead'
        BY <2>1, <2>6 DEF Reading, Ahead
      <3> QED BY <2>1, <3>1, <3>2, <3>3, <3>4
    <2>7. ASSUME StrtolRight PROVE StrtolRight'
      <3>1. PICK e : e = s
        OBVIOUS
      <3>2. \A b, B : Value(b, s, B)' = Value(b, s, B)
        BY <2>1, <2>3, <3>1
      <3> QED BY <2>1, <2>3, <2>7, <3>2 DEF StrtolRight
    <2> QED BY <2>1, <2>2, <2>6, <2>7 DEF NumInv
  <1> QED BY <1>2, <1>6, <1>7, BlankStep, PrefixStep, DigitsStep

(* strtol reads exactly the number at the start of its text, with its sign *)
(* and the prefix that its base allows, up to the first character that is  *)
(* no digit of that base, and returns the value of the digits modulo the   *)
(* width of a long: for every text, every base and every width, although   *)
(* val wraps around after every digit.                                     *)
THEOREM StrtolReadsNumber == Spec => []StrtolRight
  <1>1. NumInv => StrtolRight
    BY DEF NumInv, StrtolRight
  <1>2. Spec => []NumInv
    BY NumInit, NumNext, LibraryInvariant, PTL DEF Spec
  <1> QED BY <1>1, <1>2, PTL
=============================================================================
