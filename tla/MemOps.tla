------------------------------- MODULE MemOps -------------------------------
(***************************************************************************)
(* memset, memmove and memcpy of lib/string.c, as built with ASM: a string *)
(* instruction repeated over words when everything is aligned and over     *)
(* bytes when not, memmove downwards when the destination begins inside    *)
(* the source.  One step is one repetition, which reads its whole unit     *)
(* before it writes.                                                       *)
(*                                                                         *)
(* "call" keeps the arguments and the memory as they were when the         *)
(* function was called.  A repetition count is kept as the bytes that are  *)
(* left.                                                                   *)
(***************************************************************************)
EXTENDS Integers

CONSTANTS
  MemSize,  \* the bytes of the memory
  Calls     \* [fn, mem, dst, src, n, c]: the calls that are made

Addr == 0..MemSize-1
Byte == 0..255
Word == 4             \* what stosl and movsl move

MemFns  == {"memset", "memmove", "memcpy"}
RepLoop == {"stos", "up", "down"}

(* A call stays in the memory; c is an int, so that it may exceed a byte. *)
ASSUME MemAssumption ==
  /\ MemSize \in Nat
  /\ \A k \in Calls :
       /\ k.mem \in [Addr -> Byte]
       /\ k.dst \in Nat /\ k.src \in Nat /\ k.n \in Nat /\ k.c \in Int
       /\ k.fn \notin RepLoop \cup {"done"}
       /\ k.fn \in MemFns => k.dst + k.n <= MemSize
       /\ k.fn \in {"memmove", "memcpy"} => k.src + k.n <= MemSize

VARIABLES mem, call, pc, d, s, n, unit

memVars == <<mem, call, pc, d, s, n, unit>>

Width(a, b, k) ==
  IF a % Word = 0 /\ b % Word = 0 /\ k % Word = 0 THEN Word ELSE 1

-----------------------------------------------------------------------------
memset ==
  /\ pc = "memset"
  /\ IF n = 0 THEN pc' = "done" /\ UNCHANGED unit
              ELSE pc' = "stos" /\ unit' = Width(d, 0, n)
  /\ UNCHANGED <<mem, call, d, s, n>>

(* c & 0xFF in every byte of the unit. *)
RepStos ==
  /\ pc = "stos" /\ n > 0
  /\ mem' = [a \in Addr |-> IF a \in d..d+unit-1 THEN call.c % 256 ELSE mem[a]]
  /\ d' = d + unit /\ n' = n - unit
  /\ UNCHANGED <<call, pc, s, unit>>

(* Mutant: the source is taken to end one byte earlier. *)
OverlapsLate == s < d /\ s + n > d + 1

Overlaps == s < d /\ s + n > d

memmove ==
  /\ pc = "memmove"
  /\ IF Overlaps
       THEN /\ s' = s + n /\ d' = d + n
            /\ pc' = "down" /\ unit' = Width(s + n, d + n, n)
       ELSE UNCHANGED <<s, d>> /\ pc' = "up" /\ unit' = Width(s, d, n)
  /\ UNCHANGED <<mem, call, n>>

memcpy ==
  /\ pc = "memcpy" /\ pc' = "memmove"
  /\ UNCHANGED <<mem, call, d, s, n, unit>>

MoveUnit(to, from) ==
  mem' = [a \in Addr |->
            IF a \in to..to+unit-1 THEN mem[from + (a - to)] ELSE mem[a]]

RepMovsUp ==
  /\ pc = "up" /\ n > 0 /\ MoveUnit(d, s)
  /\ d' = d + unit /\ s' = s + unit /\ n' = n - unit
  /\ UNCHANGED <<call, pc, unit>>

RepMovsDown ==
  /\ pc = "down" /\ n > 0 /\ MoveUnit(d - unit, s - unit)
  /\ d' = d - unit /\ s' = s - unit /\ n' = n - unit
  /\ UNCHANGED <<call, pc, unit>>

RepEnds ==
  /\ pc \in RepLoop /\ n = 0
  /\ pc' = "done"
  /\ UNCHANGED <<mem, call, d, s, n, unit>>

MemInit ==
  /\ call \in Calls /\ mem = call.mem /\ pc = call.fn
  /\ d = call.dst /\ s = call.src /\ n = call.n /\ unit = 1

MemStep == memset \/ RepStos \/ memmove \/ memcpy \/ RepMovsUp \/ RepMovsDown
           \/ RepEnds

MemSpec == MemInit /\ [][MemStep]_memVars

-----------------------------------------------------------------------------
MemTypeOK ==
  /\ mem \in [Addr -> Byte] /\ call \in Calls
  /\ d \in Int /\ s \in Int /\ n \in Nat /\ unit \in {1, Word}

(* memmove leaves at the destination what was at the source when it was    *)
(* called, wherever the two overlap and whichever unit it moves, memset    *)
(* the one byte, and neither changes any other byte.                       *)
MemExact ==
  pc = "done" /\ call.fn \in MemFns =>
    mem = [a \in Addr |->
             IF a \notin call.dst..call.dst+call.n-1 THEN call.mem[a]
             ELSE IF call.fn = "memset" THEN call.c % 256
             ELSE call.mem[call.src + (a - call.dst)]]
=============================================================================
