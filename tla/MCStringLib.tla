---------------------------- MODULE MCStringLib -----------------------------
(* Calls of the string library for TLC, in a memory of 16 bytes.  *)
EXTENDS StringLib

(* Every memset and memmove that fits; each byte holds its own address.    *)
MemCalls ==
  {k \in [fn : {"memset", "memmove", "memcpy"}, mem : {[a \in Addr |-> a]},
          dst : 0..16, src : 0..16, n : 0..16, c : {300}] :
     /\ k.dst + k.n <= 16 /\ k.src + k.n <= 16
     /\ k.fn # "memmove" => k.src = 4}

(* One string at 0 with room behind it, one at the end of the memory, where *)
(* reading on would leave it.                                               *)
Bytes(len) == [1..len -> {0, 97, 200}]

Memory(x, y) == [a \in Addr |-> IF a < Len(x) THEN x[a + 1]
                                ELSE IF a >= 16 - Len(y) THEN y[a - 15 + Len(y)] ELSE 7]

Ends(x) == \E k \in DOMAIN x : x[k] = 0

Call(f, x, y, count, ch) ==
  [fn |-> f, mem |-> Memory(x, y), dst |-> 0, src |-> 16 - Len(y), n |-> count, c |-> ch]

SourceCalls ==
  {Call(f, <<>>, y, count, ch) :
     f \in {"strlen", "strcpy", "strncpy", "strlcpy", "strchr", "strfind"},
     y \in {z \in Bytes(3) : Ends(z)}, count \in 0..5, ch \in {97, 200}}
  \cup {Call(f, <<>>, y, count, ch) :
     f \in {"strnlen", "strncpy", "memfind"}, y \in Bytes(3), count \in 0..3,
     ch \in {0, 97, 456}}

PairCalls ==
  {Call(f, x, y, count, 0) : f \in {"strcat", "strcmp", "strncmp"},
     x \in {z \in Bytes(3) : Ends(z)}, y \in {z \in Bytes(3) : Ends(z)}, count \in 0..4}
  \cup {Call(f, x, y, count, 0) : f \in {"strncmp", "memcmp"},
     x \in Bytes(3), y \in Bytes(3), count \in 0..3}

(* Blank, signs, 0, 1, a and x: every text of four of them, in a base that *)
(* is told by the prefix, in two that a prefix may name, in one without    *)
(* most digits and in one with more values than there are digits.          *)
NumberCalls ==
  {Call("strtol", <<>>, Append(y, 0), base, 0) :
     y \in [1..4 -> {32, 43, 45, 48, 49, 97, 120}], base \in {0, 2, 10, 16, 40}}

AllCalls == MemCalls \cup SourceCalls \cup PairCalls \cup NumberCalls
=============================================================================
