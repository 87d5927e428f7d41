----------------------------- MODULE StringLib ------------------------------
(***************************************************************************)
(* The rest of lib/string.c: the functions on NUL-terminated strings, the  *)
(* comparisons and searches, and strtol.  One step is one turn of a        *)
(* function's loop, or what it does when the loop ends; pc names the loop. *)
(* d and s are the two pointers, n the count that is left, ret what is     *)
(* returned, -1 for a null pointer.                                        *)
(***************************************************************************)
EXTENDS MemOps, Sequences, FiniteSetsExt

CONSTANTS LongHalf   \* 2^31: a long lies in -LongHalf..LongHalf-1

(***************************************************************************)
(* What a caller owes a function, as the code needs it: a string that ends *)
(* in the memory, with its NUL or with the count; room for what is stored; *)
(* and a source that is not overwritten before it is read, because the     *)
(* destination does not begin inside it.                                   *)
(***************************************************************************)
Terminated(k, a) == \E x \in a..MemSize-1 : k.mem[x] = 0

Bounded(k, a) == Terminated(k, a) \/ a + k.n <= MemSize

(* A string of len bytes and a NUL, from src to a. *)
Fits(k, a, len) == a + len < MemSize /\ (a <= k.src \/ k.src + len < a)

(* The string at a ends len bytes on. *)
IsLength(k, a, len) ==
  /\ a + len < MemSize /\ k.mem[a + len] = 0
  /\ \A x \in 0..len-1 : k.mem[a + x] # 0

ASSUME StringAssumption ==
  /\ LongHalf \in Nat \ {0}
  /\ \A k \in Calls :
       /\ k.fn \in MemFns \cup
            {"strlen", "strnlen", "strcpy", "strcat", "strncpy", "strlcpy", "strcmp",
             "strncmp", "strchr", "strfind", "memcmp", "memfind", "strtol"}
       /\ k.fn \in {"strlen", "strcpy", "strcat", "strcmp", "strchr", "strfind",
                    "strtol"} => Terminated(k, k.src)
       /\ k.fn \in {"strnlen", "strncpy", "strlcpy", "strncmp"} =>
            Bounded(k, k.src)
       /\ k.fn \in {"strcat", "strcmp"} => Terminated(k, k.dst)
       /\ k.fn = "strncmp" => Bounded(k, k.dst)
       /\ k.fn \in {"strncpy", "strlcpy"} =>
            /\ k.dst + k.n <= MemSize
            /\ k.dst <= k.src \/ k.src + k.n <= k.dst
       /\ k.fn = "memcmp" => k.dst + k.n <= MemSize
       /\ k.fn \in {"memcmp", "memfind"} => k.src + k.n <= MemSize
       /\ k.fn = "strcpy" =>
            \A len \in Addr : IsLength(k, k.src, len) => Fits(k, k.dst, len)
       /\ k.fn = "strcat" =>
            \A len, end \in Addr :
              IsLength(k, k.src, len) /\ IsLength(k, k.dst, end) =>
                Fits(k, k.dst + end, len)

VARIABLES ret, val, neg

vars == <<memVars, ret, val, neg>>

null == -1

(* Another turn of the loop, with the pointers and the count moved. *)
Turn(dd, ds, dn) ==
  /\ d' = d + dd /\ s' = s + ds /\ n' = n + dn
  /\ UNCHANGED <<call, pc, unit, ret, val, neg>>

Goto(loop) == pc' = loop /\ UNCHANGED <<call, d, s, n, unit, ret, val, neg>>

Return(r) ==
  /\ ret' = r /\ pc' = "done"
  /\ UNCHANGED <<call, d, s, n, unit, val, neg>>

Put(a, b) == mem' = [mem EXCEPT ![a] = b]

-----------------------------------------------------------------------------
strlen ==
  /\ pc = "strlen"
  /\ IF mem[s] # 0 THEN Turn(0, 1, 0) ELSE Return(s - call.src)
  /\ UNCHANGED mem

strnlen ==
  /\ pc = "strnlen"
  /\ IF n > 0 /\ mem[s] # 0 THEN Turn(0, 1, -1) ELSE Return(s - call.src)
  /\ UNCHANGED mem

strcpy ==
  /\ pc = "strcpy" /\ Put(d, mem[s])
  /\ IF mem[s] # 0 THEN Turn(1, 1, 0) ELSE Return(call.dst)

(* strlen(dst), then strcpy to its end. *)
strcat ==
  /\ pc = "strcat"
  /\ IF mem[d] # 0 THEN Turn(1, 0, 0) ELSE Goto("strcpy")
  /\ UNCHANGED mem

strncpy ==
  /\ pc = "strncpy"
  /\ IF n > 0 THEN Put(d, mem[s]) /\ Turn(1, IF mem[s] # 0 THEN 1 ELSE 0, -1)
              ELSE Return(call.dst) /\ UNCHANGED mem

(* Mutant: the size is tested before it is decremented. *)
MoreRoomLate == n > 0

MoreRoom == n - 1 > 0

strlcpy ==
  /\ pc = "strlcpy"
  /\ \/ n > 0 /\ MoreRoom /\ mem[s] # 0 /\ Put(d, mem[s]) /\ Turn(1, 1, -1)
     \/ n > 0 /\ ~(MoreRoom /\ mem[s] # 0) /\ Put(d, 0) /\ Return(d - call.dst)
     \/ n = 0 /\ Return(0) /\ UNCHANGED mem

strcmp ==
  /\ pc = "strcmp"
  /\ IF mem[d] # 0 /\ mem[d] = mem[s] THEN Turn(1, 1, 0)
     ELSE Return(mem[d] - mem[s])
  /\ UNCHANGED mem

(* Mutant: the end of the strings is not looked for. *)
MoreEqual == n > 0 /\ mem[d] = mem[s]

MoreToCompare == n > 0 /\ mem[d] # 0 /\ mem[d] = mem[s]

strncmp ==
  /\ pc = "strncmp"
  /\ IF MoreToCompare THEN Turn(1, 1, -1)
                      ELSE Return(IF n = 0 THEN 0 ELSE mem[d] - mem[s])
  /\ UNCHANGED mem

strchr ==
  /\ pc = "strchr"
  /\ IF mem[s] # 0 /\ mem[s] # call.c THEN Turn(0, 1, 0)
     ELSE Return(IF mem[s] # 0 THEN s ELSE null)
  /\ UNCHANGED mem

strfind ==
  /\ pc = "strfind"
  /\ IF mem[s] # 0 /\ mem[s] # call.c THEN Turn(0, 1, 0) ELSE Return(s)
  /\ UNCHANGED mem

memcmp ==
  /\ pc = "memcmp"
  /\ IF n > 0 /\ mem[d] = mem[s] THEN Turn(1, 1, -1)
     ELSE Return(IF n = 0 THEN 0 ELSE mem[d] - mem[s])
  /\ UNCHANGED mem

memfind ==
  /\ pc = "memfind"
  /\ IF s < call.src + call.n /\ mem[s] # call.c % 256 THEN Turn(0, 1, 0)
                                                       ELSE Return(s)
  /\ UNCHANGED mem

-----------------------------------------------------------------------------
(* strtol(s, &endptr, base); base is kept in n and *endptr is s at the end.*)
(* The code that is built from val * base + dig wraps around.              *)
Wrap(v) == ((v + LongHalf) % (2 * LongHalf)) - LongHalf

(* What a character counts as a digit; one that is none ends the number    *)
(* like a digit that is too large.                                         *)
Digit(ch, base) ==
  CASE ch \in 48..57  -> ch - 48
    [] ch \in 97..122 -> ch - 97 + 10
    [] ch \in 65..90  -> ch - 65 + 10
    [] OTHER          -> base

strtol ==
  /\ pc = "strtol"
  /\ IF mem[s] \in {32, 9} THEN Turn(0, 1, 0)
     ELSE Goto("sign")
  /\ UNCHANGED mem

(* Mutant: a leading zero always means octal. *)
OctalPrefix(base, a) == mem[a] = 48

Octal(base, a) == base = 0 /\ mem[a] = 48

SignAndBase ==
  LET a   == IF mem[s] \in {43, 45} THEN s + 1 ELSE s
      hex == n \in {0, 16} /\ mem[a] = 48 /\ mem[a + 1] = 120
  IN  /\ pc = "sign"
      /\ neg' = (mem[s] = 45)
      /\ \/ hex /\ s' = a + 2 /\ n' = 16
         \/ ~hex /\ Octal(n, a) /\ s' = a + 1 /\ n' = 8
         \/ ~hex /\ ~Octal(n, a) /\ s' = a /\ n' = IF n = 0 THEN 10 ELSE n
      /\ pc' = "digits"
      /\ UNCHANGED <<mem, call, d, unit, ret, val>>

Digits ==
  /\ pc = "digits"
  /\ IF Digit(mem[s], n) < n
       THEN /\ val' = Wrap((val * n) + Digit(mem[s], n))
            /\ s' = s + 1
            /\ UNCHANGED <<call, pc, d, n, unit, ret, neg>>
       ELSE Return(IF neg THEN Wrap(-val) ELSE val)
  /\ UNCHANGED mem

-----------------------------------------------------------------------------
Init == MemInit /\ ret = null /\ val = 0 /\ neg = FALSE

Step ==
  \/ MemStep /\ UNCHANGED <<ret, val, neg>>
  \/ strlen \/ strnlen \/ strcpy \/ strcat \/ strncpy \/ strlcpy
  \/ strcmp \/ strncmp \/ strchr \/ strfind \/ memcmp \/ memfind
  \/ strtol \/ SignAndBase \/ Digits

Done == pc = "done" /\ UNCHANGED vars

Next == Step \/ Done

Spec == Init /\ [][Next]_vars

-----------------------------------------------------------------------------
FirstOf(S, otherwise) == IF S = {} THEN otherwise ELSE Min(S)

(* The string at a when the function was called, without its NUL; it may   *)
(* have none where a count ends it.                                        *)
StrLen(a) == FirstOf({k \in 0..MemSize-1-a : call.mem[a + k] = 0}, MemSize - a)
Str(a)    == [k \in 1..StrLen(a) |-> call.mem[a + k - 1]]

(* The memory with the bytes b written from a on. *)
With(a, b) == [x \in Addr |-> IF x - a \in 0..Len(b)-1 THEN b[x - a + 1]
                              ELSE call.mem[x]]

(* A copied string arrives whole, cut or padded as its function promises,  *)
(* with a NUL inside the destination, and no byte around it is touched;    *)
(* strlcpy returns the length it stored.                                   *)
CopiesExact ==
  LET from == Str(call.src)
      cut  == SubSeq(from, 1, Min({Len(from), call.n - 1}))
  IN  pc = "done" =>
        /\ call.fn = "strcpy" => mem = With(call.dst, Append(from, 0))
        /\ call.fn = "strcat" =>
             mem = With(call.dst, Append(Str(call.dst) \o from, 0))
        /\ call.fn = "strncpy" =>
             mem = With(call.dst, [k \in 1..call.n |->
                                     IF k <= Len(from) THEN from[k] ELSE 0])
        /\ call.fn = "strlcpy" =>
             IF call.n = 0 THEN mem = call.mem /\ ret = 0
             ELSE mem = With(call.dst, Append(cut, 0)) /\ ret = Len(cut)

(* The first place, if any, where two memories differ decides. *)
SameSign(x, y) == (x < 0 <=> y < 0) /\ (x = 0 <=> y = 0)

FirstDiff(len) ==
  LET D == {k \in 0..len-1 : call.mem[call.dst + k] # call.mem[call.src + k]}
  IN  IF D = {} THEN 0
      ELSE call.mem[call.dst + Min(D)] - call.mem[call.src + Min(D)]

(* Comparisons and searches stop at the first NUL, or after n bytes, and   *)
(* say what the bytes up to there say, taken as unsigned.                  *)
AnswersRight ==
  LET len  == StrLen(call.src)
      both == Min({StrLen(call.dst), len}) + 1
      span == call.src..call.src+call.n-1
      hits == {a \in call.src..call.src+len-1 : call.mem[a] = call.c}
  IN  pc = "done" =>
        /\ call.fn = "strlen" => ret = len
        /\ call.fn = "strnlen" =>
             ret = FirstOf({a \in span : call.mem[a] = 0}, call.src + call.n)
                     - call.src
        /\ call.fn = "strcmp" => SameSign(ret, FirstDiff(both))
        /\ call.fn = "strncmp" => SameSign(ret, FirstDiff(Min({both, call.n})))
        /\ call.fn = "memcmp" => SameSign(ret, FirstDiff(call.n))
        /\ call.fn = "strchr" => ret = FirstOf(hits, null)
        /\ call.fn = "strfind" => ret = FirstOf(hits, call.src + len)
        /\ call.fn = "memfind" =>
             ret = FirstOf({a \in span : call.mem[a] = call.c % 256},
                           call.src + call.n)

(* A text of blanks up to w, a sign up to g, and a prefix up to b that     *)
(* makes the base B.                                                       *)
Begins(w, g, b, B) ==
  LET At(k) == call.mem[k]
      Base  == call.n
      Hex   == Base \in {0, 16} /\ At(g) = 48 /\ At(g + 1) = 120
  IN  /\ \A k \in call.src..w-1 : At(k) \in {32, 9}
      /\ At(w) \notin {32, 9}
      /\ g = w + (IF At(w) \in {43, 45} THEN 1 ELSE 0)
      /\ \/ Hex /\ b = g + 2 /\ B = 16
         \/ ~Hex /\ Base = 0 /\ At(g) = 48 /\ b = g + 1 /\ B = 8
         \/ ~Hex /\ Base = 0 /\ At(g) # 48 /\ b = g /\ B = 10
         \/ ~Hex /\ Base # 0 /\ b = g /\ B = Base

(* The value in base B of the digits from b up to e: each one times the    *)
(* weight of its place, the last one's being 1.                            *)
Value(b, e, B) ==
  LET weight[k \in 0..e-b] == IF k = 0 THEN 1 ELSE weight[k - 1] * B
      last[k \in 0..e-b] ==
        IF k = 0 THEN 0
        ELSE last[k - 1] + (Digit(call.mem[e - k], B) * weight[k - 1])
  IN  last[e - b]

(* strtol reads exactly the number at the start of its text, up to the     *)
(* first character that is no digit of its base, says where it ended, and  *)
(* returns its value modulo the width of a long.                           *)
StrtolRight ==
  pc = "done" /\ call.fn = "strtol" =>
    \E w \in call.src..MemSize-1 : \E g \in w..w+1 : \E b \in g..g+2 :
    \E B \in {8, 10, 16, call.n} :
      /\ Begins(w, g, b, B)
      /\ s \in b..MemSize-1
      /\ \A k \in b..s-1 : Digit(call.mem[k], B) < B
      /\ Digit(call.mem[s], B) >= B
      /\ ret = Wrap(IF call.mem[w] = 45 THEN -Value(b, s, B) ELSE Value(b, s, B))
=============================================================================
