--------------------------- MODULE PrintFmtProofs ---------------------------
(***************************************************************************)
(* vprintfmt prints what its format says, for every format, every stack    *)
(* and every size of the buffer: numbers in every base and width, and      *)
(* escapes it does not know as they stand.                                 *)
(***************************************************************************)
EXTENDS PrintFmt, SequenceTheorems, NaturalsInduction, WellFoundedInduction, TLAPS

(* First, what printnum prints. *)
Bases == {8, 10, 16}

(* Every set of numbers has a least one. *)
LEMMA Least ==
  ASSUME NEW T \in SUBSET Nat, T # {}
  PROVE  \E x \in T : \A y \in T : x <= y
  <1>1. PICK x \in T : \A y \in T : ~(<<y, x>> \in OpToRel(<, Nat))
    BY WFMin, NatLessThanWellFounded
  <1>2. \A y \in T : ~(y < x)
    BY <1>1 DEF OpToRel
  <1> QED BY <1>2

LEMMA DigitType ==
  ASSUME NEW x \in 0..15
  PROVE  Digit(x) \in Characters
  BY PrintFmtAssumption, Zenon

LEMMA DigitsDiffer ==
  ASSUME NEW x \in 0..15, NEW y \in 0..15, Digit(x) = Digit(y)
  PROVE  x = y
  BY DEF Digit, Digits

LEMMA DigitRead ==
  ASSUME NEW x \in 0..15
  PROVE  (CHOOSE d \in 0..15 : Digit(d) = Digit(x)) = x
  <1> DEFINE c == CHOOSE d \in 0..15 : Digit(d) = Digit(x)
  <1>1. c \in 0..15 /\ Digit(c) = Digit(x)
    BY Zenon
  <1> HIDE DEF c
  <1>2. c = x
    BY <1>1, DigitsDiffer
  <1> QED BY <1>2 DEF c

(* Only the digit 0 looks like one. *)
LEMMA ZeroDigit ==
  ASSUME NEW x \in 0..15
  PROVE  Digit(x) = "0" <=> x = 0
  BY DEF Digit, Digits

(* The function that printnum is the value of. *)
Level(p, k, base, v, c) ==
  Append(IF k >= base THEN p[k \div base][Narrower(v)] ELSE Repeat(c, v - 1),
         Digit(k % base))

IsPrint(p, num, base, c) ==
  p = [k \in 0..num |-> [v \in Int |-> Level(p, k, base, v, c)]]

LEMMA Quotients ==
  ASSUME NEW base \in Bases, NEW k \in Nat
  PROVE  /\ k \div base \in Nat /\ k % base \in 0..base-1 /\ k % base \in 0..15
         /\ k = (k \div base) * base + (k % base)
         /\ k >= base => k \div base < k /\ k \div base > 0
         /\ k < base => k \div base = 0 /\ k % base = k
  <1>1. CASE base = 8
    BY <1>1
  <1>2. CASE base = 10
    BY <1>2
  <1>3. CASE base = 16
    BY <1>3
  <1> QED BY <1>1, <1>2, <1>3 DEF Bases

LEMMA PrintExists ==
  ASSUME NEW base \in Bases, NEW c, NEW num \in Nat
  PROVE  \E p : IsPrint(p, num, base, c)
  <1> DEFINE T == {m \in Nat : ~ \E p : IsPrint(p, m, base, c)}
  <1> SUFFICES T = {}
    OBVIOUS
  <1> SUFFICES ASSUME T # {} PROVE FALSE
    OBVIOUS
  <1>1. PICK m \in T : \A y \in T : m <= y
    BY Least
  <1>2. CASE m = 0
    <2> DEFINE q == [k \in 0..0 |-> [v \in Int |-> Append(Repeat(c, v - 1), Digit(k % base))]]
    <2>1. \A k \in 0..0 : ~(k >= base)
      BY DEF Bases
    <2>2. IsPrint(q, 0, base, c)
      BY <2>1, Zenon DEF IsPrint, Level
    <2> QED BY <1>1, <1>2, <2>2
  <1>3. CASE m # 0
    <2>0. m \in Nat /\ m - 1 \in Nat /\ m - 1 \notin T
      BY <1>1, <1>3
    <2>1. PICK p : IsPrint(p, m - 1, base, c)
      BY <2>0
    <2>2. p = [k \in 0..m-1 |-> [v \in Int |-> Level(p, k, base, v, c)]]
      BY <2>1 DEF IsPrint
    <2> DEFINE q == [k \in 0..m |-> [v \in Int |-> Level(p, k, base, v, c)]]
    <2>3. \A k \in 0..m-1 : q[k] = p[k]
      <3>1. \A k \in 0..m-1 : k \in 0..m
        BY <2>0
      <3>2. \A k \in 0..m-1 : p[k] = [v \in Int |-> Level(p, k, base, v, c)]
        BY <2>2, Zenon
      <3>3. \A k \in 0..m-1 : q[k] = [v \in Int |-> Level(p, k, base, v, c)]
        BY <3>1, Zenon
      <3> QED BY <3>2, <3>3, Zenon
    <2> HIDE DEF q
    <2>4. ASSUME NEW k \in 0..m, NEW v PROVE Level(p, k, base, v, c) = Level(q, k, base, v, c)
      <3>1. CASE k >= base
        <4>1. k \div base \in 0..m-1
          BY <2>0, <3>1, Quotients
        <4>2. p[k \div base] = q[k \div base]
          BY <2>3, <4>1, Zenon
        <4> QED BY <4>2 DEF Level
      <3>2. CASE ~(k >= base)
        BY <3>2, Zenon DEF Level
      <3> QED BY <3>1, <3>2
    <2>5. IsPrint(q, m, base, c)
      <3>1. q = [k \in 0..m |-> [v \in Int |-> Level(q, k, base, v, c)]]
        BY <2>4, Zenon DEF q
      <3> QED BY <3>1, Zenon DEF IsPrint
    <2> QED BY <1>1, <2>5
  <1> QED BY <1>2, <1>3

Prints(p, num, base, w, c) ==
  IsPrint(p, num, base, c) /\ printnum(num, base, w, c) = p[num][w]

LEMMA PrintIs ==
  ASSUME NEW base \in Bases, NEW c, NEW num \in Nat, NEW w
  PROVE  \E p : Prints(p, num, base, w, c)
  <1> DEFINE p == CHOOSE p : p = [k \in 0..num |-> [v \in Int |->
                     Append(IF k >= base THEN p[k \div base][Narrower(v)]
                            ELSE Repeat(c, v - 1), Digit(k % base))]]
  <1>1. printnum(num, base, w, c) = p[num][w]
    BY Zenon DEF printnum
  <1>2. PICK q : IsPrint(q, num, base, c)
    BY PrintExists
  <1>3. q = [k \in 0..num |-> [v \in Int |->
               Append(IF k >= base THEN q[k \div base][Narrower(v)]
                      ELSE Repeat(c, v - 1), Digit(k % base))]]
    BY <1>2, Zenon DEF IsPrint, Level
  <1>4. p = [k \in 0..num |-> [v \in Int |->
               Append(IF k >= base THEN p[k \div base][Narrower(v)]
                      ELSE Repeat(c, v - 1), Digit(k % base))]]
    BY <1>3, Zenon
  <1> HIDE DEF p
  <1>5. IsPrint(p, num, base, c)
    BY <1>4, Zenon DEF IsPrint, Level
  <1> QED BY <1>1, <1>5 DEF Prints

(* Any number of one character. *)
LEMMA RepeatIs ==
  ASSUME NEW c \in Characters, NEW m \in Int
  PROVE  /\ Repeat(c, m) \in Seq(Characters) /\ Len(Repeat(c, m)) = IF m > 0 THEN m ELSE 0
         /\ \A j \in 1..Len(Repeat(c, m)) : Repeat(c, m)[j] = c
  <1>1. CASE m > 0
    <2>1. Repeat(c, m) \in [1..m -> Characters] /\ \A j \in 1..m : Repeat(c, m)[j] = c
      BY DEF Repeat
    <2> QED BY <1>1, <2>1
  <1>2. CASE ~(m > 0)
    <2>1. Repeat(c, m) = << >>
      BY <1>2 DEF Repeat
    <2> QED BY <1>2, <2>1
  <1> QED BY <1>1, <1>2

(* The character behind a text, and the text in front of it. *)
LEMMA Appended ==
  ASSUME NEW S, NEW t \in Seq(S), NEW b \in S
  PROVE  /\ Append(t, b) \in Seq(S) /\ Len(Append(t, b)) = Len(t) + 1
         /\ Append(t, b)[Len(t) + 1] = b
         /\ \A i \in 1..Len(t) : Append(t, b)[i] = t[i]
  OBVIOUS

(* u is what the first digits among the last k characters of t denote. *)
DigitOf(b) == CHOOSE d \in 0..15 : Digit(d) = b

Denotes(u, t, base, k) ==
  /\ u \in [0..k -> Nat] /\ u[0] = 0
  /\ \A j \in 1..k : u[j] = (u[j - 1] * base) + DigitOf(t[Len(t) - k + j])

AllDigits(t, base, k) == \A j \in 1..k : t[Len(t) - k + j] \in DigitsOf(base)

Spells(t, base, k, num) ==
  AllDigits(t, base, k) /\ \E u : Denotes(u, t, base, k) /\ u[k] = num

Shows(t, num, base, w, c) ==
  /\ t \in Seq(Characters)
  /\ \E k \in 1..Len(t) :
       /\ Spells(t, base, k, num)
       /\ num = 0 => k = 1
       /\ num > 0 => t[Len(t) - k + 1] # "0"
       /\ \A j \in 1..Len(t)-k : t[j] = c
       /\ Len(t) = IF k > w THEN k ELSE w

LEMMA OneDigit ==
  ASSUME NEW base \in Nat, NEW x \in 0..15, x < base
  PROVE  Digit(x) \in DigitsOf(base)
  <1>1. x \in 0..base-1
    OBVIOUS
  <1> QED BY <1>1, Zenon DEF DigitsOf

(* One digit more. *)
LEMMA SpellsMore ==
  ASSUME NEW base \in Nat, NEW t \in Seq(Characters), NEW k \in 1..Len(t), NEW m,
         Spells(t, base, k, m), NEW x \in 0..15, x < base
  PROVE  Spells(Append(t, Digit(x)), base, k + 1, (m * base) + x)
  <1>0. PICK u : Denotes(u, t, base, k) /\ u[k] = m
    BY DEF Spells
  <1> DEFINE s == Append(t, Digit(x))
             q == [j \in 0..k+1 |-> IF j <= k THEN u[j] ELSE (u[k] * base) + x]
  <1>1. Digit(x) \in Characters /\ DigitOf(Digit(x)) = x
    BY DigitType, DigitRead DEF DigitOf
  <1>2. /\ Len(s) = Len(t) + 1 /\ s[Len(t) + 1] = Digit(x)
        /\ \A i \in 1..Len(t) : s[i] = t[i]
    BY <1>1, Appended
  <1>3. k \in Nat /\ k >= 1 /\ k <= Len(t) /\ Len(t) \in Nat
    OBVIOUS
  <1>4. /\ u \in [0..k -> Nat] /\ u[0] = 0
        /\ \A j \in 1..k : u[j] = (u[j - 1] * base) + DigitOf(t[Len(t) - k + j])
    BY <1>0 DEF Denotes
  <1>5. u[k] \in Nat /\ (u[k] * base) + x \in Nat
    <2>1. u[k] \in Nat
      BY <1>3, <1>4
    <2> QED BY <2>1
  <1> HIDE DEF s
  <1>6. q \in [0..k+1 -> Nat]
    <2>1. \A j \in 0..k+1 : j <= k => u[j] \in Nat
      BY <1>3, <1>4
    <2> QED BY <1>5, <2>1
  <1>7. q[0] = 0
    BY <1>3, <1>4
  <1>8. ASSUME NEW j \in 1..k+1 PROVE q[j] = (q[j - 1] * base) + DigitOf(s[Len(s) - (k+1) + j])
    <2>1. CASE j <= k
      <3>1. j \in 1..k /\ j - 1 \in 0..k+1 /\ j - 1 <= k /\ j \in 0..k+1
        BY <1>3, <2>1
      <3>2. Len(s) - (k+1) + j = Len(t) - k + j /\ Len(t) - k + j \in 1..Len(t)
        BY <1>2, <1>3, <2>1
      <3>3. s[Len(s) - (k+1) + j] = t[Len(t) - k + j]
        BY <1>2, <3>2
      <3>4. q[j] = u[j] /\ q[j - 1] = u[j - 1]
        BY <2>1, <3>1
      <3> QED BY <1>4, <3>1, <3>3, <3>4
    <2>2. CASE j = k + 1
      <3>1. Len(s) - (k+1) + j = Len(t) + 1
        BY <1>2, <1>3, <2>2
      <3>2. DigitOf(s[Len(s) - (k+1) + j]) = x
        BY <1>1, <1>2, <3>1
      <3>3. j - 1 = k /\ ~(j <= k) /\ k \in 0..k+1 /\ k <= k /\ j \in 0..k+1
        BY <1>3, <2>2
      <3>4. q[j] = (u[k] * base) + x /\ q[j - 1] = u[k]
        BY <3>3
      <3> QED BY <3>2, <3>4
    <2> QED BY <1>3, <2>1, <2>2
  <1>9. q[k + 1] = (u[k] * base) + x
    BY <1>3
  <1> HIDE DEF q
  <1>10. Denotes(q, s, base, k + 1)
    BY <1>6, <1>7, <1>8 DEF Denotes
  <1>11. AllDigits(s, base, k + 1)
    <2> SUFFICES ASSUME NEW j \in 1..k+1 PROVE s[Len(s) - (k+1) + j] \in DigitsOf(base)
      BY DEF AllDigits
    <2>1. CASE j <= k
      <3>1. j \in 1..k
        BY <1>3, <2>1
      <3>2. Len(s) - (k+1) + j = Len(t) - k + j /\ Len(t) - k + j \in 1..Len(t)
        BY <1>2, <1>3, <2>1
      <3>3. s[Len(s) - (k+1) + j] = t[Len(t) - k + j]
        BY <1>2, <3>2
      <3>4. t[Len(t) - k + j] \in DigitsOf(base)
        BY <3>1 DEF Spells, AllDigits
      <3> QED BY <3>3, <3>4
    <2>2. CASE j = k + 1
      <3>1. Len(s) - (k+1) + j = Len(t) + 1
        BY <1>2, <1>3, <2>2
      <3>2. Digit(x) \in DigitsOf(base)
        BY OneDigit
      <3> QED BY <1>2, <3>1, <3>2
    <2> QED BY <1>3, <2>1, <2>2
  <1> QED BY <1>0, <1>9, <1>10, <1>11 DEF s, Spells

(* The first level: a digit behind the padding. *)
LEMMA FirstLevel ==
  ASSUME NEW base \in Bases, NEW c \in Characters, NEW x \in 0..15, x < base,
         NEW v \in Int
  PROVE  Shows(Append(Repeat(c, v - 1), Digit(x)), x, base, v, c)
  <1> DEFINE r == Repeat(c, v - 1)
             t == Append(r, Digit(x))
             u == [j \in 0..1 |-> IF j = 0 THEN 0 ELSE x]
  <1>1. Digit(x) \in Characters /\ DigitOf(Digit(x)) = x
    BY DigitType, DigitRead DEF DigitOf
  <1>2. /\ r \in Seq(Characters) /\ Len(r) = IF v - 1 > 0 THEN v - 1 ELSE 0
        /\ \A j \in 1..Len(r) : r[j] = c
    <2>1. v - 1 \in Int
      OBVIOUS
    <2> QED BY <2>1, RepeatIs
  <1> HIDE DEF r
  <1>3. /\ t \in Seq(Characters) /\ Len(t) = Len(r) + 1 /\ t[Len(r) + 1] = Digit(x)
        /\ \A i \in 1..Len(r) : t[i] = r[i]
    BY <1>1, <1>2, Appended
  <1> HIDE DEF t
  <1>4. Len(r) \in Nat /\ Len(t) \in Nat /\ Len(t) >= 1 /\ Len(t) - 1 = Len(r)
        /\ Len(t) - 1 + 1 = Len(r) + 1
    BY <1>2, <1>3
  <1>5. 1 \in 1..Len(t) /\ Len(t) = IF 1 > v THEN 1 ELSE v
    BY <1>2, <1>3, <1>4
  <1>6. \A j \in 1..Len(t)-1 : t[j] = c
    BY <1>2, <1>3, <1>4
  <1>7. t[Len(t) - 1 + 1] = Digit(x)
    BY <1>3, <1>4
  <1>8. x > 0 => t[Len(t) - 1 + 1] # "0"
    <2>1. x > 0 => x # 0
      OBVIOUS
    <2> QED BY <1>7, <2>1, ZeroDigit, Zenon
  <1>9. Denotes(u, t, base, 1)
    <2>1. u \in [0..1 -> Nat] /\ u[0] = 0 /\ u[1] = x
      OBVIOUS
    <2>2. base \in Nat
      BY DEF Bases
    <2> HIDE DEF u
    <2>3. \A j \in 1..1 : u[j] = (u[j - 1] * base) + DigitOf(t[Len(t) - 1 + j])
      <3>1. u[1] = (u[0] * base) + DigitOf(t[Len(t) - 1 + 1])
        BY <1>1, <1>7, <2>1, <2>2
      <3> QED BY <3>1
    <2> QED BY <2>1, <2>3 DEF Denotes
  <1>10. u[1] = x
    OBVIOUS
  <1> HIDE DEF u
  <1>11. AllDigits(t, base, 1)
    <2>1. base \in Nat
      BY DEF Bases
    <2>2. t[Len(t) - 1 + 1] \in DigitsOf(base)
      BY <1>7, <2>1, OneDigit
    <2>3. \A j \in 1..1 : j = 1
      OBVIOUS
    <2> QED BY <2>2, <2>3, Zenon DEF AllDigits
  <1>12. Spells(t, base, 1, x)
    BY <1>9, <1>10, <1>11 DEF Spells
  <1>13. Shows(t, x, base, v, c)
    BY <1>3, <1>5, <1>6, <1>8, <1>12 DEF Shows
  <1> QED BY <1>13 DEF t, r

(* The next level: a digit behind what the one before printed. *)
LEMMA NextLevel ==
  ASSUME NEW base \in Bases, NEW c \in Characters, NEW m \in Nat, m > 0, NEW x \in 0..15,
         x < base, NEW v \in Int, NEW t, Shows(t, m, base, v - 1, c)
  PROVE  Shows(Append(t, Digit(x)), (m * base) + x, base, v, c)
  <1> DEFINE s == Append(t, Digit(x))
  <1>1. PICK k \in 1..Len(t) :
          /\ Spells(t, base, k, m)
          /\ t[Len(t) - k + 1] # "0"
          /\ \A j \in 1..Len(t)-k : t[j] = c
          /\ Len(t) = IF k > v - 1 THEN k ELSE v - 1
    BY DEF Shows
  <1>2. t \in Seq(Characters) /\ Digit(x) \in Characters
    BY DigitType DEF Shows
  <1>3. /\ s \in Seq(Characters) /\ Len(s) = Len(t) + 1
        /\ \A i \in 1..Len(t) : s[i] = t[i]
    BY <1>2, Appended
  <1>4. Len(t) \in Nat /\ k \in Nat /\ k >= 1 /\ k <= Len(t) /\ base \in Nat /\ base > 0
    BY <1>2 DEF Bases
  <1>6. Spells(s, base, k + 1, (m * base) + x)
    BY <1>1, <1>2, <1>4, SpellsMore, Zenon
  <1> HIDE DEF s
  <1>7. k + 1 \in 1..Len(s) /\ Len(s) = IF k + 1 > v THEN k + 1 ELSE v
    BY <1>1, <1>3, <1>4
  <1>8. Len(s) - (k + 1) = Len(t) - k /\ Len(s) - (k + 1) + 1 = Len(t) - k + 1
        /\ Len(t) - k + 1 \in 1..Len(t)
    BY <1>3, <1>4
  <1>9. s[Len(s) - (k + 1) + 1] # "0"
    BY <1>1, <1>3, <1>8
  <1>10. \A j \in 1..Len(s)-(k+1) : s[j] = c
    <2>1. \A j \in 1..Len(t)-k : j \in 1..Len(t)
      BY <1>4
    <2> QED BY <1>1, <1>3, <1>8, <2>1
  <1>11. (m * base) + x # 0
    <2>1. m * base > 0
      BY <1>4 DEF Bases
    <2>2. m * base \in Nat
      BY <1>4
    <2> QED BY <2>1, <2>2
  <1>12. Shows(s, (m * base) + x, base, v, c)
    BY <1>3, <1>6, <1>7, <1>9, <1>10, <1>11 DEF Shows
  <1> QED BY <1>12 DEF s

LEMMA PrintShows ==
  ASSUME NEW base \in Bases, NEW c \in Characters, NEW num \in Nat, NEW p,
         IsPrint(p, num, base, c)
  PROVE  \A k \in 0..num : \A v \in Int : Shows(p[k][v], k, base, v, c)
  <1> DEFINE T == {k \in 0..num : ~ \A v \in Int : Shows(p[k][v], k, base, v, c)}
  <1> SUFFICES ASSUME T # {} PROVE FALSE
    OBVIOUS
  <1>1. PICK m \in T : \A y \in T : m <= y
    <2>1. T \in SUBSET Nat
      OBVIOUS
    <2> QED BY <2>1, Least
  <1>2. PICK v \in Int : ~Shows(p[m][v], m, base, v, c)
    BY <1>1
  <1>3. m \in 0..num /\ m \in Nat
    BY <1>1
  <1>4. p[m][v] = Level(p, m, base, v, c)
    <2>1. p[m] = [w \in Int |-> Level(p, m, base, w, c)]
      BY <1>3, Zenon DEF IsPrint
    <2> QED BY <2>1, Zenon
  <1>5. CASE m >= base
    <2> DEFINE q == m \div base
               x == m % base
    <2>1. q \in Nat /\ x \in 0..15 /\ m = (q * base) + x /\ q < m /\ q > 0
      BY <1>3, <1>5, Quotients
    <2>a. x < base
      <3>1. x \in 0..base-1 /\ base \in Nat
        BY <1>3, Quotients DEF Bases
      <3> HIDE DEF x
      <3> QED BY <3>1
    <2>2. q \in 0..num /\ ~(m <= q)
      BY <1>3, <2>1
    <2>3. v - 1 \in Int
      OBVIOUS
    <2>4. Shows(p[q][v - 1], q, base, v - 1, c)
      BY <1>1, <2>2, <2>3
    <2>5. p[m][v] = Append(p[q][v - 1], Digit(x))
      BY <1>4, <1>5 DEF Level, Narrower
    <2> HIDE DEF q, x
    <2>6. Shows(Append(p[q][v - 1], Digit(x)), (q * base) + x, base, v, c)
      BY <2>1, <2>3, <2>4, <2>a, NextLevel, Zenon
    <2> QED BY <1>2, <2>1, <2>5, <2>6
  <1>6. CASE ~(m >= base)
    <2>1. m % base = m /\ m \in 0..15 /\ m < base
      <3>1. base \in Nat
        BY DEF Bases
      <3> QED BY <1>3, <1>6, <3>1, Quotients
    <2>2. p[m][v] = Append(Repeat(c, v - 1), Digit(m))
      BY <1>4, <1>6, <2>1 DEF Level
    <2>3. Shows(Append(Repeat(c, v - 1), Digit(m)), m, base, v, c)
      BY <2>1, FirstLevel
    <2> QED BY <1>2, <2>2, <2>3
  <1> QED BY <1>5, <1>6

(* What printnum prints denotes the number. *)
LEMMA PrintnumShows ==
  ASSUME NEW base \in Bases, NEW c \in Characters, NEW num \in Nat, NEW w \in Int
  PROVE  Shows(printnum(num, base, w, c), num, base, w, c)
  <1>0. PICK p : Prints(p, num, base, w, c)
    BY PrintIs, Zenon
  <1>1. IsPrint(p, num, base, c) /\ printnum(num, base, w, c) = p[num][w]
    BY <1>0 DEF Prints
  <1>2. num \in 0..num
    OBVIOUS
  <1>3. Shows(p[num][w], num, base, w, c)
    BY <1>1, <1>2, PrintShows, Zenon
  <1> QED BY <1>1, <1>3

(* The recursive definition of a text's value has one solution. *)
LEMMA ValueIs ==
  ASSUME NEW base \in Nat, NEW t, NEW k \in Nat, NEW u, Denotes(u, t, base, k)
  PROVE  Value(t, base, k) = u[k]
  <1> DEFINE v == CHOOSE v : v = [j \in 0..k |-> IF j = 0 THEN 0 ELSE
                     (v[j - 1] * base) + (CHOOSE d \in 0..15 : Digit(d) = t[Len(t) - k + j])]
  <1>1. Value(t, base, k) = v[k]
    BY Zenon DEF Value
  <1>2. /\ u \in [0..k -> Nat] /\ u[0] = 0
        /\ \A j \in 1..k : u[j] = (u[j - 1] * base) + DigitOf(t[Len(t) - k + j])
    BY DEF Denotes
  <1>3. \A j \in 0..k : j # 0 => j \in 1..k
    OBVIOUS
  <1>4. u = [j \in 0..k |-> IF j = 0 THEN 0 ELSE
               (u[j - 1] * base) + DigitOf(t[Len(t) - k + j])]
    BY <1>2, <1>3
  <1>5. v = [j \in 0..k |-> IF j = 0 THEN 0 ELSE
               (v[j - 1] * base) + DigitOf(t[Len(t) - k + j])]
    BY <1>4, Zenon DEF DigitOf
  <1> HIDE DEF v
  <1>6. \A j \in 0..k : v[j] = u[j]
    <2> DEFINE T == {j \in 0..k : v[j] # u[j]}
    <2> SUFFICES ASSUME T # {} PROVE FALSE
      OBVIOUS
    <2>1. PICK m \in T : \A y \in T : m <= y
      <3>1. T \in SUBSET Nat
        OBVIOUS
      <3> QED BY <3>1, Least
    <2>2. m \in 0..k /\ v[m] # u[m]
      BY <2>1
    <2>3. m # 0
      BY <1>2, <1>5, <2>2
    <2>4. m \in 1..k /\ m - 1 \in 0..k /\ ~(m <= m - 1)
      BY <2>2, <2>3
    <2>5. v[m - 1] = u[m - 1]
      BY <2>1, <2>4
    <2>6. v[m] = (v[m - 1] * base) + DigitOf(t[Len(t) - k + m])
      BY <1>5, <2>2, <2>3, Zenon
    <2> QED BY <1>2, <2>2, <2>4, <2>5, <2>6
  <1> QED BY <1>1, <1>6

LEMMA ShowsNumber ==
  ASSUME NEW base \in Bases, NEW num \in Nat, NEW t, NEW w, NEW c,
         Shows(t, num, base, w, c)
  PROVE  IsNumber(t, num, base, w, c)
  <1>1. PICK k \in 1..Len(t) :
          /\ Spells(t, base, k, num)
          /\ num = 0 => k = 1
          /\ num > 0 => t[Len(t) - k + 1] # "0"
          /\ \A j \in 1..Len(t)-k : t[j] = c
          /\ Len(t) = IF k > w THEN k ELSE w
    BY DEF Shows
  <1>2. k \in Nat /\ base \in Nat
    BY DEF Shows, Bases
  <1>3. PICK u : Denotes(u, t, base, k) /\ u[k] = num
    BY <1>1 DEF Spells
  <1>4. Value(t, base, k) = num
    BY <1>2, <1>3, ValueIs
  <1>5. k > 1 => t[Len(t) - k + 1] # "0"
    BY <1>1, <1>2
  <1>6. \A j \in 1..k : t[Len(t) - k + j] \in DigitsOf(base)
    BY <1>1 DEF Spells, AllDigits
  <1> QED BY <1>1, <1>4, <1>5, <1>6 DEF IsNumber

-----------------------------------------------------------------------------
(* What is kept of the output grows with it, up to m characters. *)
Grows(b, o, s, m) ==
  b = SubSeq(o, 1, AtMost(Len(o), m)) =>
    b \o SubSeq(s, 1, AtMost(Len(s), m - Len(b)))
      = SubSeq(o \o s, 1, AtMost(Len(o \o s), m))

LEMMA PrefixGrows ==
  ASSUME NEW o \in Seq(Characters), NEW s \in Seq(Characters), NEW m \in Nat, NEW b
  PROVE  Grows(b, o, s, m)
  <1> SUFFICES ASSUME b = SubSeq(o, 1, AtMost(Len(o), m))
               PROVE  b \o SubSeq(s, 1, AtMost(Len(s), m - Len(b)))
                        = SubSeq(o \o s, 1, AtMost(Len(o \o s), m))
    BY DEF Grows
  <1>0. Len(o) \in Nat /\ Len(s) \in Nat /\ Len(o \o s) = Len(o) + Len(s)
    OBVIOUS
  <1>1. CASE Len(o) <= m
    <2>1. AtMost(Len(o), m) = Len(o)
      BY <1>0, <1>1 DEF AtMost
    <2>2. b = o
      BY <2>1
    <2> DEFINE r == AtMost(Len(s), m - Len(o))
    <2>3. r \in 0..Len(s) /\ AtMost(Len(o \o s), m) = Len(o) + r
      BY <1>0, <1>1 DEF AtMost
    <2> HIDE DEF r
    <2>4. o \o SubSeq(s, 1, r) = SubSeq(o \o s, 1, Len(o) + r)
      BY <1>0, <2>3
    <2> QED BY <2>2, <2>3, <2>4 DEF r
  <1>2. CASE Len(o) > m
    <2>1. AtMost(Len(o), m) = m /\ AtMost(Len(o \o s), m) = m
      BY <1>0, <1>2 DEF AtMost
    <2>2. b \in Seq(Characters) /\ Len(b) = m
      BY <1>2, <2>1
    <2>3. AtMost(Len(s), m - Len(b)) = 0
      BY <1>0, <2>2 DEF AtMost
    <2>4. SubSeq(s, 1, 0) = <<>>
      OBVIOUS
    <2>5. SubSeq(o \o s, 1, m) = SubSeq(o, 1, m)
      BY <1>0, <1>2
    <2>6. b \o <<>> = b
      BY <2>2
    <2>7. b = SubSeq(o, 1, m)
      BY <2>1
    <2>8. SubSeq(s, 1, AtMost(Len(s), m - Len(b))) = <<>>
      BY <2>3, <2>4, Zenon
    <2>9. SubSeq(o \o s, 1, AtMost(Len(o \o s), m)) = b
      BY <2>1, <2>5, <2>7, Zenon
    <2> QED BY <2>6, <2>8, <2>9, Zenon
  <1>3. Len(o) <= m \/ Len(o) > m
    BY <1>0
  <1> QED BY <1>1, <1>2, <1>3, Zenon

(* The end of the digits at k of the format f. *)
DigitAt(f, k) == k <= Len(f) /\ \E d \in 0..9 : f[k] = Digit(d)

LEMMA NumeralEnds ==
  ASSUME NEW f \in Seq(Characters), NEW p \in Nat, DigitAt(f, p)
  PROVE  \E e \in p..Len(f) : (\A k \in p..e : DigitAt(f, k)) /\ ~DigitAt(f, e + 1)
  <1> DEFINE T == {e \in Nat : e >= p /\ ~DigitAt(f, e + 1)}
  <1>0. Len(f) \in Nat /\ p <= Len(f)
    BY DEF DigitAt
  <1>1. Len(f) \in T
    <2>1. ~DigitAt(f, Len(f) + 1)
      BY <1>0 DEF DigitAt
    <2> QED BY <1>0, <2>1
  <1>2. PICK e \in T : \A y \in T : e <= y
    <2>1. T \in SUBSET Nat /\ T # {}
      BY <1>1
    <2> QED BY <2>1, Least
  <1>3. e \in Nat /\ e >= p /\ ~DigitAt(f, e + 1) /\ e <= Len(f)
    BY <1>1, <1>2
  <1>4. ASSUME NEW k \in p..e PROVE DigitAt(f, k)
    <2>1. CASE k = p
      BY <2>1
    <2>2. CASE k # p
      <3>1. k - 1 \in Nat /\ k - 1 >= p /\ ~(e <= k - 1) /\ k - 1 + 1 = k
        BY <1>3, <1>4, <2>2
      <3>2. k - 1 \notin T
        BY <1>2, <3>1
      <3>3. DigitAt(f, k - 1 + 1)
        BY <3>1, <3>2
      <3> QED BY <3>1, <3>3
    <2> QED BY <2>1, <2>2
  <1>5. e \in p..Len(f)
    BY <1>0, <1>3
  <1> QED BY <1>3, <1>4, <1>5, Zenon

LEMMA NumeralIs ==
  ASSUME fmt \in Seq(Characters), pos \in Nat, IsDigit(pos)
  PROVE  Numeral \in pos..Len(fmt) /\ \A k \in pos..Numeral : IsDigit(k)
  <1>1. \A k : DigitAt(fmt, k) = IsDigit(k)
    BY Zenon DEF DigitAt, IsDigit
  <1>2. \E e \in pos..Len(fmt) : (\A k \in pos..e : IsDigit(k)) /\ ~IsDigit(e + 1)
    BY <1>1, NumeralEnds
  <1> QED BY <1>2, Zenon DEF Numeral

(* A numeral denotes a number. *)
DecimalDigit(k) == CHOOSE d \in 0..9 : Digit(d) = fmt[k]

LEMMA DecimalDigitType ==
  ASSUME NEW k, IsDigit(k)
  PROVE  DecimalDigit(k) \in 0..9
  BY Zenon DEF DecimalDigit, IsDigit

IsDecimal(u, from, to) ==
  u = [k \in from-1..to |-> IF k < from THEN 0 ELSE u[k - 1] * 10 + DecimalDigit(k)]

LEMMA DecimalExists ==
  ASSUME NEW from \in Nat, NEW to \in Nat, from <= to
  PROVE  \E u : IsDecimal(u, from, to)
  <1> DEFINE T == {m \in Nat : from <= m /\ ~ \E u : IsDecimal(u, from, m)}
  <1> SUFFICES ASSUME T # {} PROVE FALSE
    OBVIOUS
  <1>1. PICK m \in T : \A y \in T : m <= y
    BY Least
  <1>2. m \in Nat /\ from <= m /\ ~ \E u : IsDecimal(u, from, m)
    BY <1>1
  <1>3. CASE m = from
    <2> DEFINE q == [k \in m-1..m |-> IF k < m THEN 0 ELSE 0 * 10 + DecimalDigit(k)]
    <2>1. m - 1 \in m-1..m /\ m - 1 < m
      BY <1>2
    <2>2. q[m - 1] = 0
      BY <2>1
    <2>3. \A k \in m-1..m : ~(k < m) => k - 1 = m - 1
      BY <1>2
    <2>4. \A k \in m-1..m : (IF k < m THEN 0 ELSE 0 * 10 + DecimalDigit(k))
              = (IF k < m THEN 0 ELSE q[k - 1] * 10 + DecimalDigit(k))
      BY <2>2, <2>3, Zenon
    <2> HIDE DEF q
    <2>5. q = [k \in m-1..m |-> IF k < m THEN 0 ELSE q[k - 1] * 10 + DecimalDigit(k)]
      BY <2>4, Zenon DEF q
    <2>6. IsDecimal(q, m, m)
      BY <2>5 DEF IsDecimal
    <2> QED BY <1>2, <1>3, <2>6
  <1>4. CASE m # from
    <2>0. m - 1 \in Nat /\ from <= m - 1 /\ ~(m <= m - 1)
      BY <1>2, <1>4
    <2>1. m - 1 \notin T
      BY <1>1, <2>0
    <2>2. PICK u : IsDecimal(u, from, m - 1)
      BY <2>0, <2>1
    <2> DEFINE q == [k \in from-1..m |-> IF k < from THEN 0 ELSE u[k - 1] * 10 + DecimalDigit(k)]
    <2>3. u = [k \in from-1..m-1 |-> IF k < from THEN 0 ELSE u[k - 1] * 10 + DecimalDigit(k)]
      BY <2>2 DEF IsDecimal
    <2>4. \A k \in from-1..m-1 : q[k] = u[k]
      <3>1. \A k \in from-1..m-1 : k \in from-1..m
        BY <1>2
      <3>2. \A k \in from-1..m-1 : u[k] = IF k < from THEN 0 ELSE u[k - 1] * 10 + DecimalDigit(k)
        BY <2>3, Zenon
      <3>3. \A k \in from-1..m-1 : q[k] = IF k < from THEN 0 ELSE u[k - 1] * 10 + DecimalDigit(k)
        BY <3>1, Zenon
      <3> QED BY <3>2, <3>3, Zenon
    <2> HIDE DEF q
    <2>5. \A k \in from-1..m : ~(k < from) => k - 1 \in from-1..m-1
      BY <1>2
    <2>6. \A k \in from-1..m : (IF k < from THEN 0 ELSE u[k - 1] * 10 + DecimalDigit(k))
                  = (IF k < from THEN 0 ELSE q[k - 1] * 10 + DecimalDigit(k))
      BY <2>4, <2>5, Zenon
    <2>7. q = [k \in from-1..m |-> IF k < from THEN 0 ELSE q[k - 1] * 10 + DecimalDigit(k)]
      BY <2>6, Zenon DEF q
    <2>8. IsDecimal(q, from, m)
      BY <2>7 DEF IsDecimal
    <2> QED BY <1>2, <2>8
  <1> QED BY <1>3, <1>4

LEMMA DecimalType ==
  ASSUME NEW from \in Nat, NEW to \in Nat, from <= to, \A k \in from..to : IsDigit(k)
  PROVE  DecimalValue(from, to) \in Nat
  <1> DEFINE v == CHOOSE v : v = [k \in from-1..to |-> IF k < from THEN 0
                    ELSE v[k - 1] * 10 + (CHOOSE d \in 0..9 : Digit(d) = fmt[k])]
  <1>1. DecimalValue(from, to) = v[to]
    BY Zenon DEF DecimalValue
  <1>2. PICK u : IsDecimal(u, from, to)
    BY DecimalExists
  <1>3. u = [k \in from-1..to |-> IF k < from THEN 0
               ELSE u[k - 1] * 10 + (CHOOSE d \in 0..9 : Digit(d) = fmt[k])]
    BY <1>2, Zenon DEF IsDecimal, DecimalDigit
  <1>4. v = [k \in from-1..to |-> IF k < from THEN 0
               ELSE v[k - 1] * 10 + (CHOOSE d \in 0..9 : Digit(d) = fmt[k])]
    BY <1>3, Zenon
  <1> HIDE DEF v
  <1>5. \A k \in from-1..to : v[k] = IF k < from THEN 0 ELSE v[k - 1] * 10 + DecimalDigit(k)
    BY <1>4, Zenon DEF DecimalDigit
  <1> DEFINE T == {m \in Nat : m >= from /\ m <= to /\ v[m] \notin Nat}
  <1>6. ASSUME T # {} PROVE FALSE
    <2>1. PICK m \in T : \A y \in T : m <= y
      BY <1>6, Least
    <2>2. m \in Nat /\ from <= m /\ m <= to /\ v[m] \notin Nat
      BY <2>1
    <2>3. DecimalDigit(m) \in 0..9
      <3>1. m \in from..to
        BY <2>2
      <3> QED BY <3>1, DecimalDigitType
    <2>4. v[m] = v[m - 1] * 10 + DecimalDigit(m)
      <3>1. m \in from-1..to /\ ~(m < from)
        BY <2>2
      <3> QED BY <1>5, <3>1
    <2>5. v[m - 1] \in Nat
      <3>1. CASE m = from
        <4>1. from - 1 \in from-1..to /\ from - 1 < from
          OBVIOUS
        <4>2. v[from - 1] = 0
          BY <1>5, <4>1
        <4> QED BY <3>1, <4>2
      <3>2. CASE m # from
        <4>1. m - 1 \in Nat /\ from <= m - 1 /\ m - 1 <= to /\ ~(m <= m - 1)
          BY <2>2, <3>2
        <4>2. m - 1 \notin T
          BY <2>1, <4>1
        <4> QED BY <4>1, <4>2
      <3> QED BY <3>1, <3>2
    <2> QED BY <2>2, <2>3, <2>4, <2>5
  <1>7. to \notin T
    BY <1>6
  <1> QED BY <1>1, <1>7

-----------------------------------------------------------------------------
(* The inductive invariant of vprintfmt. *)
(* How far the format was read, back-tracking aside: the words taken from  *)
(* the stack are at most two for each character up to there, and no new    *)
(* escape begins before it.                                                *)
Reached(hi) ==
  /\ ap - 1 <= 2 * (hi - 1)
  /\ \A k \in pos..hi-1 : fmt[k] # "%"

ArgsOK == IF pc = "switch" THEN Reached(pos) ELSE \E hi \in pos..Len(fmt)+1 : Reached(hi)

FmtTypeOK ==
  /\ fmt \in Formats /\ n \in Sizes /\ args \in Args
  /\ pos \in 1..Len(fmt)+1 /\ ap \in Nat \ {0}
  /\ padc \in Characters /\ width \in Int /\ precision \in Int /\ lflag \in Nat
  /\ out \in Seq(Characters)

HasEscape == \E i, j \in 1..Len(fmt) : i < j /\ IsEscape(i, j)

(* The escape that is being read began at i; nothing was printed since. *)
IsFlag(k) == IsDigit(k) \/ fmt[k] \in {"-", "*", ".", "#", "l"}

Opened(i) ==
  /\ fmt[i] = "%" /\ \A k \in i+1..pos-1 : IsFlag(k)
  /\ HasEscape \/ out = SubSeq(fmt, 1, i - 1)

SoFar ==
  /\ pc = "switch" => \E i \in 1..pos-1 : Opened(i)
  /\ pc # "switch" => HasEscape \/ out = SubSeq(fmt, 1, pos - 1)
  /\ pc = "done" => pos = Len(fmt) + 1

FmtInv == FmtTypeOK /\ ArgsOK /\ KeepsPrefix /\ NumberShown /\ SoFar

(* The code's own characters. *)
LEMMA OwnCharacters ==
  {"%", "-", " ", "?", "E", "e", "r", "o", "x", "(", "n", "u", "l", ")", "0"}
    \subseteq Characters
  <1>1. {"%", "-", " ", "?", "E", "e", "r", "o", "x", "(", "n", "u", "l", ")"}
          \subseteq Characters
    BY PrintFmtAssumption, Zenon
  <1>2. Digit(0) \in Characters
    BY DigitType
  <1>3. Digit(0) = "0"
    BY DEF Digit, Digits
  <1> QED BY <1>1, <1>2, <1>3

LEMMA SixCharacters ==
  ASSUME NEW S, NEW a \in S, NEW b \in S, NEW c \in S, NEW d \in S, NEW e \in S, NEW f \in S
  PROVE  <<a, b, c, d, e, f>> \in Seq(S)
  OBVIOUS

LEMMA OwnTexts ==
  /\ <<>> \in Seq(Characters) /\ <<"%">> \in Seq(Characters) /\ <<"-">> \in Seq(Characters)
  /\ <<"0", "x">> \in Seq(Characters) /\ <<"e", "r", "r", "o", "r", " ">> \in Seq(Characters)
  /\ <<"(", "n", "u", "l", "l", ")">> \in Seq(Characters)
  <1>1. /\ "%" \in Characters /\ "-" \in Characters /\ "0" \in Characters
        /\ "x" \in Characters
    BY OwnCharacters
  <1>2. /\ "e" \in Characters /\ "r" \in Characters /\ "o" \in Characters
        /\ " " \in Characters
    BY OwnCharacters
  <1>3. /\ "(" \in Characters /\ "n" \in Characters /\ "u" \in Characters
        /\ "l" \in Characters /\ ")" \in Characters
    BY OwnCharacters
  <1>4. /\ <<>> \in Seq(Characters) /\ <<"%">> \in Seq(Characters)
        /\ <<"-">> \in Seq(Characters) /\ <<"0", "x">> \in Seq(Characters)
    BY <1>1
  <1>5. <<"e", "r", "r", "o", "r", " ">> \in Seq(Characters)
    BY <1>2, SixCharacters, Zenon
  <1>6. <<"(", "n", "u", "l", "l", ")">> \in Seq(Characters)
    BY <1>3, SixCharacters, Zenon
  <1> QED BY <1>4, <1>5, <1>6

(* A quotient's remainder. *)
LEMMA Remainder ==
  ASSUME NEW x \in Int, NEW y \in Nat, y > 0
  PROVE  x % y \in Nat
  OBVIOUS

(* The words of the stack that an escape at pos asks for. *)
Stack(a) == a \in Seq(0..UInts-1) /\ ap \in 1..Len(a) /\ ap + 1 \in 1..Len(a)

LEMMA UIntsFacts == IntHalf \in Nat /\ UInts \in Nat /\ UInts > 0
  <1>1. IntHalf \in Nat \ {0}
    BY PrintFmtAssumption, Zenon
  <1> QED BY <1>1 DEF UInts

LEMMA WordsOnStack ==
  ASSUME FmtTypeOK, Reached(pos), pos <= Len(fmt)
  PROVE  Stack(args)
  <1>1. fmt \in Formats /\ args \in Args /\ ap \in Nat /\ ap > 0 /\ pos \in 1..Len(fmt)+1
    BY DEF FmtTypeOK
  <1>2. args \in Seq(0..UInts-1) /\ Len(args) >= 2 * Len(fmt)
    BY <1>1, PrintFmtAssumption, Zenon
  <1>3. fmt \in Seq(Characters)
    BY <1>1, PrintFmtAssumption
  <1>4. ap - 1 <= 2 * (pos - 1)
    BY DEF Reached
  <1>5. Len(fmt) \in Nat /\ Len(args) \in Nat
    BY <1>2, <1>3
  <1>6. ap \in 1..Len(args) /\ ap + 1 \in 1..Len(args)
    BY <1>1, <1>2, <1>4, <1>5
  <1> QED BY <1>2, <1>6 DEF Stack

LEMMA WordTypes ==
  ASSUME Stack(args)
  PROVE  /\ args[ap] \in 0..UInts-1 /\ args[ap + 1] \in 0..UInts-1
         /\ args[ap] \in Nat /\ args[ap + 1] \in Nat
  <1>1. args[ap] \in 0..UInts-1 /\ args[ap + 1] \in 0..UInts-1
    BY ElementOfSeq, Zenon DEF Stack
  <1> QED BY <1>1, UIntsFacts

LEMMA ArgTypes ==
  ASSUME Stack(args)
  PROVE  /\ AnInt \in Int /\ getuint \in Nat /\ getint \in Int /\ Abs \in Int
         /\ (-getint) % (UInts * UInts) \in Nat
  <1> DEFINE lo == args[ap]
             hi == args[ap + 1]
  <1>1. lo \in Nat /\ hi \in Nat /\ UInts \in Nat /\ UInts > 0 /\ IntHalf \in Nat
    BY WordTypes, UIntsFacts
  <1> HIDE DEF lo, hi
  <1>2. \A x \in Int, h \in Nat : Signed(x, h) \in Int
    BY DEF Signed
  <1>3. AnInt \in Int
    BY <1>1, <1>2 DEF AnInt, lo
  <1>4. hi * UInts \in Nat /\ IntHalf * UInts \in Nat /\ UInts * UInts \in Nat
    BY <1>1
  <1>5. getuint \in Nat
    <2>1. lo + (hi * UInts) \in Nat
      BY <1>1, <1>4
    <2> QED BY <1>1, <2>1 DEF getuint, lo, hi
  <1>6. getint \in Int
    BY <1>1, <1>2, <1>4, <1>5 DEF getint
  <1>7. Abs \in Int
    <2>1. -AnInt \in Int
      BY <1>3
    <2>2. (-AnInt) % UInts \in Nat
      BY <1>1, <2>1, Remainder
    <2> QED BY <1>1, <1>2, <1>3, <2>2 DEF Abs
  <1>8. (-getint) % (UInts * UInts) \in Nat
    <2>1. -getint \in Int
      BY <1>6
    <2>2. UInts * UInts > 0
      BY <1>1
    <2> QED BY <1>4, <2>1, <2>2, Remainder
  <1> QED BY <1>3, <1>5, <1>6, <1>7, <1>8

-----------------------------------------------------------------------------
(* What is printed for an escape consists of characters. *)
LEMMA PrintnumType ==
  ASSUME NEW base \in Bases, NEW c \in Characters, NEW num \in Nat, NEW w \in Int
  PROVE  printnum(num, base, w, c) \in Seq(Characters)
  BY PrintnumShows DEF Shows

LEMMA ErrorType ==
  ASSUME NEW e \in Int
  PROVE  ErrorText(e) \in Seq(Characters)
  <1>1. CASE e < MAXERROR /\ e \in DOMAIN error_string
    <2>1. e \in 1..6
      BY <1>1 DEF error_string
    <2>2. error_string[e] = <<"E", Digit(e)>>
      BY <2>1 DEF error_string
    <2>3. "E" \in Characters /\ Digit(e) \in Characters
      <3>1. e \in 0..15
        BY <2>1
      <3> QED BY <3>1, OwnCharacters, DigitType
    <2>4. <<"E", Digit(e)>> \in Seq(Characters)
      BY <2>3
    <2> QED BY <1>1, <2>2, <2>4 DEF ErrorText
  <1>2. CASE ~(e < MAXERROR /\ e \in DOMAIN error_string)
    <2> DEFINE num == IF e < 0 THEN -e ELSE e
               sign == IF e < 0 THEN <<"-">> ELSE <<>>
               word == <<"e", "r", "r", "o", "r", " ">>
    <2>1. num \in Nat
      OBVIOUS
    <2>2. sign \in Seq(Characters) /\ word \in Seq(Characters) /\ " " \in Characters
      <3>1. " " \in Characters
        BY OwnCharacters
      <3> QED BY <3>1, OwnTexts, Zenon
    <2>3. printnum(num, 10, -1, " ") \in Seq(Characters)
      <3>1. 10 \in Bases /\ -1 \in Int
        BY DEF Bases
      <3> HIDE DEF num
      <3> QED BY <2>1, <2>2, <3>1, PrintnumType
    <2>4. ErrorText(e) = word \o sign \o printnum(num, 10, -1, " ")
      BY <1>2, Zenon DEF ErrorText
    <2> HIDE DEF num, sign, word
    <2>5. word \o sign \in Seq(Characters)
      BY <2>2, ConcatProperties, Zenon
    <2>6. (word \o sign) \o printnum(num, 10, -1, " ") \in Seq(Characters)
      BY <2>3, <2>5, ConcatProperties, Zenon
    <2> QED BY <2>4, <2>6, Zenon
  <1> QED BY <1>1, <1>2

LEMMA ShownType ==
  ASSUME NEW p \in Seq(Characters), precision \in Int
  PROVE  strnlen(p) \in 0..Len(p) /\ Shown(p) \in Seq(Characters)
  <1>1. strnlen(p) \in 0..Len(p)
    BY DEF strnlen, AtMost
  <1>2. "?" \in Characters
    BY OwnCharacters
  <1>3. \A k \in 1..strnlen(p) : p[k] \in Characters
    BY <1>1
  <1>4. Shown(p) \in [1..strnlen(p) -> Characters]
    BY <1>2, <1>3 DEF Shown
  <1>5. strnlen(p) \in Nat
    BY <1>1
  <1> QED BY <1>1, <1>4, <1>5

LEMMA PaddedType ==
  ASSUME NEW p \in Seq(Characters), precision \in Int, width \in Int, padc \in Characters
  PROVE  Padded(p) \in Seq(Characters)
  <1>0. strnlen(p) \in 0..Len(p) /\ Shown(p) \in Seq(Characters) /\ Len(p) \in Nat
    BY ShownType
  <1>1. Shown(p) \in Seq(Characters) /\ width - strnlen(p) \in Int /\ " " \in Characters
    <2>1. width - strnlen(p) \in Int
      BY <1>0
    <2>2. " " \in Characters
      BY OwnCharacters
    <2> QED BY <1>0, <2>1, <2>2
  <1>2. /\ Repeat(padc, width - strnlen(p)) \in Seq(Characters)
        /\ Repeat(" ", width - strnlen(p)) \in Seq(Characters)
    BY <1>1, RepeatIs
  <1>3. /\ Repeat(padc, width - strnlen(p)) \o Shown(p) \in Seq(Characters)
        /\ Shown(p) \o Repeat(" ", width - strnlen(p)) \in Seq(Characters)
    BY <1>1, <1>2, ConcatProperties, Zenon
  <1> QED BY <1>3, Zenon DEF Padded

LEMMA PointeeType ==
  ASSUME Stack(args)
  PROVE  Pointee \in Seq(Characters)
  <1>1. args[ap] \in Nat /\ args[ap] \in 0..UInts-1
    BY WordTypes
  <1>2. CASE args[ap] = 0
    <2> QED BY <1>2, OwnTexts DEF Pointee
  <1>3. CASE args[ap] # 0
    <2>1. args[ap] \in 1..UInts-1
      BY <1>1, <1>3, UIntsFacts
    <2>2. Strings[args[ap]] \in Seq(Characters)
      BY <2>1, PrintFmtAssumption, Zenon
    <2> QED BY <1>3, <2>2 DEF Pointee
  <1> QED BY <1>2, <1>3

LEMMA GlyphType ==
  ASSUME Stack(args)
  PROVE  <<Glyphs[args[ap] + 1]>> \in Seq(Characters)
  <1>1. args[ap] + 1 \in 1..UInts
    BY WordTypes, UIntsFacts
  <1>2. Glyphs[args[ap] + 1] \in Characters
    BY <1>1, PrintFmtAssumption, Zenon
  <1> QED BY <1>2

-----------------------------------------------------------------------------
(* The format and the place in it. *)
LEMMA FormatFacts ==
  ASSUME FmtTypeOK
  PROVE  /\ fmt \in Seq(Characters) /\ Len(fmt) \in Nat
         /\ pos \in Nat /\ pos >= 1 /\ pos <= Len(fmt) + 1
  <1>1. fmt \in Formats /\ pos \in 1..Len(fmt)+1
    BY DEF FmtTypeOK
  <1>2. fmt \in Seq(Characters)
    BY <1>1, PrintFmtAssumption, Zenon
  <1> QED BY <1>1, <1>2

LEMMA AtCharacter ==
  ASSUME FmtTypeOK
  PROVE  /\ ch # "NUL" => pos <= Len(fmt) /\ ch = fmt[pos] /\ ch \in Characters
         /\ ch = "NUL" => pos = Len(fmt) + 1
  <1>1. /\ fmt \in Seq(Characters) /\ Len(fmt) \in Nat
        /\ pos \in Nat /\ pos >= 1 /\ pos <= Len(fmt) + 1
    BY FormatFacts
  <1>2. "NUL" \notin Characters
    BY PrintFmtAssumption, Zenon
  <1>3. CASE pos <= Len(fmt)
    <2>1. pos \in 1..Len(fmt)
      BY <1>1, <1>3
    <2>2. fmt[pos] \in Characters
      BY <1>1, <2>1, ElementOfSeq, Zenon
    <2>3. ch = fmt[pos]
      BY <1>3 DEF ch
    <2> QED BY <1>2, <1>3, <2>2, <2>3
  <1>4. CASE ~(pos <= Len(fmt))
    <2>1. ch = "NUL"
      BY <1>4 DEF ch
    <2> QED BY <1>1, <1>4, <2>1
  <1> QED BY <1>3, <1>4

(* Every way of printing keeps what fits. *)
LEMMA PutchStep ==
  ASSUME NEW s \in Seq(Characters), FmtTypeOK, KeepsPrefix, UNCHANGED n, Putch(s)
  PROVE  KeepsPrefix' /\ out' \in Seq(Characters) /\ out' = out \o s
  <1>1. out' = out \o s /\ out \in Seq(Characters)
    BY DEF Putch, FmtTypeOK
  <1>2. out' \in Seq(Characters) /\ Len(out') = Len(out) + Len(s)
    BY <1>1
  <1>3. ASSUME n > 0
        PROVE  buf' = SubSeq(out', 1, AtMost(Len(out'), n - 1)) /\ cnt' = Len(out')
    <2>1. n \in Nat
      <3>1. n \in Nat \cup {-1}
        BY PrintFmtAssumption DEF FmtTypeOK
      <3> QED BY <1>3, <3>1
    <2>2. sprintputch(s)
      BY <1>3, <2>1 DEF Putch
    <2>3. buf = SubSeq(out, 1, AtMost(Len(out), n - 1)) /\ cnt = Len(out)
      BY <1>3 DEF KeepsPrefix
    <2>4. n - 1 \in Nat /\ n - 1 - Len(buf) = (n - 1) - Len(buf)
      BY <1>3, <2>1
    <2>5. buf \o SubSeq(s, 1, AtMost(Len(s), (n - 1) - Len(buf)))
            = SubSeq(out \o s, 1, AtMost(Len(out \o s), n - 1))
      <3> DEFINE m == n - 1
      <3>1. m \in Nat /\ buf = SubSeq(out, 1, AtMost(Len(out), m)) /\ out \in Seq(Characters)
        BY <1>1, <2>3, <2>4
      <3> HIDE DEF m
      <3>2. buf \o SubSeq(s, 1, AtMost(Len(s), m - Len(buf)))
              = SubSeq(out \o s, 1, AtMost(Len(out \o s), m))
        <4>1. Grows(buf, out, s, m)
          BY <3>1, PrefixGrows, Zenon
        <4> QED BY <3>1, <4>1, Zenon DEF Grows
      <3> QED BY <3>2 DEF m
    <2>6. /\ cnt' = cnt + Len(s)
          /\ buf' = buf \o SubSeq(s, 1, AtMost(Len(s), (n - 1) - Len(buf)))
      BY <2>2, <2>4 DEF sprintputch, Room
    <2>7. cnt' = Len(out')
      BY <1>2, <2>3, <2>6
    <2> QED BY <1>1, <2>5, <2>6, <2>7
  <1> QED BY <1>1, <1>2, <1>3 DEF KeepsPrefix

LEMMA SilentStep ==
  ASSUME FmtTypeOK, KeepsPrefix, UNCHANGED <<n, sink>>
  PROVE  KeepsPrefix' /\ out' \in Seq(Characters) /\ out' = out
  BY DEF KeepsPrefix, FmtTypeOK, sink, AtMost

LEMMA NumberKept ==
  ASSUME NumberShown, UNCHANGED field
  PROVE  NumberShown'
  BY DEF NumberShown

-----------------------------------------------------------------------------
(* What the format holds does not change with the place in it. *)
LEMMA SameFormat ==
  ASSUME UNCHANGED fmt
  PROVE  /\ HasEscape <=> HasEscape'
         /\ \A k : IsFlag(k) <=> IsFlag(k)'
  BY DEF HasEscape, IsEscape, IsFlag, IsDigit

LEMMA FlagIsNoPercent ==
  ASSUME NEW k, IsFlag(k)
  PROVE  fmt[k] # "%"
  <1>1. \A d \in 0..9 : Digit(d) # "%"
    BY DEF Digit, Digits
  <1> QED BY <1>1 DEF IsFlag, IsDigit

(* A conversion that follows '%' and flags makes the format one with an    *)
(* escape.                                                                 *)
Conversions == {"c", "e", "s", "d", "u", "o", "p", "x", "%"}

LEMMA EscapeFound ==
  ASSUME FmtTypeOK, SoFar, pc = "switch", pos <= Len(fmt), fmt[pos] \in Conversions
  PROVE  HasEscape
  <1>1. PICK i \in 1..pos-1 : Opened(i)
    BY DEF SoFar
  <1>2. /\ Len(fmt) \in Nat /\ pos \in Nat /\ pos >= 1
    BY FormatFacts
  <1>3. i \in 1..Len(fmt) /\ pos \in 1..Len(fmt) /\ i < pos
    BY <1>2
  <1>4. fmt[i] = "%" /\ \A k \in i+1..pos-1 : IsFlag(k)
    BY <1>1 DEF Opened
  <1>5. IsEscape(i, pos)
    BY <1>4, Zenon DEF IsEscape, IsFlag, Conversions
  <1> QED BY <1>3, <1>5, Zenon DEF HasEscape

(* The end of a conversion. *)
LEMMA ConvertStep ==
  ASSUME FmtInv, pc = "switch", pos <= Len(fmt), fmt[pos] \in Conversions,
         NEW s \in Seq(Characters), NEW words \in 0..2, Convert(s, words)
  PROVE  FmtTypeOK' /\ ArgsOK' /\ KeepsPrefix' /\ SoFar'
  <1>0. /\ FmtTypeOK /\ ArgsOK /\ KeepsPrefix /\ SoFar
    BY DEF FmtInv
  <1>1. /\ Putch(s) /\ ap' = ap + words /\ pos' = pos + 1 /\ pc' = "text"
        /\ fmt' = fmt /\ n' = n /\ args' = args
        /\ padc' = padc /\ width' = width /\ precision' = precision /\ lflag' = lflag
    BY DEF Convert, given, escape
  <1>2. Len(fmt) \in Nat /\ pos \in Nat /\ pos >= 1
    BY <1>0, FormatFacts
  <1>3. KeepsPrefix' /\ out' \in Seq(Characters)
    BY <1>0, <1>1, PutchStep
  <1>4. pos' \in 1..Len(fmt)+1 /\ ap' \in Nat \ {0}
    <2>1. ap \in Nat \ {0}
      BY <1>0 DEF FmtTypeOK
    <2> QED BY <1>1, <1>2, <2>1
  <1>5. FmtTypeOK'
    BY <1>0, <1>1, <1>3, <1>4 DEF FmtTypeOK
  <1>6. ArgsOK'
    <2>1. ap - 1 <= 2 * (pos - 1) /\ ap \in Nat
      BY <1>0 DEF ArgsOK, Reached, FmtTypeOK
    <2> DEFINE h == pos + 1
    <2>2. /\ h \in pos'..Len(fmt')+1 /\ ap' - 1 <= 2 * (h - 1)
          /\ \A k \in pos'..h-1 : FALSE
      BY <1>1, <1>2, <2>1
    <2> HIDE DEF h
    <2>3. \A k \in pos'..h-1 : fmt'[k] # "%"
      BY <2>2, Zenon
    <2> QED BY <1>1, <2>2, <2>3, Zenon DEF ArgsOK, Reached
  <1>7. SoFar'
    <2>1. HasEscape'
      BY <1>0, <1>1, EscapeFound, SameFormat
    <2> QED BY <1>1, <2>1 DEF SoFar
  <1> QED BY <1>3, <1>5, <1>6, <1>7

(* Flags, widths and stars belong to the escape that is being read. *)
FlagsRead ==
  /\ pos' \in pos+1..Len(fmt)+1 /\ \A k \in pos..pos'-1 : IsFlag(k)
  /\ ap' \in {ap, ap + 1} /\ UNCHANGED <<fmt, out, pc>>

LEMMA FlagStep ==
  ASSUME FmtTypeOK, ArgsOK, SoFar, pc = "switch", FlagsRead
  PROVE  ArgsOK' /\ SoFar'
  <1>0. Len(fmt) \in Nat /\ pos \in Nat /\ pos >= 1
    BY FormatFacts
  <1>1. PICK q \in Nat : q = pos' /\ q > pos /\ q <= Len(fmt) + 1
    <2> DEFINE q == pos'
    <2>1. q \in pos+1..Len(fmt)+1
      BY DEF FlagsRead
    <2> HIDE DEF q
    <2>2. q \in Nat /\ q > pos /\ q <= Len(fmt) + 1
      BY <1>0, <2>1
    <2> QED BY <2>2 DEF q
  <1>a. q \in Nat /\ q > pos
    BY <1>1
  <1>2. ap' \in {ap, ap + 1} /\ \A k \in pos..q-1 : IsFlag(k)
    BY <1>1 DEF FlagsRead
  <1>3. fmt' = fmt /\ out' = out /\ pc' = "switch"
    BY DEF FlagsRead
  <1>4. ArgsOK'
    <2>1. ap - 1 <= 2 * (pos - 1) /\ ap \in Nat
      BY DEF ArgsOK, Reached, FmtTypeOK
    <2>2. \A b \in {ap, ap + 1} : b - 1 <= 2 * (q - 1)
      BY <1>0, <1>a, <2>1
    <2>3. \A k \in q..q-1 : FALSE
      BY <1>a
    <2>4. Reached(pos)'
      BY <1>1, <1>2, <2>2, <2>3, Zenon DEF Reached
    <2> QED BY <1>3, <2>4 DEF ArgsOK
  <1>5. SoFar'
    <2>1. PICK i \in 1..pos-1 : Opened(i)
      BY DEF SoFar
    <2>2. fmt[i] = "%" /\ \A k \in i+1..pos-1 : IsFlag(k)
      BY <2>1 DEF Opened
    <2>3. i \in Nat /\ i \in 1..q-1
      BY <1>0, <1>a
    <2>4. ASSUME NEW k \in i+1..q-1 PROVE IsFlag(k)
      <3>1. k \in i+1..pos-1 \/ k \in pos..q-1
        BY <1>0, <1>a, <2>3
      <3> QED BY <1>2, <2>2, <3>1
    <2>5. \A k \in i+1..q-1 : IsFlag(k)'
      BY <1>3, <2>4, SameFormat, Zenon
    <2>6. HasEscape' \/ out' = SubSeq(fmt', 1, i - 1)
      BY <1>3, <2>1, SameFormat DEF Opened
    <2>7. Opened(i)'
      BY <1>1, <1>3, <2>2, <2>5, <2>6, Zenon DEF Opened
    <2>8. \E j \in 1..pos'-1 : Opened(j)'
      BY <1>1, <2>3, <2>7, Zenon
    <2> QED BY <1>3, <2>8 DEF SoFar
  <1> QED BY <1>4, <1>5

(* No escape is read in these states, and the place stays where it is. *)
LEMMA StayStep ==
  ASSUME FmtInv, pc # "switch", pc' # "switch", UNCHANGED <<given, pos, ap, escape, sink, field>>,
         pc' = "done" => pos = Len(fmt) + 1
  PROVE  FmtInv'
  <1>0. FmtTypeOK /\ ArgsOK /\ KeepsPrefix /\ NumberShown /\ SoFar
    BY DEF FmtInv
  <1>1. /\ fmt' = fmt /\ n' = n /\ args' = args /\ pos' = pos /\ ap' = ap /\ out' = out
        /\ padc' = padc /\ width' = width /\ precision' = precision /\ lflag' = lflag
    BY DEF given, escape, sink
  <1>2. KeepsPrefix' /\ NumberShown'
    BY <1>0, <1>1, SilentStep, NumberKept
  <1>3. FmtTypeOK'
    BY <1>0, <1>1 DEF FmtTypeOK
  <1>4. ArgsOK'
    BY <1>0, <1>1, Zenon DEF ArgsOK, Reached
  <1>5. SoFar'
    <2>1. HasEscape \/ out = SubSeq(fmt, 1, pos - 1)
      BY <1>0 DEF SoFar
    <2>2. HasEscape' \/ out' = SubSeq(fmt', 1, pos' - 1)
      BY <1>1, <2>1, SameFormat
    <2>3. pc' = "done" => pos' = Len(fmt') + 1
      BY <1>1
    <2> QED BY <2>2, <2>3 DEF SoFar
  <1> QED BY <1>2, <1>3, <1>4, <1>5 DEF FmtInv

LEMMA StartStep == FmtInv /\ (Start \/ Refuse \/ Finish) => FmtInv'
  <1> SUFFICES ASSUME FmtInv, Start \/ Refuse \/ Finish PROVE FmtInv'
    OBVIOUS
  <1>1. /\ pc # "switch" /\ pc' # "switch" /\ UNCHANGED <<given, pos, ap, escape, sink, field>>
        /\ pc' = "done" => ch = "NUL"
    BY DEF Start, Refuse, Finish
  <1>2. pc' = "done" => pos = Len(fmt) + 1
    BY <1>1, AtCharacter DEF FmtInv
  <1> QED BY <1>1, <1>2, StayStep

(* A character that is printed as it stands. *)
LEMMA PrefixOfFormat ==
  ASSUME NEW f \in Seq(Characters), NEW p \in 1..Len(f)
  PROVE  SubSeq(f, 1, p - 1) \o <<f[p]>> = SubSeq(f, 1, p)
  OBVIOUS

LEMMA LiteralStep == FmtInv /\ Literal => FmtInv'
  <1> SUFFICES ASSUME FmtInv, Literal PROVE FmtInv'
    OBVIOUS
  <1>0. FmtTypeOK /\ ArgsOK /\ KeepsPrefix /\ NumberShown /\ SoFar
    BY DEF FmtInv
  <1>1. /\ pc = "text" /\ pc' = "text" /\ ch # "%" /\ ch # "NUL" /\ Putch(<<ch>>)
        /\ fmt' = fmt /\ n' = n /\ args' = args /\ pos' = pos + 1 /\ ap' = ap
        /\ padc' = padc /\ width' = width /\ precision' = precision /\ lflag' = lflag
        /\ field' = field
    BY DEF Literal, given, escape
  <1>2. pos <= Len(fmt) /\ ch = fmt[pos] /\ ch \in Characters
    BY <1>0, <1>1, AtCharacter
  <1>3. fmt \in Seq(Characters) /\ Len(fmt) \in Nat /\ pos \in Nat /\ pos >= 1
    BY <1>0, FormatFacts
  <1>4. KeepsPrefix' /\ out' \in Seq(Characters) /\ out' = out \o <<ch>>
    <2>1. <<ch>> \in Seq(Characters)
      BY <1>2
    <2> QED BY <1>0, <1>1, <2>1, PutchStep
  <1>5. FmtTypeOK'
    <2>1. pos' \in 1..Len(fmt)+1
      BY <1>1, <1>2, <1>3
    <2> QED BY <1>0, <1>1, <1>4, <2>1 DEF FmtTypeOK
  <1>6. ArgsOK'
    <2>1. PICK hi \in pos..Len(fmt)+1 : Reached(hi)
      BY <1>0, <1>1 DEF ArgsOK
    <2>2. ap - 1 <= 2 * (hi - 1) /\ \A k \in pos..hi-1 : fmt[k] # "%"
      BY <2>1 DEF Reached
    <2>3. ap \in Nat
      BY <1>0 DEF FmtTypeOK
    <2> DEFINE h == IF hi > pos THEN hi ELSE pos + 1
    <2>4. /\ h \in pos'..Len(fmt')+1 /\ ap' - 1 <= 2 * (h - 1)
          /\ \A k \in pos'..h-1 : k \in pos..hi-1
      BY <1>1, <1>2, <1>3, <2>2, <2>3
    <2> HIDE DEF h
    <2>5. \A k \in pos'..h-1 : fmt'[k] # "%"
      BY <1>1, <2>2, <2>4, Zenon
    <2>6. pc' # "switch"
      BY <1>1
    <2> QED BY <2>4, <2>5, <2>6, Zenon DEF ArgsOK, Reached
  <1>7. SoFar'
    <2>1. HasEscape \/ out = SubSeq(fmt, 1, pos - 1)
      BY <1>0, <1>1 DEF SoFar
    <2>2. SubSeq(fmt, 1, pos - 1) \o <<fmt[pos]>> = SubSeq(fmt, 1, pos)
      <3>1. pos \in 1..Len(fmt)
        BY <1>2, <1>3
      <3> QED BY <1>3, <3>1, PrefixOfFormat
    <2>3. pos' - 1 = pos
      BY <1>1, <1>3
    <2>4. HasEscape' \/ out' = SubSeq(fmt', 1, pos' - 1)
      BY <1>1, <1>2, <1>4, <2>1, <2>2, <2>3, SameFormat
    <2> QED BY <1>1, <2>4 DEF SoFar
  <1>8. NumberShown'
    BY <1>0, <1>1, NumberKept
  <1> QED BY <1>4, <1>5, <1>6, <1>7, <1>8 DEF FmtInv

LEMMA EscapeStep == FmtInv /\ Escape => FmtInv'
  <1> SUFFICES ASSUME FmtInv, Escape PROVE FmtInv'
    OBVIOUS
  <1>0. FmtTypeOK /\ ArgsOK /\ KeepsPrefix /\ NumberShown /\ SoFar
    BY DEF FmtInv
  <1>1. /\ pc = "text" /\ pc' = "switch" /\ ch = "%"
        /\ fmt' = fmt /\ n' = n /\ args' = args /\ pos' = pos + 1 /\ ap' = ap
        /\ width' = -1 /\ precision' = -1 /\ lflag' = 0 /\ out' = out
    BY DEF Escape, given, sink
  <1>a. UNCHANGED <<n, sink>> /\ UNCHANGED field
    BY DEF Escape, given
  <1>2. pos <= Len(fmt) /\ fmt[pos] = "%"
    BY <1>0, <1>1, AtCharacter
  <1>3. fmt \in Seq(Characters) /\ Len(fmt) \in Nat /\ pos \in Nat /\ pos >= 1
    BY <1>0, FormatFacts
  <1>4. KeepsPrefix' /\ NumberShown'
    BY <1>0, <1>a, SilentStep, NumberKept
  <1>5. FmtTypeOK'
    <2>1. pos' \in 1..Len(fmt)+1
      BY <1>1, <1>2, <1>3
    <2>2. padc' \in Characters
      BY OwnCharacters, Zenon DEF Escape
    <2>3. width' \in Int /\ precision' \in Int /\ lflag' \in Nat
      BY <1>1
    <2> QED BY <1>0, <1>1, <2>1, <2>2, <2>3 DEF FmtTypeOK
  <1>6. ArgsOK'
    <2>1. PICK hi \in pos..Len(fmt)+1 : Reached(hi)
      BY <1>0, <1>1 DEF ArgsOK
    <2>2. ap - 1 <= 2 * (hi - 1) /\ \A k \in pos..hi-1 : fmt[k] # "%"
      BY <2>1 DEF Reached
    <2>3. hi = pos
      <3>1. ~(pos \in pos..hi-1)
        BY <1>2, <2>2
      <3> QED BY <1>3, <3>1
    <2>4. ap \in Nat
      BY <1>0 DEF FmtTypeOK
    <2> DEFINE q == pos + 1
    <2>5. ap - 1 <= 2 * (q - 1) /\ \A k \in q..q-1 : FALSE
      BY <1>3, <2>2, <2>3, <2>4
    <2> HIDE DEF q
    <2>6. pos' = q /\ ap' = ap
      BY <1>1 DEF q
    <2>7. Reached(pos)'
      BY <2>5, <2>6 DEF Reached
    <2> QED BY <1>1, <2>7 DEF ArgsOK
  <1>7. SoFar'
    <2>1. HasEscape' \/ out' = SubSeq(fmt', 1, pos - 1)
      BY <1>0, <1>1, SameFormat DEF SoFar
    <2> DEFINE i == pos
               q == pos + 1
    <2>2. fmt'[i] = "%" /\ i \in 1..q-1 /\ \A k \in i+1..q-1 : FALSE
      BY <1>1, <1>2, <1>3
    <2>3. \A k \in i+1..q-1 : IsFlag(k)'
      BY <2>2, Zenon
    <2>4. pos' = q /\ (HasEscape' \/ out' = SubSeq(fmt', 1, i - 1))
      BY <1>1, <2>1
    <2> HIDE DEF i, q
    <2>5. \E j \in 1..pos'-1 : /\ fmt'[j] = "%" /\ \A k \in j+1..pos'-1 : IsFlag(k)'
                               /\ HasEscape' \/ out' = SubSeq(fmt', 1, j - 1)
      BY <2>2, <2>3, <2>4, Zenon
    <2> QED BY <1>1, <2>5, Zenon DEF SoFar, Opened
  <1> QED BY <1>4, <1>5, <1>6, <1>7 DEF FmtInv

LEMMA FlagActionStep == FmtInv /\ Flag => FmtInv'
  <1> SUFFICES ASSUME FmtInv, Flag PROVE FmtInv'
    OBVIOUS
  <1>0. FmtTypeOK /\ ArgsOK /\ KeepsPrefix /\ NumberShown /\ SoFar
    BY DEF FmtInv
  <1>1. /\ pc = "switch" /\ pc' = pc /\ fmt' = fmt /\ args' = args /\ ap' = ap
        /\ pos' = pos + 1 /\ precision' = precision /\ out' = out
    BY DEF Flag, given, sink, PastFlag
  <1>2. ch \in {"-", "0", ".", "#", "l"}
    BY DEF Flag
  <1>3. pos <= Len(fmt) /\ ch = fmt[pos] /\ ch \in Characters
    BY <1>0, <1>2, AtCharacter
  <1>4. Len(fmt) \in Nat /\ pos \in Nat /\ pos >= 1
    BY <1>0, FormatFacts
  <1>5. IsFlag(pos)
    <2>1. Digit(0) = "0" /\ 0 \in 0..9
      BY DEF Digit, Digits
    <2>2. ch = "0" => IsDigit(pos)
      BY <1>3, <2>1, Zenon DEF IsDigit
    <2> QED BY <1>2, <1>3, <2>2 DEF IsFlag
  <1>6. FlagsRead
    <2> DEFINE q == pos + 1
    <2>1. q \in pos+1..Len(fmt)+1 /\ \A k \in pos..q-1 : k = pos
      BY <1>3, <1>4
    <2>2. \A k \in pos..q-1 : IsFlag(k)
      BY <1>5, <2>1, Zenon
    <2> HIDE DEF q
    <2>3. pos' = q
      BY <1>1 DEF q
    <2> QED BY <1>1, <2>1, <2>2, <2>3, Zenon DEF FlagsRead
  <1>7. ArgsOK' /\ SoFar'
    BY <1>0, <1>1, <1>6, FlagStep
  <1>8. KeepsPrefix' /\ NumberShown'
    <2>1. UNCHANGED <<n, sink>> /\ UNCHANGED field
      BY DEF Flag, given
    <2> QED BY <1>0, <2>1, SilentStep, NumberKept
  <1>9. FmtTypeOK'
    <2>1. padc' \in Characters
      <3>1. padc \in Characters
        BY <1>0 DEF FmtTypeOK
      <3> QED BY <1>3, <3>1 DEF Flag
    <2>2. width' \in Int
      <3>1. width \in Int
        BY <1>0 DEF FmtTypeOK
      <3>2. width' \in {width, 0}
        BY DEF Flag
      <3> QED BY <3>1, <3>2
    <2>3. lflag' \in Nat
      <3>1. lflag \in Nat
        BY <1>0 DEF FmtTypeOK
      <3>2. lflag' \in {lflag, lflag + 1}
        BY DEF Flag
      <3> QED BY <3>1, <3>2
    <2>4. pos + 1 \in 1..Len(fmt)+1
      BY <1>3, <1>4
    <2>5. n' = n
      BY DEF Flag, given
    <2> QED BY <1>0, <1>1, <2>1, <2>2, <2>3, <2>4, <2>5 DEF FmtTypeOK
  <1> QED BY <1>7, <1>8, <1>9 DEF FmtInv

(* A width or precision that is a number. *)
LEMMA PrecisionType ==
  ASSUME NEW v \in Int, process_precision(v), width \in Int, precision \in Int
  PROVE  width' \in Int /\ precision' \in Int
  BY DEF process_precision

LEMMA WidthStep == FmtInv /\ Width => FmtInv'
  <1> SUFFICES ASSUME FmtInv, Width PROVE FmtInv'
    OBVIOUS
  <1>0. FmtTypeOK /\ ArgsOK /\ KeepsPrefix /\ NumberShown /\ SoFar
    BY DEF FmtInv
  <1>1. /\ pc = "switch" /\ pc' = pc /\ fmt' = fmt /\ args' = args /\ ap' = ap
        /\ pos' = Numeral + 1 /\ out' = out /\ padc' = padc /\ lflag' = lflag
        /\ IsDigit(pos)
    BY DEF Width, given, sink
  <1>2. fmt \in Seq(Characters) /\ Len(fmt) \in Nat /\ pos \in Nat /\ pos >= 1
    BY <1>0, FormatFacts
  <1>3. Numeral \in pos..Len(fmt) /\ \A k \in pos..Numeral : IsDigit(k)
    BY <1>1, <1>2, NumeralIs
  <1>4. PICK e \in Nat : e = Numeral /\ e >= pos /\ e <= Len(fmt)
    BY <1>2, <1>3
  <1>5. e + 1 \in pos+1..Len(fmt)+1 /\ e + 1 \in 1..Len(fmt)+1
        /\ \A k \in pos..(e+1)-1 : k \in pos..e
    BY <1>2, <1>4
  <1>6. FlagsRead
    <2>1. \A k \in pos..(e+1)-1 : IsFlag(k)
      BY <1>3, <1>4, <1>5, Zenon DEF IsFlag
    <2> DEFINE q == e + 1
    <2>2. q \in pos+1..Len(fmt)+1 /\ pos' = q /\ \A k \in pos..q-1 : IsFlag(k)
      BY <1>1, <1>4, <1>5, <2>1, Zenon
    <2> HIDE DEF q
    <2> QED BY <1>1, <2>2, Zenon DEF FlagsRead
  <1>7. ArgsOK' /\ SoFar'
    BY <1>0, <1>1, <1>6, FlagStep
  <1>8. KeepsPrefix' /\ NumberShown' /\ n' = n
    <2>1. UNCHANGED <<n, sink>> /\ UNCHANGED field
      BY DEF Width, given
    <2> QED BY <1>0, <2>1, SilentStep, NumberKept
  <1>9. width' \in Int /\ precision' \in Int
    <2>1. DecimalValue(pos, Numeral) \in Nat
      BY <1>2, <1>3, <1>4, DecimalType
    <2>2. DecimalValue(pos, Numeral) \in Int
      BY <2>1
    <2>3. width \in Int /\ precision \in Int
      BY <1>0 DEF FmtTypeOK
    <2> QED BY <2>2, <2>3, PrecisionType DEF Width
  <1>10. FmtTypeOK'
    BY <1>0, <1>1, <1>4, <1>5, <1>8, <1>9 DEF FmtTypeOK
  <1> QED BY <1>7, <1>8, <1>10 DEF FmtInv

LEMMA StarStep == FmtInv /\ Star => FmtInv'
  <1> SUFFICES ASSUME FmtInv, Star PROVE FmtInv'
    OBVIOUS
  <1>0. FmtTypeOK /\ ArgsOK /\ KeepsPrefix /\ NumberShown /\ SoFar
    BY DEF FmtInv
  <1>1. /\ pc = "switch" /\ pc' = pc /\ fmt' = fmt /\ args' = args /\ ap' = ap + 1
        /\ pos' = pos + 1 /\ out' = out /\ padc' = padc /\ lflag' = lflag
        /\ ch = "*"
    BY DEF Star, At, given, sink
  <1>2. pos <= Len(fmt) /\ ch = fmt[pos]
    BY <1>0, <1>1, AtCharacter
  <1>3. Len(fmt) \in Nat /\ pos \in Nat /\ pos >= 1
    BY <1>0, FormatFacts
  <1>4. IsFlag(pos)
    BY <1>1, <1>2 DEF IsFlag
  <1>5. FlagsRead
    <2> DEFINE q == pos + 1
    <2>1. q \in pos+1..Len(fmt)+1 /\ \A k \in pos..q-1 : k = pos
      BY <1>2, <1>3
    <2>2. \A k \in pos..q-1 : IsFlag(k)
      BY <1>4, <2>1, Zenon
    <2> HIDE DEF q
    <2>3. pos' = q
      BY <1>1 DEF q
    <2> QED BY <1>1, <2>1, <2>2, <2>3, Zenon DEF FlagsRead
  <1>6. ArgsOK' /\ SoFar'
    BY <1>0, <1>1, <1>5, FlagStep
  <1>7. KeepsPrefix' /\ NumberShown' /\ n' = n
    <2>1. UNCHANGED <<n, sink>> /\ UNCHANGED field
      BY DEF Star, given
    <2> QED BY <1>0, <2>1, SilentStep, NumberKept
  <1>8. width' \in Int /\ precision' \in Int
    <2>1. Stack(args)
      BY <1>0, <1>1, <1>2, WordsOnStack DEF ArgsOK
    <2>2. AnInt \in Int
      BY <2>1, ArgTypes
    <2>3. width \in Int /\ precision \in Int
      BY <1>0 DEF FmtTypeOK
    <2> QED BY <2>2, <2>3, PrecisionType DEF Star
  <1>9. FmtTypeOK'
    <2>1. pos + 1 \in 1..Len(fmt)+1
      BY <1>2, <1>3
    <2>2. ap \in Nat \ {0}
      BY <1>0 DEF FmtTypeOK
    <2>3. ap + 1 \in Nat \ {0}
      BY <2>2
    <2> QED BY <1>0, <1>1, <1>7, <1>8, <2>1, <2>3 DEF FmtTypeOK
  <1> QED BY <1>6, <1>7, <1>9 DEF FmtInv

(* The place an unrecognised escape is printed from. *)
LEMMA BackIs ==
  ASSUME FmtTypeOK, NEW i \in 1..pos-1, Opened(i)
  PROVE  BackToPercent = i + 1 /\ \A k \in i+1..pos-1 : fmt[k] # "%"
  <1>1. fmt[i] = "%" /\ \A k \in i+1..pos-1 : fmt[k] # "%"
    BY FlagIsNoPercent DEF Opened
  <1>2. pos \in Nat
    BY FormatFacts
  <1> DEFINE c == CHOOSE k \in 1..pos-1 : fmt[k] = "%" /\ \A j \in k+1..pos-1 : fmt[j] # "%"
  <1>3. c \in 1..pos-1 /\ fmt[c] = "%" /\ \A j \in c+1..pos-1 : fmt[j] # "%"
    BY <1>1, Zenon
  <1> HIDE DEF c
  <1>4. c = i
    BY <1>1, <1>2, <1>3
  <1>5. BackToPercent = 1 + c
    BY Zenon DEF BackToPercent, c
  <1>6. 1 + c = i + 1
    BY <1>2, <1>4
  <1> QED BY <1>1, <1>5, <1>6

LEMMA UnknownStep == FmtInv /\ Unknown => FmtInv'
  <1> SUFFICES ASSUME FmtInv, Unknown PROVE FmtInv'
    OBVIOUS
  <1>0. FmtTypeOK /\ ArgsOK /\ KeepsPrefix /\ NumberShown /\ SoFar
    BY DEF FmtInv
  <1>1. /\ pc = "switch" /\ pc' = "text" /\ fmt' = fmt /\ n' = n /\ args' = args /\ ap' = ap
        /\ pos' = BackToPercent /\ padc' = padc /\ width' = width
        /\ precision' = precision /\ lflag' = lflag
    BY DEF Unknown, given, escape
  <1>2. fmt \in Seq(Characters) /\ Len(fmt) \in Nat /\ pos \in Nat /\ pos >= 1
        /\ pos <= Len(fmt) + 1
    BY <1>0, FormatFacts
  <1>3. PICK i \in 1..pos-1 : Opened(i)
    BY <1>0, <1>1 DEF SoFar
  <1>4. pos' = i + 1 /\ \A k \in i+1..pos-1 : fmt[k] # "%"
    BY <1>0, <1>1, <1>3, BackIs
  <1>5. KeepsPrefix' /\ out' \in Seq(Characters) /\ out' = out \o <<"%">>
    BY <1>0, <1>1, OwnTexts, PutchStep DEF Unknown
  <1>6. i \in Nat /\ i \in 1..Len(fmt) /\ i + 1 \in 1..Len(fmt)+1 /\ pos \in i+1..Len(fmt)+1
    BY <1>2
  <1>7. FmtTypeOK'
    BY <1>0, <1>1, <1>4, <1>5, <1>6 DEF FmtTypeOK
  <1>8. ArgsOK'
    <2>1. ap - 1 <= 2 * (pos - 1)
      BY <1>0, <1>1 DEF ArgsOK, Reached
    <2> DEFINE h == pos
    <2>2. h \in i+1..Len(fmt)+1 /\ ap - 1 <= 2 * (h - 1) /\ \A k \in i+1..h-1 : fmt[k] # "%"
      BY <1>4, <1>6, <2>1, Zenon
    <2> HIDE DEF h
    <2>3. \E hi \in i+1..Len(fmt)+1 : ap - 1 <= 2 * (hi - 1) /\ \A k \in i+1..hi-1 : fmt[k] # "%"
      BY <2>2, Zenon
    <2>4. pc' # "switch"
      BY <1>1
    <2> QED BY <1>1, <1>4, <2>3, <2>4, Zenon DEF ArgsOK, Reached
  <1>9. SoFar'
    <2>1. fmt[i] = "%" /\ (HasEscape \/ out = SubSeq(fmt, 1, i - 1))
      BY <1>3 DEF Opened
    <2>2. SubSeq(fmt, 1, i - 1) \o <<fmt[i]>> = SubSeq(fmt, 1, i)
      BY <1>2, <1>6, PrefixOfFormat
    <2>3. HasEscape' \/ out' = SubSeq(fmt', 1, i)
      BY <1>1, <1>5, <2>1, <2>2, SameFormat
    <2>4. (i + 1) - 1 = i
      BY <1>6
    <2>5. HasEscape' \/ out' = SubSeq(fmt', 1, pos' - 1)
      BY <1>4, <2>3, <2>4, Zenon
    <2> QED BY <1>1, <2>5 DEF SoFar
  <1>10. NumberShown'
    BY <1>0, NumberKept DEF Unknown
  <1> QED BY <1>5, <1>7, <1>8, <1>9, <1>10 DEF FmtInv

(* A conversion that is no number. *)
Converts(s, words) ==
  /\ pc = "switch" /\ ch \in Conversions /\ s \in Seq(Characters) /\ words \in 0..2
  /\ Convert(s, words)

LEMMA ConversionStep ==
  ASSUME FmtInv, NEW s, NEW words, Converts(s, words), NumberShown'
  PROVE  FmtInv'
  <1>0. FmtTypeOK
    BY DEF FmtInv
  <1>1. ch # "NUL"
    BY DEF Converts, Conversions
  <1>2. pos <= Len(fmt) /\ fmt[pos] \in Conversions
    BY <1>0, <1>1, AtCharacter DEF Converts
  <1>3. FmtTypeOK' /\ ArgsOK' /\ KeepsPrefix' /\ SoFar'
    BY <1>2, ConvertStep, Zenon DEF Converts
  <1> QED BY <1>3 DEF FmtInv

(* The words of the conversion that was found are there. *)
LEMMA Available ==
  ASSUME FmtInv, pc = "switch", ch \in Conversions
  PROVE  Stack(args)
  <1>0. FmtTypeOK /\ ArgsOK
    BY DEF FmtInv
  <1>1. ch # "NUL"
    BY DEF Conversions
  <1>2. pos <= Len(fmt)
    BY <1>0, <1>1, AtCharacter
  <1> QED BY <1>0, <1>2, WordsOnStack DEF ArgsOK

LEMMA TextStep == FmtInv /\ (Percent \/ Char \/ Error \/ String) => FmtInv'
  <1> SUFFICES ASSUME FmtInv, Percent \/ Char \/ Error \/ String PROVE FmtInv'
    OBVIOUS
  <1>0. FmtTypeOK /\ NumberShown
    BY DEF FmtInv
  <1>1. pc = "switch" /\ ch \in {"%", "c", "e", "s"} /\ UNCHANGED field
    BY DEF Percent, Char, Error, String, At
  <1>2. ch \in Conversions
    BY <1>1 DEF Conversions
  <1>3. Stack(args)
    BY <1>1, <1>2, Available
  <1>4. NumberShown'
    BY <1>0, <1>1, NumberKept
  <1>5. 0 \in 0..2 /\ 1 \in 0..2
    OBVIOUS
  <1>6. CASE Percent
    <2>1. Converts(<<"%">>, 0)
      BY <1>1, <1>2, <1>5, <1>6, OwnTexts, Zenon DEF Converts, Percent
    <2> QED BY <1>4, <2>1, ConversionStep
  <1>7. CASE Char
    <2>1. Converts(<<Glyphs[args[ap] + 1]>>, 1)
      BY <1>1, <1>2, <1>3, <1>5, <1>7, GlyphType, Zenon DEF Converts, Char
    <2> QED BY <1>4, <2>1, ConversionStep
  <1>8. CASE Error
    <2>1. Abs \in Int
      BY <1>3, ArgTypes
    <2>2. Converts(ErrorText(Abs), 1)
      BY <1>1, <1>2, <1>5, <1>8, <2>1, ErrorType, Zenon DEF Converts, Error
    <2> QED BY <1>4, <2>2, ConversionStep
  <1>9. CASE String
    <2>1. precision \in Int /\ width \in Int /\ padc \in Characters
      BY <1>0 DEF FmtTypeOK
    <2>2. Padded(Pointee) \in Seq(Characters)
      BY <1>3, <2>1, PointeeType, PaddedType
    <2>3. Converts(Padded(Pointee), 1)
      BY <1>1, <1>2, <1>5, <1>9, <2>2, Zenon DEF Converts, String
    <2> QED BY <1>4, <2>3, ConversionStep
  <1> QED BY <1>6, <1>7, <1>8, <1>9

(* A number is shown with its width, and is remembered with it. *)
LEMMA NumberStep ==
  ASSUME FmtInv, pc = "switch", ch \in Conversions, NEW num \in Nat, NEW base \in Bases,
         NEW before \in Seq(Characters), NEW words \in 0..2,
         number(num, base, before, words)
  PROVE  FmtInv'
  <1> DEFINE text == printnum(num, base, width, padc)
  <1>1. width \in Int /\ padc \in Characters
    BY DEF FmtInv, FmtTypeOK
  <1>2. Shows(text, num, base, width, padc)
    BY <1>1, PrintnumShows
  <1>3. text \in Seq(Characters) /\ IsNumber(text, num, base, width, padc)
    <2>1. IsNumber(text, num, base, width, padc)
      BY <1>2, ShowsNumber
    <2> QED BY <1>2, <2>1 DEF Shows
  <1>4. /\ Convert(before \o text, words)
        /\ field' = [conv |-> ch, num |-> num, base |-> base, width |-> width,
                     padc |-> padc, text |-> text]
    BY Zenon DEF number
  <1> HIDE DEF text
  <1>5. before \o text \in Seq(Characters)
    BY <1>3, ConcatProperties, Zenon
  <1>6. Converts(before \o text, words)
    BY <1>4, <1>5, Zenon DEF Converts
  <1>7. /\ field'.num = num /\ field'.base = base /\ field'.width = width
        /\ field'.padc = padc /\ field'.text = text
    BY <1>4
  <1>8. IsNumber(field'.text, field'.num, field'.base, field'.width, field'.padc)
    BY <1>3, <1>7, Zenon
  <1>9. NumberShown'
    BY <1>8 DEF NumberShown
  <1> QED BY <1>6, <1>9, ConversionStep

LEMMA NumberActionStep == FmtInv /\ (Decimal \/ Unsigned \/ Pointer) => FmtInv'
  <1> SUFFICES ASSUME FmtInv, Decimal \/ Unsigned \/ Pointer PROVE FmtInv'
    OBVIOUS
  <1>1. pc = "switch" /\ ch \in {"d", "u", "o", "x", "p"}
    BY DEF Decimal, Unsigned, Pointer, At
  <1>2. ch \in Conversions
    BY <1>1 DEF Conversions
  <1>3. Stack(args)
    BY <1>1, <1>2, Available
  <1>4. getuint \in Nat /\ getint \in Int /\ (-getint) % (UInts * UInts) \in Nat
    BY <1>3, ArgTypes
  <1>5. args[ap] \in Nat
    BY <1>3, WordTypes
  <1>6. 8 \in Bases /\ 10 \in Bases /\ 16 \in Bases /\ Words \in 0..2 /\ 1 \in 0..2
    BY DEF Bases, Words
  <1>7. CASE Decimal
    <2>1. CASE getint < 0
      <3>1. number((-getint) % (UInts * UInts), 10, <<"-">>, Words)
        BY <1>7, <2>1 DEF Decimal
      <3> QED BY <1>1, <1>2, <1>4, <1>6, <3>1, OwnTexts, NumberStep, Zenon
    <2>2. CASE ~(getint < 0)
      <3>1. number(getint, 10, <<>>, Words)
        BY <1>7, <2>2 DEF Decimal
      <3>2. getint \in Nat
        BY <1>4, <2>2
      <3> QED BY <1>1, <1>2, <1>6, <3>1, <3>2, OwnTexts, NumberStep, Zenon
    <2> QED BY <2>1, <2>2
  <1>8. CASE Unsigned
    <2>1. \/ number(getuint, 10, <<>>, Words) \/ number(getuint, 8, <<>>, Words)
          \/ number(getuint, 16, <<>>, Words)
      BY <1>8, Zenon DEF Unsigned
    <2> QED BY <1>1, <1>2, <1>4, <1>6, <2>1, OwnTexts, NumberStep, Zenon
  <1>9. CASE Pointer
    <2>1. number(args[ap], 16, <<"0", "x">>, 1)
      BY <1>9, Zenon DEF Pointer
    <2> QED BY <1>1, <1>2, <1>5, <1>6, <2>1, OwnTexts, NumberStep, Zenon
  <1> QED BY <1>7, <1>8, <1>9

-----------------------------------------------------------------------------
LEMMA FmtStart == Init => FmtInv
  <1> SUFFICES ASSUME Init PROVE FmtInv
    OBVIOUS
  <1>1. /\ fmt \in Formats /\ n \in Sizes /\ args \in Args /\ pos = 1 /\ ap = 1
        /\ width = -1 /\ precision = -1 /\ lflag = 0
        /\ buf = <<>> /\ cnt = 0 /\ out = <<>> /\ pc = "call"
    BY DEF Init
  <1>2. fmt \in Seq(Characters)
    BY <1>1, PrintFmtAssumption, Zenon
  <1>3. Len(fmt) \in Nat
    BY <1>2
  <1>4. 1 \in 1..Len(fmt)+1
    BY <1>3
  <1>5. padc \in Characters
    BY OwnCharacters, Zenon DEF Init
  <1>6. FmtTypeOK
    BY <1>1, <1>4, <1>5 DEF FmtTypeOK
  <1>7. ArgsOK
    <2>1. ap - 1 <= 2 * (1 - 1) /\ \A k \in pos..1-1 : FALSE
      BY <1>1
    <2>2. Reached(1)
      BY <2>1 DEF Reached
    <2> QED BY <1>1, <1>4, <2>2 DEF ArgsOK
  <1>8. KeepsPrefix
    <2>1. n \in Nat \cup {-1}
      BY <1>1, PrintFmtAssumption, Zenon
    <2>2. n > 0 => AtMost(0, n - 1) = 0
      BY <2>1 DEF AtMost
    <2>3. SubSeq(<<>>, 1, 0) = <<>> /\ Len(<<>>) = 0
      OBVIOUS
    <2> QED BY <1>1, <2>2, <2>3 DEF KeepsPrefix
  <1>9. NumberShown
    <2>1. field.conv = "none"
      BY DEF Init
    <2> QED BY <2>1 DEF NumberShown
  <1>10. SoFar
    <2>1. SubSeq(fmt, 1, 1 - 1) = <<>>
      BY <1>2
    <2> QED BY <1>1, <2>1 DEF SoFar
  <1> QED BY <1>6, <1>7, <1>8, <1>9, <1>10 DEF FmtInv

LEMMA FmtStutter == FmtInv /\ UNCHANGED vars => FmtInv'
  <1> SUFFICES ASSUME FmtInv, UNCHANGED vars PROVE FmtInv'
    OBVIOUS
  <1>0. FmtTypeOK /\ ArgsOK /\ KeepsPrefix /\ NumberShown /\ SoFar
    BY DEF FmtInv
  <1>1. /\ fmt' = fmt /\ n' = n /\ args' = args /\ pos' = pos /\ ap' = ap /\ out' = out
        /\ padc' = padc /\ width' = width /\ precision' = precision /\ lflag' = lflag
        /\ pc' = pc
    BY DEF vars, given, escape, sink
  <1>2. UNCHANGED <<n, sink>> /\ UNCHANGED field
    BY DEF vars, given
  <1>3. KeepsPrefix' /\ NumberShown'
    BY <1>0, <1>2, SilentStep, NumberKept
  <1>4. FmtTypeOK'
    BY <1>0, <1>1 DEF FmtTypeOK
  <1>5. ArgsOK'
    BY <1>0, <1>1, Zenon DEF ArgsOK, Reached
  <1>6. SoFar'
    <2>1. \A i : Opened(i) => Opened(i)'
      BY <1>1, SameFormat, Zenon DEF Opened
    <2>2. HasEscape <=> HasEscape'
      BY <1>1, SameFormat
    <2> QED BY <1>0, <1>1, <2>1, <2>2, Zenon DEF SoFar
  <1> QED BY <1>3, <1>4, <1>5, <1>6 DEF FmtInv

LEMMA FmtNext == FmtInv /\ [Next]_vars => FmtInv'
  <1> SUFFICES ASSUME FmtInv, Next \/ UNCHANGED vars PROVE FmtInv'
    OBVIOUS
  <1>1. CASE UNCHANGED vars
    BY <1>1, FmtStutter
  <1>2. CASE Done
    BY <1>2, FmtStutter DEF Done
  <1>3. CASE Start \/ Refuse \/ Finish
    BY <1>3, StartStep
  <1>4. CASE Literal
    BY <1>4, LiteralStep
  <1>5. CASE Escape
    BY <1>5, EscapeStep
  <1>6. CASE Flag
    BY <1>6, FlagActionStep
  <1>7. CASE Width
    BY <1>7, WidthStep
  <1>8. CASE Star
    BY <1>8, StarStep
  <1>9. CASE Percent \/ Char \/ Error \/ String
    BY <1>9, TextStep
  <1>10. CASE Decimal \/ Unsigned \/ Pointer
    BY <1>10, NumberActionStep
  <1>11. CASE Unknown
    BY <1>11, UnknownStep
  <1> QED BY <1>1, <1>2, <1>3, <1>4, <1>5, <1>6, <1>7, <1>8, <1>9, <1>10, <1>11, Zenon
          DEF Next, vprintfmt

LEMMA FmtAlways == Spec => []FmtInv
  <1>1. Init => FmtInv
    BY FmtStart
  <1>2. FmtInv /\ [Next]_vars => FmtInv'
    BY FmtNext
  <1> QED BY <1>1, <1>2, PTL DEF Spec

(* vsnprintf: the buffer holds as much of what vprintfmt handed to         *)
(* sprintputch as fits in front of the terminator, and the count is that   *)
(* of all of it, for every format, every stack and every size.             *)
THEOREM BufferKeepsPrefix == Spec => []KeepsPrefix
  <1>1. FmtInv => KeepsPrefix
    BY DEF FmtInv
  <1> QED BY <1>1, FmtAlways, PTL

(* printnum: what it prints for a conversion denotes the number in its     *)
(* base, has no leading zero, and is padded to its width, for numbers of   *)
(* every size, wherever the flag "-" is not given.                         *)
THEOREM NumbersAreRight == Spec => []NumberShown
  <1>1. FmtInv => NumberShown
    BY DEF FmtInv
  <1> QED BY <1>1, FmtAlways, PTL

(* vprintfmt's default case: a format without an escape that it knows is   *)
(* printed as it stands, whatever flags and percent signs it holds.        *)
THEOREM UnknownStaysLiteral == Spec => []UnknownIsLiteral
  <1>1. FmtInv => UnknownIsLiteral
    <2> SUFFICES ASSUME FmtInv, pc = "done", \A i, j \in 1..Len(fmt) : i < j => ~IsEscape(i, j)
                 PROVE  out = fmt
      BY DEF UnknownIsLiteral
    <2>1. FmtTypeOK /\ SoFar
      BY DEF FmtInv
    <2>2. ~HasEscape
      BY Zenon DEF HasEscape
    <2>3. out = SubSeq(fmt, 1, pos - 1) /\ pos = Len(fmt) + 1
      BY <2>1, <2>2 DEF SoFar
    <2>4. fmt \in Seq(Characters) /\ Len(fmt) \in Nat
      BY <2>1, FormatFacts
    <2>5. SubSeq(fmt, 1, Len(fmt)) = fmt /\ (Len(fmt) + 1) - 1 = Len(fmt)
      BY <2>4
    <2> QED BY <2>3, <2>5
  <1> QED BY <1>1, FmtAlways, PTL

-----------------------------------------------------------------------------
(* vprintfmt moves fmt back to the last '%' when it does not know an       *)
(* escape, so the place in the format does not always grow.  What gets     *)
(* less with every step: the percent signs ahead; else, these staying the  *)
(* same, the stage; else, the stage staying the same, what is left of the  *)
(* format.                                                                 *)
Ahead == {k \in pos..Len(fmt) : fmt[k] = "%"}
Stage == CASE pc = "call" -> 3 [] pc = "switch" -> 2 [] pc = "text" -> 1 [] OTHER -> 0
Left  == Len(fmt) + 1 - pos

Nearer ==
  /\ fmt' = fmt /\ Ahead' \subseteq Ahead
  /\ \/ Ahead' # Ahead
     \/ Stage' < Stage
     \/ Stage' = Stage /\ Left' < Left

(* The signs ahead of p and of q, where no sign lies between them. *)
LEMMA AheadSame ==
  ASSUME FmtTypeOK, fmt' = fmt, NEW q \in Nat, pos' = q,
         \A k \in pos..q-1 : fmt[k] # "%", \A k \in q..pos-1 : fmt[k] # "%"
  PROVE  Ahead' = Ahead
  <1>1. pos \in Nat /\ Len(fmt) \in Nat
    BY FormatFacts
  <1>2. Ahead' = {k \in q..Len(fmt) : fmt[k] = "%"}
    BY DEF Ahead
  <1>3. \A k \in pos..Len(fmt) : fmt[k] = "%" => k \in q..Len(fmt)
    BY <1>1
  <1>4. \A k \in q..Len(fmt) : fmt[k] = "%" => k \in pos..Len(fmt)
    BY <1>1
  <1> QED BY <1>2, <1>3, <1>4, Zenon DEF Ahead

LEMMA AheadLess ==
  ASSUME FmtTypeOK, fmt' = fmt, ch = "%", pos' = pos + 1
  PROVE  Ahead' \subseteq Ahead /\ Ahead' # Ahead
  <1>1. pos \in Nat /\ Len(fmt) \in Nat
    BY FormatFacts
  <1>2. pos <= Len(fmt) /\ fmt[pos] = "%"
    BY AtCharacter
  <1>3. Ahead' = {k \in pos+1..Len(fmt) : fmt[k] = "%"}
    BY DEF Ahead
  <1>4. pos \in pos..Len(fmt) /\ pos \notin pos+1..Len(fmt)
        /\ \A k \in pos+1..Len(fmt) : k \in pos..Len(fmt)
    BY <1>1, <1>2
  <1>5. pos \in Ahead /\ pos \notin Ahead' /\ Ahead' \subseteq Ahead
    BY <1>2, <1>3, <1>4, Zenon DEF Ahead
  <1> QED BY <1>5, Zenon

(* A step over characters that are no percent sign. *)
LEMMA OverText ==
  ASSUME FmtTypeOK, fmt' = fmt, pc' = pc, NEW q \in Nat, pos' = q, q > pos,
         \A k \in pos..q-1 : fmt[k] # "%"
  PROVE  Nearer
  <1>1. pos \in Nat /\ Len(fmt) \in Nat
    BY FormatFacts
  <1>2. \A k \in q..pos-1 : fmt[k] # "%"
    BY <1>1
  <1>3. Ahead' = Ahead
    BY <1>2, AheadSame
  <1>4. Stage' = Stage
    BY DEF Stage
  <1>5. Left' = Len(fmt) + 1 - q
    BY Zenon DEF Left
  <1>6. Len(fmt) + 1 - q < Len(fmt) + 1 - pos
    BY <1>1
  <1>7. Left' < Left
    BY <1>5, <1>6, Zenon DEF Left
  <1> QED BY <1>3, <1>4, <1>7, Zenon DEF Nearer

LEMMA OverOne ==
  ASSUME FmtTypeOK, fmt' = fmt, pc' = pc, pos' = pos + 1, ch \notin {"%", "NUL"}
  PROVE  Nearer
  <1>1. pos \in Nat /\ fmt[pos] # "%"
    BY FormatFacts, AtCharacter
  <1>2. \A k \in pos..(pos+1)-1 : fmt[k] # "%"
    BY <1>1
  <1>3. PICK q \in Nat : q = pos + 1 /\ q > pos
    BY <1>1
  <1>4. pos' = q /\ \A k \in pos..q-1 : fmt[k] # "%"
    BY <1>2, <1>3, Zenon
  <1> QED BY <1>3, <1>4, OverText

LEMMA OverNumeral ==
  ASSUME FmtTypeOK, Width
  PROVE  Nearer
  <1>1. fmt' = fmt /\ pc' = pc /\ pos' = Numeral + 1 /\ IsDigit(pos)
    BY DEF Width, given
  <1>2. fmt \in Seq(Characters) /\ Len(fmt) \in Nat /\ pos \in Nat
    BY FormatFacts
  <1>3. Numeral \in pos..Len(fmt) /\ \A k \in pos..Numeral : IsDigit(k)
    BY <1>1, <1>2, NumeralIs
  <1>4. \A k \in pos..Numeral : fmt[k] # "%"
    BY <1>3, FlagIsNoPercent, Zenon DEF IsFlag
  <1>5. PICK e \in Nat : e = Numeral /\ e >= pos
    BY <1>2, <1>3
  <1>6. PICK q \in Nat : q = e + 1 /\ q > pos /\ q - 1 = e
    BY <1>2, <1>5
  <1>7. pos' = q /\ \A k \in pos..q-1 : fmt[k] # "%"
    BY <1>1, <1>4, <1>5, <1>6, Zenon
  <1> QED BY <1>1, <1>6, <1>7, OverText

(* The end of an escape. *)
LEMMA ConvertNearer ==
  ASSUME FmtTypeOK, pc = "switch", ch # "NUL", fmt' = fmt, pos' = pos + 1, pc' = "text"
  PROVE  Nearer
  <1>1. CASE ch = "%"
    BY <1>1, AheadLess DEF Nearer
  <1>2. CASE ch # "%"
    <2>1. pos \in Nat /\ fmt[pos] # "%"
      BY <1>2, FormatFacts, AtCharacter
    <2>2. (\A k \in pos..(pos+1)-1 : fmt[k] # "%") /\ \A k \in pos+1..pos-1 : fmt[k] # "%"
      BY <2>1
    <2>3. pos + 1 \in Nat
      BY <2>1
    <2>4. Ahead' = Ahead
      BY <2>2, <2>3, AheadSame
    <2>5. Stage' < Stage
      BY DEF Stage
    <2> QED BY <2>4, <2>5 DEF Nearer
  <1> QED BY <1>1, <1>2

LEMMA UnknownNearer ==
  ASSUME FmtInv, Unknown
  PROVE  Nearer
  <1>0. FmtTypeOK /\ SoFar
    BY DEF FmtInv
  <1>1. pc = "switch" /\ pc' = "text" /\ fmt' = fmt /\ pos' = BackToPercent
    BY DEF Unknown, given
  <1>2. pos \in Nat
    BY <1>0, FormatFacts
  <1>3. PICK i \in 1..pos-1 : Opened(i)
    BY <1>0, <1>1 DEF SoFar
  <1>4. pos' = i + 1 /\ \A k \in i+1..pos-1 : fmt[k] # "%"
    BY <1>0, <1>1, <1>3, BackIs
  <1>5. i + 1 \in Nat /\ \A k \in pos..(i+1)-1 : fmt[k] # "%"
    BY <1>2
  <1>6. Ahead' = Ahead
    BY <1>0, <1>1, <1>4, <1>5, AheadSame
  <1>7. Stage' < Stage
    BY <1>1 DEF Stage
  <1> QED BY <1>1, <1>6, <1>7 DEF Nearer

LEMMA StepNearer ==
  ASSUME FmtInv, vprintfmt
  PROVE  Nearer
  <1>0. FmtTypeOK
    BY DEF FmtInv
  <1>1. CASE Start \/ Refuse \/ Finish
    <2>1. fmt' = fmt /\ pos' = pos
      BY <1>1 DEF Start, Refuse, Finish, given
    <2>2. Ahead' = Ahead
      BY <2>1 DEF Ahead
    <2>3. Stage' < Stage
      BY <1>1 DEF Start, Refuse, Finish, Stage
    <2> QED BY <2>1, <2>2, <2>3 DEF Nearer
  <1>2. CASE Literal
    BY <1>0, <1>2, OverOne DEF Literal, given
  <1>3. CASE Escape
    <2>1. fmt' = fmt /\ ch = "%" /\ pos' = pos + 1
      BY <1>3 DEF Escape, given
    <2> QED BY <1>0, <2>1, AheadLess DEF Nearer
  <1>4. CASE Flag
    <2>1. fmt' = fmt /\ pc' = pc /\ pos' = pos + 1 /\ ch \notin {"%", "NUL"}
      BY <1>4 DEF Flag, PastFlag, given
    <2> QED BY <1>0, <2>1, OverOne
  <1>5. CASE Width
    BY <1>0, <1>5, OverNumeral
  <1>6. CASE Star
    <2>1. fmt' = fmt /\ pc' = pc /\ pos' = pos + 1 /\ ch \notin {"%", "NUL"}
      BY <1>6 DEF Star, At, given
    <2> QED BY <1>0, <2>1, OverOne
  <1>7. CASE Percent \/ Char \/ Error \/ String
    <2>1. pc = "switch" /\ ch # "NUL"
      BY <1>7 DEF Percent, Char, Error, String, At
    <2>2. fmt' = fmt /\ pos' = pos + 1 /\ pc' = "text"
      BY <1>7, Zenon DEF Percent, Char, Error, String, Convert, given
    <2> QED BY <1>0, <2>1, <2>2, ConvertNearer
  <1>8. CASE Decimal \/ Unsigned \/ Pointer
    <2>1. pc = "switch" /\ ch # "NUL"
      BY <1>8 DEF Decimal, Unsigned, Pointer, At
    <2>2. \E num, base, before, words : number(num, base, before, words)
      BY <1>8, Zenon DEF Decimal, Unsigned, Pointer
    <2>3. fmt' = fmt /\ pos' = pos + 1 /\ pc' = "text"
      BY <2>2, Zenon DEF number, Convert, given
    <2> QED BY <1>0, <2>1, <2>3, ConvertNearer
  <1>9. CASE Unknown
    BY <1>9, UnknownNearer
  <1> QED BY <1>1, <1>2, <1>3, <1>4, <1>5, <1>6, <1>7, <1>8, <1>9, Zenon DEF vprintfmt

(* vprintfmt gets nearer to the NUL with every step, for every format,     *)
(* although an unrecognised escape moves fmt back: it never goes back      *)
(* behind a percent sign, and does not go back twice from the same one.    *)
(* All three measures are finite, so that no formatting goes on for ever;  *)
(* with the fairness of FairSpec this is Ends.                             *)
THEOREM FormattingProgresses ==
  Spec => /\ [](Ahead \subseteq 1..Len(fmt) /\ Stage \in 0..3 /\ Left \in 0..Len(fmt))
          /\ [][Nearer]_vars
  <1>1. FmtInv => Ahead \subseteq 1..Len(fmt) /\ Stage \in 0..3 /\ Left \in 0..Len(fmt)
    <2> SUFFICES ASSUME FmtInv
                 PROVE  Ahead \subseteq 1..Len(fmt) /\ Stage \in 0..3 /\ Left \in 0..Len(fmt)
      OBVIOUS
    <2>1. Len(fmt) \in Nat /\ pos \in Nat /\ pos >= 1 /\ pos <= Len(fmt) + 1
      BY FormatFacts DEF FmtInv
    <2>2. pos..Len(fmt) \subseteq 1..Len(fmt) /\ Left \in 0..Len(fmt)
      BY <2>1 DEF Left
    <2>3. Ahead \subseteq 1..Len(fmt)
      BY <2>2, Zenon DEF Ahead
    <2>4. Stage \in 0..3
      BY DEF Stage
    <2> QED BY <2>2, <2>3, <2>4
  <1>2. FmtInv /\ [Next]_vars => [Nearer]_vars
    <2> SUFFICES ASSUME FmtInv, Next, ~(UNCHANGED vars) PROVE Nearer
      OBVIOUS
    <2>1. vprintfmt
      BY Zenon DEF Next, Done
    <2> QED BY <2>1, StepNearer
  <1> QED BY <1>1, <1>2, FmtAlways, PTL DEF Spec
=============================================================================
