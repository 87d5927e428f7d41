--------------------------- MODULE ConsoleProofs ----------------------------
(***************************************************************************)
(* The display driver never leaves the adapter's memory and implements the *)
(* terminal, for every screen size.  With cons_putc around it it still     *)
(* does, and the serial and the parallel port are sent the same characters.*)
(*                                                                         *)
(* The line editor and the screen agree, for every screen size, buffer     *)
(* size and input that satisfy the assumptions of Readline.  The words of  *)
(* the line reach the command, for every line, every set of names and      *)
(* every size of argv.                                                     *)
(***************************************************************************)
EXTENDS Shell, ConsOutput, SequenceTheorems, FiniteSetTheorems, WellFoundedInduction,
        TLAPS

(* The screen has at least one line. *)
LEMMA SizeFacts ==
  /\ CRT_SIZE \in Nat
  /\ CRT_COLS \in Nat \ {0}
  /\ CRT_COLS <= CRT_SIZE
<1>1. CRT_ROWS \in Nat /\ CRT_ROWS >= 1 /\ CRT_COLS \in Nat /\ CRT_COLS >= 1
  BY CrtAssumption
<1>2. CRT_ROWS * CRT_COLS \in Nat
  BY <1>1
<1>3. CRT_COLS <= CRT_ROWS * CRT_COLS
  BY <1>1
<1> QED
  BY <1>1, <1>2, <1>3 DEF CRT_SIZE

(* The start of a line is at most a line back. *)
LEMMA LineStartFacts ==
  ASSUME NEW spot \in Nat
  PROVE  LineStart(spot) \in Nat /\ LineStart(spot) <= spot /\ spot < LineStart(spot) + CRT_COLS
<1>1. spot % CRT_COLS \in 0..CRT_COLS-1
  BY SizeFacts
<1>2. spot % CRT_COLS <= spot
  BY SizeFacts
<1> QED
  BY <1>1, <1>2, SizeFacts DEF LineStart

(* What the screen shows after Settle is made of cells. *)
LEMMA SettleType ==
  ASSUME NEW mem \in [Positions -> Cell], NEW cell \in Nat,
         cell < CRT_SIZE + CRT_COLS, Settle(mem, cell)
  PROVE  /\ crt_buf' \in [Positions -> Cell]
         /\ crt_pos' \in Positions
         /\ cursor' \in Positions
<1>1. crt_pos' \in Positions
  BY SizeFacts DEF Settle, OffScreen, Positions
<1>2. Blank \in Cell
  BY DEF Blank, Cell, SP
<1>3. Scrolled(mem) \in [Positions -> Cell]
  <2> SUFFICES ASSUME NEW spot \in Positions, spot < CRT_SIZE - CRT_COLS
               PROVE  mem[spot + CRT_COLS] \in Cell
    BY <1>2 DEF Scrolled
  <2>1. spot + CRT_COLS \in Positions
    BY SizeFacts DEF Positions
  <2> QED
    BY <2>1
<1> QED
  BY <1>1, <1>3 DEF Settle, OffScreen

(* A printed character has an attribute byte. *)
LEMMA AttrType ==
  ASSUME NEW c \in Cell
  PROVE  [attr |-> Attr(c), ch |-> c.ch] \in Cell /\ [attr |-> Attr(c), ch |-> SP] \in Cell
BY DEF Cell, Attr, SP

(* Every call of cga_putc keeps the cursor on the screen. *)
LEMMA PutcType ==
  ASSUME CgaTypeOK, NEW c \in Cell, cga_putc(c)
  PROVE  CgaTypeOK'
<1>1. /\ crt_pos \in Nat
      /\ crt_pos < CRT_SIZE
      /\ crt_buf \in [Positions -> Cell]
  BY SizeFacts DEF CgaTypeOK, Positions
<1>2. addr_6845' = addr_6845 /\ colour' = colour
  BY DEF cga_putc, Backspace, LineFeed, CarriageReturn, Glyph, Settle, OffScreen
<1>3. ASSUME NEW mem \in [Positions -> Cell], NEW cell \in Nat,
             cell < CRT_SIZE + CRT_COLS, Settle(mem, cell)
      PROVE  CgaTypeOK'
  BY <1>2, <1>3, SettleType DEF CgaTypeOK
<1>4. CASE c.ch = BS /\ Backspace(c)
  <2>1. CASE crt_pos > 0
    <3>1. [crt_buf EXCEPT ![crt_pos - 1] = [attr |-> Attr(c), ch |-> SP]]
            \in [Positions -> Cell]
      BY <1>1, AttrType
    <3>2. crt_pos - 1 \in Nat /\ crt_pos - 1 < CRT_SIZE + CRT_COLS
      BY <1>1, <2>1, SizeFacts
    <3>3. Settle([crt_buf EXCEPT ![crt_pos - 1] = [attr |-> Attr(c), ch |-> SP]],
                 crt_pos - 1)
      BY <1>4, <2>1 DEF Backspace
    <3> QED
      BY <1>3, <3>1, <3>2, <3>3
  <2>2. CASE ~ (crt_pos > 0)
    BY <1>1, <1>3, <1>4, <2>2, SizeFacts DEF Backspace
  <2> QED
    BY <2>1, <2>2
<1>5. CASE c.ch = LF /\ LineFeed
  <2>1. LineStart(crt_pos + CRT_COLS) \in Nat
    BY <1>1, SizeFacts, LineStartFacts
  <2>2. LineStart(crt_pos + CRT_COLS) < CRT_SIZE + CRT_COLS
    BY <1>1, <2>1, SizeFacts, LineStartFacts
  <2> QED
    BY <1>1, <1>3, <1>5, <2>1, <2>2 DEF LineFeed
<1>6. CASE c.ch = CR /\ CarriageReturn
  <2>1. LineStart(crt_pos) \in Nat /\ LineStart(crt_pos) < CRT_SIZE + CRT_COLS
    BY <1>1, SizeFacts, LineStartFacts
  <2> QED
    BY <1>1, <1>3, <1>6, <2>1 DEF CarriageReturn
<1>7. CASE Glyph(c)
  <2>1. [crt_buf EXCEPT ![crt_pos] = [attr |-> Attr(c), ch |-> c.ch]]
          \in [Positions -> Cell]
    BY <1>1, AttrType
  <2>2. crt_pos + 1 \in Nat /\ crt_pos + 1 < CRT_SIZE + CRT_COLS
    BY <1>1, SizeFacts
  <2> QED
    BY <1>3, <1>7, <2>1, <2>2 DEF Glyph
<1> QED
  BY <1>4, <1>5, <1>6, <1>7 DEF cga_putc

(* cga_init takes over a cursor that is on the screen. *)
LEMMA InitType ==
  ASSUME CgaTypeOK, cga_init
  PROVE  CgaTypeOK'
BY DEF CgaTypeOK, cga_init

(* What is printed is a character with an attribute. *)
LEMMA PrintedType == Printed \subseteq Cell
<1>1. Chars \subseteq 0..255 /\ Attrs \subseteq 0..255
  BY CharsAssumption
<1> QED
  BY <1>1, Zenon DEF Printed, Cell

(* The display's variables keep their types in every step: the cursor      *)
(* stays on the screen.                                                    *)
LEMMA CgaNextType == CgaTypeOK /\ [CgaNext]_cgaVars => CgaTypeOK'
<1> SUFFICES ASSUME CgaTypeOK, [CgaNext]_cgaVars PROVE CgaTypeOK'
  OBVIOUS
<1>1. CASE cga_init
  BY <1>1, InitType
<1>2. ASSUME NEW c \in Printed, cga_putc(c) PROVE CgaTypeOK'
  BY <1>2, PutcType, PrintedType
<1>3. CASE TabEnd
  <2>1. crt_pos \in Nat /\ crt_pos < CRT_SIZE + CRT_COLS
    BY SizeFacts DEF CgaTypeOK, Positions
  <2> QED
    BY <1>3, <2>1, SettleType DEF TabEnd, Settle, OffScreen, CgaTypeOK
<1>4. CASE UNCHANGED cgaVars
  BY <1>4 DEF cgaVars, CgaTypeOK
<1> QED
  BY <1>1, <1>2, <1>3, <1>4 DEF CgaNext

(* The display starts with its type invariant. *)
LEMMA CgaInitType == CgaInit => CgaTypeOK
<1> SUFFICES ASSUME CgaInit PROVE CgaTypeOK
  OBVIOUS
<1>1. crt_buf \in [Positions -> Cell]
  BY CharsAssumption DEF CgaInit, Cell
<1>2. crt_pos \in Positions
  BY SizeFacts DEF CgaInit, Positions
<1> QED
  BY <1>1, <1>2 DEF CgaInit, CgaTypeOK

(* No character is ever written outside the adapter's memory. *)
THEOREM CgaTypeCorrect == CgaSpec => []CgaTypeOK
BY CgaInitType, CgaNextType, PTL DEF CgaSpec

-----------------------------------------------------------------------------
(***************************************************************************)
(* The driver implements Terminal.  A position is a line and a column in   *)
(* one way only, so that a write to the flat buffer is a write to one cell *)
(* of the screen and the copy of memmove is a scroll; once cga_init has    *)
(* run, the hardware cursor is the driver's.                               *)
(***************************************************************************)
CursorShown == addr_6845 # 0 => cursor = crt_pos

CgaInv == CgaTypeOK /\ CursorShown

Lines   == 0..CRT_ROWS-1
Columns == 0..CRT_COLS-1

ScreenOf(mem) == [r \in Lines |-> [c \in Columns |-> mem[r * CRT_COLS + c]]]

Poke(mem, spot, x) == [mem EXCEPT ![spot] = x]
Put(s, r, c, x) == [s EXCEPT ![r][c] = x]

(* Which line and column a position is. *)
LEMMA Division ==
  ASSUME NEW r \in Nat, NEW c \in Columns, NEW spot \in Nat, spot = r * CRT_COLS + c
  PROVE  spot \div CRT_COLS = r /\ spot % CRT_COLS = c
<1> DEFINE C == CRT_COLS
           q == spot \div C
           m == spot % C
<1>1. C \in Nat /\ C >= 1 /\ c \in Nat /\ c < C
  BY SizeFacts DEF Columns
<1>2. q \in Nat /\ m \in Nat /\ m < C /\ spot = q * C + m
  BY <1>1
<1> HIDE DEF q, m, C
<1>3. spot = r * C + c
  BY DEF C
<1>4. ASSUME q >= r + 1 PROVE FALSE
  <2>1. q * C >= (r + 1) * C
    BY <1>1, <1>2, <1>4
  <2>2. (r + 1) * C = r * C + C
    BY <1>1
  <2>3. q * C \in Nat /\ r * C \in Nat
    BY <1>1, <1>2
  <2> QED
    BY <1>1, <1>2, <1>3, <2>1, <2>2, <2>3
<1>5. ASSUME r >= q + 1 PROVE FALSE
  <2>1. r * C >= (q + 1) * C
    BY <1>1, <1>2, <1>5
  <2>2. (q + 1) * C = q * C + C
    BY <1>1, <1>2
  <2>3. q * C \in Nat /\ r * C \in Nat
    BY <1>1, <1>2
  <2> QED
    BY <1>1, <1>2, <1>3, <2>1, <2>2, <2>3
<1>6. q = r
  BY <1>2, <1>4, <1>5
<1>7. m = c
  <2>1. r * C \in Nat
    BY <1>1
  <2> QED
    BY <1>1, <1>2, <1>3, <1>6, <2>1
<1> QED
  BY <1>6, <1>7 DEF q, m, C

(* Every position of the screen is one of its lines and columns. *)
LEMMA OnScreen ==
  ASSUME NEW spot \in Positions
  PROVE  /\ spot \div CRT_COLS \in Lines /\ spot % CRT_COLS \in Columns
         /\ spot = (spot \div CRT_COLS) * CRT_COLS + (spot % CRT_COLS)
<1> DEFINE C == CRT_COLS
           R == CRT_ROWS
           q == spot \div C
           m == spot % C
<1>1. C \in Nat /\ C >= 1 /\ R \in Nat /\ spot \in Nat /\ spot < R * C
  BY CrtAssumption, SizeFacts DEF Positions, CRT_SIZE
<1>2. q \in Nat /\ m \in Nat /\ m < C /\ spot = q * C + m
  BY <1>1
<1> HIDE DEF q, m, C, R
<1>3. ASSUME q >= R PROVE FALSE
  <2>1. q * C >= R * C /\ q * C \in Nat /\ R * C \in Nat
    BY <1>1, <1>2, <1>3
  <2> QED
    BY <1>1, <1>2, <2>1
<1>4. q \in 0..R-1 /\ m \in 0..C-1
  BY <1>1, <1>2, <1>3
<1> QED
  BY <1>2, <1>4 DEF q, m, C, R, Lines, Columns

(* And every line and column is a position. *)
LEMMA PositionOf ==
  ASSUME NEW r \in Lines, NEW c \in Columns
  PROVE  /\ r * CRT_COLS + c \in Positions
         /\ r + 1 < CRT_ROWS =>
              r * CRT_COLS + c < CRT_SIZE - CRT_COLS
         /\ ~(r + 1 < CRT_ROWS) =>
              r + 1 = CRT_ROWS /\ r * CRT_COLS = CRT_SIZE - CRT_COLS
         /\ (r + 1) * CRT_COLS + c = r * CRT_COLS + c + CRT_COLS
<1> DEFINE C == CRT_COLS
           R == CRT_ROWS
           len == r * C
<1>1. C \in Nat /\ C >= 1 /\ R \in Nat /\ r \in Nat /\ r < R /\ c \in Nat /\ c < C
  BY CrtAssumption, SizeFacts DEF Lines, Columns
<1> HIDE DEF C, R
<1>2. len \in Nat /\ R * C \in Nat
  BY <1>1
<1>3. (r + 1) * C = len + C
  BY <1>1
<1>4. (r + 1) * C <= R * C
  BY <1>1
<1>5. r + 1 < R => (r + 2) * C <= R * C
  BY <1>1
<1>6. (r + 2) * C = len + C + C
  BY <1>1
<1>7. ~(r + 1 < R) => r + 1 = R
  BY <1>1
<1> HIDE DEF len
<1>8. len + c \in 0..R*C-1
  BY <1>1, <1>2, <1>3, <1>4
<1>9. r + 1 < R => len + c < R * C - C
  BY <1>1, <1>2, <1>5, <1>6
<1>10. ~(r + 1 < R) => r + 1 = R /\ len = R * C - C
  BY <1>1, <1>2, <1>3, <1>7
<1>11. (r + 1) * C + c = len + c + C
  BY <1>1, <1>2, <1>3
<1> QED
  BY <1>8, <1>9, <1>10, <1>11 DEF len, C, R, Positions, CRT_SIZE

(* A write to the buffer is a write to one cell of the screen. *)
LEMMA ScreenWrite ==
  ASSUME NEW mem \in [Positions -> Cell], NEW r \in Lines, NEW c \in Columns,
         NEW x
  PROVE  ScreenOf(Poke(mem, r * CRT_COLS + c, x)) = Put(ScreenOf(mem), r, c, x)
<1> DEFINE spot == r * CRT_COLS + c
           new == [mem EXCEPT ![spot] = x]
<1>1. ASSUME NEW a \in Lines, NEW b \in Columns
      PROVE  ScreenOf(new)[a][b] = IF a = r /\ b = c THEN x ELSE ScreenOf(mem)[a][b]
  <2> DEFINE k == a * CRT_COLS + b
  <2>1. k \in Positions /\ spot \in Positions
    BY PositionOf
  <2>2. k = spot <=> a = r /\ b = c
    <3>1. k = spot => a = r /\ b = c
      <4>1. k \in Nat /\ spot \in Nat /\ a \in Nat /\ r \in Nat
        BY <2>1 DEF Positions, Lines
      <4>2. k \div CRT_COLS = a /\ k % CRT_COLS = b
        BY <4>1, Division
      <4>3. spot \div CRT_COLS = r /\ spot % CRT_COLS = c
        BY <4>1, Division
      <4> QED
        BY <4>2, <4>3
    <3> QED
      BY <3>1
  <2> HIDE DEF k, spot
  <2>3. new[k] = IF k = spot THEN x ELSE mem[k]
    BY <2>1
  <2>4. ScreenOf(new)[a][b] = new[k] /\ ScreenOf(mem)[a][b] = mem[k]
    BY DEF ScreenOf, k
  <2> QED
    BY <2>2, <2>3, <2>4
<1> HIDE DEF new
<1> DEFINE f(a, b) == IF a = r /\ b = c THEN x ELSE ScreenOf(mem)[a][b]
<1>2. ScreenOf(new) = [a \in Lines |-> [b \in Columns |-> ScreenOf(new)[a][b]]]
  BY DEF ScreenOf
<1>3. [ScreenOf(mem) EXCEPT ![r][c] = x]
        = [a \in Lines |-> [b \in Columns |->
             f(a, b)]]
  BY DEF ScreenOf
<1>4. [a \in Lines |-> [b \in Columns |-> ScreenOf(new)[a][b]]]
        = [a \in Lines |-> [b \in Columns |-> f(a, b)]]
  BY <1>1
<1>5. ScreenOf(new) = [ScreenOf(mem) EXCEPT ![r][c] = x]
  BY <1>2, <1>3, <1>4
<1> QED
  BY <1>5 DEF new, spot, Put, Poke

(* The copy of all lines but the first is a scroll. *)
LEMMA ScreenScroll ==
  ASSUME NEW mem \in [Positions -> Cell]
  PROVE  ScreenOf(Scrolled(mem)) = Display!Scrolled(ScreenOf(mem))
<1> DEFINE s == ScreenOf(mem)
           t == ScreenOf(Scrolled(mem))
<1>1. ASSUME NEW r \in Lines
      PROVE  t[r] = IF r + 1 < CRT_ROWS THEN s[r + 1] ELSE [c \in Columns |-> Blank]
  <2>1. t[r] = [c \in Columns |-> Scrolled(mem)[r * CRT_COLS + c]]
    BY DEF ScreenOf
  <2>2. ASSUME r + 1 < CRT_ROWS, NEW c \in Columns
        PROVE  Scrolled(mem)[r * CRT_COLS + c] = mem[(r + 1) * CRT_COLS + c]
    BY <2>2, PositionOf DEF Scrolled
  <2>3. ASSUME ~(r + 1 < CRT_ROWS), NEW c \in Columns
        PROVE  Scrolled(mem)[r * CRT_COLS + c] = Blank
    <3> DEFINE k == r * CRT_COLS
    <3>1. k + c \in Positions /\ k = CRT_SIZE - CRT_COLS
      BY <2>3, PositionOf
    <3> HIDE DEF k
    <3>2. ~(k + c < CRT_SIZE - CRT_COLS)
      BY <3>1, SizeFacts DEF Columns
    <3> QED
      BY <3>1, <3>2 DEF Scrolled, k
  <2>4. r + 1 < CRT_ROWS => r + 1 \in Lines
    BY CrtAssumption DEF Lines
  <2>5. r + 1 < CRT_ROWS => s[r + 1] = [c \in Columns |-> mem[(r + 1) * CRT_COLS + c]]
    BY <2>4 DEF ScreenOf
  <2> QED
    BY <2>1, <2>2, <2>3, <2>5
<1> HIDE DEF s, t
<1>2. t = [r \in Lines |-> t[r]]
  BY DEF t, ScreenOf
<1> QED
  BY <1>1, <1>2 DEF s, t, Display!Scrolled, Lines, Columns

(* What Settle shows: the buffer, scrolled if the position is on the line  *)
(* below the last.                                                         *)
LEMMA SettleScreen ==
  ASSUME NEW mem \in [Positions -> Cell], NEW r \in 0..CRT_ROWS, NEW c \in Columns,
         Settle(mem, r * CRT_COLS + c)
  PROVE  /\ r < CRT_ROWS => /\ Screen' = ScreenOf(mem)
                            /\ cursor' \div CRT_COLS = r
                            /\ cursor' % CRT_COLS = c
         /\ r = CRT_ROWS => /\ Screen' = Display!Scrolled(ScreenOf(mem))
                            /\ cursor' \div CRT_COLS = r - 1
                            /\ cursor' % CRT_COLS = c
<1> DEFINE cell == r * CRT_COLS + c
<1>1. CRT_ROWS \in Nat /\ CRT_ROWS >= 1 /\ c \in Nat /\ CRT_COLS \in Nat
  BY CrtAssumption DEF Columns
<1>2. Screen' = ScreenOf(crt_buf')
  BY DEF Screen, ScreenOf, Lines, Columns
<1>3. CASE r < CRT_ROWS
  <2>1. r \in Lines
    BY <1>1, <1>3 DEF Lines
  <2>2. cell \in Positions
    BY <2>1, PositionOf
  <2> HIDE DEF cell
  <2>3. ~OffScreen(cell) /\ cell \in Nat
    BY <2>2, SizeFacts DEF OffScreen, Positions
  <2>4. Settle(mem, cell)
    BY DEF cell
  <2>5. crt_buf' = mem /\ cursor' = cell
    BY <2>3, <2>4 DEF Settle
  <2>6. cell \div CRT_COLS = r /\ cell % CRT_COLS = c
    BY <2>3, Division DEF cell
  <2> QED
    BY <1>2, <1>3, <2>5, <2>6
<1>4. CASE r = CRT_ROWS
  <2> DEFINE q == r - 1
             low == q * CRT_COLS + c
  <2>1. q \in Lines /\ q \in Nat /\ q + 1 = r
    BY <1>1, <1>4 DEF Lines
  <2> HIDE DEF q
  <2>2. /\ low \in Positions
        /\ q * CRT_COLS = CRT_SIZE - CRT_COLS
        /\ (q + 1) * CRT_COLS + c = q * CRT_COLS + c + CRT_COLS
    BY <1>1, <1>4, <2>1, PositionOf
  <2> DEFINE len == q * CRT_COLS
  <2>3. len = CRT_SIZE - CRT_COLS /\ cell = len + c + CRT_COLS /\ low = len + c
    BY <2>1, <2>2
  <2> HIDE DEF len, cell, low
  <2>4. cell - CRT_COLS = low /\ OffScreen(cell) /\ low \in Nat
    BY <1>1, <2>2, <2>3, SizeFacts DEF OffScreen, Positions
  <2>5. Settle(mem, cell)
    BY DEF cell
  <2>6. crt_buf' = Scrolled(mem) /\ cursor' = low
    BY <2>4, <2>5 DEF Settle
  <2>7. low \div CRT_COLS = q /\ low % CRT_COLS = c
    BY <2>1, <2>4, Division DEF low
  <2>8. Screen' = Display!Scrolled(ScreenOf(mem))
    BY <1>2, <2>6, ScreenScroll
  <2> QED
    BY <1>1, <1>4, <2>1, <2>6, <2>7, <2>8
<1> QED
  BY <1>1, <1>3, <1>4

(* Everything the console draws, the spaces of a tab included. *)
Drawable == [attr : Attrs \cup {0}, ch : Chars \cup {SP}]

LEMMA DrawnType ==
  ASSUME NEW c \in Drawable
  PROVE  /\ c \in Cell
         /\ Attr(c) \in DrawnAttrs
         /\ c.ch \notin {BS, LF, CR, HT} => [attr |-> Attr(c), ch |-> c.ch] \in DrawnCells
<1>1. c.attr \in Attrs \cup {0} /\ c.ch \in Chars \cup {SP}
  BY DEF Drawable
<1>2. Attr(c) \in DrawnAttrs
  BY <1>1 DEF Attr, DrawnAttrs
<1>3. c \in Cell
  <2>1. Attrs \cup {0} \subseteq 0..255 /\ Chars \cup {SP} \subseteq 0..255
    BY CharsAssumption DEF SP
  <2> QED
    BY <2>1 DEF Drawable, Cell
<1> QED
  BY <1>1, <1>2, <1>3 DEF DrawnCells

(* A call of cga_putc is a step of the terminal. *)
LEMMA PutcStep ==
  ASSUME CgaInv, NEW c \in Drawable, cga_putc(c)
  PROVE  [Display!Next]_<<Screen, cursor \div CRT_COLS, cursor % CRT_COLS>>
<1> DEFINE C == CRT_COLS
           R == CRT_ROWS
           row == cursor \div C
           col == cursor % C
<1>1. crt_pos = cursor /\ cursor \in Positions /\ crt_buf \in [Positions -> Cell]
  BY DEF CgaInv, CgaTypeOK, CursorShown, cga_putc
<1>2. row \in Lines /\ col \in Columns /\ crt_pos = row * C + col
  BY <1>1, OnScreen
<1>3. /\ C \in Nat /\ C >= 1 /\ R \in Nat /\ R >= 1
      /\ row \in Nat /\ row < R /\ col \in Nat /\ col < C
  BY <1>2, CrtAssumption DEF Lines, Columns
<1>4. Screen = ScreenOf(crt_buf)
  BY DEF Screen, ScreenOf, Lines, Columns
<1>5. 0 \in Columns /\ (row + 1) * C = row * C + C /\ row * C \in Nat
  BY <1>3 DEF Columns
<1> HIDE DEF C, R, row, col
<1>6. CASE c.ch = BS /\ Backspace(c)
  <2> DEFINE e == [attr |-> Attr(c), ch |-> SP]
             a == Attr(c)
  <2>1. a \in DrawnAttrs /\ e = Display!Erased(a)
    BY DrawnType DEF Display!Erased, Blank
  <2>2. CASE col > 0
    <3> DEFINE k == col - 1
    <3>1. k \in Columns /\ crt_pos - 1 = row * C + k /\ crt_pos > 0
      BY <1>2, <1>3, <1>5, <2>2 DEF Columns, C
    <3> HIDE DEF k
    <3>2. Settle([crt_buf EXCEPT ![row * C + k] = e], row * C + k)
      BY <1>6, <3>1 DEF Backspace
    <3>3. [crt_buf EXCEPT ![row * C + k] = e] \in [Positions -> Cell]
      BY <1>1, DrawnType, AttrType
    <3>4. /\ Screen' = [Screen EXCEPT ![row][k] = e]
          /\ cursor' \div C = row /\ cursor' % C = k
      <4> DEFINE w == [crt_buf EXCEPT ![row * C + k] = e]
      <4>0. w = Poke(crt_buf, row * CRT_COLS + k, e)
        BY DEF w, C, Poke
      <4>1. ScreenOf(w) = [Screen EXCEPT ![row][k] = e]
        <5> HIDE DEF w, e
        <5>1. ScreenOf(w) = Put(ScreenOf(crt_buf), row, k, e)
          BY <1>1, <1>2, <3>1, <4>0, ScreenWrite, Zenon
        <5> QED
          BY <1>4, <5>1, Zenon DEF Put
      <4> HIDE DEF w
      <4>2. w \in [Positions -> Cell] /\ Settle(w, row * C + k)
        BY <3>2, <3>3 DEF w
      <4> QED
        BY <1>3, <3>1, <4>1, <4>2, SettleScreen DEF C, R
    <3>5. Display!Rubout(a)
      BY <2>1, <2>2, <3>4 DEF Display!Rubout, row, col, C, k
    <3> QED
      BY <2>1, <3>5 DEF Display!Next
  <2>3. CASE col = 0 /\ row > 0
    <3> DEFINE k == C - 1
               r == row - 1
    <3>1. /\ k \in Columns /\ r \in Lines /\ r < R /\ r \in 0..CRT_ROWS
      BY <1>3, <2>3 DEF Columns, Lines, C, R
    <3>2. crt_pos - 1 = r * C + k /\ crt_pos > 0
      <4>1. r * C = row * C - C
        BY <1>3
      <4>2. row * C >= C
        BY <1>3, <2>3
      <4> QED
        BY <1>2, <1>3, <1>5, <2>3, <4>1, <4>2
    <3> HIDE DEF k, r
    <3>3. Settle([crt_buf EXCEPT ![r * C + k] = e], r * C + k)
      BY <1>6, <3>2 DEF Backspace
    <3>4. [crt_buf EXCEPT ![r * C + k] = e] \in [Positions -> Cell]
      BY <1>1, DrawnType, AttrType
    <3>5. /\ Screen' = [Screen EXCEPT ![r][k] = e]
          /\ cursor' \div C = r /\ cursor' % C = k
      <4> DEFINE w == [crt_buf EXCEPT ![r * C + k] = e]
      <4>0. w = Poke(crt_buf, r * CRT_COLS + k, e)
        BY DEF w, C, Poke
      <4>1. ScreenOf(w) = [Screen EXCEPT ![r][k] = e]
        <5> HIDE DEF w, e
        <5>1. ScreenOf(w) = Put(ScreenOf(crt_buf), r, k, e)
          BY <1>1, <3>1, <4>0, ScreenWrite, Zenon
        <5> QED
          BY <1>4, <5>1, Zenon DEF Put
      <4> HIDE DEF w
      <4>2. w \in [Positions -> Cell] /\ Settle(w, r * C + k)
        BY <3>3, <3>4 DEF w
      <4> QED
        BY <3>1, <4>1, <4>2, SettleScreen DEF C, R
    <3>6. Display!Rubout(a)
      BY <2>1, <2>3, <3>5 DEF Display!Rubout, row, col, C, k, r
    <3> QED
      BY <2>1, <3>6 DEF Display!Next
  <2>4. CASE col = 0 /\ row = 0
    <3>1. crt_pos = 0
      BY <1>2, <1>3, <2>4
    <3>2. Settle(crt_buf, row * C + col)
      BY <1>2, <1>6, <3>1 DEF Backspace
    <3>3. Screen' = Screen /\ cursor' \div C = row /\ cursor' % C = col
      BY <1>1, <1>2, <1>3, <1>4, <3>2, SettleScreen DEF C, R
    <3> QED
      BY <3>3 DEF row, col, C
  <2> QED
    BY <1>3, <2>2, <2>3, <2>4
<1>7. ASSUME NEW mem \in [Positions -> Cell], Settle(mem, (row + 1) * C)
      PROVE  Display!LineFeed(ScreenOf(mem))
  <2> DEFINE r == row + 1
  <2>1. r \in 0..CRT_ROWS /\ r * C = r * C + 0 /\ r - 1 = row
    BY <1>3 DEF R
  <2> HIDE DEF r
  <2>2. /\ r < R => /\ Screen' = ScreenOf(mem)
                    /\ cursor' \div C = r /\ cursor' % C = 0
        /\ r = R => /\ Screen' = Display!Scrolled(ScreenOf(mem))
                    /\ cursor' \div C = row /\ cursor' % C = 0
    BY <1>5, <1>7, <2>1, SettleScreen DEF C, R, r
  <2>3. CASE row + 1 < R
    BY <2>2, <2>3 DEF Display!LineFeed, row, C, R, r
  <2>4. CASE ~(row + 1 < R)
    <3>1. r = R
      BY <1>3, <2>4 DEF r
    <3> QED
      BY <2>2, <2>4, <3>1 DEF Display!LineFeed, row, C, R
  <2> QED
    BY <2>3, <2>4
<1>8. CASE c.ch = LF /\ LineFeed
  <2>1. crt_pos + C = (row + 1) * C + col
    BY <1>2, <1>3, <1>5
  <2>2. (crt_pos + C) % C = col
    <3>1. row + 1 \in Nat /\ crt_pos + C \in Nat
      BY <1>2, <1>3, <1>5
    <3> QED
      BY <1>2, <2>1, <3>1, Division DEF C
  <2>3. LineStart(crt_pos + C) = (row + 1) * C
    BY <1>2, <1>3, <1>5, <2>1, <2>2 DEF LineStart, C
  <2>4. Settle(crt_buf, (row + 1) * C)
    BY <1>8, <2>3 DEF LineFeed, C
  <2>5. Display!LineFeed(Screen)
    BY <1>1, <1>4, <1>7, <2>4
  <2> QED
    BY <2>5 DEF Display!Next
<1>9. CASE c.ch = CR /\ CarriageReturn
  <2>1. crt_pos % C = col
    BY <1>1 DEF col
  <2>2. LineStart(crt_pos) = row * C + 0
    BY <1>2, <1>3, <1>5, <2>1 DEF LineStart, C
  <2>3. Settle(crt_buf, row * C + 0)
    BY <1>9, <2>2 DEF CarriageReturn
  <2>4. Screen' = Screen /\ cursor' \div C = row /\ cursor' % C = 0
    BY <1>1, <1>3, <1>4, <1>5, <2>3, SettleScreen DEF C, R
  <2>5. Display!Return
    BY <2>4 DEF Display!Return, row, C
  <2> QED
    BY <2>5 DEF Display!Next
<1>10. CASE c.ch \notin {BS, LF, CR, HT} /\ Glyph(c)
  <2> DEFINE e == [attr |-> Attr(c), ch |-> c.ch]
             mem == [crt_buf EXCEPT ![crt_pos] = e]
  <2>1. e \in DrawnCells
    BY <1>10, DrawnType
  <2>2. mem \in [Positions -> Cell]
    BY <1>1, DrawnType, AttrType
  <2>3. ScreenOf(mem) = [Screen EXCEPT ![row][col] = e]
    <3>1. crt_pos = row * CRT_COLS + col
      BY <1>2 DEF C
    <3>2. mem = Poke(crt_buf, row * CRT_COLS + col, e)
      BY <3>1 DEF mem, Poke
    <3> HIDE DEF e, mem
    <3> QED
      <4>1. ScreenOf(mem) = Put(ScreenOf(crt_buf), row, col, e)
        BY <1>1, <1>2, <3>2, ScreenWrite, Zenon
      <4> QED
        BY <1>4, <4>1, Zenon DEF Put
  <2>4. Settle(mem, crt_pos + 1)
    BY <1>10 DEF Glyph
  <2> HIDE DEF e, mem
  <2>5. CASE col + 1 < C
    <3> DEFINE k == col + 1
    <3>1. k \in Columns /\ crt_pos + 1 = row * C + k
      BY <1>2, <1>3, <1>5, <2>5 DEF Columns, C
    <3> HIDE DEF k
    <3>2. /\ Screen' = ScreenOf(mem)
          /\ cursor' \div C = row /\ cursor' % C = k
      BY <1>3, <2>2, <2>4, <3>1, SettleScreen DEF C, R
    <3> QED
      BY <2>1, <2>3, <2>5, <3>2 DEF Display!Next, Display!Type, row, col, C, k
  <2>6. CASE ~(col + 1 < C)
    <3>1. crt_pos + 1 = (row + 1) * C
      BY <1>2, <1>3, <1>5, <2>6
    <3>2. Display!LineFeed(ScreenOf(mem))
      BY <1>7, <2>2, <2>4, <3>1
    <3> QED
      BY <2>1, <2>3, <2>6, <3>2 DEF Display!Next, Display!Type, row, col, C
  <2> QED
    BY <2>5, <2>6
<1> QED
  BY <1>6, <1>8, <1>9, <1>10 DEF cga_putc

(* cga_init and the end of a tab leave what is shown as it is. *)
LEMMA QuietStep ==
  ASSUME CgaInv, cga_init \/ TabEnd \/ UNCHANGED cgaVars
  PROVE  UNCHANGED <<Screen, cursor \div CRT_COLS, cursor % CRT_COLS>>
<1>1. ASSUME crt_buf' = crt_buf, cursor' = cursor
      PROVE  UNCHANGED <<Screen, cursor \div CRT_COLS, cursor % CRT_COLS>>
  BY <1>1 DEF Screen
<1>2. CASE cga_init \/ UNCHANGED cgaVars
  BY <1>1, <1>2 DEF cga_init, cgaVars
<1>3. CASE TabEnd
  <2>1. crt_pos = cursor /\ crt_pos \in 0..CRT_SIZE-1
    BY <1>3 DEF CgaInv, CgaTypeOK, CursorShown, TabEnd, Positions
  <2>2. ~OffScreen(crt_pos)
    BY <2>1, SizeFacts DEF OffScreen
  <2> QED
    BY <1>1, <1>3, <2>1, <2>2 DEF TabEnd, Settle
<1> QED
  BY <1>2, <1>3

(* The hardware cursor follows the driver's from cga_init on. *)
LEMMA CursorStep ==
  ASSUME CgaInv, NEW c, cga_init \/ cga_putc(c) \/ TabEnd \/ UNCHANGED cgaVars
  PROVE  CursorShown'
<1>1. ASSUME NEW mem, NEW cell, Settle(mem, cell) PROVE cursor' = crt_pos'
  BY <1>1 DEF Settle
<1>2. CASE cga_putc(c)
  BY <1>1, <1>2 DEF cga_putc, Backspace, LineFeed, CarriageReturn, Glyph, CursorShown
<1>3. CASE TabEnd
  BY <1>1, <1>3 DEF TabEnd, CursorShown
<1>4. CASE cga_init
  BY <1>4 DEF cga_init, CursorShown
<1>5. CASE UNCHANGED cgaVars
  BY <1>5 DEF cgaVars, CgaInv, CursorShown
<1> QED
  BY <1>2, <1>3, <1>4, <1>5

LEMMA PrintedDrawable == Printed \subseteq Drawable
BY DEF Printed, Drawable

(* The display starts as a terminal. *)
LEMMA CgaInitShown == CgaInit => CgaInv /\ Display!Init
<1> SUFFICES ASSUME CgaInit PROVE CgaInv /\ Display!Init
  OBVIOUS
<1>1. CgaInv
  BY CgaInitType DEF CgaInv, CursorShown, CgaInit
<1>2. Display!Init
  BY OnScreen DEF CgaInit, Display!Init, Lines, Columns
<1> QED
  BY <1>1, <1>2

(* The flat buffer, its wrapping, its scrolling and the 6845's cursor      *)
(* implement the two-dimensional terminal, for every size of the screen,   *)
(* every text the BIOS left and every sequence of characters.              *)
THEOREM CgaImplementsTerminal == CgaSpec => TerminalSpec
<1>1. CgaInv /\ [CgaNext]_cgaVars => CgaInv'
  <2> SUFFICES ASSUME CgaInv, [CgaNext]_cgaVars PROVE CgaInv'
    OBVIOUS
  <2>1. CgaTypeOK'
    BY CgaNextType DEF CgaInv
  <2>2. CursorShown'
    BY CursorStep DEF CgaNext
  <2> QED
    BY <2>1, <2>2 DEF CgaInv
<1>2. CgaInv /\ [CgaNext]_cgaVars
        => [Display!Next]_<<Screen, cursor \div CRT_COLS, cursor % CRT_COLS>>
  BY PutcStep, QuietStep, PrintedDrawable DEF CgaNext
<1> QED
  BY <1>1, <1>2, CgaInitShown, PTL DEF CgaSpec, TerminalSpec, Display!Spec

-----------------------------------------------------------------------------
(***************************************************************************)
(* Console output.  The calls that are still to be made are balanced: a    *)
(* call of serial_putc is followed by lpt_putc of the same character, and  *)
(* lpt_putc comes from nowhere else.  This holds of the whole stack, or of *)
(* all of it but the lpt_putc in hand, and the serial log is then the      *)
(* character of that call ahead.                                           *)
(***************************************************************************)
Calls == [call : {"serial", "lpt", "cga", "tab end"}, c : Drawable]

Balanced(s) ==
  /\ s \in Seq(Calls)
  /\ \A j \in 1..Len(s) :
       /\ s[j].call = "serial" => j + 1 \in 1..Len(s) /\ s[j + 1] = Call("lpt", s[j].c)
       /\ s[j].call = "lpt" => j - 1 \in 1..Len(s) /\ s[j - 1].call = "serial"

LogsOK ==
  /\ log \in [Ports -> Seq(0..255)]
  /\ ~Calling("lpt") => Balanced(todo) /\ log["serial"] = log["lpt"]
  /\ Calling("lpt") =>
       /\ todo \in Seq(Calls) /\ Balanced(Tail(todo))
       /\ log["serial"] = Append(log["lpt"], todo[1].c.ch)

OutInv == CgaInv /\ LogsOK

LEMMA BalancedEmpty == Balanced(<<>>)
BY DEF Balanced

LEMMA BalancedTail ==
  ASSUME NEW s, Balanced(s), s # <<>>, s[1].call # "serial"
  PROVE  Balanced(Tail(s))
<1> DEFINE t == Tail(s)
<1>1. s \in Seq(Calls) /\ t \in Seq(Calls) /\ Len(s) \in Nat /\ Len(t) = Len(s) - 1
  BY DEF Balanced
<1>2. \A j \in 1..Len(t) : t[j] = s[j + 1] /\ j + 1 \in 1..Len(s)
  BY <1>1
<1> HIDE DEF t
<1>3. ASSUME NEW j \in 1..Len(t), t[j].call = "serial"
      PROVE  j + 1 \in 1..Len(t) /\ t[j + 1] = Call("lpt", t[j].c)
  <2>1. (j + 1) + 1 \in 1..Len(s) /\ s[(j + 1) + 1] = Call("lpt", s[j + 1].c)
    BY <1>2, <1>3 DEF Balanced
  <2>2. j + 1 \in 1..Len(t)
    BY <1>1, <2>1
  <2> QED
    BY <1>2, <2>1, <2>2
<1>4. ASSUME NEW j \in 1..Len(t), t[j].call = "lpt"
      PROVE  j - 1 \in 1..Len(t) /\ t[j - 1].call = "serial"
  <2>1. s[(j + 1) - 1].call = "serial" /\ (j + 1) - 1 = j
    BY <1>2, <1>4 DEF Balanced
  <2>2. j # 1
    BY <2>1
  <2>3. j - 1 \in 1..Len(t) /\ (j - 1) + 1 = j
    BY <1>1, <2>2
  <2> QED
    BY <1>2, <2>1, <2>3
<1> QED
  BY <1>1, <1>3, <1>4 DEF Balanced, t

(* A call of serial_putc on top has its lpt_putc below it. *)
LEMMA BalancedPair ==
  ASSUME NEW s, Balanced(s), s # <<>>, s[1].call = "serial"
  PROVE  /\ Tail(s) \in Seq(Calls) /\ Tail(s) # <<>>
         /\ Tail(s)[1] = Call("lpt", s[1].c)
         /\ Balanced(Tail(Tail(s)))
<1> DEFINE t == Tail(s)
           u == Tail(t)
<1>1. s \in Seq(Calls) /\ t \in Seq(Calls) /\ Len(s) \in Nat /\ Len(t) = Len(s) - 1
  BY DEF Balanced
<1>2. 1 \in 1..Len(s)
  BY <1>1
<1>3. 2 \in 1..Len(s) /\ s[2] = Call("lpt", s[1].c)
  BY <1>2 DEF Balanced
<1>4. t # <<>> /\ t[1] = s[2]
  <2>1. Len(t) >= 1 /\ 1 \in 1..Len(t)
    BY <1>1, <1>3
  <2>2. t # <<>>
    <3> HIDE DEF t
    <3> QED
      BY <2>1, EmptySeq
  <2> QED
    BY <1>1, <2>1, <2>2
<1>5. u \in Seq(Calls) /\ Len(u) = Len(s) - 2
  BY <1>1, <1>4
<1>6. \A j \in 1..Len(u) : u[j] = s[j + 2] /\ j + 2 \in 1..Len(s)
  <2> SUFFICES ASSUME NEW j \in 1..Len(u) PROVE u[j] = s[j + 2] /\ j + 2 \in 1..Len(s)
    OBVIOUS
  <2>1. u[j] = t[j + 1] /\ j + 1 \in 1..Len(t)
    BY <1>1, <1>4, <1>5
  <2>2. t[j + 1] = s[(j + 1) + 1]
    <3>1. s \in Seq(Calls) /\ s # <<>>
      BY <1>1
    <3>2. \A idx \in 1..Len(Tail(s)) : Tail(s)[idx] = s[idx + 1]
      BY <3>1, HeadTailProperties
    <3> QED BY <2>1, <3>2
  <2> HIDE DEF t, u
  <2>3. j + 2 \in 1..Len(s) /\ (j + 1) + 1 = j + 2
    BY <1>1, <1>5
  <2> QED
    BY <2>1, <2>2, <2>3
<1> HIDE DEF t, u
<1>7. ASSUME NEW j \in 1..Len(u), u[j].call = "serial"
      PROVE  j + 1 \in 1..Len(u) /\ u[j + 1] = Call("lpt", u[j].c)
  <2>1. (j + 2) + 1 \in 1..Len(s) /\ s[(j + 2) + 1] = Call("lpt", s[j + 2].c)
    BY <1>6, <1>7 DEF Balanced
  <2>2. j + 1 \in 1..Len(u) /\ (j + 2) + 1 = (j + 1) + 2
    BY <1>1, <1>5, <2>1
  <2> QED
    BY <1>6, <2>1, <2>2
<1>8. ASSUME NEW j \in 1..Len(u), u[j].call = "lpt"
      PROVE  j - 1 \in 1..Len(u) /\ u[j - 1].call = "serial"
  <2>1. s[(j + 2) - 1].call = "serial" /\ (j + 2) - 1 = j + 1
    BY <1>6, <1>8 DEF Balanced
  <2>2. j # 1
    BY <1>3, <2>1 DEF Call
  <2>3. j - 1 \in 1..Len(u) /\ (j - 1) + 2 = j + 1
    BY <1>5, <2>2
  <2> QED
    BY <1>6, <2>1, <2>3
<1> QED
  BY <1>1, <1>3, <1>4, <1>5, <1>7, <1>8 DEF Balanced, t, u

LEMMA BalancedCat ==
  ASSUME NEW s, NEW t, Balanced(s), Balanced(t)
  PROVE  Balanced(s \o t)
<1> DEFINE len == Len(s)
           m == Len(t)
           u == s \o t
<1>1. s \in Seq(Calls) /\ t \in Seq(Calls) /\ u \in Seq(Calls)
  BY DEF Balanced
<1>2. len \in Nat /\ m \in Nat /\ Len(u) = len + m
  BY <1>1
<1>3. \A j \in 1..Len(u) : u[j] = IF j <= len THEN s[j] ELSE t[j - len]
  BY <1>1
<1> HIDE DEF u
<1>4. ASSUME NEW j \in 1..len PROVE j \in 1..Len(u) /\ u[j] = s[j]
  BY <1>2, <1>3
<1>5. ASSUME NEW j \in 1..m PROVE len + j \in 1..Len(u) /\ u[len + j] = t[j]
  <2>1. len + j \in 1..Len(u) /\ ~(len + j <= len) /\ (len + j) - len = j
    BY <1>2
  <2> QED
    BY <1>3, <2>1
<1>6. ASSUME NEW j \in 1..Len(u)
      PROVE  j \in 1..len \/ \E idx \in 1..m : j = len + idx
  <2>1. CASE j <= len
    BY <1>2, <2>1
  <2>2. CASE ~(j <= len)
    <3>1. j - len \in 1..m /\ j = len + (j - len)
      BY <1>2, <2>2
    <3> QED
      BY <3>1
  <2> QED
    BY <2>1, <2>2
<1>7. ASSUME NEW j \in 1..Len(u), u[j].call = "serial"
      PROVE  j + 1 \in 1..Len(u) /\ u[j + 1] = Call("lpt", u[j].c)
  <2>1. CASE j \in 1..len
    BY <1>4, <1>7, <2>1 DEF Balanced, len
  <2>2. ASSUME NEW idx \in 1..m, j = len + idx PROVE j + 1 \in 1..Len(u) /\ u[j + 1] = Call("lpt", u[j].c)
    <3>1. idx + 1 \in 1..m /\ t[idx + 1] = Call("lpt", t[idx].c)
      BY <1>5, <1>7, <2>2 DEF Balanced, m
    <3>2. len + (idx + 1) = j + 1
      BY <1>2, <2>2
    <3> QED
      BY <1>5, <2>2, <3>1, <3>2
  <2> QED
    BY <1>6, <2>1, <2>2
<1>8. ASSUME NEW j \in 1..Len(u), u[j].call = "lpt"
      PROVE  j - 1 \in 1..Len(u) /\ u[j - 1].call = "serial"
  <2>1. CASE j \in 1..len
    BY <1>4, <1>8, <2>1 DEF Balanced, len
  <2>2. ASSUME NEW idx \in 1..m, j = len + idx PROVE j - 1 \in 1..Len(u) /\ u[j - 1].call = "serial"
    <3>1. idx - 1 \in 1..m /\ t[idx - 1].call = "serial"
      BY <1>5, <1>8, <2>2 DEF Balanced, m
    <3>2. len + (idx - 1) = j - 1
      BY <1>2, <2>2
    <3> QED
      BY <1>5, <3>1, <3>2
  <2> QED
    BY <1>6, <2>1, <2>2
<1> QED
  BY <1>1, <1>7, <1>8 DEF Balanced, u

LEMMA BalancedPutc ==
  ASSUME NEW c \in Drawable
  PROVE  Balanced(cons_putc(c))
<1> DEFINE a == Call("serial", c)
           b == Call("lpt", c)
           d == Call("cga", c)
           s == cons_putc(c)
<1>1. a \in Calls /\ b \in Calls /\ d \in Calls
  BY DEF Call, Calls
<1>2. /\ a.call = "serial" /\ b.call = "lpt" /\ d.call = "cga" /\ a.c = c
  BY DEF Call
<1>3. s = <<a, b, d>>
  BY DEF cons_putc
<1>4. b = Call("lpt", a.c)
  BY <1>2
<1> HIDE DEF a, b, d, s
<1>5. s \in Seq(Calls) /\ Len(s) = 3 /\ s[1] = a /\ s[2] = b /\ s[3] = d
  BY <1>1, <1>3
<1>6. \A j \in 1..Len(s) : j = 1 \/ j = 2 \/ j = 3
  BY <1>5
<1>7. /\ 1 + 1 \in 1..Len(s) /\ 2 - 1 \in 1..Len(s) /\ 1 + 1 = 2 /\ 2 - 1 = 1
  BY <1>5
<1>8. ASSUME NEW j \in 1..Len(s)
      PROVE  /\ s[j].call = "serial" => j + 1 \in 1..Len(s) /\ s[j + 1] = Call("lpt", s[j].c)
             /\ s[j].call = "lpt" => j - 1 \in 1..Len(s) /\ s[j - 1].call = "serial"
  <2>1. CASE j = 1
    BY <1>2, <1>4, <1>5, <1>7, <2>1
  <2>2. CASE j = 2
    BY <1>2, <1>5, <1>7, <2>2
  <2>3. CASE j = 3
    BY <1>2, <1>5, <2>3
  <2> QED
    BY <1>6, <2>1, <2>2, <2>3
<1> QED
  BY <1>5, <1>8 DEF Balanced, s

(* The calls of a tab. *)
LEMMA BalancedTab ==
  ASSUME NEW c \in Drawable, NEW s, Balanced(s)
  PROVE  Balanced(Tab \o <<Call("tab end", c)>> \o s)
<1>1. [attr |-> 0, ch |-> SP] \in Drawable
  BY DEF Drawable
<1>2. Balanced(Space)
  BY <1>1, BalancedPutc DEF Space
<1>3. Balanced(Tab)
  BY <1>2, BalancedCat DEF Tab
<1>4. Balanced(<<Call("tab end", c)>>)
  <2> DEFINE e == Call("tab end", c)
  <2>0. e \in Calls
    BY DEF Call, Calls
  <2>1. e.call = "tab end"
    BY DEF Call
  <2> HIDE DEF e
  <2> DEFINE q == <<e>>
  <2>2. q = <<e>>
    OBVIOUS
  <2> HIDE DEF q
  <2>3. q \in Seq(Calls) /\ Len(q) = 1 /\ q[1] = e
    <3>1. q \in Seq(Calls)
      BY <2>0, <2>2
    <3>2. Len(q) = 1 /\ q[1] = e
      BY <2>2
    <3> QED
      BY <3>1, <3>2
  <2>4. \A j \in 1..Len(q) : j = 1
    BY <2>3
  <2>5. \A j \in 1..Len(q) : q[j].call # "serial" /\ q[j].call # "lpt"
    BY <2>1, <2>3, <2>4
  <2> QED
    BY <2>2, <2>3, <2>5 DEF Balanced, e
<1> QED
  BY <1>3, <1>4, BalancedCat

-----------------------------------------------------------------------------
(* The logs after one more character. *)
LEMMA LogType ==
  ASSUME log \in [Ports -> Seq(0..255)]
  PROVE  log["serial"] \in Seq(0..255) /\ log["lpt"] \in Seq(0..255)
BY DEF Ports

(* A character that a port is sent. *)
LEMMA SendLog ==
  ASSUME LogsOK, NEW d \in Ports, PortSend(d)
  PROVE  LogsOK'
<1>1. todo # <<>> /\ todo[1].call = d /\ todo' = Tail(todo)
  BY DEF PortSend, Calling
<1>2. todo \in Seq(Calls)
  BY DEF LogsOK, Balanced
<1>3. todo[1] \in Calls
  BY <1>1, <1>2
<1> DEFINE byte == todo[1].c.ch
<1>4. byte \in 0..255
  <2>1. todo[1].c \in Drawable
    BY <1>3 DEF Calls
  <2>2. todo[1].c \in Cell
    BY <2>1, DrawnType
  <2> QED
    BY <2>2 DEF Cell
<1>5. log' = [log EXCEPT ![d] = Append(log[d], byte)]
  BY DEF PortSend
<1> HIDE DEF byte
<1>6. log \in [Ports -> Seq(0..255)]
  BY DEF LogsOK
<1>7. Append(log[d], byte) \in Seq(0..255)
  BY <1>4, <1>6
<1>8. log' \in [Ports -> Seq(0..255)]
  BY <1>5, <1>6, <1>7
<1>9. CASE d = "serial"
  <2>1. ~Calling("lpt")
    BY <1>1, <1>9 DEF Calling
  <2>2. Balanced(todo) /\ log["serial"] = log["lpt"]
    BY <2>1 DEF LogsOK
  <2>3. /\ todo' \in Seq(Calls) /\ todo' # <<>>
        /\ todo'[1] = Call("lpt", todo[1].c)
        /\ Balanced(Tail(todo'))
    BY <1>1, <1>9, <2>2, BalancedPair
  <2>4. Calling("lpt")' /\ todo'[1].c.ch = byte
    BY <2>3 DEF Calling, Call, byte
  <2>5. log'["serial"] = Append(log["serial"], byte) /\ log'["lpt"] = log["lpt"]
    BY <1>5, <1>6, <1>9 DEF Ports
  <2> QED
    BY <1>8, <2>2, <2>3, <2>4, <2>5 DEF LogsOK
<1>10. CASE d = "lpt"
  <2>1. Calling("lpt")
    BY <1>1, <1>10 DEF Calling
  <2>2. Balanced(todo') /\ log["serial"] = Append(log["lpt"], byte)
    BY <1>1, <2>1 DEF LogsOK, byte
  <2>3. ~Calling("lpt")'
    <3>1. todo' # <<>> => 1 \in 1..Len(todo')
      BY <2>2 DEF Balanced
    <3>2. 1 - 1 \notin 1..Len(todo')
      BY <2>2 DEF Balanced
    <3> QED
      BY <2>2, <3>1, <3>2 DEF Balanced, Calling
  <2>4. log'["lpt"] = Append(log["lpt"], byte) /\ log'["serial"] = log["serial"]
    BY <1>5, <1>6, <1>10 DEF Ports
  <2> QED
    BY <1>8, <2>2, <2>3, <2>4 DEF LogsOK
<1> QED
  BY <1>9, <1>10 DEF Ports

(* The first call of a balanced stack is never lpt_putc. *)
LEMMA BalancedFirst ==
  ASSUME NEW s, Balanced(s), s # <<>>
  PROVE  s[1].call # "lpt" /\ s[1] \in Calls
<1>1. s \in Seq(Calls) /\ 1 \in 1..Len(s)
  BY DEF Balanced
<1>2. 1 - 1 \notin 1..Len(s)
  OBVIOUS
<1> QED
  BY <1>1, <1>2 DEF Balanced

(* The display's calls leave the logs alone and the stack balanced. *)
LEMMA CgaLog ==
  ASSUME LogsOK, CgaStep \/ CgaTabEnd
  PROVE  LogsOK'
<1>1. todo # <<>> /\ todo[1].call \in {"cga", "tab end"} /\ log' = log
  BY DEF CgaStep, CgaTabEnd, Calling
<1>2. ~Calling("lpt")
  BY <1>1 DEF Calling
<1>3. Balanced(todo) /\ log["serial"] = log["lpt"]
  BY <1>2 DEF LogsOK
<1>4. Balanced(Tail(todo))
  BY <1>1, <1>3, BalancedTail
<1>5. todo[1].c \in Drawable
  BY <1>1, <1>3, BalancedFirst DEF Calls
<1>6. Balanced(todo')
  <2>1. CASE todo' = Tail(todo)
    BY <1>4, <2>1
  <2>2. CASE todo' = Tab \o <<Call("tab end", todo[1].c)>> \o Tail(todo)
    BY <1>4, <1>5, <2>2, BalancedTab
  <2> QED
    BY <2>1, <2>2 DEF CgaStep, CgaTabEnd
<1>7. ~Calling("lpt")'
  BY <1>6, BalancedFirst DEF Calling
<1> QED
  BY <1>1, <1>3, <1>6, <1>7 DEF LogsOK

(* cputchar starts new logs. *)
LEMMA PutcharLog ==
  ASSUME LogsOK, NEW c \in Printed, cputchar(c)
  PROVE  LogsOK'
<1>1. todo' = cons_putc(c) /\ log' = [d \in Ports |-> <<>>]
  BY DEF cputchar
<1>2. Balanced(todo')
  BY <1>1, PrintedDrawable, BalancedPutc
<1>3. ~Calling("lpt")'
  BY <1>2, BalancedFirst DEF Calling
<1>4. log' \in [Ports -> Seq(0..255)] /\ log'["serial"] = log'["lpt"]
  BY <1>1 DEF Ports
<1> QED
  BY <1>2, <1>3, <1>4 DEF LogsOK

(* Every step keeps the invariant, and is a step of the terminal or leaves *)
(* what is shown alone.                                                    *)
LEMMA OutStep ==
  ASSUME OutInv, [OutNext]_allVars
  PROVE  /\ OutInv'
         /\ [Display!Next]_<<Screen, cursor \div CRT_COLS, cursor % CRT_COLS>>
<1> DEFINE Drawn == [Display!Next]_<<Screen, cursor \div CRT_COLS, cursor % CRT_COLS>>
<1>1. CgaInv /\ LogsOK
  BY DEF OutInv
<1>2. ASSUME UNCHANGED cgaVars PROVE CgaInv' /\ Drawn
  BY <1>1, <1>2, QuietStep DEF cgaVars, CgaInv, CgaTypeOK, CursorShown
<1>3. ASSUME UNCHANGED <<todo, log>> PROVE LogsOK'
  BY <1>1, <1>3 DEF LogsOK, Calling
<1>4. CASE cons_init
  <2>1. CgaInv'
    BY <1>1, <1>4, InitType, CursorStep DEF cons_init, CgaInv
  <2> QED
    BY <1>1, <1>3, <1>4, <2>1, QuietStep DEF cons_init, outVars, OutInv
<1>5. ASSUME NEW d \in Ports, PortWait(d) PROVE OutInv' /\ Drawn
  BY <1>2, <1>3, <1>5 DEF PortWait, OutInv
<1>6. ASSUME NEW d \in Ports, PortSend(d) PROVE OutInv' /\ Drawn
  BY <1>1, <1>2, <1>6, SendLog DEF PortSend, OutInv
<1>7. CASE CgaStep
  <2>1. LogsOK'
    BY <1>1, <1>7, CgaLog
  <2> DEFINE c == todo[1].c
  <2>2. c \in Drawable
    <3>1. todo # <<>> /\ ~Calling("lpt")
      BY <1>7 DEF CgaStep, Calling
    <3> QED
      BY <1>1, <3>1, BalancedFirst DEF LogsOK, Calls
  <2>3. CASE UNCHANGED cgaVars
    BY <1>2, <2>1, <2>3 DEF OutInv
  <2>4. CASE cga_putc(c)
    <3>1. CgaTypeOK'
      BY <1>1, <2>2, <2>4, PutcType, DrawnType DEF CgaInv
    <3>2. CursorShown'
      BY <1>1, <2>4, CursorStep
    <3>3. Drawn
      BY <1>1, <2>2, <2>4, PutcStep
    <3> QED
      BY <2>1, <3>1, <3>2, <3>3 DEF OutInv, CgaInv
  <2> QED
    BY <1>7, <2>3, <2>4 DEF CgaStep
<1>8. CASE CgaTabEnd
  <2>1. LogsOK'
    BY <1>1, <1>8, CgaLog
  <2>2. TabEnd
    BY <1>8 DEF CgaTabEnd
  <2>3. CgaTypeOK' /\ CursorShown'
    BY <1>1, <2>2, CgaNextType, CursorStep DEF CgaInv, CgaNext
  <2> QED
    BY <1>1, <2>1, <2>2, <2>3, QuietStep DEF OutInv, CgaInv
<1>9. ASSUME NEW c \in Printed, cputchar(c) PROVE OutInv' /\ Drawn
  BY <1>1, <1>2, <1>9, PutcharLog DEF cputchar, OutInv
<1>10. ASSUME NEW d \in Ports, PortReady(d) PROVE OutInv' /\ Drawn
  BY <1>2, <1>3, <1>10 DEF PortReady, OutInv
<1>11. CASE UNCHANGED allVars
  BY <1>2, <1>3, <1>11 DEF allVars, outVars, OutInv
<1> QED
  BY <1>4, <1>5, <1>6, <1>7, <1>8, <1>9, <1>10, <1>11 DEF OutNext, Putting

LEMMA OutStart == OutInit => OutInv /\ Display!Init
<1> SUFFICES ASSUME OutInit PROVE OutInv /\ Display!Init
  OBVIOUS
<1>1. CgaInv /\ Display!Init
  BY CgaInitShown DEF OutInit
<1>2. todo = <<>> /\ log = [d \in Ports |-> <<>>]
  BY DEF OutInit
<1>3. Balanced(todo) /\ ~Calling("lpt")
  BY <1>2, BalancedEmpty DEF Calling
<1>4. log \in [Ports -> Seq(0..255)] /\ log["serial"] = log["lpt"]
  BY <1>2 DEF Ports
<1> QED
  BY <1>1, <1>3, <1>4 DEF OutInv, LogsOK

(* With cons_putc around it and the spaces of a tab coming back into it,   *)
(* the display still never writes outside the adapter's memory.            *)
THEOREM OutputTypeCorrect == OutSpec => []CgaTypeOK
<1>1. OutInv => CgaTypeOK
  BY DEF OutInv, CgaInv
<1>2. OutInv /\ [OutNext]_allVars => OutInv'
  BY OutStep
<1> QED
  BY <1>1, <1>2, OutStart, PTL DEF OutSpec

(* The serial and the parallel port are sent the same characters, whatever *)
(* is printed and however long the ports are not ready.                    *)
THEOREM PortsAgree == OutSpec => []SameStream
<1>1. OutInv => SameStream
  BY DEF OutInv, LogsOK, SameStream, Calling
<1>2. OutInv /\ [OutNext]_allVars => OutInv'
  BY OutStep
<1> QED
  BY <1>1, <1>2, OutStart, PTL DEF OutSpec

(* The whole console output implements the terminal, for every size of the *)
(* screen, every text the BIOS left and every sequence of characters, tabs *)
(* included.                                                               *)
THEOREM OutputImplementsTerminal == OutSpec => TerminalSpec
<1>1. OutInv /\ [OutNext]_allVars
        => [Display!Next]_<<Screen, cursor \div CRT_COLS, cursor % CRT_COLS>>
  BY OutStep
<1>2. OutInv /\ [OutNext]_allVars => OutInv'
  BY OutStep
<1> QED
  BY <1>1, <1>2, OutStart, PTL DEF OutSpec, TerminalSpec, Display!Spec

-----------------------------------------------------------------------------
(* What is left of cputchar: whether a tab is still to be printed, the     *)
(* calls still to be made, and the polls of the port in hand.              *)
IsTab(e) == e.call = "cga" /\ e.c.ch = HT
NoTab(s) == s \in Seq(Calls) /\ \A k \in 1..Len(s) : ~IsTab(s[k])

TabsLeft  == IF NoTab(todo) THEN 0 ELSE 1
PollsLeft == MaxTries - tries

OutNearer ==
  \/ TabsLeft' < TabsLeft
  \/ TabsLeft' = TabsLeft /\ Len(todo') < Len(todo)
  \/ TabsLeft' = TabsLeft /\ Len(todo') = Len(todo) /\ PollsLeft' < PollsLeft

Working == CgaStep \/ CgaTabEnd \/ \E d \in Ports : PortWait(d) \/ PortSend(d)

(* A tab is the last call: its spaces hold none, so that cons_putc comes   *)
(* back into itself once and not again.                                    *)
OneTab ==
  /\ todo \in Seq(Calls) /\ tries \in 0..MaxTries
  /\ \A k \in 1..Len(todo)-1 : ~IsTab(todo[k])

LEMMA NoTabCat ==
  ASSUME NEW s, NEW t, NoTab(s), NoTab(t)
  PROVE  NoTab(s \o t)
<1>1. s \in Seq(Calls) /\ t \in Seq(Calls)
  BY DEF NoTab
<1>2. Len(s) \in Nat /\ Len(t) \in Nat /\ s \o t \in Seq(Calls) /\ Len(s \o t) = Len(s) + Len(t)
  BY <1>1
<1>3. ASSUME NEW k \in 1..Len(s) + Len(t) PROVE ~IsTab((s \o t)[k])
  <2>1. CASE k <= Len(s)
    <3>1. k \in 1..Len(s) /\ (s \o t)[k] = s[k]
      BY <1>1, <1>2, <2>1
    <3> QED
      BY <3>1 DEF NoTab
  <2>2. CASE k > Len(s)
    <3>1. k - Len(s) \in 1..Len(t) /\ (s \o t)[k] = t[k - Len(s)]
      BY <1>1, <1>2, <2>2
    <3> QED
      BY <3>1 DEF NoTab
  <2> QED
    BY <1>2, <2>1, <2>2
<1> QED
  BY <1>2, <1>3 DEF NoTab

LEMMA SpaceNoTab == NoTab(Space)
<1> DEFINE c == [attr |-> 0, ch |-> SP]
           a == Call("serial", c)
           b == Call("lpt", c)
           e == Call("cga", c)
<1>0. c \in Drawable
  BY DEF Drawable
<1>1. Balanced(Space)
  BY <1>0, BalancedPutc DEF Space
<1>2. Space \in Seq(Calls) /\ Space = <<a, b, e>>
  BY <1>1 DEF Balanced, Space, cons_putc
<1>3. ~IsTab(a) /\ ~IsTab(b) /\ ~IsTab(e)
  BY DEF IsTab, Call, SP, HT
<1> HIDE DEF a, b, e
<1>4. Len(Space) = 3 /\ Space[1] = a /\ Space[2] = b /\ Space[3] = e
  BY <1>2
<1>5. \A k \in 1..3 : k = 1 \/ k = 2 \/ k = 3
  OBVIOUS
<1> QED
  BY <1>2, <1>3, <1>4, <1>5 DEF NoTab

LEMMA EndNoTab ==
  ASSUME NEW c \in Drawable
  PROVE  NoTab(<<Call("tab end", c)>>)
<1> DEFINE e == Call("tab end", c)
<1>1. e \in Calls /\ ~IsTab(e)
  BY DEF Calls, Call, IsTab
<1> HIDE DEF e
<1>2. <<e>> \in Seq(Calls) /\ Len(<<e>>) = 1 /\ <<e>>[1] = e
  BY <1>1
<1>3. \A k \in 1..1 : k = 1
  OBVIOUS
<1> QED
  BY <1>1, <1>2, <1>3, Zenon DEF NoTab, e

LEMMA TabNoTab ==
  ASSUME NEW c \in Drawable, NEW s, NoTab(s)
  PROVE  NoTab(Tab \o <<Call("tab end", c)>> \o s)
<1>1. NoTab(Tab)
  BY SpaceNoTab, NoTabCat DEF Tab
<1> QED
  BY <1>1, EndNoTab, NoTabCat

(* A call returns. *)
LEMMA CallReturns ==
  ASSUME OneTab, todo # <<>>, todo' = Tail(todo), tries' \in 0..MaxTries
  PROVE  OneTab' /\ OutNearer
<1>1. todo \in Seq(Calls) /\ Len(todo) \in Nat /\ Len(todo) > 0
  BY DEF OneTab
<1>2. PICK t : t = todo'
  OBVIOUS
<1>3. t \in Seq(Calls) /\ Len(t) = Len(todo) - 1
  BY <1>1, <1>2
<1>4. \A k \in 1..Len(t) : t[k] = todo[k + 1]
  BY <1>1, <1>2
<1>5. \A k \in 1..Len(t)-1 : k + 1 \in 1..Len(todo)-1 /\ k \in 1..Len(t)
  BY <1>1, <1>3
<1>6. \A k \in 1..Len(t)-1 : ~IsTab(t[k])
  BY <1>4, <1>5 DEF OneTab
<1>7. OneTab'
  BY <1>2, <1>3, <1>6, Zenon DEF OneTab
<1>8. NoTab(todo) => NoTab(t)
  <2>1. \A k \in 1..Len(t) : k + 1 \in 1..Len(todo)
    BY <1>1, <1>3
  <2> QED
    BY <1>3, <1>4, <2>1 DEF NoTab
<1>9. TabsLeft' < TabsLeft \/ TabsLeft' = TabsLeft
  BY <1>2, <1>8 DEF TabsLeft
<1>10. Len(todo') < Len(todo)
  BY <1>1, <1>2, <1>3
<1> QED
  BY <1>7, <1>9, <1>10 DEF OutNearer

(* The call of a tab becomes those of its spaces. *)
Expands == todo' = Tab \o <<Call("tab end", todo[1].c)>> \o Tail(todo)

LEMMA TabCalls ==
  ASSUME OneTab, todo # <<>>, IsTab(todo[1]), tries' = tries, Expands
  PROVE  OneTab' /\ OutNearer
<1>1. todo \in Seq(Calls) /\ Len(todo) \in Nat /\ Len(todo) > 0 /\ tries \in 0..MaxTries
  BY DEF OneTab
<1>2. 1 \notin 1..Len(todo)-1
  BY DEF OneTab
<1>3. Len(todo) = 1
  <2>1. \A n \in Nat : n > 0 /\ 1 \notin 1..n-1 => n = 1
    OBVIOUS
  <2> QED
    BY <1>1, <1>2, <2>1
<1>4. NoTab(Tail(todo))
  <2>1. Tail(todo) \in Seq(Calls) /\ Len(Tail(todo)) = 0
    BY <1>1, <1>3
  <2>2. 1..0 = {}
    OBVIOUS
  <2> QED
    BY <2>1, <2>2 DEF NoTab
<1>5. todo[1] \in Calls
  BY <1>1, <1>3
<1>6. todo[1].c \in Drawable
  BY <1>5 DEF Calls
<1>7. NoTab(todo')
  BY <1>4, <1>6, TabNoTab DEF Expands
<1>8. ~NoTab(todo)
  BY <1>3 DEF NoTab
<1>9. TabsLeft' = 0 /\ TabsLeft = 1
  BY <1>7, <1>8 DEF TabsLeft, NoTab
<1>10. PICK t : t = todo'
  OBVIOUS
<1>11. t \in Seq(Calls) /\ \A k \in 1..Len(t) : ~IsTab(t[k])
  BY <1>7, <1>10 DEF NoTab
<1>12. \A k \in 1..Len(t)-1 : k \in 1..Len(t)
  BY <1>11
<1>13. OneTab'
  BY <1>1, <1>10, <1>11, <1>12, Zenon DEF OneTab
<1> QED
  BY <1>9, <1>13 DEF OutNearer

LEMMA WorkNearer ==
  ASSUME OneTab, Working
  PROVE  OneTab' /\ OutNearer
<1>1. tries \in 0..MaxTries /\ MaxTries \in Nat
  BY OutputAssumption DEF OneTab
<1>2. ASSUME NEW d \in Ports, PortWait(d) PROVE OneTab' /\ OutNearer
  <2>1. todo' = todo /\ tries' = tries + 1 /\ tries < MaxTries
    BY <1>2 DEF PortWait, Counted
  <2>2. tries + 1 \in 0..MaxTries /\ MaxTries - (tries + 1) < MaxTries - tries
    BY <1>1, <2>1
  <2>3. TabsLeft' = TabsLeft /\ Len(todo') = Len(todo)
    BY <2>1 DEF TabsLeft, NoTab
  <2>4. PollsLeft' < PollsLeft
    BY <2>1, <2>2 DEF PollsLeft
  <2> QED
    BY <2>1, <2>2, <2>3, <2>4 DEF OneTab, OutNearer
<1>3. ASSUME NEW d \in Ports, PortSend(d) PROVE OneTab' /\ OutNearer
  <2>1. todo # <<>> /\ todo' = Tail(todo) /\ tries' = 0
    BY <1>3 DEF PortSend, Calling
  <2>2. tries' \in 0..MaxTries
    BY <1>1, <2>1
  <2> QED
    BY <2>1, <2>2, CallReturns
<1>4. CASE CgaTabEnd
  <2>1. todo # <<>> /\ todo' = Tail(todo) /\ tries' = tries
    BY <1>4 DEF CgaTabEnd, Calling
  <2> QED
    BY <1>1, <2>1, CallReturns
<1>5. CASE CgaStep
  <2>1. todo # <<>> /\ tries' = tries /\ todo[1].call = "cga"
        /\ ((todo[1].c.ch = HT /\ Expands) \/ todo' = Tail(todo))
    BY <1>5, Zenon DEF CgaStep, Calling, Expands
  <2> QED
    BY <1>1, <2>1, CallReturns, TabCalls DEF IsTab
<1> QED
  BY <1>2, <1>3, <1>4, <1>5 DEF Working

LEMMA PutcNoTab ==
  ASSUME NEW c \in Drawable
  PROVE  cons_putc(c) \in Seq(Calls) /\ \A k \in 1..Len(cons_putc(c))-1 : ~IsTab(cons_putc(c)[k])
<1> DEFINE a == Call("serial", c)
           b == Call("lpt", c)
           e == Call("cga", c)
<1>1. cons_putc(c) = <<a, b, e>>
  BY DEF cons_putc
<1>2. ~IsTab(a) /\ ~IsTab(b) /\ a \in Calls /\ b \in Calls /\ e \in Calls
  BY DEF IsTab, Call, Calls
<1> HIDE DEF a, b, e
<1>3. <<a, b, e>> \in Seq(Calls) /\ Len(<<a, b, e>>) = 3
      /\ <<a, b, e>>[1] = a /\ <<a, b, e>>[2] = b
  BY <1>2
<1>4. \A k \in 1..3-1 : k = 1 \/ k = 2
  OBVIOUS
<1> QED
  BY <1>1, <1>2, <1>3, <1>4

LEMMA OneTabStep ==
  ASSUME OneTab, OutNext
  PROVE  OneTab' /\ (IF Working THEN OutNearer ELSE todo # <<>> => UNCHANGED <<todo, tries>>)
<1>1. CASE Working
  BY <1>1, WorkNearer
<1>2. CASE UNCHANGED <<todo, tries>>
  <2>1. OneTab'
    BY <1>2 DEF OneTab
  <2> QED
    BY <1>1, <1>2, <2>1
<1>3. ASSUME NEW c \in Printed, cputchar(c), ~Working
      PROVE  OneTab' /\ todo = <<>>
  <2>1. todo = <<>> /\ todo' = cons_putc(c) /\ tries' = tries
    BY <1>3 DEF cputchar
  <2>2. c \in Drawable
    BY PrintedDrawable
  <2>3. PICK t : t = todo'
    OBVIOUS
  <2>4. t \in Seq(Calls) /\ \A k \in 1..Len(t)-1 : ~IsTab(t[k])
    BY <2>1, <2>2, <2>3, PutcNoTab
  <2> QED
    BY <2>1, <2>3, <2>4 DEF OneTab
<1>4. cons_init \/ (\E d \in Ports : PortReady(d)) => UNCHANGED <<todo, tries>>
  BY DEF cons_init, outVars, PortReady
<1>5. Putting => Working \/ cons_init
  BY Zenon DEF Putting, Working
<1> QED
  BY <1>1, <1>2, <1>3, <1>4, <1>5, Zenon DEF OutNext

(* cputchar: every step of the processor brings it nearer to its return,   *)
(* in an order in which nothing goes down for ever, whatever is printed    *)
(* and however the ports stall; and nothing else adds to what is left.     *)
(* With the fairness of OutFairSpec this is PutcReturns.                   *)
THEOREM PutcProgresses ==
  OutSpec =>
    /\ [](TabsLeft \in 0..1 /\ Len(todo) \in Nat /\ PollsLeft \in Nat)
    /\ [][IF Working THEN OutNearer
                     ELSE todo # <<>> => UNCHANGED <<todo, tries>>]_allVars
<1>1. OutInit => OneTab
  <2> SUFFICES ASSUME OutInit PROVE OneTab
    OBVIOUS
  <2>1. todo = <<>> /\ tries = 0 /\ MaxTries \in Nat
    BY OutputAssumption DEF OutInit
  <2>2. todo \in Seq(Calls) /\ Len(todo) = 0
    BY <2>1
  <2> QED
    BY <2>1, <2>2 DEF OneTab
<1>2. OneTab /\ [OutNext]_allVars =>
        /\ OneTab'
        /\ [IF Working THEN OutNearer ELSE todo # <<>> => UNCHANGED <<todo, tries>>]_allVars
  <2>1. OneTab /\ UNCHANGED allVars => OneTab'
    BY DEF allVars, outVars, OneTab
  <2> QED
    BY <2>1, OneTabStep
<1>3. OneTab => TabsLeft \in 0..1 /\ Len(todo) \in Nat /\ PollsLeft \in Nat
  BY OutputAssumption DEF OneTab, TabsLeft, PollsLeft
<1> QED
  BY <1>1, <1>2, <1>3, PTL DEF OutSpec

-----------------------------------------------------------------------------
(* The line editor. *)
(* For the line that is handed over: no NUL byte was typed into it. *)
NoNul == at = "readline" => \A k \in 0..i-1 : buf[k] # 0

(* readline runs after the display has been set up. *)
DisplayReady == at = "readline" => addr_6845 # 0

(* The inductive invariant. *)
LineInv == LineTypeOK /\ WhatYouSee /\ NoNul /\ DisplayReady

-----------------------------------------------------------------------------

(* The numbers of the line editor. *)
LEMMA LineNumbers ==
  ASSUME LineTypeOK
  PROVE  /\ crt_pos \in Nat /\ crt_pos < CRT_SIZE /\ i \in Nat /\ i < BUFLEN
         /\ BUFLEN \in Nat /\ BUFLEN - 1 <= CRT_SIZE - CRT_COLS
         /\ CRT_SIZE \in Nat /\ CRT_COLS \in Nat \ {0} /\ CRT_COLS <= CRT_SIZE
         /\ Start \in Int
BY SizeFacts, BuflenAssumption DEF LineTypeOK, CgaTypeOK, Positions, Start

(* An echoed character is a cell. *)
LEMMA EchoCell ==
  ASSUME NEW ch \in 0..255
  PROVE  /\ [attr |-> 0, ch |-> ch] \in Cell
         /\ Attr([attr |-> 0, ch |-> ch]) = 7
BY DEF Cell, Attr

(* Echoing a character keeps the display's types. *)
LEMMA EchoType ==
  ASSUME CgaTypeOK, NEW ch \in 0..255, Echo(ch)
  PROVE  CgaTypeOK' /\ addr_6845' # 0
<1>1. CgaTypeOK'
  BY EchoCell, PutcType DEF Echo
<1>2. addr_6845' = addr_6845 /\ addr_6845 # 0
  BY DEF Echo, cga_putc, Backspace, LineFeed, CarriageReturn, Glyph, Settle, OffScreen
<1> QED
  BY <1>1, <1>2

(* Rubbing out takes the last cell of the line away, and nothing else. *)
LEMMA RuboutScreen ==
  ASSUME LineInv, at = "readline", i > 0, Echo(BS)
  PROVE  /\ crt_pos' = crt_pos - 1
         /\ \A x \in 0..crt_pos-2 : crt_buf'[x] = crt_buf[x]
<1>1. crt_pos > 0
  BY LineNumbers DEF LineInv, WhatYouSee, Start
<1>2. Backspace([attr |-> 0, ch |-> BS])
  BY DEF Echo, cga_putc, BS, LF, CR, HT
<1>3. /\ crt_pos' = crt_pos - 1
      /\ crt_buf' = [crt_buf EXCEPT ![crt_pos - 1] =
                       [attr |-> Attr([attr |-> 0, ch |-> BS]), ch |-> SP]]
  BY <1>1, <1>2, LineNumbers DEF LineInv, Backspace, Settle, OffScreen
<1>4. \A x \in 0..crt_pos-2 : x \in Positions /\ x # crt_pos - 1
  BY LineNumbers DEF LineInv, Positions
<1> QED
  BY <1>3, <1>4 DEF LineInv, LineTypeOK, CgaTypeOK

(* A typed character is shown at the cursor; the cells before it stay, or  *)
(* move up by a line all together.                                         *)
LEMMA TextScreen ==
  ASSUME LineInv, at = "readline", NEW c \in 0..255, c >= SP, i < BUFLEN - 1, Echo(c)
  PROVE  \E up \in {0, CRT_COLS} :
           /\ up = CRT_COLS => crt_pos + 1 = CRT_SIZE
           /\ crt_pos' = crt_pos + 1 - up
           /\ \A x \in up..crt_pos-1 : crt_buf'[x - up] = crt_buf[x]
           /\ crt_buf'[crt_pos - up] = [attr |-> 7, ch |-> c]
<1> DEFINE cell == [attr |-> 7, ch |-> c]
           new  == [crt_buf EXCEPT ![crt_pos] = cell]
<1>1. Settle(new, crt_pos + 1)
  <2>1. c \notin {BS, LF, CR, HT}
    BY DEF BS, LF, CR, HT, SP
  <2>2. Glyph([attr |-> 0, ch |-> c])
    BY <2>1 DEF Echo, cga_putc
  <2> QED
    BY <2>2, EchoCell DEF Glyph
<1>2. /\ crt_pos \in Positions
      /\ new[crt_pos] = cell
      /\ \A x \in 0..crt_pos-1 : x \in Positions /\ new[x] = crt_buf[x]
  <2>1. /\ crt_pos \in Positions
        /\ \A x \in 0..crt_pos-1 : x \in Positions /\ x # crt_pos
    BY LineNumbers DEF LineInv, Positions
  <2>2. crt_buf \in [Positions -> Cell]
    BY DEF LineInv, LineTypeOK, CgaTypeOK
  <2> QED
    BY <2>1, <2>2
<1> HIDE DEF new, cell
<1>3. CASE crt_pos + 1 < CRT_SIZE
  <2>1. crt_buf' = new /\ crt_pos' = crt_pos + 1
    BY <1>1, <1>3, LineNumbers DEF LineInv, Settle, OffScreen
  <2> WITNESS 0 \in {0, CRT_COLS}
  <2>2. crt_pos' = crt_pos + 1 - 0 /\ crt_pos - 0 = crt_pos
    BY <2>1, LineNumbers DEF LineInv
  <2>3. \A x \in 0..crt_pos-1 : crt_buf'[x - 0] = crt_buf[x]
    BY <1>2, <2>1, LineNumbers DEF LineInv
  <2>4. 0 # CRT_COLS
    BY LineNumbers DEF LineInv
  <2> QED
    BY <1>2, <2>1, <2>2, <2>3, <2>4 DEF cell
<1>4. CASE ~ (crt_pos + 1 < CRT_SIZE)
  <2>1. crt_buf' = Scrolled(new) /\ crt_pos' = crt_pos + 1 - CRT_COLS
    BY <1>1, <1>4, LineNumbers DEF LineInv, Settle, OffScreen
  <2>2. crt_pos + 1 = CRT_SIZE
    BY <1>4, LineNumbers DEF LineInv
  <2>3. ASSUME NEW x \in CRT_COLS..crt_pos PROVE crt_buf'[x - CRT_COLS] = new[x]
    <3>1. /\ x - CRT_COLS \in Positions
          /\ x - CRT_COLS < CRT_SIZE - CRT_COLS
          /\ (x - CRT_COLS) + CRT_COLS = x
      BY <2>2, LineNumbers DEF LineInv, Positions
    <3> QED
      BY <2>1, <3>1 DEF Scrolled
  <2>4. crt_pos \in CRT_COLS..crt_pos
    BY <2>2, LineNumbers DEF LineInv
  <2>5. \A x \in CRT_COLS..crt_pos-1 : crt_buf'[x - CRT_COLS] = crt_buf[x]
    BY <1>2, <2>3, LineNumbers DEF LineInv
  <2> WITNESS CRT_COLS \in {0, CRT_COLS}
  <2> QED
    BY <1>2, <2>1, <2>2, <2>3, <2>4, <2>5 DEF cell
<1> QED
  BY <1>3, <1>4

(* Rubbing out keeps the invariant and what stands before the line. *)
LEMMA RuboutStep ==
  ASSUME LineInv, at = "readline", NEW c \in 0..255, Rubout(c)
  PROVE  LineInv' /\ KeepsPrompt
<1>1. i > 0 /\ Echo(BS) /\ i' = i - 1 /\ buf' = buf /\ at' = at
  BY DEF Rubout, IsRubout, RuboutEcho
<1>2. /\ crt_pos' = crt_pos - 1
      /\ \A x \in 0..crt_pos-2 : crt_buf'[x] = crt_buf[x]
  BY <1>1, RuboutScreen
<1>3. Start \in Nat /\ Start' = Start /\ Start - Start' = 0
  BY <1>1, <1>2, LineNumbers DEF LineInv, WhatYouSee, Start
<1>4. LineTypeOK'
  <2>1. CgaTypeOK'
    BY <1>1, EchoType DEF LineInv, LineTypeOK, BS
  <2>2. i' \in 0..BUFLEN-1
    BY <1>1, LineNumbers DEF LineInv
  <2> QED
    BY <1>1, <2>1, <2>2 DEF LineInv, LineTypeOK
<1>5. WhatYouSee'
  <2> SUFFICES ASSUME NEW k \in 0..i'-1
               PROVE  crt_buf'[Start' + k] = [attr |-> 7, ch |-> buf'[k]]
    BY <1>3 DEF WhatYouSee
  <2>1. k \in 0..i-1 /\ Start + k \in 0..crt_pos-2
    BY <1>1, <1>3, LineNumbers DEF LineInv, Start
  <2> QED
    BY <1>1, <1>2, <1>3, <2>1 DEF LineInv, WhatYouSee
<1>6. NoNul'
  <2>1. \A k \in 0..i'-1 : k \in 0..i-1
    BY <1>1, LineNumbers DEF LineInv
  <2> QED
    BY <1>1, <2>1 DEF LineInv, NoNul
<1>7. KeepsPrompt
  <2>1. \A x \in 0..Start-1 : x \in 0..crt_pos-2 /\ x - 0 = x
    BY <1>1, <1>3, LineNumbers DEF LineInv, Start
  <2> QED
    BY <1>2, <1>3, <2>1 DEF KeepsPrompt
<1>8. DisplayReady'
  BY <1>1, EchoType DEF LineInv, LineTypeOK, BS, DisplayReady
<1> QED
  BY <1>4, <1>5, <1>6, <1>7, <1>8 DEF LineInv

(* So does typing a character, also when it scrolls the screen. *)
LEMMA TextStep ==
  ASSUME LineInv, at = "readline", NEW c \in 0..255, Text(c)
  PROVE  LineInv' /\ KeepsPrompt
<1>1. /\ c >= SP /\ i < BUFLEN - 1 /\ Echo(c)
      /\ buf' = [buf EXCEPT ![i] = c] /\ i' = i + 1 /\ at' = at
  BY DEF Text, IsText
<1>2. PICK up \in {0, CRT_COLS} :
        /\ up = CRT_COLS => crt_pos + 1 = CRT_SIZE
        /\ crt_pos' = crt_pos + 1 - up
        /\ \A x \in up..crt_pos-1 : crt_buf'[x - up] = crt_buf[x]
        /\ crt_buf'[crt_pos - up] = [attr |-> 7, ch |-> c]
  BY <1>1, TextScreen
<1>3. Start \in Nat /\ up \in Nat
  BY LineNumbers DEF LineInv, WhatYouSee
<1>4. Start' = Start - up /\ Start - Start' = up
  BY <1>1, <1>2, <1>3, LineNumbers DEF LineInv, Start
<1>5. Start' >= 0
  <2>1. CASE up = 0
    BY <1>3, <1>4, <2>1
  <2>2. CASE up = CRT_COLS
    <3>1. Start' = CRT_SIZE - 1 - i - CRT_COLS
      BY <1>2, <1>4, <2>2, LineNumbers DEF LineInv, Start
    <3>2. i + 1 <= CRT_SIZE - CRT_COLS
      BY <1>1, LineNumbers DEF LineInv
    <3> QED
      BY <3>1, <3>2, LineNumbers DEF LineInv
  <2> QED
    BY <2>1, <2>2
<1>6. LineTypeOK'
  <2>1. CgaTypeOK'
    BY <1>1, EchoType DEF LineInv, LineTypeOK
  <2>2. i' \in 0..BUFLEN-1
    BY <1>1, LineNumbers DEF LineInv
  <2>3. buf' \in [0..BUFLEN-1 -> 0..255]
    BY <1>1 DEF LineInv, LineTypeOK
  <2> QED
    BY <1>1, <2>1, <2>2, <2>3 DEF LineInv, LineTypeOK
<1>7. /\ i \in 0..BUFLEN-1 /\ buf'[i] = c
      /\ \A k \in 0..i-1 : buf'[k] = buf[k]
  <2>1. i \in 0..BUFLEN-1 /\ \A k \in 0..i-1 : k \in 0..BUFLEN-1 /\ k # i
    BY LineNumbers DEF LineInv
  <2> QED
    BY <1>1, <2>1 DEF LineInv, LineTypeOK
<1>8. WhatYouSee'
  <2> SUFFICES ASSUME NEW k \in 0..i'-1
               PROVE  crt_buf'[Start' + k] = [attr |-> 7, ch |-> buf'[k]]
    BY <1>5 DEF WhatYouSee
  <2>1. CASE k = i
    <3>1. Start' + k = crt_pos - up
      BY <1>3, <1>4, <2>1, LineNumbers DEF LineInv, Start
    <3> QED
      BY <1>2, <1>7, <2>1, <3>1
  <2>2. CASE k # i
    <3>1. k \in 0..i-1
      BY <1>1, <2>2, LineNumbers DEF LineInv
    <3> DEFINE s == Start
    <3>2. s = crt_pos - i /\ s \in Nat /\ s - up >= 0
      BY <1>3, <1>4, <1>5 DEF Start
    <3> HIDE DEF s
    <3>3. s + k \in up..crt_pos-1 /\ (s - up) + k = (s + k) - up
      BY <1>3, <3>1, <3>2, LineNumbers DEF LineInv
    <3>4. Start + k \in up..crt_pos-1 /\ Start' + k = (Start + k) - up
      BY <1>4, <3>3 DEF s
    <3> QED
      BY <1>2, <1>7, <3>1, <3>4 DEF LineInv, WhatYouSee
  <2> QED
    BY <2>1, <2>2
<1>9. NoNul'
  <2>1. \A k \in 0..i'-1 : k = i \/ k \in 0..i-1
    BY <1>1, LineNumbers DEF LineInv
  <2>2. c # 0
    BY <1>1 DEF SP
  <2> QED
    BY <1>7, <2>1, <2>2 DEF LineInv, NoNul
<1>10. KeepsPrompt
  <2>1. \A x \in up..Start-1 : x \in up..crt_pos-1
    BY <1>3, LineNumbers DEF LineInv, Start
  <2> QED
    BY <1>2, <1>4, <2>1 DEF KeepsPrompt
<1>11. DisplayReady'
  BY <1>1, EchoType DEF LineInv, LineTypeOK, DisplayReady
<1> QED
  BY <1>6, <1>8, <1>9, <1>10, <1>11 DEF LineInv

(* Enter hands over a line that ends at its first NUL byte. *)
LEMMA EnterStep ==
  ASSUME LineInv, at = "readline", NEW c \in 0..255, Enter(c)
  PROVE  LineInv' /\ HandsOver /\ at' = "kernel"
<1>1. Echo(LF) /\ buf' = [buf EXCEPT ![i] = 0] /\ at' = "kernel" /\ i' = i
  BY DEF Enter, Terminated
<1>2. i \in 0..BUFLEN-1 /\ \A k \in 0..i-1 : k \in 0..BUFLEN-1 /\ k # i
  BY LineNumbers DEF LineInv
<1>3. LineTypeOK'
  <2>1. CgaTypeOK'
    BY <1>1, EchoType DEF LineInv, LineTypeOK, LF
  <2>2. buf' \in [0..BUFLEN-1 -> 0..255]
    BY <1>1 DEF LineInv, LineTypeOK
  <2> QED
    BY <1>1, <1>2, <2>1, <2>2 DEF LineTypeOK
<1>4. HandsOver
  BY <1>1, <1>2 DEF LineInv, LineTypeOK, NoNul, HandsOver
<1> QED
  BY <1>1, <1>3, <1>4 DEF LineInv, WhatYouSee, NoNul, DisplayReady

(* Every step keeps the invariant, hands over terminated lines only and    *)
(* leaves the prompt alone.                                                *)
LEMMA LineStep ==
  ASSUME LineInv, [Next]_vars
  PROVE  LineInv' /\ [HandsOver]_vars /\ [KeepsPrompt]_vars
<1>1. CASE ConsInit
  <2>1. at' = at /\ i' = i /\ buf' = buf /\ crt_buf' = crt_buf /\ cga_init
    BY <1>1 DEF ConsInit, lineVars, cga_init
  <2>2. LineTypeOK'
    BY <2>1, InitType DEF LineInv, LineTypeOK
  <2>3. at # "readline"
    BY <2>1 DEF cga_init, LineInv, DisplayReady
  <2> QED
    BY <2>1, <2>2, <2>3
      DEF LineInv, WhatYouSee, NoNul, DisplayReady, HandsOver, KeepsPrompt
<1>2. ASSUME NEW c \in Printed, cprintf(c)
      PROVE  LineInv' /\ HandsOver /\ KeepsPrompt
  <2>1. CgaTypeOK'
    BY <1>2, PutcType, PrintedType DEF LineInv, LineTypeOK, cprintf
  <2> QED
    BY <1>2, <2>1
      DEF cprintf, lineVars, LineInv, LineTypeOK, WhatYouSee, NoNul, DisplayReady,
          HandsOver, KeepsPrompt
<1>3. CASE readline
  <2>1. /\ at = "kernel" /\ at' = "readline" /\ i' = 0
        /\ crt_pos' = crt_pos /\ crt_buf' = crt_buf /\ buf' = buf
        /\ addr_6845' = addr_6845 /\ colour' = colour /\ cursor' = cursor
    BY <1>3 DEF readline, cgaVars
  <2>2. LineTypeOK'
    <3>1. 0 \in 0..BUFLEN-1
      BY BuflenAssumption
    <3> QED
      BY <2>1, <3>1 DEF LineInv, LineTypeOK, CgaTypeOK
  <2>3. WhatYouSee' /\ NoNul'
    BY <2>1, LineNumbers DEF LineInv, WhatYouSee, NoNul, Start
  <2>4. DisplayReady'
    BY <1>3, <2>1 DEF readline, DisplayReady
  <2> QED
    BY <2>1, <2>2, <2>3, <2>4 DEF LineInv, HandsOver, KeepsPrompt
<1>4. ASSUME NEW c \in Input, Typed(c)
      PROVE  LineInv' /\ [HandsOver]_vars /\ [KeepsPrompt]_vars
  <2>1. at = "readline" /\ c \in 0..255
    BY <1>4, InputAssumption DEF Typed
  <2>2. CASE Rubout(c)
    BY <2>1, <2>2, RuboutStep DEF Rubout, RuboutEcho, HandsOver
  <2>3. CASE Text(c)
    BY <2>1, <2>3, TextStep DEF Text, HandsOver
  <2>4. CASE Enter(c)
    BY <2>1, <2>4, EnterStep DEF KeepsPrompt
  <2>5. CASE Ignored(c)
    BY <2>5 DEF Ignored, vars, cgaVars, lineVars, LineInv, LineTypeOK, CgaTypeOK,
                WhatYouSee, NoNul, DisplayReady, Start
  <2> QED
    BY <1>4, <2>2, <2>3, <2>4, <2>5 DEF Typed
<1>5. CASE UNCHANGED vars
  BY <1>5 DEF vars, cgaVars, lineVars, LineInv, LineTypeOK, CgaTypeOK,
              WhatYouSee, NoNul, DisplayReady, Start
<1> QED
  BY <1>1, <1>2, <1>3, <1>4, <1>5 DEF Next

(* readline starts with the invariant. *)
LEMMA LineInitInv == Init => LineInv
<1> SUFFICES ASSUME Init PROVE LineInv
  OBVIOUS
<1>1. buf \in [0..BUFLEN-1 -> 0..255]
  BY DEF Init
<1>2. i \in 0..BUFLEN-1
  BY BuflenAssumption DEF Init
<1> QED
  BY <1>1, <1>2, CgaInitType 
    DEF Init, LineInv, LineTypeOK, WhatYouSee, NoNul, DisplayReady

(* The invariant of the line editor holds in every state. *)
THEOREM LineInvariant == Spec => []LineInv
BY LineInitInv, LineStep, PTL DEF Spec

(* The line buffer is never overrun, nor the adapter's memory. *)
THEOREM LineTypeCorrect == Spec => []LineTypeOK
<1>1. LineInv => LineTypeOK
  BY DEF LineInv
<1> QED
  BY <1>1, LineInvariant, PTL

(* What is on the screen is what readline will return. *)
THEOREM ScreenShowsLine == Spec => []WhatYouSee
<1>1. LineInv => WhatYouSee
  BY DEF LineInv
<1> QED
  BY <1>1, LineInvariant, PTL

(* readline returns terminated lines. *)
THEOREM LinesTerminated == Spec => LineTerminated
BY LineInvariant, LineStep, PTL DEF Spec, LineTerminated

(* Editing a line never damages what stands before it on the screen. *)
THEOREM PromptIsKept == Spec => PromptKept
BY LineInvariant, LineStep, PTL DEF Spec, PromptKept

-----------------------------------------------------------------------------
(***************************************************************************)
(* The command interpreter.                                                *)
(***************************************************************************)
(* The members of W before n. *)
Before(W, n) == {q \in W : q < n}

(* The words that begin before this place are in argv. *)
Mark == IF pc = "scan" THEN p + 1 ELSE p

RunTypeOK ==
  /\ pc \in {"readline", "gobble", "scan", "lookup"} \cup Mon!Answers
  /\ line \in Seq(1..255) /\ Len(line) < BUFLEN
  /\ p \in 0..Len(line) /\ argc \in 0..MAXARGS-1
  /\ argv \in [0..MAXARGS-1 -> Int] /\ cmd \in 0..Len(Mon!commands)

(* What runcmd has passed of the line it has left as it was, or blanked;   *)
(* the rest is as the user typed it.                                       *)
LineCut ==
  pc # "readline" =>
    /\ at = "kernel"
    /\ \A k \in 0..Len(line) :
         buf[k] = IF k >= p \/ Mon!InWord(Mon!At(k)) THEN Mon!At(k) ELSE 0

(* The first n elements of v are those of S, in order. *)
Lists(v, n, S) ==
  /\ n = Cardinality(S)
  /\ {v[k] : k \in 0..n-1} = S
  /\ \A j, k \in 0..n-1 : j < k => v[j] < v[k]

WordsSaved == Lists(argv, argc, Before(Mon!WordStarts, Mark))

(* The first word is not the name of one of the first n commands. *)
NotNamed(n) == \A j \in 1..n : ~Mon!StrEqual(argv[0], Spelling[Mon!commands[j]])

Found == {"lookup", "unknown"} \cup Mon!Commands

PlaceOK ==
  /\ pc = "readline" => p = 0 /\ argc = 0
  /\ pc \in {"readline", "gobble", "scan"} => cmd = 0
  /\ pc = "gobble" /\ Mon!InWord(Mon!At(p)) => p \in Mon!WordStarts
  /\ pc \in Found => p = Len(line) /\ argc >= 1 /\ argv[argc] = -1
  /\ pc = "lookup" => NotNamed(cmd)
  /\ pc = "unknown" => NotNamed(Len(Mon!commands))
  /\ pc \in Mon!Commands => Mon!StrEqual(argv[0], Spelling[pc])
  /\ pc = "too many" => argc = MAXARGS - 1 /\ p \in Mon!WordStarts
  /\ pc = "no words" => p = Len(line) /\ argc = 0

RunInv == RunTypeOK /\ LineCut /\ WordsSaved /\ PlaceOK

(* Every set of numbers has a least one. *)
LEMMA Least ==
  ASSUME NEW T \in SUBSET Nat, T # {}
  PROVE  \E x \in T : \A y \in T : x <= y
<1>1. PICK x \in T : \A y \in T : ~(<<y, x>> \in OpToRel(<, Nat))
  BY WFMin, NatLessThanWellFounded
<1>2. \A y \in T : ~(y < x)
  BY <1>1 DEF OpToRel
<1> QED
  BY <1>2

LEMMA TheCommands ==
  /\ Mon!Commands = {"mon_help", "mon_kerninfo"}
  /\ Len(Mon!commands) = 2
  /\ Mon!commands[1] = "mon_help" /\ Mon!commands[2] = "mon_kerninfo"
  /\ Mon!Answers = {"mon_help", "mon_kerninfo", "too many", "unknown", "no words"}
  /\ Found = {"lookup", "unknown", "mon_help", "mon_kerninfo"}
<1>1. /\ Len(Mon!commands) = 2
      /\ Mon!commands[1] = "mon_help" /\ Mon!commands[2] = "mon_kerninfo"
      /\ DOMAIN Mon!commands = 1..2
  BY DEF Mon!commands
<1>2. Mon!Commands = {"mon_help", "mon_kerninfo"}
  BY <1>1 DEF Mon!Commands
<1> QED
  BY <1>1, <1>2 DEF Mon!Answers, Found

(* The bytes of the line and the NUL behind it. *)
LEMMA AtFacts ==
  ASSUME line \in Seq(1..255)
  PROVE  /\ Len(line) \in Nat
         /\ \A k \in 0..Len(line)-1 : Mon!At(k) = line[k + 1] /\ Mon!At(k) \in 1..255
         /\ Mon!At(Len(line)) = 0
         /\ \A k \in 0..Len(line) : Mon!InWord(Mon!At(k)) => k < Len(line)
<1>1. Len(line) \in Nat
  OBVIOUS
<1>2. \A k \in 0..Len(line)-1 : k + 1 \in 1..Len(line) /\ k < Len(line)
  BY <1>1
<1>3. \A k \in 0..Len(line)-1 : Mon!At(k) = line[k + 1] /\ Mon!At(k) \in 1..255
  <2> SUFFICES ASSUME NEW k \in 0..Len(line)-1
               PROVE  Mon!At(k) = line[k + 1] /\ Mon!At(k) \in 1..255
    OBVIOUS
  <2>1. k + 1 \in 1..Len(line) /\ k < Len(line)
    BY <1>2
  <2>2. Mon!At(k) = line[k + 1]
    BY <2>1 DEF Mon!At
  <2>3. line[k + 1] \in 1..255
    BY <2>1, ElementOfSeq, Zenon
  <2> QED
    BY <2>2, <2>3
<1>4. Mon!At(Len(line)) = 0
  BY <1>1 DEF Mon!At, Mon!NUL
<1>5. ~Mon!InWord(0)
  BY DEF Mon!InWord, Mon!NUL
<1>6. ASSUME NEW k \in 0..Len(line), Mon!InWord(Mon!At(k)) PROVE k < Len(line)
  <2>1. k # Len(line)
    BY <1>4, <1>5, <1>6
  <2> QED
    BY <1>1, <2>1
<1> QED
  BY <1>1, <1>3, <1>4, <1>6, Zenon

LEMMA StartFacts ==
  ASSUME line \in Seq(1..255)
  PROVE  /\ Mon!WordStarts \subseteq 0..Len(line)-1 /\ Mon!WordStarts \subseteq Nat
         /\ \A q \in Mon!WordStarts : Mon!InWord(Mon!At(q))
         /\ \A q \in Mon!WordStarts : q > 0 => ~Mon!InWord(Mon!At(q - 1))
         /\ \A q \in 0..Len(line) :
              /\ Mon!InWord(Mon!At(q))
              /\ q > 0 => ~Mon!InWord(Mon!At(q - 1))
              => q \in Mon!WordStarts
         /\ Before(Mon!WordStarts, 0) = {}
         /\ Before(Mon!WordStarts, Len(line)) = Mon!WordStarts
         /\ IsFiniteSet(Mon!WordStarts)
         /\ \A n \in Nat : IsFiniteSet(Before(Mon!WordStarts, n))
<1> DEFINE W == Mon!WordStarts
<1>1. Len(line) \in Nat
  OBVIOUS
<1>2. W \subseteq 0..Len(line)-1
  BY DEF Mon!WordStarts
<1>3. \A q \in 0..Len(line) : Mon!InWord(Mon!At(q)) => q \in 0..Len(line)-1
  BY <1>1, AtFacts
<1>4. IsFiniteSet(0..Len(line)-1)
  BY <1>1, FS_Interval
<1>5. IsFiniteSet(W)
  BY <1>2, <1>4, FS_Subset
<1>6. \A n \in Nat : Before(W, n) \in SUBSET W
  BY DEF Before
<1>7. \A n \in Nat : IsFiniteSet(Before(W, n))
  BY <1>5, <1>6, FS_Subset
<1>8. Before(W, 0) = {} /\ Before(W, Len(line)) = W
  <2>1. \A q \in 0..Len(line)-1 : ~(q < 0) /\ q < Len(line)
    BY <1>1
  <2> HIDE DEF W
  <2> QED
    BY <1>2, <2>1, Zenon DEF Before
<1> QED
  BY <1>1, <1>2, <1>3, <1>5, <1>7, <1>8 DEF Mon!WordStarts

(* The end of a word is found. *)
LEMMA EndFacts ==
  ASSUME line \in Seq(1..255), NEW q \in Mon!WordStarts
  PROVE  /\ Mon!WordEnd(q) \in q+1..Len(line)
         /\ ~Mon!InWord(Mon!At(Mon!WordEnd(q)))
         /\ \A k \in q..Mon!WordEnd(q)-1 : Mon!InWord(Mon!At(k))
<1> DEFINE T == {e \in q+1..Len(line) : ~Mon!InWord(Mon!At(e))}
<1>1. q \in Nat /\ q < Len(line) /\ Len(line) \in Nat /\ Mon!InWord(Mon!At(q))
  BY StartFacts, AtFacts
<1>2. ~Mon!InWord(Mon!At(Len(line)))
  BY AtFacts DEF Mon!InWord, Mon!NUL
<1>3. Len(line) \in T /\ T \subseteq Nat
  BY <1>1, <1>2
<1>4. PICK e \in T : \A y \in T : e <= y
  BY <1>3, Least
<1>5. ASSUME NEW k \in q..e-1 PROVE Mon!InWord(Mon!At(k))
  <2>1. k \notin T
    BY <1>1, <1>3, <1>4
  <2>2. k = q \/ k \in q+1..Len(line)
    BY <1>1, <1>3, <1>4
  <2> QED
    BY <1>1, <2>1, <2>2
<1>6. \E x \in q+1..Len(line) : ~Mon!InWord(Mon!At(x)) /\ \A k \in q..x-1 : Mon!InWord(Mon!At(k))
  BY <1>4, <1>5
<1> QED
  BY <1>6 DEF Mon!WordEnd

(* The line changes only when it is entered and when it has been answered. *)
LEMMA LineStays ==
  ASSUME line' = line
  PROVE  Mon!WordStarts' = Mon!WordStarts /\ \A k : Mon!At(k)' = Mon!At(k)
BY DEF Mon!WordStarts, Mon!At

(* One more word. *)
LEMMA BeforeNext ==
  ASSUME NEW W \in SUBSET Nat, NEW n \in Nat
  PROVE  /\ n \in W => Before(W, n + 1) = Before(W, n) \cup {n}
         /\ n \notin W => Before(W, n + 1) = Before(W, n)
         /\ n \notin Before(W, n)
<1>1. \A q \in W : (q < n + 1 <=> (q < n \/ q = n))
  OBVIOUS
<1>2. ~(n < n)
  OBVIOUS
<1>3. ASSUME n \in W PROVE Before(W, n + 1) = Before(W, n) \cup {n}
  BY <1>1, <1>3, Zenon DEF Before
<1>4. ASSUME n \notin W PROVE Before(W, n + 1) = Before(W, n)
  BY <1>1, <1>4, Zenon DEF Before
<1> QED
  BY <1>2, <1>3, <1>4, Zenon DEF Before

LEMMA OneMore ==
  ASSUME NEW M \in Nat, NEW v \in [0..M-1 -> Int], NEW n \in 0..M-2, NEW S,
         IsFiniteSet(S), Lists(v, n, S), NEW x \in Int, \A y \in S : y < x
  PROVE  Lists([v EXCEPT ![n] = x], n + 1, S \cup {x})
<1> DEFINE u == [v EXCEPT ![n] = x]
<1>1. n \in Nat /\ n \in 0..M-1 /\ n + 1 - 1 = n
  OBVIOUS
<1>2. u[n] = x /\ \A k \in 0..n-1 : u[k] = v[k] /\ v[k] \in S /\ v[k] \in Int
  BY <1>1 DEF Lists
<1> HIDE DEF u
<1>3. \A k \in 0..n : k = n \/ k \in 0..n-1
  BY <1>1
<1>4. x \notin S
  OBVIOUS
<1>5. Cardinality(S \cup {x}) = n + 1
  BY <1>4, FS_AddElement DEF Lists
<1>6. {u[k] : k \in 0..n} = S \cup {x}
  <2>1. ASSUME NEW k \in 0..n PROVE u[k] \in S \cup {x}
    BY <1>2, <1>3
  <2>2. ASSUME NEW y \in S PROVE \E k \in 0..n : u[k] = y
    <3>1. PICK k \in 0..n-1 : v[k] = y
      BY DEF Lists
    <3> QED
      BY <1>1, <1>2, <3>1
  <2>3. \E k \in 0..n : u[k] = x
    BY <1>1, <1>2
  <2> QED
    BY <2>1, <2>2, <2>3
<1>7. ASSUME NEW j \in 0..n, NEW k \in 0..n, j < k PROVE u[j] < u[k]
  <2>1. j \in 0..n-1
    BY <1>1, <1>7
  <2>2. CASE k = n
    BY <1>2, <2>1, <2>2
  <2>3. CASE k # n
    BY <1>2, <1>3, <1>7, <2>1, <2>3 DEF Lists
  <2> QED
    BY <2>2, <2>3
<1>8. n + 1 \in Nat /\ 0..(n+1)-1 = 0..n
  BY <1>1
<1> QED
  BY <1>5, <1>6, <1>7, <1>8, Zenon DEF Lists, u

-----------------------------------------------------------------------------
(***************************************************************************)
(* The steps of runcmd.                                                    *)
(***************************************************************************)
LEMMA RunNumbers ==
  ASSUME RunInv
  PROVE  /\ Len(line) \in Nat /\ p \in Nat /\ argc \in Nat /\ MAXARGS \in Nat
         /\ p <= Len(line) /\ argc < MAXARGS /\ line \in Seq(1..255)
         /\ pc # "readline" => buf[p] = Mon!At(p)
<1>1. RunTypeOK /\ LineCut /\ MAXARGS \in Nat /\ line \in Seq(1..255)
  BY ShellAssumption DEF RunInv, RunTypeOK
<1>2. Len(line) \in Nat /\ p \in 0..Len(line) /\ argc \in 0..MAXARGS-1
  BY <1>1 DEF RunTypeOK
<1>3. p >= p
  BY <1>2
<1>4. pc # "readline" => buf[p] = Mon!At(p)
  BY <1>1, <1>2, <1>3 DEF LineCut
<1> QED
  BY <1>1, <1>2, <1>4

(* White space is no part of a word, and the NUL ends the line. *)
LEMMA Bytes ==
  ASSUME NEW c
  PROVE  /\ c \in Mon!WHITESPACE => ~Mon!InWord(c) /\ c # 0
         /\ c = 0 => ~Mon!InWord(c)
         /\ ~Mon!InWord(c) => c = 0 \/ c \in Mon!WHITESPACE
BY DEF Mon!WHITESPACE, Mon!InWord, Mon!NUL

LEMMA GobbleStep ==
  ASSUME RunInv, buf \in [0..BUFLEN-1 -> 0..255], Mon!Gobble, at' = at
  PROVE  RunInv'
<1>1. /\ pc = "gobble" /\ buf[p] \in Mon!WHITESPACE /\ p' = p + 1 /\ pc' = pc
      /\ line' = line /\ argc' = argc /\ argv' = argv /\ cmd' = cmd
      /\ buf' = [buf EXCEPT ![p] = 0]
  BY DEF Mon!Gobble, Mon!Blanked, Mon!NUL
<1>2. RunTypeOK /\ LineCut /\ WordsSaved /\ PlaceOK
  BY DEF RunInv
<1>3. /\ Len(line) \in Nat /\ p \in Nat /\ p <= Len(line) /\ line \in Seq(1..255)
      /\ buf[p] = Mon!At(p) /\ Len(line) < BUFLEN /\ BUFLEN \in Nat
  BY <1>1, <1>2, RunNumbers, BuflenAssumption DEF RunTypeOK
<1>4. ~Mon!InWord(Mon!At(p)) /\ Mon!At(p) # 0
  BY <1>1, <1>3, Bytes
<1>5. p < Len(line) /\ p' \in 0..Len(line)
  <2>1. p # Len(line)
    BY <1>3, <1>4, AtFacts
  <2> QED
    BY <1>1, <1>3, <2>1
<1>6. Mon!WordStarts' = Mon!WordStarts /\ \A k : Mon!At(k)' = Mon!At(k)
  BY <1>1, LineStays
<1>7. RunTypeOK'
  BY <1>1, <1>2, <1>5 DEF RunTypeOK
<1>8. LineCut'
  <2>1. ASSUME NEW k \in 0..Len(line)
        PROVE  buf'[k] = IF k >= p' \/ Mon!InWord(Mon!At(k)) THEN Mon!At(k) ELSE 0
    <3>1. k \in 0..BUFLEN-1 /\ (k >= p' <=> k >= p /\ k # p)
      BY <1>1, <1>3
    <3>2. CASE k = p
      BY <1>1, <1>2, <1>4, <3>1, <3>2
    <3>3. CASE k # p
      BY <1>1, <1>2, <3>1, <3>3 DEF LineCut
    <3> QED
      BY <3>2, <3>3
  <2>2. at' = "kernel"
    BY <1>1, <1>2 DEF LineCut
  <2> QED
    BY <1>1, <1>6, <2>1, <2>2 DEF LineCut
<1>9. WordsSaved'
  <2>1. p \notin Mon!WordStarts /\ Mon!WordStarts \in SUBSET Nat
    BY <1>3, <1>4, StartFacts
  <2>2. Before(Mon!WordStarts, p + 1) = Before(Mon!WordStarts, p)
    BY <1>3, <2>1, BeforeNext
  <2>3. Mark = p /\ Mark' = p + 1
    BY <1>1 DEF Mark
  <2> QED
    BY <1>1, <1>2, <1>6, <2>2, <2>3 DEF WordsSaved
<1>10. PlaceOK'
  <2>1. ASSUME Mon!InWord(Mon!At(p')) PROVE p' \in Mon!WordStarts
    <3>1. p' - 1 = p
      BY <1>1, <1>3
    <3> QED
      BY <1>3, <1>4, <1>5, <2>1, <3>1, StartFacts
  <2>2. (pc = "gobble" /\ Mon!InWord(Mon!At(p)) => p \in Mon!WordStarts)'
    BY <1>6, <2>1 DEF Mon!At
  <2> QED
    BY <1>1, <1>2, <2>2, TheCommands DEF PlaceOK
<1> QED
  BY <1>7, <1>8, <1>9, <1>10 DEF RunInv

(* A step that leaves the buffer, the line and the pointer alone. *)
LEMMA CutStays ==
  ASSUME LineCut, pc # "readline", buf' = buf, line' = line, p' = p, at' = at
  PROVE  LineCut'
<1>1. \A k : Mon!At(k)' = Mon!At(k)
  BY LineStays
<1> QED
  BY <1>1 DEF LineCut

LEMMA TooManyStep ==
  ASSUME RunInv, Mon!TooMany, at' = at
  PROVE  RunInv'
<1>1. /\ pc = "gobble" /\ Mon!InWord(buf[p]) /\ argc = MAXARGS - 1 /\ pc' = "too many"
      /\ buf' = buf /\ line' = line /\ p' = p /\ argc' = argc /\ argv' = argv /\ cmd' = cmd
  BY DEF Mon!TooMany, Mon!ArgvFull
<1>2. RunTypeOK /\ LineCut /\ WordsSaved /\ PlaceOK
  BY DEF RunInv
<1>3. Mon!WordStarts' = Mon!WordStarts /\ Mark' = Mark
  BY <1>1, LineStays DEF Mark
<1>4. p \in Mon!WordStarts
  BY <1>1, <1>2, RunNumbers DEF PlaceOK
<1>5. RunTypeOK'
  BY <1>1, <1>2, TheCommands DEF RunTypeOK
<1>6. LineCut' /\ WordsSaved'
  BY <1>1, <1>2, <1>3, CutStays DEF WordsSaved
<1>7. PlaceOK'
  BY <1>1, <1>2, <1>3, <1>4, TheCommands DEF PlaceOK
<1> QED
  BY <1>5, <1>6, <1>7 DEF RunInv

(* A word begins at p, and argv has room for it and for the null pointer. *)
LEMMA SaveArgStep ==
  ASSUME RunInv, Mon!SaveArg, at' = at
  PROVE  RunInv'
<1> DEFINE W == Mon!WordStarts
           S == Before(Mon!WordStarts, p)
<1>1. /\ pc = "gobble" /\ Mon!InWord(buf[p]) /\ argc # MAXARGS - 1 /\ pc' = "scan"
      /\ buf' = buf /\ line' = line /\ p' = p /\ argc' = argc + 1 /\ cmd' = cmd
      /\ argv' = [argv EXCEPT ![argc] = p]
  BY DEF Mon!SaveArg, Mon!ArgvFull
<1>2. RunTypeOK /\ LineCut /\ WordsSaved /\ PlaceOK
  BY DEF RunInv
<1>3. /\ p \in Nat /\ argc \in Nat /\ MAXARGS \in Nat /\ argc < MAXARGS
      /\ line \in Seq(1..255) /\ argv \in [0..MAXARGS-1 -> Int]
  BY <1>2, RunNumbers DEF RunTypeOK
<1>4. p \in W /\ W \in SUBSET Nat /\ IsFiniteSet(S)
  BY <1>1, <1>2, <1>3, RunNumbers, StartFacts DEF PlaceOK
<1>5. argc \in 0..MAXARGS-2 /\ argc' \in 0..MAXARGS-1 /\ p \in Int
  BY <1>1, <1>3
<1>6. Lists(argv', argc', S \cup {p})
  <2>1. Lists(argv, argc, S)
    BY <1>1, <1>2 DEF WordsSaved, Mark
  <2>2. \A y \in S : y < p
    BY DEF Before
  <2> HIDE DEF S
  <2>3. Lists([argv EXCEPT ![argc] = p], argc + 1, S \cup {p})
    BY <1>3, <1>4, <1>5, <2>1, <2>2, OneMore
  <2> QED
    BY <1>1, <2>3
<1>7. Before(W, p + 1) = S \cup {p}
  BY <1>3, <1>4, BeforeNext
<1>8. Mon!WordStarts' = W /\ Mark' = p + 1
  BY <1>1, LineStays DEF Mark
<1>9. RunTypeOK'
  <2>1. argv' \in [0..MAXARGS-1 -> Int]
    BY <1>1, <1>3, <1>5
  <2> QED
    BY <1>1, <1>2, <1>5, <2>1 DEF RunTypeOK
<1>10. LineCut'
  BY <1>1, <1>2, CutStays
<1>11. WordsSaved'
  BY <1>6, <1>7, <1>8 DEF WordsSaved
<1>12. PlaceOK'
  BY <1>1, <1>2, TheCommands DEF PlaceOK
<1> QED
  BY <1>9, <1>10, <1>11, <1>12 DEF RunInv

(* Inside a word no other one begins. *)
LEMMA ScanStep ==
  ASSUME RunInv, Mon!Scan, at' = at
  PROVE  RunInv'
<1>1. /\ pc = "scan" /\ Mon!InWord(buf[p]) /\ pc' = "scan" /\ p' = p + 1
      /\ buf' = buf /\ line' = line /\ argc' = argc /\ argv' = argv /\ cmd' = cmd
  BY DEF Mon!Scan
<1>2. RunTypeOK /\ LineCut /\ WordsSaved /\ PlaceOK
  BY DEF RunInv
<1>3. /\ Len(line) \in Nat /\ p \in Nat /\ p <= Len(line) /\ line \in Seq(1..255)
      /\ Mon!InWord(Mon!At(p))
  BY <1>1, <1>2, RunNumbers
<1>4. p < Len(line) /\ p' \in 0..Len(line)
  BY <1>1, <1>3, AtFacts
<1>5. p' \in Nat /\ p' > 0 /\ p' - 1 = p /\ p' \notin Mon!WordStarts
      /\ Mon!WordStarts \in SUBSET Nat
  <2>1. p' \in Nat /\ p' > 0 /\ p' - 1 = p
    BY <1>1, <1>3
  <2> QED
    BY <1>3, <2>1, StartFacts
<1>6. Mon!WordStarts' = Mon!WordStarts /\ \A k : Mon!At(k)' = Mon!At(k)
  BY <1>1, LineStays
<1>7. RunTypeOK'
  BY <1>1, <1>2, <1>4 DEF RunTypeOK
<1>8. LineCut'
  <2>1. ASSUME NEW k \in 0..Len(line)
        PROVE  buf'[k] = IF k >= p' \/ Mon!InWord(Mon!At(k)) THEN Mon!At(k) ELSE 0
    <3>1. k >= p' <=> k >= p /\ k # p
      BY <1>1, <1>3
    <3> QED
      BY <1>1, <1>2, <1>3, <3>1 DEF LineCut
  <2> QED
    BY <1>1, <1>2, <1>6, <2>1 DEF LineCut
<1>9. WordsSaved'
  <2>1. Before(Mon!WordStarts, p' + 1) = Before(Mon!WordStarts, p')
    BY <1>5, BeforeNext
  <2>2. Mark = p' /\ Mark' = p' + 1
    BY <1>1 DEF Mark
  <2> QED
    BY <1>1, <1>2, <1>6, <2>1, <2>2 DEF WordsSaved
<1>10. PlaceOK'
  BY <1>1, <1>2, TheCommands DEF PlaceOK
<1> QED
  BY <1>7, <1>8, <1>9, <1>10 DEF RunInv

LEMMA WordEndsStep ==
  ASSUME RunInv, Mon!WordEnds, at' = at
  PROVE  RunInv'
<1>1. /\ pc = "scan" /\ ~Mon!InWord(buf[p]) /\ pc' = "gobble" /\ p' = p
      /\ buf' = buf /\ line' = line /\ argc' = argc /\ argv' = argv /\ cmd' = cmd
  BY DEF Mon!WordEnds
<1>2. RunTypeOK /\ LineCut /\ WordsSaved /\ PlaceOK
  BY DEF RunInv
<1>3. p \in Nat /\ line \in Seq(1..255) /\ ~Mon!InWord(Mon!At(p))
  BY <1>1, <1>2, RunNumbers
<1>4. p \notin Mon!WordStarts /\ Mon!WordStarts \in SUBSET Nat
  BY <1>3, StartFacts
<1>5. Mon!WordStarts' = Mon!WordStarts /\ \A k : Mon!At(k)' = Mon!At(k)
  BY <1>1, LineStays
<1>6. RunTypeOK'
  BY <1>1, <1>2 DEF RunTypeOK
<1>7. LineCut'
  BY <1>1, <1>2, CutStays
<1>8. WordsSaved'
  <2>1. Before(Mon!WordStarts, p + 1) = Before(Mon!WordStarts, p)
    BY <1>3, <1>4, BeforeNext
  <2>2. Mark = p + 1 /\ Mark' = p
    BY <1>1 DEF Mark
  <2> QED
    BY <1>1, <1>2, <1>5, <2>1, <2>2 DEF WordsSaved
<1>9. PlaceOK'
  <2>1. Mon!At(p)' = Mon!At(p)
    BY <1>1 DEF Mon!At
  <2> QED
    BY <1>1, <1>2, <1>3, <2>1, TheCommands DEF PlaceOK
<1> QED
  BY <1>6, <1>7, <1>8, <1>9 DEF RunInv

LEMMA LineEndsStep ==
  ASSUME RunInv, Mon!LineEnds, at' = at
  PROVE  RunInv'
<1> DEFINE S == Before(Mon!WordStarts, p)
<1>1. /\ pc = "gobble" /\ buf[p] = 0 /\ p' = p
      /\ pc' = IF argc = 0 THEN "no words" ELSE "lookup"
      /\ argv' = [argv EXCEPT ![argc] = -1]
      /\ buf' = buf /\ line' = line /\ argc' = argc /\ cmd' = cmd
  BY DEF Mon!LineEnds, Mon!NUL, Mon!null
<1>2. RunTypeOK /\ LineCut /\ WordsSaved /\ PlaceOK
  BY DEF RunInv
<1>3. /\ p \in Nat /\ argc \in Nat /\ argc < MAXARGS /\ MAXARGS \in Nat
      /\ p <= Len(line) /\ Len(line) \in Nat /\ line \in Seq(1..255) /\ Mon!At(p) = 0
      /\ argv \in [0..MAXARGS-1 -> Int] /\ argc \in 0..MAXARGS-1
  BY <1>1, <1>2, RunNumbers DEF RunTypeOK
<1>4. p = Len(line)
  <2>1. ASSUME p \in 0..Len(line)-1 PROVE FALSE
    <3>1. Mon!At(p) \in 1..255
      BY <1>3, <2>1, AtFacts, Zenon
    <3> QED
      BY <1>3, <3>1
  <2> QED
    BY <1>3, <2>1
<1>5. Mon!WordStarts' = Mon!WordStarts /\ Mark = p /\ Mark' = p
  BY <1>1, LineStays DEF Mark
<1>6. /\ argv' \in [0..MAXARGS-1 -> Int] /\ argv'[argc] = -1
      /\ \A k \in 0..argc-1 : argv'[k] = argv[k]
  <2>1. \A k \in 0..argc-1 : k \in 0..MAXARGS-1 /\ k # argc
    BY <1>3
  <2>2. -1 \in Int
    OBVIOUS
  <2>3. argv' \in [0..MAXARGS-1 -> Int]
    BY <1>1, <1>3, <2>2
  <2>4. argv'[argc] = -1 /\ \A k \in 0..argc-1 : argv'[k] = argv[k]
    BY <1>1, <1>3, <2>1
  <2> QED
    BY <2>3, <2>4
<1>7. RunTypeOK'
  BY <1>1, <1>2, <1>6, TheCommands DEF RunTypeOK
<1>8. LineCut'
  BY <1>1, <1>2, CutStays
<1>9. WordsSaved'
  <2>1. Lists(argv, argc, S)
    BY <1>2, <1>5 DEF WordsSaved
  <2> HIDE DEF S
  <2>2. Lists(argv', argc, S)
    <3>1. {argv'[k] : k \in 0..argc-1} = {argv[k] : k \in 0..argc-1}
      BY <1>6
    <3>2. \A j, k \in 0..argc-1 : j < k => argv'[j] < argv'[k]
      BY <1>6, <2>1 DEF Lists
    <3> QED
      BY <2>1, <3>1, <3>2 DEF Lists
  <2> QED
    BY <1>1, <1>5, <2>2 DEF WordsSaved, S
<1>10. PlaceOK'
  <2>1. cmd' = 0
    BY <1>1, <1>2 DEF PlaceOK
  <2>2. NotNamed(cmd)'
    BY <2>1 DEF NotNamed
  <2>3. CASE argc = 0
    BY <1>1, <1>4, <2>3, TheCommands DEF PlaceOK
  <2>4. CASE argc # 0
    <3>1. argc >= 1 /\ pc' = "lookup"
      BY <1>1, <1>3, <2>4
    <3> QED
      BY <1>1, <1>4, <1>6, <2>2, <3>1, TheCommands DEF PlaceOK
  <2> QED
    BY <2>3, <2>4
<1> QED
  BY <1>7, <1>8, <1>9, <1>10 DEF RunInv

(* The commands are tried one after the other. *)
LEMMA LookupStep ==
  ASSUME RunInv, Mon!Lookup, at' = at
  PROVE  RunInv'
<1> DEFINE Is(j) == Mon!StrEqual(argv[0], Spelling[Mon!commands[j]])
<1>1. /\ pc = "lookup" /\ buf' = buf /\ line' = line /\ p' = p /\ argc' = argc /\ argv' = argv
      /\ \/ cmd = Len(Mon!commands) /\ pc' = "unknown" /\ cmd' = cmd
         \/ cmd # Len(Mon!commands) /\ Is(cmd + 1) /\ pc' = Mon!commands[cmd + 1] /\ cmd' = cmd
         \/ cmd # Len(Mon!commands) /\ ~Is(cmd + 1) /\ cmd' = cmd + 1 /\ pc' = pc
  BY DEF Mon!Lookup, Mon!Matches
<1>2. RunTypeOK /\ LineCut /\ WordsSaved /\ PlaceOK
  BY DEF RunInv
<1> HIDE DEF Is
<1>0. Len(Mon!commands) = 2
  BY TheCommands
<1>4. NotNamed(cmd) /\ cmd \in 0..2
  BY <1>1, <1>2, <1>0 DEF PlaceOK, RunTypeOK
<1>3. Mon!WordStarts' = Mon!WordStarts /\ Mark' = Mark
  <2>1. cmd # 2 => cmd + 1 = 1 \/ cmd + 1 = 2
    BY <1>4
  <2>2. pc' # "scan"
    BY <1>1, <1>0, <2>1, TheCommands
  <2> QED
    BY <1>1, <2>2, LineStays DEF Mark
<1>5. \A n : NotNamed(n)' <=> NotNamed(n)
  BY <1>1 DEF NotNamed, Mon!StrEqual
<1>6. \A c : Mon!StrEqual(argv[0], Spelling[c])' <=> Mon!StrEqual(argv[0], Spelling[c])
  BY <1>1 DEF Mon!StrEqual
<1>7. p = Len(line) /\ argc >= 1 /\ argv[argc] = -1
  BY <1>1, <1>2, TheCommands DEF PlaceOK
<1>8. CASE cmd = Len(Mon!commands) /\ pc' = "unknown" /\ cmd' = cmd
  <2>1. RunTypeOK'
    BY <1>1, <1>2, <1>8, TheCommands DEF RunTypeOK
  <2>2. NotNamed(Len(Mon!commands))'
    BY <1>4, <1>5, <1>8 DEF NotNamed
  <2>3. PlaceOK'
    BY <1>1, <1>7, <1>8, <2>2, TheCommands DEF PlaceOK
  <2> QED
    BY <1>1, <1>2, <1>3, <2>1, <2>3, CutStays DEF RunInv, WordsSaved
<1>9. CASE /\ cmd # Len(Mon!commands) /\ Is(cmd + 1) /\ cmd' = cmd
           /\ pc' = Mon!commands[cmd + 1]
  <2>1. cmd + 1 \in {1, 2}
    BY <1>4, <1>9, <1>0
  <2>2. pc' \in {"mon_help", "mon_kerninfo"}
    BY <1>9, <2>1, TheCommands
  <2>3. RunTypeOK'
    BY <1>1, <1>2, <1>9, <2>2, TheCommands DEF RunTypeOK
  <2>4. Mon!StrEqual(argv[0], Spelling[pc])'
    BY <1>1, <1>9 DEF Mon!StrEqual, Is
  <2>5. PlaceOK'
    BY <1>1, <1>7, <2>2, <2>4, TheCommands DEF PlaceOK
  <2> QED
    BY <1>1, <1>2, <1>3, <2>3, <2>5, CutStays DEF RunInv, WordsSaved
<1>10. CASE /\ cmd # Len(Mon!commands) /\ ~Is(cmd + 1) /\ cmd' = cmd + 1
            /\ pc' = pc
  <2>1. cmd' \in 0..2 /\ \A j \in 1..cmd' : j = cmd + 1 \/ j \in 1..cmd
    BY <1>4, <1>10, <1>0
  <2>2. RunTypeOK'
    BY <1>1, <1>2, <1>10, <2>1, TheCommands DEF RunTypeOK
  <2>3. \A j \in 1..cmd' : ~Is(j)
    BY <1>4, <1>10, <2>1 DEF NotNamed, Is
  <2>4. NotNamed(cmd)'
    BY <1>1, <2>3 DEF NotNamed, Mon!StrEqual, Is
  <2>5. PlaceOK'
    BY <1>1, <1>7, <1>10, <2>4, TheCommands DEF PlaceOK
  <2> QED
    BY <1>1, <1>2, <1>3, <2>2, <2>5, CutStays DEF RunInv, WordsSaved
<1> QED
  BY <1>1, <1>8, <1>9, <1>10

(* Without a line there are no words. *)
LEMMA NoLine ==
  ASSUME line = <<>>
  PROVE  /\ Mon!WordStarts = {} /\ line \in Seq(1..255) /\ Len(line) = 0
         /\ \A v, n : Lists(v, 0, Before(Mon!WordStarts, n))
<1>1. line \in Seq(1..255) /\ Len(line) = 0
  OBVIOUS
<1>2. Mon!WordStarts = {}
  <2>1. Mon!WordStarts \subseteq 0..Len(line)-1
    BY <1>1, StartFacts
  <2> QED
    BY <1>1, <2>1
<1>3. ASSUME NEW v, NEW n PROVE Lists(v, 0, Before(Mon!WordStarts, n))
  <2>1. Before(Mon!WordStarts, n) = {}
    BY <1>2 DEF Before
  <2>2. 0..0-1 = {}
    OBVIOUS
  <2> QED
    BY <2>1, <2>2, FS_EmptySet DEF Lists
<1> QED
  BY <1>1, <1>2, <1>3

(* The state between two lines. *)
Idle ==
  /\ line = <<>> /\ p = 0 /\ argc = 0 /\ cmd = 0
  /\ argv = [k \in 0..MAXARGS-1 |-> -1]
  /\ pc = "readline"

LEMMA IdleInv == Idle => RunInv
<1> SUFFICES ASSUME Idle PROVE RunInv
  OBVIOUS
<1>1. MAXARGS \in Nat \ {0} /\ BUFLEN \in Nat \ {0}
  BY ShellAssumption, BuflenAssumption
<1>2. line \in Seq(1..255) /\ Len(line) = 0 /\ Lists(argv, 0, Before(Mon!WordStarts, Mark))
  BY NoLine DEF Idle
<1>3. RunTypeOK
  <2>1. argv \in [0..MAXARGS-1 -> Int]
    <3>1. -1 \in Int
      OBVIOUS
    <3> QED
      BY <3>1 DEF Idle
  <2>2. 0 \in 0..MAXARGS-1 /\ 0 \in 0..2 /\ 0 < BUFLEN /\ 0 \in 0..0
    BY <1>1
  <2> QED
    BY <1>2, <2>1, <2>2, TheCommands DEF Idle, RunTypeOK
<1>4. LineCut /\ WordsSaved
  BY <1>2 DEF Idle, LineCut, WordsSaved
<1>5. PlaceOK
  BY TheCommands DEF Idle, PlaceOK
<1> QED
  BY <1>3, <1>4, <1>5 DEF RunInv

LEMMA ReturnStep ==
  ASSUME Mon!Return
  PROVE  RunInv'
<1>1. Idle'
  BY DEF Mon!Return, Mon!null, Idle
<1>2. Idle' => RunInv'
  BY IdleInv, PTL
<1> QED
  BY <1>1, <1>2

(* The state in which runcmd is called. *)
Fresh ==
  /\ pc = "gobble" /\ at = "kernel" /\ p = 0 /\ argc = 0 /\ cmd = 0
  /\ argv \in [0..MAXARGS-1 -> Int]
  /\ line \in Seq(1..255) /\ Len(line) < BUFLEN
  /\ \A k \in 0..Len(line) : buf[k] = Mon!At(k)

LEMMA FreshInv == Fresh => RunInv
<1> SUFFICES ASSUME Fresh PROVE RunInv
  OBVIOUS
<1>1. MAXARGS \in Nat \ {0} /\ line \in Seq(1..255) /\ Len(line) \in Nat
  BY ShellAssumption DEF Fresh
<1>2. 0 \in 0..MAXARGS-1 /\ 0 \in 0..2 /\ 0 \in 0..Len(line)
  BY <1>1
<1>3. RunTypeOK
  BY <1>2, TheCommands DEF Fresh, RunTypeOK
<1>4. LineCut
  <2>1. \A k \in 0..Len(line) : k >= 0
    BY <1>1
  <2> QED
    BY <2>1 DEF Fresh, LineCut
<1>5. WordsSaved
  <2>1. Mark = 0 /\ Before(Mon!WordStarts, 0) = {}
    BY <1>1, StartFacts DEF Fresh, Mark
  <2>2. 0..0-1 = {}
    OBVIOUS
  <2>3. Lists(argv, 0, {})
    BY <2>2, FS_EmptySet DEF Lists
  <2> QED
    BY <2>1, <2>3 DEF Fresh, WordsSaved
<1>6. PlaceOK
  <2>1. Mon!InWord(Mon!At(0)) => 0 \in Mon!WordStarts
    <3>1. ~(0 > 0)
      OBVIOUS
    <3> QED
      BY <1>1, <1>2, <3>1, StartFacts
  <2> QED
    BY <2>1, TheCommands DEF Fresh, PlaceOK
<1> QED
  BY <1>3, <1>4, <1>5, <1>6 DEF RunInv

(* What readline and the console do does not disturb runcmd. *)
LEMMA RunStays ==
  ASSUME RunInv, UNCHANGED runVars, pc = "readline" \/ (buf' = buf /\ at' = at)
  PROVE  RunInv'
<1>1. /\ line' = line /\ p' = p /\ argc' = argc /\ argv' = argv /\ cmd' = cmd /\ pc' = pc
  BY DEF runVars
<1>2. RunTypeOK /\ LineCut /\ WordsSaved /\ PlaceOK
  BY DEF RunInv
<1>3. Mon!WordStarts' = Mon!WordStarts /\ Mark' = Mark
  BY <1>1, LineStays DEF Mark
<1>4. RunTypeOK' /\ WordsSaved'
  BY <1>1, <1>2, <1>3 DEF RunTypeOK, WordsSaved
<1>5. CASE pc = "readline"
  <2>1. LineCut' /\ PlaceOK'
    BY <1>1, <1>2, <1>5, TheCommands DEF LineCut, PlaceOK
  <2> QED
    BY <1>4, <2>1 DEF RunInv
<1>6. CASE pc # "readline"
  <2>1. LineCut'
    BY <1>1, <1>2, <1>6, CutStays
  <2>2. /\ Mon!At(p)' = Mon!At(p)
        /\ \A n : NotNamed(n)' <=> NotNamed(n)
        /\ Mon!StrEqual(argv[0], Spelling[pc])' <=> Mon!StrEqual(argv[0], Spelling[pc])
    BY <1>1, <1>6 DEF Mon!At, NotNamed, Mon!StrEqual
  <2>3. NotNamed(cmd)' <=> NotNamed(cmd)
    BY <1>1, <1>6 DEF NotNamed, Mon!StrEqual
  <2>4. PlaceOK'
    BY <1>1, <1>2, <1>3, <2>2, <2>3 DEF PlaceOK
  <2> QED
    BY <1>4, <2>1, <2>4 DEF RunInv
<1> QED
  BY <1>5, <1>6

-----------------------------------------------------------------------------
(***************************************************************************)
(* The prompt.                                                             *)
(***************************************************************************)
ShellInv == LineInv /\ RunInv

(* runcmd works while readline does not. *)
LEMMA RunStep ==
  ASSUME ShellInv, runcmd
  PROVE  ShellInv' /\ HandsOver /\ KeepsPrompt /\ at = "kernel"
<1>1. /\ LineInv /\ RunInv /\ Mon!runcmd
      /\ UNCHANGED cgaVars /\ i' = i /\ at' = at
  BY DEF ShellInv, runcmd
<1>2. pc # "readline"
  BY <1>1, TheCommands DEF Mon!runcmd, Mon!Gobble, Mon!TooMany, Mon!SaveArg, Mon!Scan,
     Mon!WordEnds, Mon!LineEnds, Mon!Lookup, Mon!Return
<1>3. at = "kernel" /\ buf \in [0..BUFLEN-1 -> 0..255] /\ CgaTypeOK /\ i \in 0..BUFLEN-1
  BY <1>1, <1>2 DEF RunInv, LineCut, LineInv, LineTypeOK
<1>4. buf' \in [0..BUFLEN-1 -> 0..255]
  <2>1. buf' = buf \/ buf' = [buf EXCEPT ![p] = 0]
    BY <1>1 DEF Mon!runcmd, Mon!Gobble, Mon!TooMany, Mon!SaveArg, Mon!Scan,
       Mon!WordEnds, Mon!LineEnds, Mon!Lookup, Mon!Return, Mon!Blanked, Mon!NUL
  <2>2. 0 \in 0..255
    OBVIOUS
  <2>3. [buf EXCEPT ![p] = 0] \in [0..BUFLEN-1 -> 0..255]
    BY <1>3, <2>2, Zenon
  <2> QED
    BY <1>3, <2>1, <2>3, Zenon
<1>5. LineInv'
  <2>1. CgaTypeOK'
    BY <1>1, <1>3 DEF cgaVars, CgaTypeOK
  <2> QED
    BY <1>1, <1>3, <1>4, <2>1
      DEF LineInv, LineTypeOK, WhatYouSee, NoNul, DisplayReady
<1>6. RunInv'
  BY <1>1, <1>3, GobbleStep, TooManyStep, SaveArgStep, ScanStep, WordEndsStep,
     LineEndsStep, LookupStep, ReturnStep DEF Mon!runcmd
<1>7. HandsOver /\ KeepsPrompt
  BY <1>3 DEF HandsOver, KeepsPrompt
<1> QED
  BY <1>3, <1>5, <1>6, <1>7 DEF ShellInv

(* Enter hands the line to runcmd as it was typed, which is what Monitor   *)
(* expects of readline.                                                    *)
LEMMA EnteredStep ==
  ASSUME ShellInv, NEW c \in Input, Type(c), at' = "kernel"
  PROVE  RunInv' /\ Mon!Entered
<1>1. /\ Typed(c) /\ at = "readline" /\ line' = [k \in 1..i |-> buf[k - 1]]
      /\ pc' = "gobble" /\ p' = p /\ argc' = argc /\ argv' = argv /\ cmd' = cmd
  BY DEF Type, Typed
<1>2. LineInv /\ RunInv /\ LineTypeOK /\ NoNul
  BY DEF ShellInv, LineInv
<1>3. buf' = [buf EXCEPT ![i] = 0] /\ i' = i
  BY <1>1 DEF Typed, Rubout, Text, Enter, Ignored, Terminated, vars, lineVars
<1>4. pc = "readline" /\ p = 0 /\ argc = 0 /\ cmd = 0 /\ argv \in [0..MAXARGS-1 -> Int]
  BY <1>1, <1>2 DEF RunInv, LineCut, PlaceOK, RunTypeOK
<1>5. /\ i \in Nat /\ i < BUFLEN /\ i \in 0..BUFLEN-1 /\ BUFLEN \in Nat
      /\ buf \in [0..BUFLEN-1 -> 0..255]
  BY <1>2, LineNumbers DEF LineTypeOK
<1>6. buf'[i] = 0 /\ \A k \in 0..i-1 : buf'[k] = buf[k] /\ buf[k] \in 1..255
  <2>1. \A k \in 0..i-1 : k \in 0..BUFLEN-1 /\ k # i
    BY <1>5
  <2>2. \A k \in 0..i-1 : buf[k] # 0 /\ buf[k] \in 0..255
    BY <1>1, <1>2, <1>5, <2>1 DEF NoNul
  <2>3. \A x \in 0..255 : x # 0 => x \in 1..255
    OBVIOUS
  <2> QED
    BY <1>3, <1>5, <2>1, <2>2, <2>3
<1>7. \A k \in 1..i : k - 1 \in 0..i-1
  BY <1>5
<1>8. line' \in Seq(1..255) /\ Len(line') = i
  BY <1>1, <1>5, <1>6, <1>7
<1>9. ASSUME NEW k \in 0..i PROVE buf'[k] = Mon!At(k)'
  <2>1. CASE k = i
    BY <1>5, <1>6, <1>8, <2>1 DEF Mon!At, Mon!NUL
  <2>2. CASE k # i
    <3>1. k \in 0..i-1 /\ k < i /\ k + 1 \in 1..i /\ (k + 1) - 1 = k
      BY <1>5, <2>2
    <3>2. Mon!At(k)' = line'[k + 1]
      BY <1>8, <3>1 DEF Mon!At
    <3>3. line'[k + 1] = buf[k]
      BY <1>1, <3>1
    <3> QED
      BY <1>6, <3>1, <3>2, <3>3
  <2> QED
    BY <2>1, <2>2
<1>10. Fresh'
  BY <1>1, <1>4, <1>5, <1>8, <1>9 DEF Fresh
<1>11. Fresh' => RunInv'
  BY FreshInv, PTL
<1>12. Mon!Entered
  <2>1. line' = [k \in 1..i |-> buf'[k - 1]]
    BY <1>1, <1>6, <1>7
  <2>2. \A k \in 0..i-1 : buf'[k] # 0
    BY <1>6
  <2> QED
    BY <1>1, <1>4, <1>5, <1>6, <2>1, <2>2 DEF Mon!Entered, Mon!NUL
<1> QED
  BY <1>10, <1>11, <1>12

(* Every step keeps the invariant, keeps the promises of the line editor,  *)
(* and is a step of Monitor or leaves its variables alone.                 *)
LEMMA ShellStep ==
  ASSUME ShellInv, [ShellNext]_shellVars
  PROVE  ShellInv' /\ [HandsOver]_vars /\ [KeepsPrompt]_vars /\ [Mon!Next]_(Mon!vars)
<1>1. LineInv /\ RunInv
  BY DEF ShellInv
<1>2. CASE runcmd
  <2>1. Mon!Next
    BY <1>2 DEF runcmd, Mon!Next
  <2> QED
    BY <1>2, <2>1, RunStep
<1>3. CASE UNCHANGED <<vars, runVars>>
  <2>1. buf' = buf /\ at' = at /\ UNCHANGED vars /\ UNCHANGED runVars
    BY <1>3 DEF vars, lineVars
  <2>2. LineInv'
    BY <1>1, <2>1, LineStep
  <2>3. RunInv'
    BY <1>1, <2>1, RunStays
  <2>4. UNCHANGED Mon!vars
    BY <2>1 DEF runVars, Mon!vars, Mon!monVars
  <2> QED
    BY <2>1, <2>2, <2>3, <2>4 DEF ShellInv
<1>4. CASE Console \/ Prompt
  <2>1. Next /\ UNCHANGED runVars /\ buf' = buf /\ (pc = "readline" \/ at' = at)
    BY <1>4 DEF Console, Prompt, Next, ConsInit, cprintf, readline, lineVars
  <2>2. LineInv' /\ [HandsOver]_vars /\ [KeepsPrompt]_vars
    BY <1>1, <2>1, LineStep
  <2>3. RunInv'
    BY <1>1, <2>1, RunStays
  <2>4. UNCHANGED Mon!vars
    BY <2>1 DEF runVars, Mon!vars, Mon!monVars
  <2> QED
    BY <2>2, <2>3, <2>4 DEF ShellInv
<1>5. ASSUME NEW c \in Input, Type(c)
      PROVE  ShellInv' /\ [HandsOver]_vars /\ [KeepsPrompt]_vars /\ [Mon!Next]_(Mon!vars)
  <2>1. Next /\ at = "readline"
    BY <1>5 DEF Type, Typed, Next
  <2>2. LineInv' /\ [HandsOver]_vars /\ [KeepsPrompt]_vars
    BY <1>1, <2>1, LineStep
  <2>3. pc = "readline"
    BY <1>1, <2>1 DEF RunInv, LineCut
  <2>4. CASE at' = "kernel"
    <3>1. RunInv' /\ Mon!Entered
      BY <1>5, <2>4, EnteredStep
    <3> QED
      BY <2>2, <3>1 DEF ShellInv, Mon!Next
  <2>5. CASE at' # "kernel"
    <3>1. UNCHANGED runVars
      BY <1>5, <2>5 DEF Type
    <3>2. RunInv'
      BY <1>1, <2>3, <3>1, RunStays
    <3>3. buf' \in [0..BUFLEN-1 -> 0..255]
      BY <2>2 DEF LineInv, LineTypeOK
    <3>4. Mon!Editing
      BY <2>3, <3>1, <3>3 DEF Mon!Editing, Mon!monVars, runVars
    <3> QED
      BY <2>2, <3>2, <3>4 DEF ShellInv, Mon!Next
  <2> QED
    BY <2>4, <2>5
<1>6. i386_init \/ _panic("User address") => UNCHANGED <<vars, runVars>>
  BY DEF i386_init, _panic, EnterMonitor
<1>7. UNCHANGED shellVars => UNCHANGED <<vars, runVars>>
  BY DEF shellVars
<1> QED
  BY <1>2, <1>3, <1>4, <1>5, <1>6, <1>7 DEF ShellNext

LEMMA ShellStart == ShellInit => ShellInv /\ Mon!Init
<1> SUFFICES ASSUME ShellInit PROVE ShellInv /\ Mon!Init
  OBVIOUS
<1>1. Init /\ Mon!Init
  BY DEF ShellInit
<1>2. LineInv
  BY <1>1, LineInitInv
<1>3. RunInv
  BY <1>1, IdleInv DEF Idle, Mon!Init, Mon!null
<1> QED
  BY <1>1, <1>2, <1>3 DEF ShellInv

(* When a command is looked up, all of the line has been cut up. *)
LEMMA AllWords ==
  ASSUME RunInv, p = Len(line), pc # "scan", pc # "readline"
  PROVE  /\ Lists(argv, argc, Mon!WordStarts)
         /\ \A q \in Mon!WordStarts :
              /\ \A k \in q..Mon!WordEnd(q)-1 : buf[k] = Mon!At(k)
              /\ buf[Mon!WordEnd(q)] = 0
<1>1. /\ line \in Seq(1..255) /\ Len(line) \in Nat
      /\ \A k \in 0..Len(line) :
           buf[k] = IF k >= p \/ Mon!InWord(Mon!At(k)) THEN Mon!At(k) ELSE 0
  BY RunNumbers DEF RunInv, LineCut
<1>2. Mark = Len(line)
  BY DEF Mark
<1>3. Lists(argv, argc, Mon!WordStarts)
  BY <1>1, <1>2, StartFacts DEF RunInv, WordsSaved
<1>4. ASSUME NEW q \in Mon!WordStarts
      PROVE  /\ \A k \in q..Mon!WordEnd(q)-1 : buf[k] = Mon!At(k)
             /\ buf[Mon!WordEnd(q)] = 0
  <2> DEFINE e == Mon!WordEnd(q)
  <2>1. /\ e \in q+1..Len(line) /\ ~Mon!InWord(Mon!At(e))
        /\ \A k \in q..e-1 : Mon!InWord(Mon!At(k))
    BY <1>1, EndFacts
  <2>2. q \in Nat
    BY <1>1, StartFacts
  <2> HIDE DEF e
  <2>3. e \in 0..Len(line) /\ \A k \in q..e-1 : k \in 0..Len(line)
    BY <1>1, <2>1, <2>2
  <2>4. \A k \in q..e-1 : buf[k] = Mon!At(k)
    BY <1>1, <2>1, <2>3
  <2>5. buf[e] = 0
    <3>1. CASE e = Len(line)
      BY <1>1, <2>3, <3>1, AtFacts
    <3>2. CASE e # Len(line)
      <4>1. ~(e >= p)
        BY <1>1, <2>3, <3>2
      <4> QED
        BY <1>1, <2>1, <2>3, <4>1
    <3> QED
      BY <3>1, <3>2
  <2> QED
    BY <2>4, <2>5 DEF e
<1> QED
  BY <1>3, <1>4

(* Monitor's own copy of the library's Cardinality. *)
LEMMA SameCount == \A S : Mon!Cardinality(S) = Cardinality(S)
  BY Zenon DEF Mon!Cardinality, Cardinality

LEMMA WordsIntact == ShellInv => ArgvHoldsWords
<1> SUFFICES ASSUME ShellInv, pc \in Found PROVE Mon!ArgvHoldsWords
  BY DEF ArgvHoldsWords, Mon!ArgvHoldsWords, Found
<1>1. RunInv /\ p = Len(line) /\ argv[argc] = -1 /\ pc # "scan" /\ pc # "readline"
  BY TheCommands DEF ShellInv, RunInv, PlaceOK
<1>2. argc < MAXARGS
  BY <1>1, RunNumbers
<1>3. /\ argc = Cardinality(Mon!WordStarts)
      /\ {argv[k] : k \in 0..argc-1} = Mon!WordStarts
      /\ \A j, k \in 0..argc-1 : j < k => argv[j] < argv[k]
  BY <1>1, AllWords DEF Lists
<1>4. \A q \in Mon!WordStarts :
        /\ \A k \in q..Mon!WordEnd(q)-1 : buf[k] = Mon!At(k)
        /\ buf[Mon!WordEnd(q)] = 0
  BY <1>1, AllWords
<1> QED
  BY <1>1, <1>2, <1>3, <1>4, SameCount, Zenon
  DEF Mon!ArgvHoldsWords, Mon!NUL, Mon!null

(* What strcmp compares, byte by byte. *)
LEMMA Compared ==
  ASSUME NEW q \in Nat, NEW w \in Seq(1..255 \ Mon!WHITESPACE)
  PROVE  /\ Len(w) \in Nat
         /\ \A k \in 1..Len(w) : w[k] # 0
         /\ Mon!StrEqual(q, w) <=> /\ \A k \in 1..Len(w) : buf[q + k - 1] = w[k]
                                   /\ buf[q + Len(w)] = 0
<1> DEFINE n == Len(w)
           z == Append(w, 0)
<1>1. n \in Nat /\ q + (n + 1) - 1 = q + n
  OBVIOUS
<1>2. /\ \A k \in 1..n : z[k] = w[k]
      /\ z[n + 1] = 0
  BY <1>1
<1>3. \A k : k \in 1..n + 1 <=> (k \in 1..n \/ k = n + 1)
  BY <1>1
<1>4. ASSUME NEW k \in 1..n PROVE w[k] # 0
  <2>1. w[k] \in 1..255 \ Mon!WHITESPACE
    BY ElementOfSeq, Zenon
  <2>2. 0 \notin 1..255
    OBVIOUS
  <2> QED
    BY <2>1, <2>2, Zenon
<1>5. Mon!StrEqual(q, w) <=> \A k \in 1..n + 1 : buf[q + k - 1] = z[k]
  BY DEF Mon!StrEqual, Mon!NUL
<1> HIDE DEF n, z
<1>6. Mon!StrEqual(q, w) <=> /\ \A k \in 1..n : buf[q + k - 1] = w[k]
                             /\ buf[q + n] = 0
  BY <1>1, <1>2, <1>3, <1>5
<1> QED
  BY <1>1, <1>4, <1>6 DEF n

(* The bytes of a piece of a sequence. *)
LEMMA PieceFacts ==
  ASSUME NEW S, NEW t \in Seq(S), NEW q \in Nat, NEW e \in Nat,
         q + 1 <= e, e <= Len(t), NEW u, u = SubSeq(t, q + 1, e)
  PROVE  u \in Seq(S) /\ Len(u) = e - q /\ \A k \in 1..e-q : u[k] = t[q + k]
OBVIOUS

(* The bytes of a word. *)
LEMMA WordPiece ==
  ASSUME line \in Seq(1..255), NEW q \in Mon!WordStarts
  PROVE  /\ SubSeq(line, q + 1, Mon!WordEnd(q)) \in Seq(1..255)
         /\ Len(SubSeq(line, q + 1, Mon!WordEnd(q))) = Mon!WordEnd(q) - q
         /\ \A k \in 1..Mon!WordEnd(q)-q :
              SubSeq(line, q + 1, Mon!WordEnd(q))[k] = line[q + k]
<1> DEFINE e == Mon!WordEnd(q)
           s == SubSeq(line, q + 1, e)
           B == 1..255
<1>1. q \in Nat /\ e \in Nat /\ q + 1 <= e /\ e <= Len(line)
  BY EndFacts, StartFacts
<1>2. line \in Seq(B) /\ s = SubSeq(line, q + 1, e)
  OBVIOUS
<1> HIDE DEF e, s, B
<1>3. s \in Seq(B) /\ Len(s) = e - q /\ \A k \in 1..e-q : s[k] = line[q + k]
  BY <1>1, <1>2, PieceFacts
<1> QED
  BY <1>3 DEF e, s, B

(* strcmp finds a word of the cut line equal to a name exactly when it is. *)
LEMMA Named ==
  ASSUME line \in Seq(1..255), NEW q \in Mon!WordStarts,
         NEW w \in Seq(1..255 \ Mon!WHITESPACE),
         \A k \in q..Mon!WordEnd(q)-1 : buf[k] = Mon!At(k),
         buf[Mon!WordEnd(q)] = 0
  PROVE  Mon!StrEqual(q, w) <=> SubSeq(line, q + 1, Mon!WordEnd(q)) = w
<1> DEFINE e == Mon!WordEnd(q)
           s == SubSeq(line, q + 1, e)
<1>1. /\ q \in Nat /\ e \in Nat /\ q + 1 <= e /\ e <= Len(line) /\ Len(line) \in Nat
      /\ \A k \in q..e-1 : Mon!InWord(Mon!At(k))
  BY EndFacts, StartFacts
<1>0. q \in Nat /\ e \in Nat /\ q + 1 <= e /\ e <= Len(line) /\ Len(line) \in Nat
  BY <1>1, Zenon
<1>2. \A k \in q..e-1 : buf[k] = Mon!At(k)
  OBVIOUS
<1>3. buf[e] = 0
  OBVIOUS
<1>4. /\ s \in Seq(1..255) /\ Len(s) = e - q
      /\ \A k \in 1..e-q : s[k] = line[q + k]
  BY WordPiece, ZenonT(60)
<1> HIDE DEF e, s
<1>5. ASSUME NEW k \in 1..e-q PROVE s[k] = buf[q + k - 1] /\ s[k] # 0
  <2>1. q + k - 1 \in q..e-1 /\ q + k - 1 \in 0..Len(line)-1 /\ (q + k - 1) + 1 = q + k
    BY <1>0
  <2>2. Mon!At(q + k - 1) = line[q + k] /\ Mon!At(q + k - 1) \in 1..255
    <3>1. \A j \in 0..Len(line)-1 : Mon!At(j) = line[j + 1] /\ Mon!At(j) \in 1..255
      BY AtFacts, Zenon
    <3> DEFINE j == q + k - 1
    <3>2. j \in 0..Len(line)-1 /\ j + 1 = q + k
      BY <2>1
    <3> HIDE DEF j
    <3>3. Mon!At(j) = line[q + k] /\ Mon!At(j) \in 1..255
      BY <3>1, <3>2
    <3> QED
      BY <3>3 DEF j
  <2>3. buf[q + k - 1] = Mon!At(q + k - 1)
    BY <1>2, <2>1, Zenon
  <2>4. s[k] = line[q + k]
    BY <1>4
  <2>5. 0 \notin 1..255
    OBVIOUS
  <2> QED
    BY <2>2, <2>3, <2>4, <2>5, Zenon
<1>6. /\ Len(w) \in Nat
      /\ \A k \in 1..Len(w) : w[k] # 0
      /\ Mon!StrEqual(q, w) <=> /\ \A k \in 1..Len(w) : buf[q + k - 1] = w[k]
                                /\ buf[q + Len(w)] = 0
  BY <1>1, Compared
<1>7. ASSUME Mon!StrEqual(q, w) PROVE s = w
  <2>1. ~(Len(w) > e - q)
    <3> SUFFICES ASSUME Len(w) > e - q PROVE FALSE
      OBVIOUS
    <3>1. (e - q) + 1 \in 1..Len(w) /\ q + ((e - q) + 1) - 1 = e
      BY <1>1, <1>6
    <3> QED
      BY <1>3, <1>6, <1>7, <3>1
  <2>2. ~(Len(w) < e - q)
    <3> SUFFICES ASSUME Len(w) < e - q PROVE FALSE
      OBVIOUS
    <3>1. Len(w) + 1 \in 1..e-q /\ q + (Len(w) + 1) - 1 = q + Len(w)
      BY <1>1, <1>6
    <3> QED
      BY <1>5, <1>6, <1>7, <3>1
  <2>3. Len(w) = e - q
    BY <1>1, <1>6, <2>1, <2>2
  <2>4. \A k \in 1..Len(w) : s[k] = w[k]
    BY <1>5, <1>6, <1>7, <2>3
  <2> QED
    BY <1>4, <2>3, <2>4
<1>8. ASSUME s = w PROVE Mon!StrEqual(q, w)
  <2>1. Len(w) = e - q /\ q + Len(w) = e
    BY <1>1, <1>4, <1>8
  <2> QED
    BY <1>3, <1>5, <1>6, <1>8, <2>1
<1> QED
  BY <1>7, <1>8 DEF s, e

(* The least word start is where argv[0] points. *)
LEMMA FirstWord ==
  ASSUME NEW v, NEW n \in Nat \ {0}, NEW S \in SUBSET Nat, Lists(v, n, S)
  PROVE  v[0] \in S /\ v[0] = CHOOSE q \in S : \A k \in S : q <= k
<1>1. 0 \in 0..n-1 /\ v[0] \in S /\ \A q \in S : q \in Nat
  BY DEF Lists
<1>2. ASSUME NEW k \in S PROVE v[0] <= k
  <2>1. PICK j \in 0..n-1 : v[j] = k
    BY DEF Lists
  <2>2. CASE j = 0
    BY <1>1, <2>1, <2>2
  <2>3. CASE j # 0
    <3>1. v[0] < v[j]
      BY <1>1, <2>1, <2>3 DEF Lists
    <3>2. v[0] \in Nat /\ v[j] \in Nat
      BY <1>1, <2>1
    <3> QED
      BY <2>1, <3>1, <3>2
  <2> QED
    BY <2>2, <2>3
<1>3. \A q \in S : (\A k \in S : q <= k) => q = v[0]
  <2> SUFFICES ASSUME NEW q \in S, \A k \in S : q <= k PROVE q = v[0]
    OBVIOUS
  <2>1. q <= v[0] /\ v[0] <= q
    BY <1>1, <1>2
  <2>2. q \in Nat /\ v[0] \in Nat
    BY <1>1
  <2> QED
    BY <2>1, <2>2
<1> QED
  BY <1>1, <1>2, <1>3

(* The first word of the line. *)
First   == CHOOSE q \in Mon!WordStarts : \A k \in Mon!WordStarts : q <= k
TheWord == SubSeq(line, First + 1, Mon!WordEnd(First))

(* The answer to a line is the right one in every state of the invariant.  *)
(* strcmp's verdicts, which the invariant keeps, are turned into equality  *)
(* with the first word, and a line is refused with MAXARGS-1 words saved   *)
(* and one more in sight.                                                  *)
LEMMA NameVerdict ==
  ASSUME RunInv, pc \in Found
  PROVE  \A c \in Mon!Commands :
           Mon!StrEqual(argv[0], Spelling[c]) <=> TheWord = Spelling[c]
<1>1. p = Len(line) /\ argc >= 1 /\ pc # "scan" /\ pc # "readline"
  BY TheCommands DEF RunInv, PlaceOK
<1>2. line \in Seq(1..255) /\ argc \in Nat \ {0}
  BY <1>1, RunNumbers
<1>3. Mon!WordStarts \in SUBSET Nat
  BY <1>2, StartFacts
<1>4. /\ Lists(argv, argc, Mon!WordStarts)
      /\ \A q \in Mon!WordStarts :
           /\ \A k \in q..Mon!WordEnd(q)-1 : buf[k] = Mon!At(k)
           /\ buf[Mon!WordEnd(q)] = 0
  BY <1>1, AllWords
<1>5. argv[0] \in Mon!WordStarts /\ argv[0] = First
  BY <1>2, <1>3, <1>4, FirstWord DEF First
<1>6. TheWord = SubSeq(line, argv[0] + 1, Mon!WordEnd(argv[0]))
  BY <1>5 DEF TheWord
<1>7. ASSUME NEW c \in Mon!Commands
      PROVE  Mon!StrEqual(argv[0], Spelling[c]) <=> TheWord = Spelling[c]
  <2>1. Spelling[c] \in Seq(1..255 \ Mon!WHITESPACE)
    BY ShellAssumption, Zenon
  <2>2. /\ \A k \in argv[0]..Mon!WordEnd(argv[0])-1 : buf[k] = Mon!At(k)
        /\ buf[Mon!WordEnd(argv[0])] = 0
    BY <1>4, <1>5, Zenon
  <2> QED
    BY <1>2, <1>5, <1>6, <2>1, <2>2, Named, Zenon
<1> QED
  BY <1>7

LEMMA AnswerRight == ShellInv => RightAnswer
<1> SUFFICES ASSUME ShellInv PROVE Mon!RightAnswer
  BY DEF RightAnswer
<1>1. RunInv /\ PlaceOK
  BY DEF ShellInv, RunInv
<1>2. line \in Seq(1..255) /\ argc \in Nat /\ p \in Nat /\ MAXARGS \in Nat
  BY <1>1, RunNumbers
<1>3. ASSUME pc \in Mon!Commands PROVE TheWord = Spelling[pc]
  <2>1. pc \in Found /\ Mon!StrEqual(argv[0], Spelling[pc])
    BY <1>1, <1>3 DEF PlaceOK, Found
  <2> QED
    BY <1>1, <1>3, <2>1, NameVerdict, Zenon
<1>4. ASSUME pc = "unknown", NEW c \in Mon!Commands PROVE TheWord # Spelling[c]
  <2>1. pc \in Found
    BY <1>4 DEF Found
  <2>2. NotNamed(2)
    BY <1>1, <1>4, TheCommands DEF PlaceOK
  <2>3. PICK j \in 1..2 : c = Mon!commands[j]
    <3>1. 1 \in 1..2 /\ 2 \in 1..2
      OBVIOUS
    <3> QED
      BY <3>1, TheCommands, Zenon
  <2>4. ~Mon!StrEqual(argv[0], Spelling[c])
    BY <2>2, <2>3, Zenon DEF NotNamed
  <2> QED
    BY <1>1, <2>1, <2>4, NameVerdict, Zenon
<1>5. ASSUME pc = "too many" PROVE Cardinality(Mon!WordStarts) >= MAXARGS
  <2>1. argc = MAXARGS - 1 /\ p \in Mon!WordStarts /\ Mark = p
    BY <1>1, <1>5 DEF PlaceOK, Mark
  <2>2. Lists(argv, argc, Before(Mon!WordStarts, p))
    BY <1>1, <2>1 DEF RunInv, WordsSaved
  <2> DEFINE S == Before(Mon!WordStarts, p)
  <2>3. IsFiniteSet(S) /\ IsFiniteSet(Mon!WordStarts) /\ Mon!WordStarts \in SUBSET Nat
    BY <1>2, StartFacts
  <2>4. p \notin S /\ S \cup {p} \in SUBSET Mon!WordStarts
    <3>1. p \notin S
      BY <1>2, <2>3, BeforeNext
    <3> QED
      BY <2>1, <3>1, Zenon DEF Before
  <2>5. Cardinality(S) = argc
    BY <2>2 DEF Lists
  <2> HIDE DEF S
  <2>6. Cardinality(S \cup {p}) = argc + 1 /\ IsFiniteSet(S \cup {p})
    BY <2>3, <2>4, <2>5, FS_AddElement
  <2>7. Cardinality(S \cup {p}) <= Cardinality(Mon!WordStarts)
    BY <2>3, <2>4, FS_Subset
  <2> QED
    BY <1>2, <2>1, <2>6, <2>7
<1>6. ASSUME pc = "no words" PROVE Mon!WordStarts = {}
  <2>1. p = Len(line) /\ argc = 0 /\ pc # "scan" /\ pc # "readline"
    BY <1>1, <1>6 DEF PlaceOK
  <2>2. Lists(argv, 0, Mon!WordStarts)
    BY <1>1, <2>1, AllWords
  <2>3. 0..0-1 = {}
    OBVIOUS
  <2> QED
    BY <2>2, <2>3 DEF Lists
<1> QED
  BY <1>3, <1>4, <1>5, <1>6, SameCount, Zenon DEF Mon!RightAnswer, TheWord, First

(* What is known of every state of the K> prompt, whatever is typed and    *)
(* whichever way the monitor was entered: the line editor's invariant and  *)
(* runcmd's, over the buffer that the two share.                           *)
THEOREM ShellInvariant == ShellSpec => []ShellInv
<1>1. ShellInit => ShellInv
  BY ShellStart
<1>2. ShellInv /\ [ShellNext]_shellVars => ShellInv'
  BY ShellStep
<1> QED
  BY <1>1, <1>2, PTL DEF ShellSpec

(* A command is called with the words of the line as the user edited it,   *)
(* each one whole and ended by a NUL, and with a null pointer after them   *)
(* inside argv (runcmd, kern/monitor.c:97-116), for every line, every size *)
(* of the buffer and every size of argv.                                   *)
THEOREM WordsReachCommand == ShellSpec => []ArgvHoldsWords
  BY ShellInvariant, WordsIntact, PTL

(* A line is answered by the command its first word names, called unknown  *)
(* only when it names none, and refused only when it has too many words    *)
(* (kern/monitor.c:107-126), for all names without white space.             *)
THEOREM AnswersAreRight == ShellSpec => []RightAnswer
  BY ShellInvariant, AnswerRight, PTL

(* readline keeps the promise that Monitor makes of it: every step of the  *)
(* composed prompt is a step of the monitor over a buffer that readline    *)
(* fills as it likes, or leaves the monitor alone.                         *)
THEOREM ShellImplementsMonitor == ShellSpec => Mon!Init /\ [][Mon!Next]_Mon!vars
<1>1. ShellInit => Mon!Init
  BY ShellStart
<1>2. ShellInv /\ [ShellNext]_shellVars => [Mon!Next]_Mon!vars
  BY ShellStep
<1> QED
  BY <1>1, <1>2, ShellInvariant, PTL DEF ShellSpec

(* The line editor's own properties are kept in the composition: the       *)
(* screen shows the line, the line handed over is ended by a NUL, and the  *)
(* prompt is never rubbed out, while runcmd cuts up the same buffer and    *)
(* the kernel prints between two lines.                                    *)
THEOREM EditorInShell ==
  ShellSpec => [](LineTypeOK /\ WhatYouSee) /\ LineTerminated /\ PromptKept
<1>1. ShellInv => LineTypeOK /\ WhatYouSee
  BY DEF ShellInv, LineInv
<1>2. ShellInv /\ [ShellNext]_shellVars => [HandsOver]_vars /\ [KeepsPrompt]_vars
  BY ShellStep
<1> QED
  BY <1>1, <1>2, ShellInvariant, PTL DEF ShellSpec, LineTerminated, PromptKept

-----------------------------------------------------------------------------
(* What is left of runcmd: its stages; the line, of which each character   *)
(* is passed once by one of the two loops, and each word is found once and *)
(* left once; and the commands not yet compared.                           *)
RunStage ==
  CASE pc \in {"gobble", "scan"} -> 3 [] pc = "lookup" -> 2 [] pc = "readline" -> 0
    [] OTHER -> 1

LineLeft ==
  (3 * (Len(line) - p)) + (IF pc = "scan" THEN 1 ELSE IF Mon!InWord(Mon!At(p)) THEN 2 ELSE 0)

CommandsLeft == Len(Mon!commands) - cmd

RunNearer ==
  \/ RunStage' < RunStage
  \/ RunStage' = RunStage /\ LineLeft' < LineLeft
  \/ RunStage' = RunStage /\ LineLeft' = LineLeft /\ CommandsLeft' < CommandsLeft

LEMMA RunFinite ==
  ASSUME RunInv
  PROVE  RunStage \in 0..3 /\ LineLeft \in Nat /\ CommandsLeft \in Nat
<1>1. RunStage \in 0..3
  BY DEF RunStage
<1>2. LineLeft \in Nat
  BY RunNumbers DEF LineLeft
<1>3. CommandsLeft \in Nat
  <2>1. Len(Mon!commands) = 2
    BY TheCommands
  <2>2. cmd \in 0..2
    BY <2>1 DEF RunInv, RunTypeOK
  <2> QED
    BY <2>1, <2>2 DEF CommandsLeft
<1> QED
  BY <1>1, <1>2, <1>3

(* A character is passed. *)
LEMMA PassedNearer ==
  ASSUME RunInv, Mon!Gobble \/ Mon!Scan
  PROVE  RunNearer
<1>1. line' = line /\ p' = p + 1 /\ pc' = pc /\ pc \in {"gobble", "scan"}
  BY DEF Mon!Gobble, Mon!Scan
<1>2. Len(line) \in Nat /\ p \in Nat
  BY RunNumbers
<1>3. RunStage' = RunStage
  BY <1>1 DEF RunStage
<1> DEFINE now  == IF pc = "scan" THEN 1 ELSE IF Mon!InWord(Mon!At(p)) THEN 2 ELSE 0
           then == IF pc' = "scan" THEN 1 ELSE IF Mon!InWord(Mon!At(p))' THEN 2 ELSE 0
<1>4. now \in 0..2 /\ then \in 0..2
  OBVIOUS
<1>5. LineLeft = (3 * (Len(line) - p)) + now /\ LineLeft' = (3 * (Len(line) - (p + 1))) + then
  BY <1>1, Zenon DEF LineLeft
<1> HIDE DEF now, then
<1>6. LineLeft' < LineLeft
  BY <1>2, <1>4, <1>5
<1> QED
  BY <1>3, <1>6 DEF RunNearer

(* A word begins or ends. *)
LEMMA WordNearer ==
  ASSUME RunInv, Mon!SaveArg \/ Mon!WordEnds
  PROVE  RunNearer
<1>1. line' = line /\ p' = p
      /\ \/ pc = "gobble" /\ pc' = "scan" /\ Mon!InWord(buf[p])
         \/ pc = "scan" /\ pc' = "gobble" /\ ~Mon!InWord(buf[p])
  BY DEF Mon!SaveArg, Mon!WordEnds
<1>2. Len(line) \in Nat /\ p \in Nat /\ buf[p] = Mon!At(p)
  BY <1>1, RunNumbers
<1>3. RunStage' = RunStage
  BY <1>1 DEF RunStage
<1>4. Mon!At(p)' = Mon!At(p)
  BY <1>1 DEF Mon!At
<1> DEFINE rest == 3 * (Len(line) - p)
<1>5. rest \in Int
  BY <1>2
<1>6. \/ LineLeft = rest + 2 /\ LineLeft' = rest + 1
      \/ LineLeft = rest + 1 /\ LineLeft' = rest + 0
  BY <1>1, <1>2, <1>4, Zenon DEF LineLeft, Mon!InWord
<1> HIDE DEF rest
<1>7. LineLeft' < LineLeft
  BY <1>5, <1>6
<1> QED
  BY <1>3, <1>7 DEF RunNearer

LEMMA LookupNearer ==
  ASSUME RunInv, Mon!Lookup
  PROVE  RunNearer
<1>1. /\ line' = line /\ p' = p /\ pc = "lookup"
      /\ \/ pc' = "unknown"
         \/ cmd # Len(Mon!commands) /\ pc' = Mon!commands[cmd + 1]
         \/ cmd' = cmd + 1 /\ pc' = pc
  BY DEF Mon!Lookup
<1>2. Len(Mon!commands) = 2
  BY TheCommands
<1>3. cmd \in 0..2
  BY <1>2 DEF RunInv, RunTypeOK
<1>4. RunStage = 2
  BY <1>1 DEF RunStage
<1>5. CASE cmd' = cmd + 1 /\ pc' = pc
  <2>1. RunStage' = RunStage /\ LineLeft' = LineLeft
    BY <1>1, <1>5 DEF RunStage, LineLeft, Mon!At
  <2>2. CommandsLeft = 2 - cmd /\ CommandsLeft' = 2 - (cmd + 1)
    BY <1>2, <1>5, Zenon DEF CommandsLeft, Mon!commands
  <2> QED
    BY <1>3, <2>1, <2>2 DEF RunNearer
<1>6. CASE pc' = "unknown"
  BY <1>4, <1>6 DEF RunStage, RunNearer
<1>7. CASE cmd # Len(Mon!commands) /\ pc' = Mon!commands[cmd + 1]
  <2>1. cmd + 1 = 1 \/ cmd + 1 = 2
    BY <1>2, <1>3, <1>7
  <2>2. pc' = "mon_help" \/ pc' = "mon_kerninfo"
    BY <1>7, <2>1, TheCommands
  <2> QED
    BY <1>4, <2>2 DEF RunStage, RunNearer
<1> QED
  BY <1>1, <1>5, <1>6, <1>7

LEMMA RuncmdNearer ==
  ASSUME RunInv, Mon!runcmd
  PROVE  RunNearer
<1>1. CASE Mon!TooMany \/ Mon!LineEnds
  <2>1. pc = "gobble" /\ (pc' = "too many" \/ pc' = "no words" \/ pc' = "lookup")
    BY <1>1, Zenon DEF Mon!TooMany, Mon!LineEnds
  <2>2. RunStage = 3 /\ (RunStage' = 1 \/ RunStage' = 2)
    BY <2>1 DEF RunStage
  <2> QED
    BY <2>2 DEF RunNearer
<1>2. CASE Mon!Return
  <2>1. pc' = "readline" /\ pc \in Mon!Answers
    BY <1>2 DEF Mon!Return
  <2>2. RunStage = 1 /\ RunStage' = 0
    BY <2>1, TheCommands DEF RunStage
  <2> QED
    BY <2>2 DEF RunNearer
<1> QED
  BY <1>1, <1>2, PassedNearer, WordNearer, LookupNearer DEF Mon!runcmd

(* The monitor's loop: every step of runcmd brings it nearer to its return *)
(* and so to the next prompt, in an order in which nothing goes down for   *)
(* ever, for every line; and nothing else touches the line or runcmd's     *)
(* state in between.  With the fairness of ShellSpec this is Prompts.      *)
THEOREM RuncmdProgresses ==
  ShellSpec =>
    /\ [](RunStage \in 0..3 /\ LineLeft \in Nat /\ CommandsLeft \in Nat)
    /\ [][IF runcmd THEN RunNearer
                    ELSE pc # "readline" => UNCHANGED <<buf, runVars>>]_shellVars
<1>1. ShellInv => RunStage \in 0..3 /\ LineLeft \in Nat /\ CommandsLeft \in Nat
  BY RunFinite DEF ShellInv
<1>2. ASSUME ShellInv, ShellNext
      PROVE  IF runcmd THEN RunNearer ELSE pc # "readline" => UNCHANGED <<buf, runVars>>
  <2>1. CASE runcmd
    BY <1>2, <2>1, RuncmdNearer DEF ShellInv, runcmd
  <2>2. ASSUME ~runcmd, pc # "readline" PROVE UNCHANGED <<buf, runVars>>
    <3>1. at = "kernel"
      BY <1>2, <2>2 DEF ShellInv, RunInv, LineCut
    <3>2. CASE i386_init \/ _panic("User address")
      BY <3>2 DEF i386_init, _panic, EnterMonitor, vars, lineVars
    <3>3. CASE Console
      BY <2>2, <3>3 DEF Console, ConsInit, lineVars
    <3>4. CASE Prompt
      BY <2>2, <3>4 DEF Prompt
    <3>5. ASSUME NEW c \in Input, Type(c) PROVE FALSE
      BY <3>1, <3>5 DEF Type, Typed
    <3> QED
      BY <1>2, <2>2, <3>2, <3>3, <3>4, <3>5 DEF ShellNext
  <2> QED
    BY <2>1, <2>2
<1>3. ShellInv /\ [ShellNext]_shellVars =>
        [IF runcmd THEN RunNearer ELSE pc # "readline" => UNCHANGED <<buf, runVars>>]_shellVars
  BY <1>2
<1> QED
  BY <1>1, <1>3, ShellInvariant, PTL DEF ShellSpec
=============================================================================
