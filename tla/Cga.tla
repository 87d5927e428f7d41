-------------------------------- MODULE Cga ---------------------------------
(***************************************************************************)
(* The text display of kern/console.c: cga_init and cga_putc.  crt_buf is  *)
(* the adapter's memory, one cell per character position in row order,     *)
(* crt_pos the driver's cursor and "cursor" the 6845's register pair 14    *)
(* and 15, which places the blinking cursor.                               *)
(*                                                                         *)
(* An int passed to cga_putc is a record of its low byte ch and the        *)
(* attribute byte above it; a cell is such a record too.                   *)
(***************************************************************************)
EXTENDS Integers

CONSTANTS
  CRT_ROWS, CRT_COLS,  \* 25 and 80 in kern/console.h
  Chars, Attrs,        \* the bytes and attributes that are printed
  BiosCells            \* the cells the BIOS may have left on the screen

ASSUME CrtAssumption == CRT_ROWS \in Nat \ {0} /\ CRT_COLS \in Nat \ {0}

ASSUME CharsAssumption ==
  /\ Chars \subseteq 0..255 /\ Attrs \subseteq 0..255
  /\ BiosCells \subseteq [attr : 0..255, ch : 0..255]

VARIABLES
  crt_buf, crt_pos, addr_6845,
  colour,  \* hardware: there is memory at CGA_BUF (else at MONO_BUF)
  cursor   \* hardware: cursor location registers of the 6845

cgaVars == <<crt_buf, crt_pos, addr_6845, colour, cursor>>

CRT_SIZE  == CRT_ROWS * CRT_COLS
CGA_BASE  == 980    \* 0x3D4
MONO_BASE == 948    \* 0x3B4

BS == 8
HT == 9
LF == 10
CR == 13
SP == 32

Positions == 0..CRT_SIZE-1
Cell      == [attr : 0..255, ch : 0..255]
Blank     == [attr |-> 7, ch |-> SP]

(* if (!(c & ~0xFF)) c |= 0x0700 *)
Attr(c) == IF c.attr = 0 THEN 7 ELSE c.attr

(***************************************************************************)
(* cga_init: find the adapter and pick up the BIOS's cursor.  The probe    *)
(* writes one cell of the colour memory and puts it back.                  *)
(***************************************************************************)
cga_init ==
  /\ addr_6845 = 0
  /\ addr_6845' = IF colour THEN CGA_BASE ELSE MONO_BASE
  /\ crt_pos' = cursor
  /\ UNCHANGED <<crt_buf, colour, cursor>>

(***************************************************************************)
(* cga_putc.  Settle is what every call ends with: scroll one line when    *)
(* the cursor has left the screen, then move the hardware cursor.          *)
(***************************************************************************)
(* Mutant: the last line is not cleared. *)
ScrolledUncleared(buf) ==
  [p \in Positions |->
     IF p < CRT_SIZE - CRT_COLS THEN buf[p + CRT_COLS] ELSE buf[p]]

Scrolled(buf) ==
  [p \in Positions |->
     IF p < CRT_SIZE - CRT_COLS THEN buf[p + CRT_COLS] ELSE Blank]

(* Mutant: the screen scrolls one character late. *)
OffLate(pos) == pos > CRT_SIZE

OffScreen(pos) == pos >= CRT_SIZE

Settle(buf, pos) ==
  /\ \/ ~OffScreen(pos) /\ crt_buf' = buf /\ crt_pos' = pos
     \/ OffScreen(pos) /\ crt_buf' = Scrolled(buf) /\ crt_pos' = pos - CRT_COLS
  /\ cursor' = crt_pos'
  /\ UNCHANGED <<addr_6845, colour>>

LineStart(pos) == pos - (pos % CRT_COLS)

Backspace(c) ==
  IF crt_pos > 0
    THEN Settle([crt_buf EXCEPT ![crt_pos - 1] = [attr |-> Attr(c), ch |-> SP]],
                crt_pos - 1)
    ELSE Settle(crt_buf, crt_pos)

LineFeed == Settle(crt_buf, LineStart(crt_pos + CRT_COLS))

CarriageReturn == Settle(crt_buf, LineStart(crt_pos))

Glyph(c) ==
  Settle([crt_buf EXCEPT ![crt_pos] = [attr |-> Attr(c), ch |-> c.ch]],
         crt_pos + 1)

(* Every character but the tab, whose five spaces go through cons_putc. *)
cga_putc(c) ==
  /\ addr_6845 # 0
  /\ \/ c.ch = BS /\ Backspace(c)
     \/ c.ch = LF /\ LineFeed
     \/ c.ch = CR /\ CarriageReturn
     \/ c.ch \notin {BS, LF, CR, HT} /\ Glyph(c)

(* The end of the call that printed a tab, after its five spaces. *)
TabEnd == addr_6845 # 0 /\ Settle(crt_buf, crt_pos)

(* The BIOS left its text and a cursor on the screen. *)
CgaInit ==
  /\ crt_buf \in [Positions -> BiosCells] /\ crt_pos = 0 /\ addr_6845 = 0
  /\ colour \in BOOLEAN /\ cursor \in Positions

Printed == [attr : Attrs, ch : Chars]

CgaNext ==
  \/ cga_init
  \/ \E c \in Printed : cga_putc(c)
  \/ TabEnd

CgaSpec == CgaInit /\ [][CgaNext]_cgaVars

-----------------------------------------------------------------------------
(***************************************************************************)
(* Properties.                                                             *)
(***************************************************************************)

(* The driver's cursor is always on the screen, so that no character is    *)
(* ever written outside the adapter's memory.                              *)
CgaTypeOK ==
  /\ crt_buf \in [Positions -> Cell] /\ crt_pos \in Positions
  /\ addr_6845 \in {0, CGA_BASE, MONO_BASE} /\ colour \in BOOLEAN
  /\ cursor \in Positions

(* The flat buffer, the wrapping at CRT_COLS and the scrolling implement a *)
(* two-dimensional terminal whose cursor is the one the hardware shows.    *)
Screen == [r \in 0..CRT_ROWS-1 |->
             [c \in 0..CRT_COLS-1 |-> crt_buf[r * CRT_COLS + c]]]

DrawnAttrs == (Attrs \ {0}) \cup {7}
DrawnCells == [attr : DrawnAttrs, ch : (Chars \cup {SP}) \ {BS, LF, CR, HT}]

Display == INSTANCE Terminal WITH
  Rows <- CRT_ROWS, Cols <- CRT_COLS, Cells <- DrawnCells,
  Attrs <- DrawnAttrs, Blank <- Blank, screen <- Screen,
  row <- cursor \div CRT_COLS, col <- cursor % CRT_COLS

TerminalSpec == Display!Spec
=============================================================================
