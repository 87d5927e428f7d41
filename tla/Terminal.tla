------------------------------ MODULE Terminal ------------------------------
(***************************************************************************)
(* What the display promises: a teletype with Rows lines of Cols columns.  *)
(* Typing past the last column continues on the next line, leaving the     *)
(* last line scrolls by one line, and rubbing out walks back over line     *)
(* ends, up to the top left corner.                                        *)
(***************************************************************************)
EXTENDS Naturals

CONSTANTS Rows, Cols, Cells, Attrs, Blank

VARIABLES screen, row, col

Erased(a) == [attr |-> a, ch |-> Blank.ch]

Scrolled(s) ==
  [r \in 0..Rows-1 |-> IF r + 1 < Rows THEN s[r + 1]
                                       ELSE [c \in 0..Cols-1 |-> Blank]]

(* Go to the start of the next line, with s on the screen. *)
LineFeed(s) ==
  /\ col' = 0
  /\ IF row + 1 < Rows
       THEN row' = row + 1 /\ screen' = s
       ELSE row' = row /\ screen' = Scrolled(s)

Type(cell) ==
  LET s == [screen EXCEPT ![row][col] = cell]
  IN  IF col + 1 < Cols
        THEN col' = col + 1 /\ row' = row /\ screen' = s
        ELSE LineFeed(s)

Rubout(a) ==
  \/ /\ col > 0
     /\ col' = col - 1
     /\ row' = row
     /\ screen' = [screen EXCEPT ![row][col - 1] = Erased(a)]
  \/ /\ col = 0
     /\ row > 0
     /\ col' = Cols - 1
     /\ row' = row - 1
     /\ screen' = [screen EXCEPT ![row - 1][Cols - 1] = Erased(a)]

Return == col' = 0 /\ UNCHANGED <<screen, row>>

Next ==
  \/ \E cell \in Cells : Type(cell)
  \/ \E a \in Attrs : Rubout(a)
  \/ LineFeed(screen)
  \/ Return

Init == row \in 0..Rows-1 /\ col \in 0..Cols-1

Spec == Init /\ [][Next]_<<screen, row, col>>
=============================================================================
