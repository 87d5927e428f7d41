--------------------------- MODULE ConsInputLoss ----------------------------
(***************************************************************************)
(* ConsInput with the history of the characters that cons_intr put into    *)
(* the circular buffer and cons_getc has not returned yet, to compare the  *)
(* code with the comment above cons_getc: "return the next input character *)
(* from the console, or 0 if none waiting" (kern/console.c:405).           *)
(***************************************************************************)
EXTENDS ConsInput

VARIABLE waiting

WaitingNext ==
  CASE pc \in {"serial", "kbd"} /\ wpos' # wpos /\ pc' = pc ->
         Append(waiting, cons_buf'[wpos])
    [] pc = "grab" /\ pc' = "caller" /\ waiting # <<>> -> Tail(waiting)
    [] pc' = "boot" -> <<>>
    [] OTHER -> waiting

LossInit == Init /\ waiting = <<>>

(* CONSBUFSIZE bounds the history: it is as long when the loss happens. *)
LossNext == /\ Next
            /\ waiting' = WaitingNext
            /\ Len(waiting') <= CONSBUFSIZE

LossSpec == LossInit /\ [][LossNext]_<<vars, waiting>>

(* cons_getc returns the oldest character that was received and not        *)
(* returned yet, and 0 only if there is none.                              *)
NextInputOrNone ==
  [][pc = "grab" /\ pc' = "caller" =>
       got' = IF waiting = <<>> THEN 0 ELSE Head(waiting)]_<<vars, waiting>>
=============================================================================
