----------------------------- MODULE InputQueue -----------------------------
(***************************************************************************)
(* What cons_getc promises its callers: the characters received from the   *)
(* devices form one queue, cons_getc hands them out oldest first, each     *)
(* exactly once, and answers 0 only when the queue is empty.  The queue    *)
(* holds fewer than Capacity characters; the one that would make it        *)
(* Capacity long empties it instead, because the two positions of the      *)
(* circular buffer then coincide.  Nothing is queued or handed out before  *)
(* the console is up.                                                      *)
(***************************************************************************)
EXTENDS Naturals, Sequences

CONSTANT Capacity

VARIABLES queue, got, up

Char == 1..255

Init == queue = <<>> /\ got = 0 /\ up = FALSE

Boot ==
  /\ ~up
  /\ up' = TRUE
  /\ UNCHANGED <<queue, got>>

Enqueue ==
  /\ up /\ Len(queue) + 1 < Capacity
  /\ Len(queue') = Len(queue) + 1
  /\ \E c \in Char : queue' = Append(queue, c)
  /\ UNCHANGED <<got, up>>

Overrun ==
  /\ up /\ Len(queue) + 1 = Capacity
  /\ queue' = <<>>
  /\ UNCHANGED <<got, up>>

Dequeue ==
  /\ up /\ queue # <<>>
  /\ got' = Head(queue) /\ queue' = Tail(queue)
  /\ UNCHANGED up

NoneWaiting ==
  /\ up /\ queue = <<>>
  /\ got' = 0
  /\ UNCHANGED <<queue, up>>

(* The machine is reset, which also loses what was queued. *)
Restart ==
  /\ queue' = <<>> /\ got' = 0 /\ up' = FALSE

Next ==
  \/ Boot
  \/ Enqueue
  \/ Overrun
  \/ Dequeue
  \/ NoneWaiting
  \/ Restart

Spec == Init /\ [][Next]_<<queue, got, up>>
=============================================================================
