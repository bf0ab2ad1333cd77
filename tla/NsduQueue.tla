----------------------------- MODULE NsduQueue -----------------------------
(***************************************************************************)
(* What the receive path promises its application: a bounded FIFO of whole *)
(* N-SDUs.  Each one delivered is consumed at most once, in the order of   *)
(* delivery, and none is overwritten, torn or lost once delivered.         *)
(***************************************************************************)
EXTENDS Naturals, Sequences

CONSTANTS
    Capacity,       \* the number of N-SDUs the queue holds
    Whole(_)        \* what it is for an N-SDU to be complete

VARIABLE fifo

Init == fifo = << >>

Deliver ==
    /\ Len(fifo) < Capacity
    /\ Len(fifo') = Len(fifo) + 1
    /\ SubSeq(fifo', 1, Len(fifo)) = fifo
    /\ Whole(fifo'[Len(fifo')])

Consume == fifo # << >> /\ fifo' = Tail(fifo)

Next == Deliver \/ Consume

Spec == Init /\ [][Next]_fifo

============================================================================
