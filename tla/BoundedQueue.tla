---------------------------- MODULE BoundedQueue ----------------------------
(***************************************************************************)
(* What a byte queue of limited size promises to the one thread that       *)
(* inserts and the one thread that removes: every byte comes out once, in  *)
(* the order in which it went in, and the queue never holds more than Size *)
(* bytes.                                                                  *)
(***************************************************************************)
EXTENDS Naturals, Sequences

CONSTANTS Data, Size

VARIABLES
    queue,   \* the bytes inside, the oldest first
    got      \* the byte the last removal returned

qvars == <<queue, got>>

Init == queue = <<>> /\ got \in Data

Enqueue(d) ==
    /\ Len(queue) < Size
    /\ queue' = Append(queue, d)
    /\ UNCHANGED got

Dequeue ==
    /\ queue # <<>>
    /\ got' = Head(queue)
    /\ queue' = Tail(queue)

Next == (\E d \in Data : Enqueue(d)) \/ Dequeue

Spec == Init /\ [][Next]_qvars
=============================================================================
