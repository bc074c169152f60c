------------------------------ MODULE CharPipe ------------------------------
(***************************************************************************)
(* What a ring buffer of the JTAG UART promises: a bounded queue of           *)
(* characters. They are numbered in the order in which they are put in,       *)
(* modulo Ids, so that the queue always holds consecutive numbers.           *)
(***************************************************************************)
EXTENDS Integers, Sequences

CONSTANTS Capacity, Ids

VARIABLES queue, last

Init == queue = <<>> /\ last = 0

Put(k) == /\ Len(queue) + k <= Capacity
          /\ queue' = queue \o [i \in 1..k |-> (last + i - 1) % Ids]
          /\ last' = (last + k) % Ids

Take(k) == queue' = SubSeq(queue, k + 1, Len(queue)) /\ UNCHANGED last

Next == \/ \E k \in 1..Capacity : Put(k)
        \/ \E k \in 1..Len(queue) : Take(k)

Spec == Init /\ [][Next]_<<queue, last>>
=============================================================================
