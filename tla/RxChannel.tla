----------------------------- MODULE RxChannel -----------------------------
(***************************************************************************)
(* What a receive queue promises its caller: the packets come out once     *)
(* each, in the order they came in.  A packet that finds the channel full  *)
(* is dropped, which changes nothing.                                      *)
(***************************************************************************)
EXTENDS Integers, Sequences

CONSTANTS Packets, Capacity, NULL

VARIABLES queue,    \* the packets received and not returned, oldest first
          got       \* the packet returned last

Init == queue = << >> /\ got = NULL

Receive(p) ==
    /\ Len(queue) < Capacity
    /\ queue' = Append(queue, p)
    /\ UNCHANGED got

Return ==
    /\ queue # << >>
    /\ got' = Head(queue)
    /\ queue' = Tail(queue)

Next == (\E p \in Packets : Receive(p)) \/ Return

Spec == Init /\ [][Next]_<<queue, got>>
=============================================================================
