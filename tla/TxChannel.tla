----------------------------- MODULE TxChannel -----------------------------
(***************************************************************************)
(* What a transmit queue promises its caller, without a ring: buffers are  *)
(* sent once each and in the order of the calls; from the call until it is *)
(* given back, after it was sent, a buffer belongs to the channel.         *)
(***************************************************************************)
EXTENDS Integers, Sequences

CONSTANTS Bufs, Capacity, NULL

VARIABLES queue,    \* the buffers the channel owns, oldest first
          sent,     \* how many of them were sent
          wire,     \* the buffer sent last
          owned     \* the buffers on the caller's side

vars == <<queue, sent, wire, owned>>

Init == queue = << >> /\ sent = 0 /\ wire = NULL /\ owned = Bufs

Accept(b) ==
    /\ b \in owned
    /\ Len(queue) < Capacity
    /\ queue' = Append(queue, b)
    /\ owned' = owned \ {b}
    /\ UNCHANGED <<sent, wire>>

Transmit ==
    /\ sent < Len(queue)
    /\ wire' = queue[sent + 1]
    /\ sent' = sent + 1
    /\ UNCHANGED <<queue, owned>>

Reclaim ==
    /\ sent > 0
    /\ queue' = Tail(queue)
    /\ sent' = sent - 1
    /\ owned' = owned \cup {Head(queue)}
    /\ UNCHANGED wire

Next == (\E b \in Bufs : Accept(b)) \/ Transmit \/ Reclaim

Spec == Init /\ [][Next]_vars
=============================================================================
