----------------------------- MODULE MCTransmit -----------------------------
(***************************************************************************)
(* The transmit queue with either of two clients: one that does whatever   *)
(* the rules allow (it takes, keeps, frees and sends buffers it owns), and *)
(* main of the packet generator.                                           *)
(***************************************************************************)
EXTENDS PktGen

VARIABLE client

allvars == <<client, genvars>>

MCInit == client \in {"any", "ixy-pktgen"} /\ GenInit

MCNext ==
    /\ \/ client = "any" /\ Next /\ UNCHANGED main
       \/ client = "ixy-pktgen" /\ GenNext
    /\ UNCHANGED client

Thread == IF client = "any" THEN TxStep /\ UNCHANGED main ELSE Main

\* The fairness of TxQueue and of PktGen.
MCSpec ==
    /\ MCInit /\ [][MCNext]_allvars
    /\ WF_genvars(Thread)
    /\ WF_genvars(NicTransmit /\ UNCHANGED main)
    /\ WF_genvars(/\ \E k \in WTHRESH .. NUM_TX_QUEUE_ENTRIES - 1 : NicWriteBack(k)
                  /\ UNCHANGED main)
=============================================================================
