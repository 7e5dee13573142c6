--------------------------- MODULE MCApplications ---------------------------
(***************************************************************************)
(* The loops of the applications: the forwarders' handling of packets, and *)
(* the statistics of all three programs.  The two models share no state;   *)
(* in a behaviour one of them, part, moves.                                *)
(***************************************************************************)
EXTENDS Forward, Statistics

VARIABLE part

allvars  == <<part, fwdvars, loopvars>>

\* A model that does not move starts in one state only.
AppInit ==
    /\ part \in {"packets", "statistics"}
    /\ FwdInit /\ StatsInit
    /\ part # "statistics" => program = "ixy-pktgen" /\ order[3] < order[4]

AppNext ==
    \/ part = "packets" /\ FwdNext /\ UNCHANGED <<part, loopvars>>
    \/ part = "statistics" /\ LoopNext /\ UNCHANGED <<part, fwdvars>>

\* The fairness of Forward and of Statistics.
AppSpec ==
    /\ AppInit /\ [][AppNext]_allvars
    /\ WF_fwdvars(part = "packets" /\ Main)
    /\ WF_fwdvars(part = "packets" /\ NicEnable /\ UNCHANGED <<main, txqueue>>)
    /\ WF_loopvars(part = "statistics" /\ Loop)
    /\ WF_loopvars(part = "statistics" /\ Second)
-----------------------------------------------------------------------------
\* The forwarder comes back to its receive queue.
KeepsReceiving == part = "packets" => KeepsPolling

\* The reports keep coming, packets or none.
ReportsKeepComing == part = "statistics" => ReportsContinue
=============================================================================
