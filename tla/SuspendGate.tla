---------------------------- MODULE SuspendGate ----------------------------
(***************************************************************************)
(* What suspend and resume of a switch promise the driver that calls them. *)
(* Suspends nest.  While one is outstanding no port has its link up and no *)
(* queue runs on the switch's word; the DMA is rebuilt only then.  Between *)
(* suspensions ports and queues come and go as they like.                  *)
(***************************************************************************)
EXTENDS Naturals

CONSTANT Macs

VARIABLES
    nest,    \* suspends outstanding
    up,      \* the ports whose link is up
    awake,   \* the devices whose queue the switch has woken
    dma      \* the DMA is up

gateVars == <<nest, up, awake, dma>>

Init ==
    /\ nest = 0
    /\ up \in SUBSET Macs /\ awake = {}
    /\ dma = TRUE

(* A suspend closes the gate, whatever was on its way.                     *)
Suspend ==
    /\ nest' = nest + 1
    /\ up' = {} /\ awake' = {}
    /\ UNCHANGED dma

(* A resume lets nothing through by itself: ports and queues come back one *)
(* by one afterwards.                                                      *)
Resume ==
    /\ nest > 0 /\ nest' = nest - 1
    /\ UNCHANGED <<up, awake, dma>>

Traffic ==
    /\ nest = 0
    /\ up' \in SUBSET Macs /\ awake' \in SUBSET Macs
    /\ UNCHANGED <<nest, dma>>

RebuildDma ==
    /\ nest > 0 /\ dma' = ~dma
    /\ UNCHANGED <<nest, up, awake>>

Next == Suspend \/ Resume \/ Traffic \/ RebuildDma

Spec == Init /\ [][Next]_gateVars
=============================================================================
