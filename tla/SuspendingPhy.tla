--------------------------- MODULE SuspendingPhy ---------------------------
(***************************************************************************)
(* What a PHY that is reset on link failure promises the MAC it asks to    *)
(* suspend: it asks when it fails, once, and takes that back when it       *)
(* leaves the failure, whichever way that happens.  A failure that is      *)
(* found again, and a set-up with a suspend and a resume around it, change *)
(* nothing for the MAC.                                                    *)
(***************************************************************************)
EXTENDS Naturals

VARIABLES
    failed,  \* the PHY is in LINK_FAILED
    held     \* suspends it asked for and has not taken back

phyClientVars == <<failed, held>>

Init == failed = FALSE /\ held = 0

Fails ==
    /\ ~failed /\ failed' = TRUE
    /\ held' = held + 1

Recovers ==
    /\ failed /\ failed' = FALSE
    /\ held > 0 /\ held' = held - 1

Next == Fails \/ Recovers

Spec == Init /\ [][Next]_phyClientVars
=============================================================================
