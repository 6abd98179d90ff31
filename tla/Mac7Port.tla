------------------------------ MODULE Mac7Port ------------------------------
(***************************************************************************)
(* The MAC modules of the 7-port switch (switch/ifx/7port/mac_7port.c):    *)
(* suspend counter, the link registers of each MAC and the last status its *)
(* PHY reported.  The actions here are the bodies of the MAC's functions;  *)
(* who calls them, and under which lock, is in Swi7Port.                   *)
(***************************************************************************)
EXTENDS AvmnetModule

VARIABLES
    macSusp,    \* ctx->suspend_cnt
    linkst,     \* PHY_ADDR(mac_nr): LINKST, 1 - UP, 0 - DOWN
    cfgSpeed,   \* the speed bits of PHY_ADDR, MII_CFG and MAC_CTRL
    lastKnown   \* ctx->last_known_state

macVars == <<macSusp, linkst, cfgSpeed, lastKnown>>

MacTypeOK ==
    /\ macSusp \in [Macs -> Nat]
    /\ linkst \in [Macs -> 0..1]
    /\ cfgSpeed \in [Macs -> Speeds]
    /\ lastKnown \in [Macs -> LinkStatus]

(* The LINKST of a MAC that nothing suspends before its PHY has reported.  *)
FixedLink(m) == IF m \in SwitchPorts THEN 1 ELSE 0

(* After setup(): contexts are zeroed, the speed is that of the MAC's mode *)
(* (100 MBit or 1 GBit), and a SWITCHPORT's link is already up at 1 GBit.  *)
MacInit ==
    /\ macSusp = [m \in Macs |-> 0]
    /\ linkst = [m \in Macs |-> FixedLink(m)]
    /\ cfgSpeed \in [Macs -> Speeds \ {0}]
    /\ \A m \in SwitchPorts : cfgSpeed[m] = 2
    /\ lastKnown = [m \in Macs |-> NoLink]

(* Mutant of MacSuspend: the counter runs the wrong way.                   *)
MacSuspendCountsDown(S) ==
    /\ macSusp' = [m \in Macs |-> IF m \in S THEN macSusp[m] - 1 ELSE macSusp[m]]
    /\ linkst' = [m \in Macs |-> IF m \in S /\ macSusp[m] = 0 THEN 0 ELSE linkst[m]]
    /\ UNCHANGED <<cfgSpeed, lastKnown>>

(* avmnet_mac_vr9_suspend on the MACs of S: the first suspend forces the   *)
(* link down.                                                              *)
MacSuspend(S) ==
    /\ macSusp' = [m \in Macs |-> IF m \in S THEN macSusp[m] + 1 ELSE macSusp[m]]
    /\ linkst' = [m \in Macs |-> IF m \in S /\ macSusp[m] = 0 THEN 0 ELSE linkst[m]]
    /\ UNCHANGED <<cfgSpeed, lastKnown>>

(* The MACs of S on which a resume is the last one outstanding.            *)
LastResume(S) == {m \in S : macSusp[m] = 1}

(* Mutant of MacResume: the last known link survives the suspension.       *)
MacResumeKeepsLink(S) ==
    /\ macSusp' = [m \in Macs |-> IF m \in S THEN macSusp[m] - 1 ELSE macSusp[m]]
    /\ linkst' = [m \in Macs |-> IF m \in LastResume(S) \cap SwitchPorts THEN 1 ELSE linkst[m]]
    /\ UNCHANGED <<cfgSpeed, lastKnown>>

(* avmnet_mac_vr9_resume on the MACs of S, none of which has the counter   *)
(* at 0.  The last resume raises a SWITCHPORT's link; any other MAC only   *)
(* forgets the link, so that the next status report programs it again.     *)
MacResume(S) ==
    /\ macSusp' = [m \in Macs |-> IF m \in S THEN macSusp[m] - 1 ELSE macSusp[m]]
    /\ linkst' = [m \in Macs |-> IF m \in LastResume(S) \cap SwitchPorts THEN 1 ELSE linkst[m]]
    /\ lastKnown' = [m \in Macs |->
                       IF m \in LastResume(S) \ SwitchPorts
                       THEN [lastKnown[m] EXCEPT !.link = 0]
                       ELSE lastKnown[m]]
    /\ UNCHANGED cfgSpeed

(* A suspend directly followed by the resume that undoes it.               *)
MacSuspendResume(m) ==
    /\ linkst' = [linkst EXCEPT ![m] = IF macSusp[m] = 0 THEN FixedLink(m) ELSE @]
    /\ lastKnown' = [lastKnown EXCEPT ![m].link =
                       IF macSusp[m] = 0 /\ m \notin SwitchPorts THEN 0 ELSE @]
    /\ UNCHANGED <<macSusp, cfgSpeed>>

(* A resume directly followed by a suspend, on a suspended MAC whose link  *)
(* is not fixed: it forgets the link if the resume was the last one.       *)
ForgetLink(m) ==
    /\ lastKnown' = [lastKnown EXCEPT ![m].link = IF macSusp[m] = 1 THEN 0 ELSE @]
    /\ UNCHANGED <<macSusp, linkst, cfgSpeed>>

(* Mutants: a fixed link follows the PHY; a status raises a suspended link. *)
NeedsSetupAnyPort(m, status) == lastKnown[m] # status
LinkstIgnoresSuspend(m, status) == status.link

(* The condition under which set_status calls setup_mac_speed.             *)
NeedsSetup(m, status) == m \notin SwitchPorts /\ lastKnown[m] # status

(* setup_mac_speed: the LINKST bits it computes, then the register writes. *)
LinkstFor(m, status) == IF macSusp[m] = 0 THEN status.link ELSE 0

SetupMacSpeed(m, up, status) ==
    /\ linkst' = [linkst EXCEPT ![m] = up]
    /\ cfgSpeed' = [cfgSpeed EXCEPT ![m] = status.speed]
    /\ UNCHANGED <<macSusp, lastKnown>>

(* The end of set_status: remember the status, and hand a suspended MAC's  *)
(* status upwards as link down.                                            *)
RecordStatus(m, status) ==
    /\ lastKnown' = [lastKnown EXCEPT ![m] = status]
    /\ UNCHANGED <<macSusp, linkst, cfgSpeed>>

ReportedStatus(m, status) ==
    [status EXCEPT !.link = IF macSusp[m] = 0 THEN @ ELSE 0]
=============================================================================
