--------------------------- MODULE Mac7Port_proofs ---------------------------
(***************************************************************************)
(* What each function of the MAC module does to its state: it keeps the    *)
(* types, a suspended MAC's link stays down, a fixed link stays up, and    *)
(* the registers keep following the last known status.                     *)
(***************************************************************************)
EXTENDS Mac7Port, TLAPS

(* A suspended MAC is down, and a fixed link that nothing suspends is up.  *)
LinkObeysSuspend ==
    \A m \in Macs : /\ macSusp[m] > 0 => linkst[m] = 0
                    /\ m \in SwitchPorts /\ macSusp[m] = 0 => linkst[m] = 1

(* The registers of m say what status says, as far as m is not suspended.  *)
Programmed(m, status) ==
    /\ linkst[m] = 1 <=> status.link = 1 /\ macSusp[m] = 0
    /\ linkst[m] = 1 => cfgSpeed[m] = status.speed

(* Every status is a link status, also the one without a link.             *)
LEMMA NoLinkType == NoLink \in LinkStatus /\ PhyStatus \subseteq LinkStatus
  <1>1. 0 \in Speeds
    BY SpeedsAssumption
  <1>2. NoLink \in LinkStatus
    BY <1>1 DEF NoLink, LinkStatus
  <1>3. [link : {1}, speed : Speeds] \subseteq LinkStatus
    BY DEF LinkStatus
  <1> QED BY <1>2, <1>3 DEF PhyStatus

(* The state after setup() (mac_7port.c:74-338).                           *)
LEMMA MacInitFacts ==
    MacInit => MacTypeOK /\ LinkObeysSuspend /\ \A m \in Macs \ SwitchPorts : Programmed(m, lastKnown[m])
  <1> SUFFICES ASSUME MacInit
               PROVE  /\ MacTypeOK /\ LinkObeysSuspend
                      /\ \A m \in Macs \ SwitchPorts : Programmed(m, lastKnown[m])
    OBVIOUS
  <1>1. MacTypeOK
    BY NoLinkType DEF MacInit, FixedLink, MacTypeOK
  <1>2. LinkObeysSuspend
    <2>1. ASSUME NEW m \in Macs
          PROVE  macSusp[m] = 0 /\ linkst[m] = FixedLink(m)
      BY DEF MacInit
    <2>2. ASSUME NEW m \in Macs
          PROVE  macSusp[m] > 0 => linkst[m] = 0
      BY <2>1
    <2>3. ASSUME NEW m \in SwitchPorts
          PROVE  linkst[m] = 1
      BY <2>1, MacsAssumption DEF FixedLink
    <2> QED BY <2>2, <2>3 DEF LinkObeysSuspend
  <1>3. ASSUME NEW m \in Macs \ SwitchPorts PROVE Programmed(m, lastKnown[m])
    BY DEF MacInit, FixedLink, Programmed, NoLink
  <1> QED BY <1>1, <1>2, <1>3

(* A suspend keeps the types and the link states (mac_7port.c:364-400).    *)
LEMMA MacSuspendFacts ==
    ASSUME MacTypeOK, NEW S \in SUBSET Macs, MacSuspend(S)
    PROVE  /\ MacTypeOK'
           /\ LinkObeysSuspend => LinkObeysSuspend'
           /\ \A m \in Macs : Programmed(m, lastKnown[m]) => Programmed(m, lastKnown[m])'
BY DEF MacTypeOK, MacSuspend, LinkObeysSuspend, Programmed

(* A resume of suspended MACs keeps them too, although it does not look at *)
(* the registers of a MAC whose link is not fixed (mac_7port.c:417-466).   *)
LEMMA MacResumeFacts ==
    ASSUME MacTypeOK, NEW S \in SUBSET Macs, \A m \in S : macSusp[m] > 0, MacResume(S)
    PROVE  /\ MacTypeOK'
           /\ LinkObeysSuspend => LinkObeysSuspend'
           /\ LinkObeysSuspend =>
                \A m \in Macs \ SwitchPorts :
                    Programmed(m, lastKnown[m]) => Programmed(m, lastKnown[m])'
  <1>1. MacTypeOK'
    BY DEF MacTypeOK, MacResume, LastResume, LinkStatus
  <1>2. LinkObeysSuspend => LinkObeysSuspend'
    BY DEF MacTypeOK, MacResume, LastResume, LinkObeysSuspend
  <1>3. ASSUME LinkObeysSuspend, NEW m \in Macs \ SwitchPorts, Programmed(m, lastKnown[m])
        PROVE  Programmed(m, lastKnown[m])'
    <2>1. CASE m \in LastResume(S)
      <3>1. linkst[m] = 0 /\ linkst'[m] = 0
        BY <1>3, <2>1 DEF MacTypeOK, MacResume, LastResume, LinkObeysSuspend
      <3>2. lastKnown'[m].link = 0
        BY <1>3, <2>1 DEF MacTypeOK, MacResume, LinkStatus
      <3> QED BY <3>1, <3>2 DEF Programmed
    <2>2. CASE m \notin LastResume(S)
      BY <1>3, <2>2 DEF MacTypeOK, MacResume, LastResume, Programmed, LinkObeysSuspend
    <2> QED BY <2>1, <2>2
  <1> QED BY <1>1, <1>2, <1>3

(* A PHY's power-up suspends and resumes its MAC: the count stays, and a   *)
(* MAC that was up is down and known to be (avmnet_ar803x.c:1138-1143).    *)
LEMMA MacSuspendResumeFacts ==
    ASSUME MacTypeOK, NEW m \in Macs, MacSuspendResume(m)
    PROVE  /\ MacTypeOK'
           /\ LinkObeysSuspend => LinkObeysSuspend'
           /\ LinkObeysSuspend =>
                \A k \in Macs \ SwitchPorts :
                    Programmed(k, lastKnown[k]) => Programmed(k, lastKnown[k])'
  <1>1. MacTypeOK'
    BY DEF MacTypeOK, MacSuspendResume, FixedLink, LinkStatus
  <1>2. LinkObeysSuspend => LinkObeysSuspend'
    BY DEF MacTypeOK, MacSuspendResume, FixedLink, LinkObeysSuspend
  <1>3. ASSUME LinkObeysSuspend, NEW k \in Macs \ SwitchPorts, Programmed(k, lastKnown[k])
        PROVE  Programmed(k, lastKnown[k])'
    BY <1>3 DEF MacTypeOK, MacSuspendResume, FixedLink,
                Programmed, LinkObeysSuspend, LinkStatus
  <1> QED BY <1>1, <1>2, <1>3

(* A resume and a suspend of a suspended MAC (avmnet_ar803x.c:223, 338).   *)
LEMMA ForgetLinkFacts ==
    ASSUME MacTypeOK, NEW m \in Macs, macSusp[m] > 0, ForgetLink(m)
    PROVE  /\ MacTypeOK'
           /\ LinkObeysSuspend => LinkObeysSuspend'
           /\ LinkObeysSuspend =>
                \A k \in Macs \ SwitchPorts :
                    Programmed(k, lastKnown[k]) => Programmed(k, lastKnown[k])'
BY DEF MacTypeOK, ForgetLink, LinkObeysSuspend, Programmed, LinkStatus

(* Programming a MAC with the LINKST bits its suspend counter allows makes *)
(* the registers say what the status says (mac_7port.c:575-635).           *)
LEMMA SetupMacSpeedFacts ==
    ASSUME MacTypeOK, NEW m \in Macs \ SwitchPorts, NEW status \in LinkStatus,
           NEW up \in 0..1, SetupMacSpeed(m, up, status)
    PROVE  /\ MacTypeOK'
           /\ up = LinkstFor(m, status) =>
                /\ LinkObeysSuspend => LinkObeysSuspend'
                /\ Programmed(m, status)'
           /\ \A k \in Macs \ {m} : Programmed(k, lastKnown[k]) => Programmed(k, lastKnown[k])'
  <1>1. MacTypeOK'
    BY DEF MacTypeOK, SetupMacSpeed, LinkStatus
  <1>2. ASSUME up = LinkstFor(m, status)
        PROVE  (LinkObeysSuspend => LinkObeysSuspend') /\ Programmed(m, status)'
    BY <1>2 DEF MacTypeOK, SetupMacSpeed, LinkstFor, LinkObeysSuspend, Programmed, LinkStatus
  <1>3. \A k \in Macs \ {m} : Programmed(k, lastKnown[k]) => Programmed(k, lastKnown[k])'
    BY DEF MacTypeOK, SetupMacSpeed, Programmed
  <1> QED BY <1>1, <1>2, <1>3
=============================================================================
