---------------------------- MODULE AvmnetModule ----------------------------
(***************************************************************************)
(* What every module of the avmnet tree shares: the MAC modules below the  *)
(* switch and the link status that travels from a PHY up to the switch.    *)
(* Each MAC carries one network device, as in the board configurations.    *)
(***************************************************************************)
EXTENDS Naturals

CONSTANTS
    Macs,         \* the MAC modules, children of the switch module
    SwitchPorts,  \* the MACs with AVMNET_CONFIG_FLAG_SWITCHPORT (fixed link)
    Speeds        \* link speed codes: 0 - 10 MBit, 1 - 100 MBit, 2 - 1 GBit

ASSUME MacsAssumption   == SwitchPorts \subseteq Macs
ASSUME SpeedsAssumption == Speeds \subseteq 0..2 /\ {0, 2} \subseteq Speeds

(* avmnet_linkstatus_t, with the fields the control flow looks at: link,   *)
(* and speed for all those that are only compared and copied to registers. *)
LinkStatus == [link : 0..1, speed : Speeds]

(* status.Status = 0 *)
NoLink == [link |-> 0, speed |-> 0]

(* The states a PHY can report: all fields but link stay 0 without a link. *)
PhyStatus == {NoLink} \cup [link : {1}, speed : Speeds]
=============================================================================
