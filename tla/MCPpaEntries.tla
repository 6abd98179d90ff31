---------------------------- MODULE MCPpaEntries ----------------------------
(***************************************************************************)
(* PpaEntries on small instances.  In the first one every session inserts  *)
(* an outer VLAN and the PPPoE table has an entry to spare, as the tables  *)
(* of the hardware normally have.                                          *)
(***************************************************************************)
EXTENDS PpaEntries, TLC

CONSTANTS s1, s2, s3, k1, k2

TwoSessions   == {s1, s2}
ThreeSessions == {s1, s2, s3}
TwoKeys       == {k1, k2}
SessionSymmetry == Permutations(ThreeSessions)

Offer(d, pppoe, mtu, tunnel, mac, vlan) ==
    [dir |-> d,
     key |-> ("pppoe" :> pppoe @@ "mtu" :> mtu @@ "tunnel" :> tunnel @@ "mac" :> mac @@ "vlan" :> vlan)]

OneEach == [t \in Tables |-> 1]
PppoeToSpare == [OneEach EXCEPT !["pppoe"] = 2]
TwoMacs == [PppoeToSpare EXCEPT !["mac"] = 2]

WithVlan ==
    {Offer("lan", k1, k1, None, k1, k1), Offer("lan", None, k1, k1, k2, k1),
     Offer("lan", k1, k1, k2, k1, k2), Offer("wan", None, k2, None, k1, k1),
     Offer("mc", None, None, None, None, k1), Offer("mc", None, None, None, k2, k1)}

SomeVlan == {Offer("lan", k1, k1, None, k1, k1), Offer("wan", None, k1, None, k1, None),
             Offer("lan", k1, k1, None, k1, k2)}

(* What tells the two instances apart.                                     *)
ASSUME InstancesAssumption ==
    Offers = WithVlan <=> \A t \in {"pppoe", "mac", "vlan"} : Undisturbed(t)
=============================================================================
