----------------------------- MODULE MCSwi7Port -----------------------------
(***************************************************************************)
(* Swi7Port on small instances.                                            *)
(***************************************************************************)
EXTENDS Swi7Port

CONSTANTS m1, m2

OneMac  == {m1}
TwoMacs == {m1, m2}
SecondMac == {m2}
NoMacs  == {}
TwoSpeeds == {0, 2}
=============================================================================
