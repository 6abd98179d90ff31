---------------------------- MODULE MCPceSessions ----------------------------
(***************************************************************************)
(* PceSessions on small instances: of the slots and counters the first is  *)
(* taken at start.                                                         *)
(***************************************************************************)
EXTENDS PceSessions

CONSTANTS h1, h2, b1, b2

TwoHandles == {h1, h2}
OneHandle  == {h1}
TwoBlocks  == {b1, b2}
UpTo1 == 0..1
UpTo2 == 0..2
First == {0}
=============================================================================
