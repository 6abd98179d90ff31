---------------------------- MODULE MCAr803xPhy ----------------------------
(***************************************************************************)
(* Ar803xPhy with the flags of real boards: a broken PHY with an interrupt *)
(* (7360), a PHY that loses its link all the time (HW190), and one that is *)
(* left alone.                                                             *)
(***************************************************************************)
EXTENDS Ar803xPhy

TwoSpeeds == {0, 2}
Boards == {{"RST", "TIME", "IRQ"}, {"TIME"}, {}}
=============================================================================
