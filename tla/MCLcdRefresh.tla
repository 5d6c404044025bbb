---------------------------- MODULE MCLcdRefresh ----------------------------
(***************************************************************************)
(* Instances of LcdRefresh for TLC: six panels of two by one pixels, drawn *)
(* as a whole.                                                             *)
(***************************************************************************)
EXTENDS LcdRefresh

MCMap == [i \in 0 .. 5 |-> [col |-> i % 3, row |-> i \div 3]]

WholeScreen == {[x0 |-> 0, y0 |-> 0, x1 |-> 5, y1 |-> 1]}
=============================================================================
