------------------------------ MODULE MCGc9107 ------------------------------
(***************************************************************************)
(* Gc9107 for TLC: the six panels of the demo, three in a row and two      *)
(* rows, of two by one pixels each.                                        *)
(***************************************************************************)
EXTENDS Gc9107

MCMap == [i \in 0 .. 5 |-> [col |-> i % 3, row |-> i \div 3]]

\* The whole screen, one pixel, a column across the rows, a strip over an edge
\* of two panels, and a region outside.
SomeRegions ==
    {[x0 |-> 0, y0 |-> 0, x1 |-> 5, y1 |-> 1], [x0 |-> 3, y0 |-> 1, x1 |-> 3, y1 |-> 1],
     [x0 |-> 4, y0 |-> 0, x1 |-> 4, y1 |-> 2], [x0 |-> 1, y0 |-> 0, x1 |-> 2, y1 |-> 0],
     [x0 |-> 6, y0 |-> 0, x1 |-> 6, y1 |-> 2]}
=============================================================================
