---------------------------- MODULE MCRangeTest ----------------------------
(***************************************************************************)
(* Instances of RangeSend: a TX that hears two peers and sends to one, and *)
(* an RX with more centrals than slots.                                    *)
(***************************************************************************)
EXTENDS RangeSend

CONSTANTS p1, p2

BothRoles == {"TX", "RX"}
TwoPeers  == {p1, p2}
FourIdx   == {0, 1, 2, 3}
=============================================================================
