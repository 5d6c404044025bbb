----------------------------- MODULE MCTalkLed -----------------------------
(***************************************************************************)
(* TalkLed with two colours and two different periods, so that the         *)
(* phases of the two LEDs overlap in every way.                            *)
(***************************************************************************)
EXTENDS TalkLed

CONSTANTS black, red, on

TwoColours == {black, red}
TwoIntervals == {0, 4}
TwoCounts  == {0, 2}
=============================================================================
