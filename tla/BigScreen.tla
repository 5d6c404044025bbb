----------------------------- MODULE BigScreen -----------------------------
(***************************************************************************)
(* What the driver of several small panels promises: one big screen.  A    *)
(* drawing fills a region with a new frame, piece by piece and in any      *)
(* order; it is over when the whole region shows the frame.                *)
(***************************************************************************)
EXTENDS Integers

CONSTANT Pixels     \* the positions of the big screen

VARIABLES
    picture,        \* the number of the frame each pixel shows
    frame,          \* the number of the last frame
    drawing         \* the pixels being drawn; {} when nothing is drawn

bigVars == <<picture, frame, drawing>>

Init ==
    /\ picture = [p \in Pixels |-> 0]
    /\ frame = 0
    /\ drawing = {}

\* A drawing begins; one that covers no pixel is over at once.
Start ==
    /\ drawing = {}
    /\ frame' = frame + 1
    /\ drawing' \in SUBSET Pixels
    /\ UNCHANGED picture

Painted(S) == [p \in Pixels |-> IF p \in S THEN frame ELSE picture[p]]

\* A piece is painted, and the drawing goes on or, all painted, is over.
Paint ==
    /\ drawing # {}
    /\ LET S == {p \in Pixels : picture'[p] # picture[p]} IN
       S \subseteq drawing /\ picture' = Painted(S)
    /\ \/ drawing' = drawing
       \/ drawing' = {} /\ \A p \in drawing : picture'[p] = frame
    /\ UNCHANGED frame

\* A pixel is written: no other changes.  Where it lands is not promised.
Dot ==
    /\ drawing = {}
    /\ \E p \in Pixels : picture' = [picture EXCEPT ![p] = picture'[p]]
    /\ UNCHANGED <<frame, drawing>>

Next == Start \/ Paint \/ Dot

Spec == Init /\ [][Next]_bigVars
=============================================================================
