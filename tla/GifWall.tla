------------------------------ MODULE GifWall ------------------------------
(***************************************************************************)
(* What the GIF wall promises: a click moves the wall on by one screen at  *)
(* most, from all screens back to one; the first screens play, and the     *)
(* others keep their picture; a screen that joins starts at its beginning. *)
(***************************************************************************)
EXTENDS Naturals

CONSTANTS
    Count,          \* the number of screens
    Frames          \* how many frames an animation has

VARIABLES
    made,           \* the screens that have an animation
    count,          \* how many screens are to play
    playing,        \* those whose animation runs
    frame,          \* the frame each of them shows
    owed            \* clicks that have not moved the wall

wallVars == <<made, count, playing, frame, owed>>

All == 0 .. Count - 1

Init ==
    /\ made \subseteq All /\ playing = made
    /\ count = Count
    /\ frame = [i \in All |-> 0]
    /\ owed = 0

Click == owed' = owed + 1 /\ UNCHANGED <<made, count, playing, frame>>

Move ==
    /\ owed > 0 /\ owed' = owed - 1
    /\ count' = (count % Count) + 1
    /\ playing' = {i \in made : i < count'}
    /\ frame' = [i \in All |-> IF i \in playing' \ playing THEN 0 ELSE frame[i]]
    /\ UNCHANGED made

Play ==
    /\ \E i \in playing : frame' = [frame EXCEPT ![i] = (@ + 1) % Frames]
    /\ UNCHANGED <<made, count, playing, owed>>

Next == Click \/ Move \/ Play

Spec == Init /\ [][Next]_wallVars
=============================================================================
