--------------------------- MODULE GifKeysProofs ---------------------------
(***************************************************************************)
(* For every number of screens and frames: screens, timers and count stay  *)
(* in step, and no click of the key counts twice.  A click is either still *)
(* to be read, or in the poll in progress, or has been used up; that is    *)
(* what makes the second statement inductive.                              *)
(***************************************************************************)
EXTENDS GifKeys, TLAPS

USE GifAssumption

Unread == IF last_key_state = "PRESSED" /\ poll # "reset" THEN 1 ELSE 0
InPoll == IF poll \in {"reset", "handle"} /\ state = "PR" THEN 1 ELSE 0

ClickInv ==
    /\ poll = "reset" => state = "PR" /\ last_key_state = "PRESSED"
    /\ last_key_state = "PRESSED" => last_key = "HOME"
    /\ moves + Unread + InPoll <= clicks

GifInv == WallInv /\ ClickInv

keys == <<keypad, clicks, moves>>

-----------------------------------------------------------------------------
LEMMA GifInit == Init => GifInv
<1> SUFFICES ASSUME Init PROVE GifInv
  OBVIOUS
<1>1. frame \in [Screens -> 0 .. Frames - 1] /\ active_count \in 1 .. Count
  BY DEF Init
<1>2. WallInv
  BY <1>1 DEF Init, WallInv, TypeOK, WallShowsCount, Screens
<1> QED
  BY <1>2 DEF Init, GifInv, ClickInv, Unread, InPoll

\* The next count, for any number of screens.
LEMMA NextCount ==
  ASSUME NEW n \in 1 .. Count
  PROVE  (n % Count) + 1 \in 1 .. Count
  OBVIOUS

\* The screens follow a new count; those that have no animation are left alone.
LEMMA UpdateStep ==
  ASSUME WallInv, NEW count \in 1 .. Count, update_screen_active(count), active_count' = count
  PROVE  /\ active' \in [Screens -> BOOLEAN]
         /\ timer' \in [Screens -> {"none", "paused", "running"}]
         /\ frame' \in [Screens -> 0 .. Frames - 1]
         /\ WallShowsCount'
<1> DEFINE switched == {i \in Screens : active[i] # (i < count)}
<1>1. /\ active' = [i \in Screens |-> i < count]
      /\ timer' = [i \in Screens |->
                      IF i \notin switched \/ timer[i] = "none" THEN timer[i]
                      ELSE IF i < count THEN "running" ELSE "paused"]
      /\ frame' = [i \in Screens |->
                      IF i \in switched /\ i < count /\ timer[i] # "none" THEN 0 ELSE frame[i]]
  BY DEF update_screen_active, Update
<1>2. 0 \in 0 .. Frames - 1
  OBVIOUS
<1>3. frame' \in [Screens -> 0 .. Frames - 1] /\ timer' \in [Screens -> {"none", "paused", "running"}]
  BY <1>1, <1>2 DEF WallInv, TypeOK
<1>4. active' \in [Screens -> BOOLEAN]
  BY <1>1 DEF Screens
<1>5. WallShowsCount'
  <2> SUFFICES ASSUME NEW i \in Screens
               PROVE  /\ active'[i] <=> i < count
                      /\ timer'[i] # "none" => (timer'[i] = "running" <=> active'[i])
    BY DEF WallShowsCount
  <2>1. active'[i] = (i < count)
    BY <1>1
  <2>2. i \in switched <=> active[i] # (i < count)
    OBVIOUS
  <2>3. active[i] \in BOOLEAN /\ (timer[i] # "none" => (timer[i] = "running" <=> active[i]))
    BY DEF WallInv, TypeOK, WallShowsCount
  <2>4. timer'[i] = IF i \notin switched \/ timer[i] = "none" THEN timer[i]
                    ELSE IF i < count THEN "running" ELSE "paused"
    BY <1>1
  <2> QED
    BY <2>1, <2>2, <2>3, <2>4
<1> QED
  BY <1>3, <1>4, <1>5

\* Steps that leave the wall alone.
LEMMA WallFrame ==
  ASSUME WallInv, UNCHANGED wall,
         last_key' \in {"none", "HOME"}, last_key_state' \in {"REL", "PRESSED"},
         last_event' \in {"REL", "PR"}, poll' \in {"rest", "state", "reset", "handle"},
         key' \in {"none", "HOME"}, state' \in {"REL", "PR"},
         clicks' \in Nat, moves' \in Nat
  PROVE  WallInv'
  BY DEF WallInv, TypeOK, WallShowsCount, wall

LEMMA HandlerStep ==
  ASSUME GifInv, default_keypad_handler
  PROVE  GifInv'
<1>1. /\ poll = "handle" /\ poll' = "rest" /\ last_event' = state
      /\ UNCHANGED <<last_key, last_key_state, key, state, clicks>>
  BY DEF default_keypad_handler
<1>2. CASE state # last_event /\ state = "PR" /\ key = "HOME"
  <2>1. /\ active_count' = (active_count % Count) + 1 /\ moves' = moves + 1
        /\ update_screen_active(active_count')
    BY <1>2 DEF default_keypad_handler
  <2>2. active_count' \in 1 .. Count
    BY <2>1, NextCount DEF GifInv, WallInv, TypeOK
  <2>3. /\ active' \in [Screens -> BOOLEAN]
        /\ timer' \in [Screens -> {"none", "paused", "running"}]
        /\ frame' \in [Screens -> 0 .. Frames - 1] /\ WallShowsCount'
    BY <2>1, <2>2, UpdateStep DEF GifInv
  <2>4. WallInv'
    BY <1>1, <2>1, <2>2, <2>3 DEF GifInv, WallInv, TypeOK
  <2>5. ClickInv'
    BY <1>1, <1>2, <2>1 DEF GifInv, ClickInv, Unread, InPoll, WallInv, TypeOK
  <2> QED
    BY <2>4, <2>5 DEF GifInv
<1>3. CASE ~(state # last_event /\ state = "PR" /\ key = "HOME")
  <2>1. UNCHANGED <<wall, moves>>
    BY <1>3 DEF default_keypad_handler
  <2>2. WallInv'
    BY <1>1, <2>1, WallFrame DEF GifInv, WallInv, TypeOK
  <2>3. ClickInv'
    BY <1>1, <2>1 DEF GifInv, ClickInv, Unread, InPoll, WallInv, TypeOK
  <2> QED
    BY <2>2, <2>3 DEF GifInv
<1> QED
  BY <1>2, <1>3

LEMMA TimerStep ==
  ASSUME GifInv, NEW i \in Screens, gif_refresh_timer_cb(i)
  PROVE  GifInv'
<1>1. /\ frame' = [frame EXCEPT ![i] = (@ + 1) % Frames]
      /\ UNCHANGED <<active_count, active, timer, keys>>
  BY DEF gif_refresh_timer_cb, keypad, keys
<1>2. frame[i] \in Nat /\ (frame[i] + 1) % Frames \in 0 .. Frames - 1
  BY DEF GifInv, WallInv, TypeOK
<1>3. frame' \in [Screens -> 0 .. Frames - 1]
  BY <1>1, <1>2 DEF GifInv, WallInv, TypeOK
<1>4. WallInv'
  BY <1>1, <1>3 DEF GifInv, WallInv, TypeOK, WallShowsCount, keys, keypad
<1>5. ClickInv'
  BY <1>1 DEF GifInv, ClickInv, Unread, InPoll, keys, keypad
<1> QED
  BY <1>4, <1>5 DEF GifInv

LEMMA GifStep == GifInv /\ [Next]_vars => GifInv'
<1> SUFFICES ASSUME GifInv, [Next]_vars PROVE GifInv'
  OBVIOUS
<1>1. CASE Clicked
  <2>1. WallInv'
    BY <1>1, WallFrame DEF Clicked, GifInv, WallInv, TypeOK
  <2>2. ClickInv'
    BY <1>1 DEF Clicked, GifInv, ClickInv, Unread, InPoll, WallInv, TypeOK
  <2> QED
    BY <2>1, <2>2 DEF GifInv
<1>2. CASE ReadKey \/ Read
  <2>1. WallInv'
    BY <1>2, WallFrame DEF ReadKey, Read, GifInv, WallInv, TypeOK
  <2>2. ClickInv'
    BY <1>2 DEF ReadKey, Read, GifInv, ClickInv, Unread, InPoll, WallInv, TypeOK
  <2> QED
    BY <2>1, <2>2 DEF GifInv
<1>3. CASE Reset
  <2>1. WallInv'
    BY <1>3, WallFrame DEF Reset, GifInv, WallInv, TypeOK
  <2>2. ClickInv'
    BY <1>3 DEF Reset, GifInv, ClickInv, Unread, InPoll, WallInv, TypeOK
  <2> QED
    BY <2>1, <2>2 DEF GifInv
<1>4. CASE UNCHANGED vars
  BY <1>4 DEF vars, wall, keypad, GifInv, WallInv, TypeOK, WallShowsCount, ClickInv, Unread, InPoll
<1> QED
  BY <1>1, <1>2, <1>3, <1>4, HandlerStep, TimerStep DEF Next, Poll

-----------------------------------------------------------------------------
THEOREM GifInvariant == Spec => []GifInv
  BY GifInit, GifStep, PTL DEF Spec

\* The first active_count screens are active and exactly their animations play.
THEOREM WallCorrect == Spec => []WallInv
  BY GifInvariant, PTL DEF GifInv

\* However the button's thread and the poll interleave, no click counts twice.
THEOREM ClicksCorrect == Spec => []NoGhostClick
<1>1. GifInv => NoGhostClick
  BY DEF GifInv, ClickInv, Unread, InPoll, NoGhostClick, WallInv, TypeOK
<1> QED
  BY <1>1, GifInvariant, PTL

-----------------------------------------------------------------------------
(* The promise of the wall, step by step.                                  *)

Made == {i \in Screens : timer[i] # "none"}
Playing == {i \in Screens : timer[i] = "running"}

LEMMA WallInit == Init => Wall!Init
<1> SUFFICES ASSUME Init PROVE Wall!Init
  OBVIOUS
<1>1. Made = Playing /\ Made \subseteq Screens
  BY DEF Init, Made, Playing
<1> QED
  BY <1>1 DEF Init, Wall!Init, Wall!All, Made, Playing, Screens

\* A new count makes exactly the animations below it play, and those that join it
\* start anew.
LEMMA UpdateMoves ==
  ASSUME WallInv, NEW count \in 1 .. Count, update_screen_active(count)
  PROVE  /\ Made' = Made /\ Playing' = {i \in Made : i < count}
         /\ frame' = [i \in Screens |-> IF i \in Playing' \ Playing THEN 0 ELSE frame[i]]
<1> DEFINE switched == {i \in Screens : active[i] # (i < count)}
<1>1. /\ timer' = [i \in Screens |->
                      IF i \notin switched \/ timer[i] = "none" THEN timer[i]
                      ELSE IF i < count THEN "running" ELSE "paused"]
      /\ frame' = [i \in Screens |->
                      IF i \in switched /\ i < count /\ timer[i] # "none" THEN 0 ELSE frame[i]]
  BY DEF update_screen_active, Update
<1>2. ASSUME NEW i \in Screens
      PROVE  /\ timer'[i] = "none" <=> timer[i] = "none"
             /\ timer'[i] = "running" <=> timer[i] # "none" /\ i < count
             /\ i \in switched /\ i < count /\ timer[i] # "none"
                  <=> timer'[i] = "running" /\ timer[i] # "running"
  <2>1. timer'[i] = IF i \notin switched \/ timer[i] = "none" THEN timer[i]
                    ELSE IF i < count THEN "running" ELSE "paused"
    BY <1>1
  <2>2. i \in switched <=> active[i] # (i < count)
    OBVIOUS
  <2>3. active[i] \in BOOLEAN /\ (timer[i] # "none" => (timer[i] = "running" <=> active[i]))
    BY DEF WallInv, TypeOK, WallShowsCount
  <2> HIDE DEF switched
  <2> QED
    BY <2>1, <2>2, <2>3
<1> HIDE DEF switched
<1>3. Made' = Made /\ Playing' = {i \in Made : i < count}
  BY <1>2 DEF Made, Playing, Screens
<1>4. \A i \in Screens : i \in Playing' \ Playing
                           <=> i \in switched /\ i < count /\ timer[i] # "none"
  BY <1>2 DEF Playing, Screens
<1> QED
  BY <1>1, <1>3, <1>4

LEMMA WallStep == GifInv /\ [Next]_vars => [Wall!Next]_(Wall!wallVars)
<1> SUFFICES ASSUME GifInv, [Next]_vars PROVE [Wall!Next]_(Wall!wallVars)
  OBVIOUS
<1>1. clicks \in Nat /\ moves \in Nat
  BY DEF GifInv, WallInv, TypeOK
<1>2. Made' = {i \in Screens : timer'[i] # "none"} /\ Playing' = {i \in Screens : timer'[i] = "running"}
  BY DEF Made, Playing, Screens
<1>3. CASE Clicked
  <2>1. /\ clicks' = clicks + 1 /\ moves' = moves /\ UNCHANGED wall
    BY <1>3 DEF Clicked
  <2>2. clicks' - moves' = (clicks - moves) + 1
    BY <1>1, <2>1
  <2>3. Wall!Click
    BY <2>1, <2>2 DEF Wall!Click, wall, Screens
  <2> QED
    BY <2>3 DEF Wall!Next
<1>4. CASE ReadKey \/ Read \/ Reset \/ UNCHANGED vars
  <2>1. UNCHANGED <<wall, clicks, moves>>
    BY <1>4 DEF ReadKey, Read, Reset, vars
  <2> QED
    BY <2>1 DEF Wall!wallVars, wall, Screens
\* The first poll of a press: what InPoll counts is the click that pays for the move.
<1>5. CASE default_keypad_handler /\ state # last_event /\ state = "PR" /\ key = "HOME"
  <2>1. /\ active_count' = (active_count % Count) + 1 /\ update_screen_active(active_count')
        /\ moves' = moves + 1 /\ clicks' = clicks /\ poll = "handle"
    BY <1>5 DEF default_keypad_handler
  <2>2. active_count' \in 1 .. Count
    BY <2>1, NextCount DEF GifInv, WallInv, TypeOK
  <2>3. clicks - moves > 0 /\ clicks' - moves' = (clicks - moves) - 1
    BY <1>1, <1>5, <2>1 DEF GifInv, ClickInv, Unread, InPoll
  <2>4. /\ Made' = Made /\ Playing' = {i \in Made : i < active_count'}
        /\ frame' = [i \in Screens |-> IF i \in Playing' \ Playing THEN 0 ELSE frame[i]]
    BY <2>1, <2>2, UpdateMoves DEF GifInv
  <2>5. Wall!Move
    BY <1>2, <2>1, <2>3, <2>4 DEF Wall!Move, Wall!All, Made, Playing, Screens
  <2> QED
    BY <2>5 DEF Wall!Next
<1>6. CASE default_keypad_handler /\ ~(state # last_event /\ state = "PR" /\ key = "HOME")
  <2>1. UNCHANGED <<wall, clicks, moves>>
    BY <1>6 DEF default_keypad_handler
  <2> QED
    BY <2>1 DEF Wall!wallVars, wall, Screens
<1>7. CASE \E i \in Screens : gif_refresh_timer_cb(i)
  <2> PICK i \in Screens : gif_refresh_timer_cb(i)
    BY <1>7
  <2>1. /\ i \in Playing /\ frame' = [frame EXCEPT ![i] = (@ + 1) % Frames]
        /\ UNCHANGED <<active_count, timer, clicks, moves>>
    BY DEF gif_refresh_timer_cb, Playing
  <2>2. Wall!Play
    BY <2>1 DEF Wall!Play, Playing, Screens
  <2> QED
    BY <2>2 DEF Wall!Next
<1> QED
  BY <1>3, <1>4, <1>5, <1>6, <1>7 DEF Next, Poll

\* Button, poll, handler and timers implement the wall, for any number of screens and
\* frames.
THEOREM IsOneWall == Spec => IsWall
  BY WallInit, WallStep, GifInvariant, PTL DEF Spec, IsWall, Wall!Spec

-----------------------------------------------------------------------------
(* No click is lost that the keypad can see: what ClickTakesEffect needs    *)
(* beside a thread that polls.                                             *)

\* How many steps of the poll a click that will count is from counting; 0 without one.
\* It may come while the poll handles the release of the click before it.
StepsToMove ==
    CASE poll = "handle" /\ state = "REL" /\ last_key_state = "PRESSED" -> 5
      [] poll = "rest" /\ last_key_state = "PRESSED" /\ last_event = "REL" -> 4
      [] poll = "state" /\ key = "HOME" /\ last_key_state = "PRESSED" /\ last_event = "REL" -> 3
      [] poll = "reset" /\ key = "HOME" /\ last_event = "REL" -> 2
      [] poll = "handle" /\ key = "HOME" /\ state = "PR" /\ last_event = "REL" -> 1
      [] OTHER -> 0

\* Whatever clicks and timers come between, such a click comes closer with each step
\* of the poll, is never dropped, and moves the wall with the last.
ClickDescends ==
    [][StepsToMove > 0 =>
        \/ UNCHANGED <<poll, moves>> /\ StepsToMove' = StepsToMove
        \/ StepsToMove' = StepsToMove - 1 /\ StepsToMove' > 0 /\ moves' = moves
        \/ StepsToMove = 1 /\ moves' = moves + 1]_vars

\* A click that finds the keypad released is handled five steps of the poll later at
\* the latest (button_key_read, default_keypad_handler).
THEOREM ClicksTakeEffect == Spec => ClickDescends
<1> DEFINE Closer ==
      \/ UNCHANGED <<poll, moves>> /\ StepsToMove' = StepsToMove
      \/ StepsToMove' = StepsToMove - 1 /\ StepsToMove' > 0 /\ moves' = moves
      \/ StepsToMove = 1 /\ moves' = moves + 1
<1>1. ASSUME GifInv, Next, StepsToMove > 0
      PROVE  Closer
  <2> USE DEF StepsToMove
  <2>1. TypeOK /\ (poll = "reset" => state = "PR" /\ last_key_state = "PRESSED")
        /\ (last_key_state = "PRESSED" => last_key = "HOME")
    BY <1>1 DEF GifInv, WallInv, ClickInv
  <2>2. CASE Clicked
    BY <1>1, <2>1, <2>2 DEF Clicked, wall, TypeOK
  <2>3. CASE ReadKey \/ Read
    BY <1>1, <2>1, <2>3 DEF ReadKey, Read, TypeOK
  <2>4. CASE Reset
    BY <1>1, <2>1, <2>4 DEF Reset, TypeOK
  <2>5. CASE default_keypad_handler
    BY <1>1, <2>1, <2>5 DEF default_keypad_handler, TypeOK
  <2>6. CASE \E i \in Screens : gif_refresh_timer_cb(i)
    BY <2>6 DEF gif_refresh_timer_cb, keypad
  <2> QED
    BY <1>1, <2>2, <2>3, <2>4, <2>5, <2>6 DEF Next, Poll
<1>2. GifInv /\ [Next]_vars => [StepsToMove > 0 => Closer]_vars
  BY <1>1
<1> QED
  BY <1>2, GifInvariant, PTL DEF Spec, ClickDescends
=============================================================================
