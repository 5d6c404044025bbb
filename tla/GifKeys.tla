------------------------------ MODULE GifKeys ------------------------------
(***************************************************************************)
(* The GIF wall (multi-screen_gif/src/screen.c): a key chooses how many of *)
(* the screens play.  The button's thread leaves a click in keypad_status, *)
(* the LVGL thread polls it and hands key and state to the default keypad  *)
(* handler, which switches the screens.                                    *)
(***************************************************************************)
EXTENDS Integers, FiniteSets

CONSTANTS
    Count,          \* the number of screens; 6 in the code
    Frames,         \* how many frames an animation has
    MaxClicks       \* bound: how often the key is clicked

Screens == 0 .. Count - 1

ASSUME GifAssumption == Count \in Nat \ {0} /\ Frames \in Nat \ {0} /\ MaxClicks \in Nat

VARIABLES
    last_key,       \* keypad_status.last_key: "none" until the first click
    last_key_state, \* keypad_status.last_key_state
    last_event,     \* the event the handler saw last
    active_count,
    active,         \* screens[i].active
    timer,          \* screens[i].refresh_timer: "none", "paused" or "running"
    frame,          \* the frame each animation shows
    poll,           \* where the LVGL thread is in a poll of the key
    key, state,     \* the key and the state the poll has read
    clicks, moves   \* clicks of the key, and changes of active_count

wall == <<active_count, active, timer, frame>>
keypad == <<last_key, last_key_state, last_event, poll, key, state>>
vars == <<wall, keypad, clicks, moves>>

\* update_screen_active for one screen: a screen that starts to play starts at its
\* first frame, one that stops keeps the frame it shows.
Update(count) ==
    LET switched == {i \in Screens : active[i] # (i < count)} IN
    /\ active' = [i \in Screens |-> i < count]
    /\ timer' = [i \in Screens |->
                    IF i \notin switched \/ timer[i] = "none" THEN timer[i]
                    ELSE IF i < count THEN "running" ELSE "paused"]
    /\ frame' = [i \in Screens |->
                    IF i \in switched /\ i < count /\ timer[i] # "none" THEN 0 ELSE frame[i]]

\* Broken variant: stopped screens are not paused.
UpdateNotPaused(count) ==
    LET switched == {i \in Screens : active[i] # (i < count)} IN
    /\ active' = [i \in Screens |-> i < count]
    /\ timer' = [i \in Screens |->
                    IF i \in switched /\ timer[i] # "none" /\ i < count THEN "running"
                    ELSE timer[i]]
    /\ frame' = [i \in Screens |->
                    IF i \in switched /\ i < count /\ timer[i] # "none" THEN 0 ELSE frame[i]]

update_screen_active(count) == Update(count)

\* create_multi_screen_ui: the animations are made, some may fail, and all screens
\* are made active.
Init ==
    /\ last_key = "none" /\ last_key_state = "REL" /\ last_event = "REL"
    /\ active_count = Count
    /\ active = [i \in Screens |-> TRUE]
    /\ timer \in [Screens -> {"none", "running"}]
    /\ frame = [i \in Screens |-> 0]
    /\ poll = "rest" /\ key = "none" /\ state = "REL"
    /\ clicks = 0 /\ moves = 0

\* button_event_handler
Clicked ==
    /\ clicks < MaxClicks
    /\ clicks' = clicks + 1
    /\ last_key' = "HOME"
    /\ last_key_state' = "PRESSED"
    /\ UNCHANGED <<wall, last_event, poll, key, state, moves>>

-----------------------------------------------------------------------------
(* A poll of the key, in the LVGL thread                                   *)

\* button_key_read: the key is read, ...
ReadKey ==
    /\ poll = "rest"
    /\ key' = last_key
    /\ poll' = "state"
    /\ UNCHANGED <<wall, last_key, last_key_state, last_event, state, clicks, moves>>

\* ... then the state: a first click between the two has no key yet and is lost, ...
Read ==
    /\ poll = "state"
    /\ state' = IF last_key_state = "REL" THEN "REL" ELSE "PR"
    /\ poll' = IF last_key_state = "REL" THEN "handle" ELSE "reset"
    /\ UNCHANGED <<wall, last_key, last_key_state, last_event, key, clicks, moves>>

\* ... and the click is taken out.
Reset ==
    /\ poll = "reset"
    /\ last_key_state' = "REL"
    /\ poll' = "handle"
    /\ UNCHANGED <<wall, last_key, last_event, key, state, clicks, moves>>

\* Broken variant: the release counts, too.
HandleBothEdges ==
    /\ poll = "handle"
    /\ poll' = "rest"
    /\ last_event' = state
    /\ IF state # last_event
       THEN /\ active_count' = (active_count % Count) + 1
            /\ update_screen_active(active_count')
            /\ moves' = moves + 1
       ELSE UNCHANGED <<wall, moves>>
    /\ UNCHANGED <<last_key, last_key_state, key, state, clicks>>

\* Broken variant: the handler remembers presses only.
HandleNeverReleased ==
    /\ poll = "handle"
    /\ poll' = "rest"
    /\ last_event' = IF state = "PR" THEN "PR" ELSE last_event
    /\ IF state # last_event /\ state = "PR" /\ key = "HOME"
       THEN /\ active_count' = (active_count % Count) + 1
            /\ update_screen_active(active_count')
            /\ moves' = moves + 1
       ELSE UNCHANGED <<wall, moves>>
    /\ UNCHANGED <<last_key, last_key_state, key, state, clicks>>

\* default_keypad_handler: the first poll of a press counts.
default_keypad_handler ==
    /\ poll = "handle"
    /\ poll' = "rest"
    /\ last_event' = state
    /\ IF state # last_event /\ state = "PR" /\ key = "HOME"
       THEN /\ active_count' = (active_count % Count) + 1
            /\ update_screen_active(active_count')
            /\ moves' = moves + 1
       ELSE UNCHANGED <<wall, moves>>
    /\ UNCHANGED <<last_key, last_key_state, key, state, clicks>>

Poll == ReadKey \/ Read \/ Reset \/ default_keypad_handler

\* gif_refresh_timer_cb: the next frame, or the first one after the last.
gif_refresh_timer_cb(i) ==
    /\ poll = "rest" /\ timer[i] = "running"
    /\ frame' = [frame EXCEPT ![i] = (@ + 1) % Frames]
    /\ UNCHANGED <<active_count, active, timer, keypad, clicks, moves>>

-----------------------------------------------------------------------------
Next == Clicked \/ Poll \/ \E i \in Screens : gif_refresh_timer_cb(i)

Spec == Init /\ [][Next]_vars

\* The LVGL thread polls for ever.
LiveSpec == Spec /\ WF_vars(Poll)

-----------------------------------------------------------------------------
TypeOK ==
    /\ last_key \in {"none", "HOME"} /\ last_key_state \in {"REL", "PRESSED"}
    /\ last_event \in {"REL", "PR"}
    /\ active_count \in 1 .. Count
    /\ active \in [Screens -> BOOLEAN]
    /\ timer \in [Screens -> {"none", "paused", "running"}]
    /\ frame \in [Screens -> 0 .. Frames - 1]
    /\ poll \in {"rest", "state", "reset", "handle"}
    /\ key \in {"none", "HOME"} /\ state \in {"REL", "PR"}
    /\ clicks \in Nat /\ moves \in Nat

\* The first active_count screens are the active ones, and of the animations that
\* were made exactly theirs play.
WallShowsCount ==
    \A i \in Screens :
        /\ active[i] <=> i < active_count
        /\ timer[i] # "none" => (timer[i] = "running" <=> active[i])

\* Types (the count stays in its range), and screens, timers and count in step.
WallInv == TypeOK /\ WallShowsCount

\* The number of screens never changes more often than the key was clicked, though
\* a click is seen by several polls.
NoGhostClick == moves <= clicks

\* Key, poll, handler and timers together keep the promise of the wall (module
\* GifWall): however the button's thread and the poll interleave, each move is paid
\* for by a click of its own, and nothing but a move starts or stops an animation.
Wall == INSTANCE GifWall WITH
    made    <- {i \in Screens : timer[i] # "none"},
    count   <- active_count,
    playing <- {i \in Screens : timer[i] = "running"},
    owed    <- clicks - moves

IsWall == Wall!Spec

\* A click that finds the keypad released changes the wall, and the keypad is
\* released again after every click.
ClickTakesEffect ==
    /\ \A n \in 0 .. MaxClicks :
        last_key_state = "PRESSED" /\ last_event = "REL" /\ poll = "rest" /\ moves = n
            ~> moves > n
    /\ last_event = "PR" ~> last_event = "REL"
=============================================================================
