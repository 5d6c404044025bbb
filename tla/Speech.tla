------------------------------- MODULE Speech -------------------------------
(***************************************************************************)
(* What a walkie-talkie promises about speech: one push of the button puts *)
(* the device on air at most once, and only if it was in a room when the   *)
(* push was looked at; letting the button go always takes it off air,      *)
(* whatever became of the room meanwhile.                                  *)
(***************************************************************************)
VARIABLES
    room,           \* the device is in a room
    down,           \* the button is down, or its release is not dealt with yet
    push,           \* how far the push has come: new, granted or dealt with
    onAir           \* speech is being sent

speechVars == <<room, down, push, onAir>>

Init == ~room /\ ~down /\ push = "dealt with" /\ ~onAir

Push == ~down /\ down' = TRUE /\ push' = "new" /\ UNCHANGED <<room, onAir>>

Grant == push = "new" /\ room /\ ~onAir /\ push' = "granted" /\ UNCHANGED <<room, down, onAir>>

Speak == push = "granted" /\ onAir' = TRUE /\ push' = "dealt with" /\ UNCHANGED <<room, down>>

Ignore == push # "dealt with" /\ push' = "dealt with" /\ UNCHANGED <<room, down, onAir>>

LetGo ==
    down /\ push = "dealt with" /\ down' = FALSE /\ onAir' = FALSE /\ UNCHANGED <<room, push>>

Enter == ~room /\ room' = TRUE /\ UNCHANGED <<down, push, onAir>>

\* Whoever closes the room, or gives up entering one, may also stop the speech.
Close == room' = FALSE /\ onAir' \in {onAir, FALSE} /\ UNCHANGED <<down, push>>

Next == Push \/ Grant \/ Speak \/ Ignore \/ LetGo \/ Enter \/ Close

Spec == Init /\ [][Next]_speechVars
=============================================================================
