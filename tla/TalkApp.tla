------------------------------ MODULE TalkApp ------------------------------
(***************************************************************************)
(* The walkie-talkie application (talkback/src/main.c): device state and   *)
(* role, push to talk, whether it lights the LED (the colours are left     *)
(* out), and the idle work that puts a device in standby to sleep.         *)
(*                                                                         *)
(* Three threads act on the shared variables without a lock: the button    *)
(* thread (both key handlers), the system work queue (the idle work) and   *)
(* the BLE task (the callbacks of the network library ble_talk_network,    *)
(* which is outside this repository).  A callback is one action.  A key    *)
(* handler is several: what it tests and what it does upon the test are    *)
(* steps of their own.  The idle work, of the lowest priority, may be      *)
(* interrupted between any two of its calls.                               *)
(***************************************************************************)
EXTENDS Naturals

CONSTANTS
    PmLimit     \* where the counter of rt_pm_request saturates (255)

ASSUME TalkAssumption == PmLimit \in Nat \ {0}

VARIABLES
    state,          \* env->state; the library's phase is the same
    role,           \* env->role
    is_idle,        \* TRUE while the device is awake, as in the source
    is_talking,
    lit,            \* the last command for the RGB LED is a colour, not black
    work,           \* g_standby_idle_work: none, delayed or queued
    worker,         \* where standby_idle_timeout_handler is
    lcd,            \* the LCD is powered
    pm,             \* requests the application holds on PM_SLEEP_MODE_IDLE
    key,            \* the key event being handled, and how far
    held,           \* KEY2 is held down
    lib_role,       \* library: ble_talk_network_get_role()
    request,        \* library: the command it has not carried out yet
    pending,        \* library: ble_talk_network_is_reconnect_pending()
    reconnecting,   \* library: a reconnection is under way
    sender          \* library: the audio sender runs

powerVars == <<is_idle, lcd, pm>>
libVars   == <<lib_role, request, pending, reconnecting>>
vars == <<state, role, powerVars, is_talking, lit, work, worker, key, held, libVars, sender>>

States  == {"STANDBY", "PAIRING", "WAITING_TALK", "TALKING"}

KeyEvents ==
    ({"KEY1"} \X {"CLICKED", "OTHER"}) \cup
    ({"KEY2"} \X {"PRESSED", "RELEASED", "CLICKED", "LONG_PRESSED"})

\* How far a handler has come: in the lines common to both keys up to the store to
\* is_idle, or upon what it has decided in the lines of its own.
Waking  == {"arm", "submit", "wake", "flag"}
Acting  == {"leave", "reconnect", "start", "store", "switch", "create", "scan", "confirm"}
Stages  == {"common", "request", "own"} \cup Waking \cup Acting
NoKey  == <<<<"none", "none">>, "none">>
KeySteps == (KeyEvents \X Stages) \cup {NoKey}

RoleOf(r) == IF r = "INITIATOR" THEN "MASTER" ELSE "SLAVE"

-----------------------------------------------------------------------------
(* standby_idle_timer_arm and _cancel.  Cancelling takes the work from the *)
(* timer or from the queue, but does not stop a handler that has begun.    *)

standby_idle_timer_arm(st) == work' = IF st = "STANDBY" THEN "delayed" ELSE work

standby_idle_timer_cancel == work' = "none"

-----------------------------------------------------------------------------
Init ==
    /\ state = "STANDBY"
    /\ role = "SLAVE"
    /\ is_idle = TRUE
    /\ is_talking = FALSE
    /\ lit = TRUE
    /\ work = "delayed"
    /\ worker = "rest"
    /\ lcd = TRUE
    /\ pm = 1
    /\ key = NoKey
    /\ held = FALSE
    /\ lib_role = "RECEIVER"
    /\ request = "none"
    /\ pending = FALSE
    /\ reconnecting = FALSE
    /\ sender = FALSE

-----------------------------------------------------------------------------
(* The callbacks of the library.                                           *)

\* Broken variant: no command for the LED when the library begins to pair.
PhaseChangedLedKept(new) ==
    /\ state' = new
    /\ role' = RoleOf(lib_role)
    /\ lit' = (lit \/ new # "PAIRING")
    /\ IF new = "STANDBY" THEN standby_idle_timer_arm(new) ELSE standby_idle_timer_cancel

\* Broken variant: the countdown is not started on the way back to standby.
PhaseChangedNotArmed(new) ==
    /\ state' = new
    /\ role' = RoleOf(lib_role)
    /\ lit' = TRUE
    /\ IF new = "STANDBY" THEN UNCHANGED work ELSE standby_idle_timer_cancel

app_on_phase_changed(new) ==
    /\ state' = new
    /\ role' = RoleOf(lib_role)
    /\ lit' = TRUE
    /\ IF new = "STANDBY" THEN standby_idle_timer_arm(new) ELSE standby_idle_timer_cancel

\* The phase changes the library may report: it has carried out a command, a
\* peer has joined or confirmed, or the room is closed under a receiver.
MayChange(new) ==
    \/ state = "STANDBY" /\ new = "PAIRING" /\ request \in {"create", "scan"}
    \/ state = "STANDBY" /\ new \in {"WAITING_TALK", "TALKING"} /\ reconnecting
    \/ state = "PAIRING" /\ new = "WAITING_TALK"
    \/ state = "WAITING_TALK" /\ new = "TALKING"
       /\ (lib_role = "RECEIVER" \/ request = "confirm")
    \/ state = "TALKING" /\ new = "STANDBY" /\ request = "leave"
    \/ state \in {"WAITING_TALK", "TALKING"} /\ new = "STANDBY" /\ lib_role = "RECEIVER"

\* On its way out of a room the library stops a sender that the application
\* reports as speaking (ops.is_speaking and ops.sender_stop).
PhaseChanged(new) ==
    /\ MayChange(new)
    /\ app_on_phase_changed(new)
    /\ request' = "none"
    /\ reconnecting' = FALSE
    /\ pending' = (lib_role = "RECEIVER" /\ (new = "STANDBY" \/ pending))
    /\ sender' = (sender /\ ~(new = "STANDBY" /\ is_talking))
    /\ UNCHANGED <<powerVars, is_talking, worker, key, held, lib_role>>

\* Pairing has taken too long: the library reports the phase, then calls
\* app_on_pairing_timeout, which stores state and role once more.
PairingTimeout ==
    /\ state = "PAIRING"
    /\ app_on_phase_changed("STANDBY")
    /\ request' = "none"
    /\ UNCHANGED <<powerVars, is_talking, worker, key, held, lib_role, pending, reconnecting,
                   sender>>

\* Broken variant: the countdown is not started.
BackToStandbyNotArmed ==
    /\ state' = "STANDBY"
    /\ lit' = TRUE
    /\ UNCHANGED <<role, work>>

\* app_on_reconnect_timeout and app_on_room_full: back to standby, red.
BackToStandby ==
    /\ state' = "STANDBY"
    /\ lit' = TRUE
    /\ standby_idle_timer_arm("STANDBY")
    /\ UNCHANGED role

app_on_reconnect_timeout ==
    /\ reconnecting
    /\ reconnecting' = FALSE
    /\ BackToStandby
    /\ UNCHANGED <<powerVars, is_talking, worker, key, held, lib_role, request, pending, sender>>

app_on_room_full ==
    /\ state = "PAIRING" /\ lib_role = "RECEIVER"
    /\ request' = "none"
    /\ BackToStandby
    /\ UNCHANGED <<powerVars, is_talking, worker, key, held, lib_role, pending, reconnecting,
                   sender>>

\* app_on_receiver_synced, and app_on_receiver_sync_stopped for the last stream.
\* Neither looks at the state: the indication may come when the room is left.
StreamIndicated ==
    /\ lit' = TRUE
    /\ UNCHANGED <<state, role, powerVars, is_talking, work, worker, key, held, libVars, sender>>

-----------------------------------------------------------------------------
(* standby_idle_timeout_handler, call by call.                             *)

\* Sixty seconds do not pass between a key handler's tests of the state and its
\* store to is_idle, nor in the middle of the idle work.
TimerExpires ==
    /\ work = "delayed"
    /\ key[2] \notin Waking /\ worker = "rest"
    /\ work' = "queued"
    /\ UNCHANGED <<state, role, powerVars, is_talking, lit, worker, key, held, libVars, sender>>

\* Broken variant: the state is not looked at.
CheckNothing ==
    /\ work = "queued" /\ worker = "rest"
    /\ work' = "none"
    /\ worker' = "enter idle"
    /\ UNCHANGED <<state, role, powerVars, is_talking, lit, key, held, libVars, sender>>

CheckStandby ==
    /\ work = "queued" /\ worker = "rest"
    /\ work' = "none"
    /\ worker' = IF state = "STANDBY" THEN "enter idle" ELSE "rest"
    /\ UNCHANGED <<state, role, powerVars, is_talking, lit, key, held, libVars, sender>>

\* ble_talk_network_enter_idle: the library is a receiver again, gives up a
\* reconnection and whatever it has not begun.
EnterIdle ==
    /\ worker = "enter idle"
    /\ worker' = "lcd"
    /\ lib_role' = "RECEIVER"
    /\ request' = "none"
    /\ reconnecting' = FALSE
    /\ UNCHANGED <<state, role, powerVars, is_talking, lit, work, key, held, pending,
                   sender>>

LcdPowerDown ==
    /\ worker = "lcd"
    /\ worker' = "led"
    /\ lcd' = FALSE
    /\ UNCHANGED <<state, role, is_idle, pm, is_talking, lit, work, key, held, libVars, sender>>

LedOff ==
    /\ worker = "led"
    /\ worker' = "role"
    /\ lit' = FALSE
    /\ UNCHANGED <<state, role, powerVars, is_talking, work, key, held, libVars, sender>>

\* Broken variant: env->role is not put back with the library's role.
RoleKept ==
    /\ worker = "role"
    /\ worker' = "release"
    /\ UNCHANGED <<state, role, powerVars, is_talking, lit, work, key, held, libVars, sender>>

RoleSlave ==
    /\ worker = "role"
    /\ worker' = "release"
    /\ role' = "SLAVE"
    /\ UNCHANGED <<state, powerVars, is_talking, lit, work, key, held, libVars, sender>>

\* rt_pm_release does nothing on a mode that nobody has requested.
PmRelease ==
    /\ worker = "release"
    /\ worker' = "flag"
    /\ pm' = IF pm > 0 THEN pm - 1 ELSE 0
    /\ UNCHANGED <<state, role, is_idle, lcd, is_talking, lit, work, key, held, libVars, sender>>

FlagAsleep ==
    /\ worker = "flag"
    /\ worker' = "rest"
    /\ is_idle' = FALSE
    /\ UNCHANGED <<state, role, lcd, pm, is_talking, lit, work, key, held, libVars, sender>>

IdleWork ==
    CheckStandby \/ EnterIdle \/ LcdPowerDown \/ LedOff \/ RoleSlave \/ PmRelease \/ FlagAsleep

-----------------------------------------------------------------------------
(* The key handlers.  Whatever they find out about the state, a callback or  *)
(* the idle work may come before they act on it.                           *)

outsideKey == <<state, role, powerVars, is_talking, lit, work, worker, held, libVars, sender>>

Goes(step) == key' = <<key[1], step>>

\* The button driver reports an action; KEY2 alternates PRESSED and RELEASED.
KeyEvent(k) ==
    /\ key = NoKey
    /\ k[2] = "PRESSED" => ~held
    /\ k[2] \in {"RELEASED", "LONG_PRESSED"} => held
    /\ k = <<"KEY2", "CLICKED">> => ~held
    /\ held' = (k[2] = "PRESSED" \/ (held /\ k[2] # "RELEASED"))
    /\ key' = <<k, "common">>
    /\ UNCHANGED <<state, role, powerVars, is_talking, lit, work, worker, libVars, sender>>

\* The lines both handlers begin with: in standby restart the countdown, where
\* standby_idle_timer_arm looks at the state once more, and wake the device.
KeyTestState ==
    /\ key[2] = "common"
    /\ Goes(IF state = "STANDBY" THEN "arm" ELSE "wake")
    /\ UNCHANGED outsideKey

KeyArm ==
    /\ key[2] = "arm"
    /\ Goes(IF state = "STANDBY" THEN "submit" ELSE "wake")
    /\ UNCHANGED outsideKey

KeySubmit ==
    /\ key[2] = "submit"
    /\ Goes("wake")
    /\ standby_idle_timer_arm("STANDBY")
    /\ UNCHANGED <<state, role, powerVars, is_talking, lit, worker, held, libVars, sender>>

\* is_idle is tested and the LCD powered up in one step: nobody else sets it.
KeyWake ==
    /\ key[2] = "wake"
    /\ \/ is_idle /\ Goes("own") /\ UNCHANGED lcd
       \/ ~is_idle /\ Goes("flag") /\ lcd' = TRUE
    /\ UNCHANGED <<state, role, is_idle, pm, is_talking, lit, work, worker, held, libVars, sender>>

FlagAwake ==
    /\ key[2] = "flag"
    /\ Goes("request")
    /\ is_idle' = TRUE
    /\ UNCHANGED <<state, role, lcd, pm, is_talking, lit, work, worker, held, libVars, sender>>

\* Broken variant: the request released on the way to sleep is not made again.
RequestForgotten ==
    /\ key[2] = "request"
    /\ Goes("own")
    /\ UNCHANGED outsideKey

PmRequest ==
    /\ key[2] = "request"
    /\ Goes("own")
    /\ pm' = IF pm < PmLimit THEN pm + 1 ELSE pm
    /\ UNCHANGED <<state, role, is_idle, lcd, is_talking, lit, work, worker, held, libVars, sender>>

WakeUp == KeyTestState \/ KeyArm \/ KeySubmit \/ KeyWake \/ FlagAwake \/ PmRequest

\* Broken variant: is_talking is not tested.
MayLeaveTalking == state = "TALKING"

MayLeave == state = "TALKING" /\ ~is_talking

MayReconnect == state = "STANDBY" /\ pending

\* ble_app_button_event_handler: a click leaves the room or goes back into one.
Key1 ==
    /\ key[1][1] = "KEY1" /\ key[2] = "own"
    /\ \/ key[1][2] = "CLICKED" /\ MayLeave /\ Goes("leave")
       \/ key[1][2] = "CLICKED" /\ MayReconnect /\ Goes("reconnect")
       \/ ~(key[1][2] = "CLICKED" /\ (MayLeave \/ MayReconnect)) /\ key' = NoKey
    /\ UNCHANGED outsideKey

LeaveRoom ==
    /\ key[2] = "leave"
    /\ key' = NoKey
    /\ request' = "leave"
    /\ is_talking' = FALSE
    /\ UNCHANGED <<state, role, powerVars, lit, work, worker, held, lib_role, pending,
                   reconnecting, sender>>

Reconnect ==
    /\ key[2] = "reconnect"
    /\ key' = NoKey
    /\ lit' = TRUE
    /\ reconnecting' = TRUE
    /\ UNCHANGED <<state, role, powerVars, is_talking, work, worker, held, lib_role, request,
                   pending, sender>>

\* ble_app_key2_event_handler, BUTTON_PRESSED: in a room the handler starts the
\* sender, and stores is_talking when the call has returned.
MayTalk == state = "TALKING" /\ ~is_talking

Key2Pressed ==
    /\ key = <<<<"KEY2", "PRESSED">>, "own">>
    /\ IF MayTalk THEN Goes("start") ELSE key' = NoKey
    /\ UNCHANGED outsideKey

\* Without the sender: ble_app_sender_trigger has failed, or the room is closed
\* meanwhile and has no id any more (the test at main.c:560).
StartSender ==
    /\ key[2] = "start"
    /\ \/ sender' = TRUE /\ Goes("store")
       \/ UNCHANGED sender /\ key' = NoKey
    /\ UNCHANGED <<state, role, powerVars, is_talking, lit, work, worker, held, libVars>>

StoreTalking ==
    /\ key[2] = "store"
    /\ key' = NoKey
    /\ is_talking' = TRUE
    /\ UNCHANGED <<state, role, powerVars, lit, work, worker, held, libVars, sender>>

\* Broken variant: the sender is stopped only while the device is in a room.
ReleasedOnlyInRoom ==
    /\ key = <<<<"KEY2", "RELEASED">>, "own">>
    /\ key' = NoKey
    /\ \/ state = "TALKING" /\ sender' = (sender /\ ~is_talking) /\ is_talking' = FALSE
       \/ state # "TALKING" /\ UNCHANGED <<sender, is_talking>>
    /\ UNCHANGED <<state, role, powerVars, lit, work, worker, held, libVars>>

\* Only this thread writes is_talking: test, ble_app_sender_stop and store are one.
Key2Released ==
    /\ key = <<<<"KEY2", "RELEASED">>, "own">>
    /\ key' = NoKey
    /\ sender' = (sender /\ ~is_talking)
    /\ is_talking' = FALSE
    /\ UNCHANGED <<state, role, powerVars, lit, work, worker, held, libVars>>

OtherRole == IF lib_role = "INITIATOR" THEN "RECEIVER" ELSE "INITIATOR"

Key2Clicked ==
    /\ key = <<<<"KEY2", "CLICKED">>, "own">>
    /\ IF state = "STANDBY" THEN Goes("switch") ELSE key' = NoKey
    /\ UNCHANGED outsideKey

SwitchRole ==
    /\ key[2] = "switch"
    /\ key' = NoKey
    /\ lib_role' = OtherRole
    /\ role' = RoleOf(OtherRole)
    /\ lit' = TRUE
    /\ UNCHANGED <<state, powerVars, is_talking, work, worker, held, request, pending,
                   reconnecting, sender>>

Key2LongPressed ==
    /\ key = <<<<"KEY2", "LONG_PRESSED">>, "own">>
    /\ \/ state = "STANDBY" /\ Goes(IF role = "MASTER" THEN "create" ELSE "scan")
       \/ state = "WAITING_TALK" /\ role = "MASTER" /\ Goes("confirm")
       \/ /\ state # "STANDBY" /\ ~(state = "WAITING_TALK" /\ role = "MASTER")
          /\ key' = NoKey
    /\ UNCHANGED outsideKey

\* ble_talk_network_create_room, _scan_rooms and _confirm_talking.  If the phase
\* has changed meanwhile the library may keep the command until the next change.
Command ==
    /\ key[2] \in {"create", "scan", "confirm"}
    /\ key' = NoKey
    /\ request' = key[2]
    /\ UNCHANGED <<state, role, powerVars, is_talking, lit, work, worker, held, lib_role,
                   pending, reconnecting, sender>>

Keys ==
    \/ \E k \in KeyEvents : KeyEvent(k)
    \/ WakeUp
    \/ Key1 \/ LeaveRoom \/ Reconnect
    \/ Key2Pressed \/ StartSender \/ StoreTalking \/ Key2Released
    \/ Key2Clicked \/ SwitchRole \/ Key2LongPressed \/ Command

Callbacks ==
    \/ \E new \in States : PhaseChanged(new)
    \/ PairingTimeout
    \/ app_on_reconnect_timeout
    \/ app_on_room_full
    \/ StreamIndicated

Next == Callbacks \/ TimerExpires \/ IdleWork \/ Keys

Spec == Init /\ [][Next]_vars

FlagsOK ==
    /\ is_idle \in BOOLEAN
    /\ is_talking \in BOOLEAN
    /\ lit \in BOOLEAN
    /\ lcd \in BOOLEAN
    /\ held \in BOOLEAN
    /\ pending \in BOOLEAN
    /\ reconnecting \in BOOLEAN
    /\ sender \in BOOLEAN

Workers == {"rest", "enter idle", "lcd", "led", "role", "release", "flag"}

TypeOK ==
    /\ FlagsOK
    /\ state \in States
    /\ role \in {"MASTER", "SLAVE"}
    /\ work \in {"none", "delayed", "queued"}
    /\ worker \in Workers
    /\ pm \in 0 .. PmLimit
    /\ key \in KeySteps
    /\ lib_role \in {"INITIATOR", "RECEIVER"}
    /\ request \in {"none", "create", "scan", "confirm", "leave"}

\* The countdown never gets lost: whenever the idle work is not running, a
\* device that is awake in standby has it armed, whatever keys, callbacks and
\* expired timers have crossed.
StandbyTimerRuns ==
    state = "STANDBY" /\ is_idle /\ worker = "rest" => work # "none"

\* Push to talk never sticks: the sender runs, and is_talking is set, only
\* while KEY2 is down or its release is being handled, also when the room is
\* closed in the middle of a word.
PushToTalk ==
    is_talking \/ sender => held \/ key[1] = <<"KEY2", "RELEASED">>

\* is_talking covers the sender: the only moment the sender runs without it is
\* inside the handler that has just started it.
SenderIsKnown ==
    sender => is_talking \/ key[2] = "store"

\* What a handler has decided upon is for its key, and is_talking, which no other
\* thread writes, has not changed since.
DecisionStands ==
    /\ key[2] \in {"start", "store"} => key[1] = <<"KEY2", "PRESSED">>
    /\ key[2] \in {"leave", "start"} => ~is_talking /\ ~sender
    /\ key[2] \in Acting \ {"start", "store"} =>
           key[1] \notin {<<"KEY2", "PRESSED">>, <<"KEY2", "RELEASED">>}

\* README.md:112: a device never leaves its room while its sender runs.
NoLeaveWhileSpeaking ==
    [][request' = "leave" /\ request # "leave" => ~sender]_vars

\* What keeps the countdown alive across a handler that found the device outside
\* standby, at one test or the other, and has not woken it yet.
WakeArmed == key[2] \in {"wake", "flag"} /\ state = "STANDBY" => work = "delayed"

\* A press is handled while the key is down, a release while it is up.
HeldAgrees ==
    /\ key[1] = <<"KEY2", "PRESSED">> => held
    /\ key[1] = <<"KEY2", "RELEASED">> => ~held

\* The inductive invariant of the proofs: no step of any thread breaks it,
\* though it says nothing of how the threads take turns.
TalkInv ==
    TypeOK /\ WakeArmed /\ StandbyTimerRuns /\ HeldAgrees /\ PushToTalk
    /\ SenderIsKnown /\ DecisionStands

\* The callbacks and the handlers of the two keys, step by step, keep the promise
\* of push to talk (module Speech): a push starts the sender at most once, and
\* only after it has found the device in a room; the release stops the sender,
\* even where the room was closed between the test and the start of the sender,
\* or between the start and the store of is_talking.
PushOf ==
    IF key[1] # <<"KEY2", "PRESSED">> \/ key[2] = "store" THEN "dealt with"
    ELSE IF key[2] = "start" THEN "granted" ELSE "new"

SpeechApp == INSTANCE Speech WITH
    room  <- state = "TALKING",
    down  <- held \/ key[1] = <<"KEY2", "RELEASED">>,
    push  <- PushOf,
    onAir <- sender

IsSpeech == SpeechApp!Spec

\* A device left alone in standby goes to sleep (README.md:104): if from some
\* moment on no key is pressed, being awake in standby does not last.
SleepsWhenLeftAlone ==
    <>[](key = NoKey) => [](state = "STANDBY" /\ is_idle => <>(~is_idle \/ state # "STANDBY"))

-----------------------------------------------------------------------------
(* What the README says of sleeping.                                       *)

\* README.md:104: a device sleeps only in standby.
SleepsOnlyInStandby == ~is_idle => state = "STANDBY"

=============================================================================
