--------------------------- MODULE TalkAppProofs ---------------------------
(***************************************************************************)
(* TalkInv is inductive, for every limit of the power-request counter; the *)
(* safety properties of TalkApp follow.                                    *)
(* SleepInv is inductive beside it: as long as the idle work has not been  *)
(* interleaved with anything, the sleep logic is right.                    *)
(***************************************************************************)
EXTENDS TalkDisturbed, TLAPS

USE TalkAssumption

-----------------------------------------------------------------------------
LEMMA InitInv == Init => TalkInv
<1> SUFFICES ASSUME Init PROVE TalkInv
  OBVIOUS
<1>1. FlagsOK
  BY Zenon DEF Init, FlagsOK
<1>2. TypeOK
  BY <1>1 DEF Init, TypeOK, KeySteps, States, Workers
<1> QED
  BY <1>2 DEF Init, TalkInv, WakeArmed, StandbyTimerRuns, HeldAgrees, PushToTalk,
              SenderIsKnown, DecisionStands, NoKey

LEMMA KeyTypes ==
  /\ \A k \in KeyEvents, s \in Stages : <<k, s>> \in KeySteps
  /\ NoKey \in KeySteps
  /\ \A step \in KeySteps : step[2] # "none" => step[1] \in KeyEvents
  BY DEF KeySteps, NoKey

\* A handler that goes on is in one of its stages.
LEMMA StageTypes ==
  ASSUME key \in KeySteps, NEW s \in Stages, Goes(s), key[2] # "none"
  PROVE  key' \in KeySteps
  BY KeyTypes DEF Goes

LEMMA FlagsStep ==
  ASSUME TypeOK, Next
  PROVE  FlagsOK'
<1> USE DEF TypeOK, FlagsOK, powerVars, libVars
<1>1. ASSUME Callbacks PROVE FlagsOK'
  <2>1. ASSUME NEW new \in States, PhaseChanged(new) PROVE FlagsOK'
    BY <2>1, Zenon DEF PhaseChanged, app_on_phase_changed
  <2>2. CASE PairingTimeout
    BY <2>2, Zenon DEF PairingTimeout, app_on_phase_changed
  <2>3. CASE app_on_reconnect_timeout \/ app_on_room_full
    BY <2>3, Zenon DEF app_on_reconnect_timeout, app_on_room_full, BackToStandby
  <2>4. CASE StreamIndicated
    BY <2>4, Zenon DEF StreamIndicated
  <2> QED  BY <1>1, <2>1, <2>2, <2>3, <2>4 DEF Callbacks
<1>2. ASSUME TimerExpires \/ IdleWork PROVE FlagsOK'
  BY <1>2, Zenon DEF TimerExpires, IdleWork, CheckStandby, EnterIdle, LcdPowerDown, LedOff,
       RoleSlave, PmRelease, FlagAsleep
<1>3. ASSUME Keys PROVE FlagsOK'
  <2>1. ASSUME NEW k \in KeyEvents, KeyEvent(k) PROVE FlagsOK'
    BY <2>1, Zenon DEF KeyEvent
  <2>2. CASE WakeUp
    BY <2>2, Zenon DEF WakeUp, KeyTestState, KeyArm, KeySubmit, KeyWake, FlagAwake, PmRequest,
         outsideKey
  <2>3. CASE Key1 \/ LeaveRoom \/ Reconnect
    BY <2>3, Zenon DEF Key1, LeaveRoom, Reconnect, outsideKey
  <2>4. CASE Key2Pressed \/ StartSender \/ StoreTalking \/ Key2Released
    BY <2>4, Zenon DEF Key2Pressed, StartSender, StoreTalking, Key2Released, outsideKey
  <2>5. CASE Key2Clicked \/ SwitchRole \/ Key2LongPressed \/ Command
    BY <2>5, Zenon DEF Key2Clicked, SwitchRole, Key2LongPressed, Command, outsideKey
  <2> QED  BY <1>3, <2>1, <2>2, <2>3, <2>4, <2>5 DEF Keys
<1> QED  BY <1>1, <1>2, <1>3 DEF Next

\* The counter of requests stays within its limits.
LEMMA CounterStep ==
  ASSUME TypeOK, Next
  PROVE  pm' \in 0 .. PmLimit
<1>1. pm \in 0 .. PmLimit
  BY DEF TypeOK
<1>2. \/ UNCHANGED pm
      \/ pm' = IF pm > 0 THEN pm - 1 ELSE 0
      \/ pm' = IF pm < PmLimit THEN pm + 1 ELSE pm
  <2>1. CASE Callbacks
    BY <2>1 DEF Callbacks, PhaseChanged, PairingTimeout, app_on_reconnect_timeout,
         app_on_room_full, StreamIndicated, powerVars
  <2>2. CASE TimerExpires \/ IdleWork
    BY <2>2 DEF TimerExpires, IdleWork, CheckStandby, EnterIdle, LcdPowerDown, LedOff, RoleSlave,
         PmRelease, FlagAsleep, powerVars
  <2>3. CASE Keys
    BY <2>3 DEF Keys, KeyEvent, WakeUp, KeyTestState, KeyArm, KeySubmit, KeyWake, FlagAwake,
         PmRequest, Key1, LeaveRoom, Reconnect, Key2Pressed, StartSender, StoreTalking,
         Key2Released, Key2Clicked, SwitchRole, Key2LongPressed, Command, outsideKey, powerVars
  <2> QED  BY <2>1, <2>2, <2>3 DEF Next
<1> QED  BY <1>1, <1>2

\* The variables that are not Boolean.
LEMMA TypeStep ==
  ASSUME TalkInv, Next
  PROVE  TypeOK'
<1> TypeOK /\ FlagsOK' /\ NoKey \in KeySteps
    /\ pm' \in 0 .. PmLimit
  BY FlagsStep, KeyTypes, CounterStep DEF TalkInv
<1> USE DEF TypeOK, States, powerVars, libVars
<1>1. ASSUME NEW new \in States, app_on_phase_changed(new)
      PROVE  state' \in States /\ role' \in {"MASTER", "SLAVE"}
             /\ work' \in {"none", "delayed", "queued"}
  BY <1>1 DEF app_on_phase_changed, RoleOf, standby_idle_timer_arm, standby_idle_timer_cancel
<1>2. CASE Callbacks
  <2>1. CASE \E new \in States : PhaseChanged(new)
    BY <1>1, <2>1 DEF PhaseChanged
  <2>2. CASE PairingTimeout
    BY <1>1, <2>2 DEF PairingTimeout
  <2>3. CASE app_on_reconnect_timeout \/ app_on_room_full
    BY <2>3 DEF app_on_reconnect_timeout, app_on_room_full, BackToStandby, standby_idle_timer_arm
  <2>4. CASE StreamIndicated
    BY <2>4 DEF StreamIndicated
  <2> QED  BY <1>2, <2>1, <2>2, <2>3, <2>4 DEF Callbacks
<1>3. CASE TimerExpires \/ IdleWork
  <2>1. CASE TimerExpires \/ CheckStandby \/ EnterIdle
    BY <2>1 DEF TimerExpires, CheckStandby, EnterIdle, Workers
  <2>2. CASE LcdPowerDown \/ LedOff
    BY <2>2 DEF LcdPowerDown, LedOff, Workers
  <2>3. CASE RoleSlave
    BY <2>3 DEF RoleSlave, Workers
  <2>4. CASE PmRelease
    <3>1. UNCHANGED <<state, role, work, key, lib_role, request>> /\ worker' = "flag"
      BY <2>4 DEF PmRelease
    <3> QED  BY <3>1 DEF Workers
  <2>5. CASE FlagAsleep
    <3>1. UNCHANGED <<state, role, work, key, lib_role, request>> /\ worker' = "rest"
      BY <2>5, Zenon DEF FlagAsleep
    <3> QED  BY <3>1 DEF Workers
  <2> QED  BY <1>3, <2>1, <2>2, <2>3, <2>4, <2>5 DEF IdleWork
<1>4. CASE Keys
  <2>1. ASSUME NEW k \in KeyEvents, KeyEvent(k) PROVE TypeOK'
    <3>1. key' \in KeySteps
      BY <2>1, KeyTypes DEF KeyEvent, Stages
    <3> QED  BY <2>1, <3>1 DEF KeyEvent
  <2>2. CASE WakeUp
    <3>1. \E s \in Stages : Goes(s) /\ key[2] # "none"
      BY <2>2 DEF WakeUp, KeyTestState, KeyArm, KeySubmit, KeyWake, FlagAwake, PmRequest, Stages,
           Waking
    <3>2. key' \in KeySteps
      BY <3>1, StageTypes
    <3>3. UNCHANGED <<state, role, worker, lib_role, request>>
      BY <2>2 DEF WakeUp, KeyTestState, KeyArm, KeySubmit, KeyWake, FlagAwake, PmRequest, outsideKey
    <3>4. work' \in {"none", "delayed", "queued"}
      BY <2>2 DEF WakeUp, KeyTestState, KeyArm, KeySubmit, KeyWake, FlagAwake, PmRequest,
           outsideKey, standby_idle_timer_arm
    <3> QED  BY <3>2, <3>3, <3>4
  <2>3. CASE Key1 \/ Key2Pressed \/ Key2Clicked \/ Key2LongPressed
    <3>1. key' = NoKey \/ (\E s \in Stages : Goes(s) /\ key[2] # "none")
      BY <2>3 DEF Key1, Key2Pressed, Key2Clicked, Key2LongPressed, Stages, Acting
    <3>2. key' \in KeySteps
      BY <3>1, StageTypes
    <3>3. UNCHANGED outsideKey
      BY <2>3 DEF Key1, Key2Pressed, Key2Clicked, Key2LongPressed
    <3> QED  BY <3>2, <3>3 DEF outsideKey
  <2>4. CASE StartSender
    <3>1. key' = NoKey \/ (Goes("store") /\ key[2] # "none")
      BY <2>4 DEF StartSender
    <3>2. key' \in KeySteps
      BY <3>1, StageTypes DEF Stages, Acting
    <3>3. UNCHANGED <<state, role, work, worker, lib_role, request>>
      BY <2>4 DEF StartSender
    <3> QED  BY <3>2, <3>3
  <2>5. CASE LeaveRoom \/ Reconnect \/ StoreTalking \/ Key2Released
    <3>1. UNCHANGED <<state, role, work, worker, lib_role>> /\ key' = NoKey
          /\ (UNCHANGED request \/ request' = "leave")
      BY <2>5, Zenon DEF LeaveRoom, Reconnect, StoreTalking, Key2Released
    <3> QED  BY <3>1
  <2>6. CASE SwitchRole \/ Command
    BY <2>6 DEF SwitchRole, Command, OtherRole, RoleOf
  <2> QED  BY <1>4, <2>1, <2>2, <2>3, <2>4, <2>5, <2>6 DEF Keys
<1> QED  BY <1>2, <1>3, <1>4 DEF Next

-----------------------------------------------------------------------------
(* The countdown.                                                          *)

LEMMA CountdownStep ==
  ASSUME TalkInv, Next
  PROVE  WakeArmed' /\ StandbyTimerRuns'
<1> USE DEF TalkInv, TypeOK, WakeArmed, StandbyTimerRuns, powerVars, libVars
<1>1. CASE Callbacks
  BY <1>1 DEF Callbacks, PhaseChanged, PairingTimeout, app_on_reconnect_timeout,
       app_on_room_full, StreamIndicated,
       app_on_phase_changed, BackToStandby, standby_idle_timer_arm, standby_idle_timer_cancel
<1>2. CASE TimerExpires
  BY <1>2 DEF TimerExpires, Waking
<1>3. CASE IdleWork
  BY <1>3 DEF IdleWork, CheckStandby, EnterIdle, LcdPowerDown, LedOff, RoleSlave, PmRelease,
       FlagAsleep, Workers
<1>4. CASE \E k \in KeyEvents : KeyEvent(k)
  BY <1>4 DEF KeyEvent
\* The handler wakes the device: it has restarted the countdown itself, or found
\* the device outside standby, and then WakeArmed says who has restarted it.
<1>5. CASE WakeUp
  <2>1. CASE KeyTestState \/ KeyArm
    BY <2>1 DEF KeyTestState, KeyArm, Goes, outsideKey
  <2>2. CASE KeySubmit
    BY <2>2 DEF KeySubmit, Goes, standby_idle_timer_arm
  <2>3. CASE KeyWake
    <3>1. UNCHANGED <<state, is_idle, work, worker>> /\ key[2] = "wake" /\ key'[2] \in {"own", "flag"}
      BY <2>3 DEF KeyWake, Goes
    <3> QED  BY <3>1
  <2>4. CASE FlagAwake
    <3>1. UNCHANGED <<state, work, worker>> /\ key[2] = "flag" /\ key'[2] = "request"
      BY <2>4 DEF FlagAwake, Goes
    <3> QED  BY <3>1
  <2>5. CASE PmRequest
    BY <2>5 DEF PmRequest, Goes
  <2> QED  BY <1>5, <2>1, <2>2, <2>3, <2>4, <2>5 DEF WakeUp
<1>6. CASE Key1 \/ LeaveRoom \/ Reconnect \/ Key2Pressed \/ StartSender \/ StoreTalking
           \/ Key2Released \/ Key2Clicked \/ SwitchRole \/ Key2LongPressed \/ Command
  <2>1. UNCHANGED <<state, is_idle, work, worker>>
    BY <1>6 DEF Key1, LeaveRoom, Reconnect, Key2Pressed, StartSender, StoreTalking, Key2Released,
         Key2Clicked, SwitchRole, Key2LongPressed, Command, outsideKey
  <2>2. key'[2] \notin {"wake", "flag"}
    BY <1>6 DEF Key1, LeaveRoom, Reconnect, Key2Pressed, StartSender, StoreTalking, Key2Released,
         Key2Clicked, SwitchRole, Key2LongPressed, Command, Goes, NoKey
  <2> QED  BY <2>1, <2>2
<1> QED  BY <1>1, <1>2, <1>3, <1>4, <1>5, <1>6 DEF Next, Keys

-----------------------------------------------------------------------------
(* Push to talk.                                                           *)

\* Outside the key handlers only the library may touch the sender, to stop it.
LEMMA OutsideKeys ==
  ASSUME Callbacks \/ TimerExpires \/ IdleWork
  PROVE  UNCHANGED <<key, held, is_talking>> /\ (UNCHANGED sender \/ ~sender')
  BY DEF Callbacks, PhaseChanged, PairingTimeout, app_on_reconnect_timeout,
       app_on_room_full, StreamIndicated, TimerExpires,
       IdleWork, CheckStandby, EnterIdle, LcdPowerDown, LedOff, RoleSlave, PmRelease, FlagAsleep,
       powerVars, libVars

LEMMA TalkingStep ==
  ASSUME TalkInv, Next
  PROVE  HeldAgrees' /\ PushToTalk' /\ SenderIsKnown' /\ DecisionStands'
<1> USE DEF TalkInv, HeldAgrees, PushToTalk, SenderIsKnown, DecisionStands
<1>1. CASE Callbacks \/ TimerExpires \/ IdleWork
  BY <1>1, OutsideKeys
<1>2. CASE \E k \in KeyEvents : KeyEvent(k)
  <2> PICK k \in KeyEvents : KeyEvent(k)
    BY <1>2
  <2>1. key = NoKey /\ key' = <<k, "common">> /\ UNCHANGED <<is_talking, sender>>
    BY DEF KeyEvent
  <2>2. key'[1] = k /\ key'[2] = "common"
    BY <2>1
  <2>3. key[1] # <<"KEY2", "RELEASED">> /\ key[2] = "none"
    BY <2>1 DEF NoKey
  <2>4. (k = <<"KEY2", "PRESSED">> => k[2] = "PRESSED")
        /\ (k[2] = "RELEASED" <=> k = <<"KEY2", "RELEASED">>)
    BY DEF KeyEvents
  <2>5. held' = (k[2] = "PRESSED" \/ (held /\ k[2] # "RELEASED"))
    BY DEF KeyEvent
  <2>6. (k[2] = "PRESSED" => held') /\ (k[2] # "RELEASED" /\ held => held')
        /\ (k[2] = "RELEASED" => k[2] # "PRESSED" /\ ~held')
    BY <2>5, Zenon
  <2>7. HeldAgrees' /\ PushToTalk'
    BY <2>1, <2>2, <2>3, <2>4, <2>6, Zenon
  <2>8. SenderIsKnown' /\ DecisionStands'
    BY <2>1, <2>2, <2>3 DEF Acting
  <2> QED  BY <2>7, <2>8
<1>3. CASE WakeUp
  <2>1. key[2] \in Waking \cup {"common", "request"}
        /\ (\E s \in Waking \cup {"request", "own"} : key' = <<key[1], s>>)
    BY <1>3 DEF WakeUp, KeyTestState, KeyArm, KeySubmit, KeyWake, FlagAwake, PmRequest, Goes, Waking
  <2>2. key'[1] = key[1] /\ key'[2] \in Waking \cup {"request", "own"}
    BY <2>1
  <2>3. UNCHANGED <<held, is_talking, sender>>
    BY <1>3 DEF WakeUp, KeyTestState, KeyArm, KeySubmit, KeyWake, FlagAwake, PmRequest, outsideKey
  <2> QED  BY <2>1, <2>2, <2>3 DEF Waking, Acting
<1>4. CASE Key1
  <2>1. key[1] \notin {<<"KEY2", "PRESSED">>, <<"KEY2", "RELEASED">>} /\ key[2] = "own"
        /\ UNCHANGED <<held, is_talking, sender>>
    BY <1>4 DEF Key1, outsideKey
  <2>2. CASE key' = NoKey
    BY <2>1, <2>2 DEF NoKey, Acting
  <2>3. CASE Goes("leave") /\ MayLeave
    BY <2>1, <2>3 DEF Goes, MayLeave, Acting
  <2>4. CASE Goes("reconnect")
    BY <2>1, <2>4 DEF Goes, Acting
  <2> QED  BY <1>4, <2>2, <2>3, <2>4 DEF Key1
<1>5. CASE LeaveRoom
  BY <1>5 DEF LeaveRoom, NoKey, Acting
<1>6. CASE Reconnect \/ SwitchRole \/ Command
  <2>1. key[2] \in Acting \ {"start", "store"} /\ key' = NoKey /\ UNCHANGED <<held, is_talking, sender>>
    BY <1>6 DEF Reconnect, SwitchRole, Command, Acting
  <2> QED  BY <2>1 DEF NoKey, Acting
<1>7. CASE Key2Pressed
  <2>1. key = <<<<"KEY2", "PRESSED">>, "own">> /\ UNCHANGED <<held, is_talking, sender>>
    BY <1>7 DEF Key2Pressed, outsideKey
  <2>2. CASE key' = NoKey
    BY <2>1, <2>2 DEF NoKey, Acting
  <2>3. CASE MayTalk /\ Goes("start")
    BY <2>1, <2>3 DEF Goes, MayTalk, Acting
  <2> QED  BY <1>7, <2>2, <2>3 DEF Key2Pressed
<1>8. CASE StartSender
  BY <1>8 DEF StartSender, Goes, NoKey, Acting
<1>9. CASE StoreTalking
  BY <1>9 DEF StoreTalking, NoKey, Acting
<1>10. CASE Key2Released
  BY <1>10 DEF Key2Released, NoKey, Acting
<1>11. CASE Key2Clicked \/ Key2LongPressed
  <2>1. key[1] \notin {<<"KEY2", "PRESSED">>, <<"KEY2", "RELEASED">>} /\ key[2] = "own"
        /\ UNCHANGED <<held, is_talking, sender>>
    BY <1>11 DEF Key2Clicked, Key2LongPressed, outsideKey
  <2>2. key' = NoKey \/ (\E s \in {"switch", "create", "scan", "confirm"} : key' = <<key[1], s>>)
    BY <1>11 DEF Key2Clicked, Key2LongPressed, Goes
  <2> QED  BY <2>1, <2>2 DEF NoKey, Acting
<1> QED  BY <1>1, <1>2, <1>3, <1>4, <1>5, <1>6, <1>7, <1>8, <1>9, <1>10, <1>11 DEF Next, Keys

-----------------------------------------------------------------------------
(* The theorems.                                                           *)

\* A step of no thread, alone, keeps everything.
LEMMA StutterStep ==
  ASSUME TalkInv, UNCHANGED vars
  PROVE  TalkInv'
  BY DEF TalkInv, TypeOK, FlagsOK, WakeArmed, StandbyTimerRuns, HeldAgrees, PushToTalk,
         SenderIsKnown, DecisionStands, vars, powerVars, libVars

\* TalkInv holds in every state of every behaviour of the application.
THEOREM TalkInvariant == Spec => []TalkInv
<1>1. TalkInv /\ [Next]_vars => TalkInv'
  <2> SUFFICES ASSUME TalkInv, [Next]_vars PROVE TalkInv'
    OBVIOUS
  <2>1. CASE Next
    BY <2>1, TypeStep, CountdownStep, TalkingStep DEF TalkInv
  <2>2. CASE UNCHANGED vars
    BY <2>2, StutterStep
  <2> QED  BY <2>1, <2>2
<1> QED  BY InitInv, <1>1, PTL DEF Spec

\* The variables of the application and of the library stay in their types.
THEOREM TypeCorrect == Spec => []TypeOK
<1>1. TalkInv => TypeOK
  BY DEF TalkInv
<1> QED  BY TalkInvariant, <1>1, PTL

\* The countdown to sleep is never lost (standby_idle_timer_arm and _cancel).
THEOREM CountdownRuns == Spec => []StandbyTimerRuns
<1>1. TalkInv => StandbyTimerRuns
  BY DEF TalkInv
<1> QED  BY TalkInvariant, <1>1, PTL

\* Speech ends with the release of KEY2 (ble_app_key2_event_handler).
THEOREM TalkOnlyWhilePushed == Spec => []PushToTalk
<1>1. TalkInv => PushToTalk
  BY DEF TalkInv
<1> QED  BY TalkInvariant, <1>1, PTL

\* is_talking covers the audio sender.
THEOREM SenderCovered == Spec => []SenderIsKnown
<1>1. TalkInv => SenderIsKnown
  BY DEF TalkInv
<1> QED  BY TalkInvariant, <1>1, PTL

\* KEY1 never takes a device out of its room while its sender runs.
THEOREM SpeakerStays == Spec => NoLeaveWhileSpeaking
<1>1. TalkInv /\ [Next]_vars => [request' = "leave" /\ request # "leave" => ~sender]_vars
  <2> SUFFICES ASSUME TalkInv, Next, request' = "leave", request # "leave" PROVE ~sender
    BY DEF vars
  <2>1. CASE Callbacks \/ TimerExpires \/ IdleWork
    BY <2>1 DEF Callbacks, PhaseChanged, PairingTimeout, app_on_reconnect_timeout,
         app_on_room_full, StreamIndicated, TimerExpires, IdleWork, CheckStandby, EnterIdle,
         LcdPowerDown, LedOff, RoleSlave, PmRelease, FlagAsleep, libVars
  <2>2. CASE Keys
    <3>1. LeaveRoom
      BY <2>2 DEF Keys, KeyEvent, WakeUp, KeyTestState, KeyArm, KeySubmit, KeyWake, FlagAwake,
           PmRequest, Key1, Reconnect, Key2Pressed, StartSender, StoreTalking, Key2Released,
           Key2Clicked, SwitchRole, Key2LongPressed, Command, outsideKey, libVars
    <3> QED  BY <3>1 DEF LeaveRoom, TalkInv, DecisionStands
  <2> QED  BY <2>1, <2>2 DEF Next
<1> QED  BY TalkInvariant, <1>1, PTL DEF Spec, NoLeaveWhileSpeaking

-----------------------------------------------------------------------------
(* The promise of push to talk, step by step.                              *)

LEMMA SpeechInit == Init => SpeechApp!Init
  BY DEF Init, SpeechApp!Init, NoKey, PushOf

\* Whatever closes, opens or leaves the room for a state of another name.
LEMMA SpeechRoom ==
  ASSUME TalkInv, state' \in States, sender' \in BOOLEAN, UNCHANGED <<key, held>>,
         UNCHANGED sender \/ (~sender' /\ state' = "STANDBY")
  PROVE  [SpeechApp!Next]_SpeechApp!speechVars
<1>1. sender \in BOOLEAN
  BY DEF TalkInv, TypeOK, FlagsOK
<1>2. CASE state' = "TALKING" /\ state # "TALKING"
  <2>1. SpeechApp!Enter
    BY <1>2 DEF SpeechApp!Enter, PushOf
  <2> QED  BY <2>1 DEF SpeechApp!Next
<1>3. CASE state' = "TALKING" /\ state = "TALKING"
  BY <1>3 DEF SpeechApp!speechVars, PushOf
<1>4. CASE state' # "TALKING"
  <2>1. sender' \in {sender, FALSE}
    BY <1>1
  <2>2. (state' = "TALKING") = FALSE
    BY <1>4
  <2>3. SpeechApp!Close
    BY <2>1, <2>2 DEF SpeechApp!Close, PushOf
  <2> QED  BY <2>3 DEF SpeechApp!Next
<1> QED  BY <1>2, <1>3, <1>4

LEMMA SpeechStep ==
  ASSUME TalkInv, TalkInv', [Next]_vars
  PROVE  [SpeechApp!Next]_SpeechApp!speechVars
<1> USE DEF SpeechApp!Next, SpeechApp!speechVars, powerVars, libVars
<1> sender \in BOOLEAN /\ is_talking \in BOOLEAN /\ held \in BOOLEAN /\ sender' \in BOOLEAN
    /\ state' \in States
  BY DEF TalkInv, TypeOK, FlagsOK
<1>1. CASE Callbacks \/ TimerExpires \/ IdleWork
  <2>1. UNCHANGED <<key, held>>
    BY <1>1, OutsideKeys
  <2>2. UNCHANGED sender \/ (~sender' /\ state' = "STANDBY")
    BY <1>1 DEF Callbacks, PhaseChanged, app_on_phase_changed, PairingTimeout,
       app_on_reconnect_timeout, app_on_room_full, StreamIndicated, TimerExpires,
       IdleWork, CheckStandby, EnterIdle, LcdPowerDown, LedOff, RoleSlave, PmRelease, FlagAsleep
  <2> QED  BY <2>1, <2>2, SpeechRoom
<1>2. ASSUME NEW k \in KeyEvents, KeyEvent(k) PROVE SpeechApp!Push \/ UNCHANGED SpeechApp!speechVars
  <2>1. key = NoKey /\ key' = <<k, "common">> /\ UNCHANGED <<state, sender>>
    BY <1>2 DEF KeyEvent
  <2>2. key[1] = <<"none", "none">> /\ key'[1] = k /\ key'[2] = "common"
    BY <2>1 DEF NoKey
  <2>3. /\ k[2] = "PRESSED" <=> k = <<"KEY2", "PRESSED">>
        /\ k[2] = "RELEASED" <=> k = <<"KEY2", "RELEASED">>
    BY DEF KeyEvents
  <2>4. /\ k[2] = "PRESSED" => ~held /\ held'
        /\ k[2] = "RELEASED" => held /\ ~held'
        /\ k[2] # "PRESSED" /\ k[2] # "RELEASED" => (held' <=> held)
    <3>1. held' = (k[2] = "PRESSED" \/ (held /\ k[2] # "RELEASED"))
      BY <1>2 DEF KeyEvent
    <3>2. (k[2] = "PRESSED" => ~held) /\ (k[2] \in {"RELEASED", "LONG_PRESSED"} => held)
      BY <1>2 DEF KeyEvent
    <3> QED  BY <3>1, <3>2, Zenon
  <2>5. CASE k[2] = "PRESSED"
    <3>1. SpeechApp!Push
      BY <2>1, <2>2, <2>3, <2>4, <2>5 DEF SpeechApp!Push, PushOf
    <3> QED  BY <3>1
  <2>6. CASE k[2] # "PRESSED"
    BY <2>1, <2>2, <2>3, <2>4, <2>6 DEF PushOf
  <2> QED  BY <2>5, <2>6
<1>3. CASE WakeUp
  <2>1. key[2] \in Waking \cup {"common", "request"}
        /\ (\E s \in Waking \cup {"request", "own"} : key' = <<key[1], s>>)
    BY <1>3 DEF WakeUp, KeyTestState, KeyArm, KeySubmit, KeyWake, FlagAwake, PmRequest, Goes, Waking
  <2>2. key'[1] = key[1] /\ key'[2] \in Waking \cup {"request", "own"}
    BY <2>1
  <2>3. UNCHANGED <<state, held, sender>>
    BY <1>3 DEF WakeUp, KeyTestState, KeyArm, KeySubmit, KeyWake, FlagAwake, PmRequest, outsideKey
  <2>4. UNCHANGED PushOf
    BY <2>1, <2>2 DEF PushOf, Waking
  <2> QED  BY <2>2, <2>3, <2>4
\* The keys that have nothing to do with speech.
<1>4. CASE Key1 \/ LeaveRoom \/ Reconnect \/ Key2Clicked \/ SwitchRole \/ Key2LongPressed
           \/ Command
  <2>1. key[1] \notin {<<"KEY2", "PRESSED">>, <<"KEY2", "RELEASED">>}
    BY <1>4 DEF Key1, LeaveRoom, Reconnect, Key2Clicked, SwitchRole, Key2LongPressed, Command,
         TalkInv, DecisionStands, Acting
  <2>2. key'[1] = key[1] \/ key' = NoKey
    BY <1>4 DEF Key1, LeaveRoom, Reconnect, Key2Clicked, SwitchRole, Key2LongPressed, Command, Goes
  <2>3. key'[1] \notin {<<"KEY2", "PRESSED">>, <<"KEY2", "RELEASED">>}
    BY <2>1, <2>2 DEF NoKey
  <2>4. UNCHANGED <<state, held, sender>>
    BY <1>4 DEF Key1, LeaveRoom, Reconnect, Key2Clicked, SwitchRole, Key2LongPressed, Command,
         outsideKey
  <2> QED  BY <2>1, <2>3, <2>4 DEF PushOf
\* MayTalk: is_talking is not set, so the sender does not run (SenderIsKnown).
<1>5. CASE Key2Pressed
  <2>1. key = <<<<"KEY2", "PRESSED">>, "own">> /\ UNCHANGED <<state, held, sender>>
    BY <1>5 DEF Key2Pressed, outsideKey
  <2>2. CASE MayTalk /\ Goes("start")
    <3>1. ~sender
      BY <2>1, <2>2 DEF TalkInv, SenderIsKnown, MayTalk
    <3>2. SpeechApp!Grant
      BY <2>1, <2>2, <3>1 DEF SpeechApp!Grant, MayTalk, PushOf, Goes
    <3> QED  BY <3>2
  <2>3. CASE key' = NoKey
    <3>1. SpeechApp!Ignore
      BY <2>1, <2>3 DEF SpeechApp!Ignore, NoKey, PushOf
    <3> QED  BY <3>1
  <2> QED  BY <1>5, <2>2, <2>3 DEF Key2Pressed
<1>6. CASE StartSender
  <2>1. key[1] = <<"KEY2", "PRESSED">> /\ key[2] = "start" /\ UNCHANGED <<state, held>>
    BY <1>6 DEF StartSender, TalkInv, DecisionStands
  <2>2. CASE sender' = TRUE /\ Goes("store")
    <3>1. SpeechApp!Speak
      BY <2>1, <2>2 DEF SpeechApp!Speak, PushOf, Goes
    <3> QED  BY <3>1
  <2>3. CASE UNCHANGED sender /\ key' = NoKey
    <3>1. SpeechApp!Ignore
      BY <2>1, <2>3 DEF SpeechApp!Ignore, NoKey, PushOf
    <3> QED  BY <3>1
  <2> QED  BY <1>6, <2>2, <2>3 DEF StartSender
<1>7. CASE StoreTalking
  BY <1>7 DEF StoreTalking, NoKey, PushOf, TalkInv, DecisionStands
<1>8. CASE Key2Released
  <2>1. key[1] = <<"KEY2", "RELEASED">> /\ key' = NoKey /\ UNCHANGED <<state, held>> /\ ~held
    BY <1>8 DEF Key2Released, TalkInv, HeldAgrees
  <2>2. ~sender'
    BY <1>8 DEF Key2Released, TalkInv, SenderIsKnown
  <2>3. SpeechApp!LetGo
    BY <2>1, <2>2 DEF SpeechApp!LetGo, NoKey, PushOf
  <2> QED  BY <2>3
<1>9. CASE UNCHANGED vars
  BY <1>9 DEF vars, PushOf
<1> QED  BY <1>1, <1>2, <1>3, <1>4, <1>5, <1>6, <1>7, <1>8, <1>9 DEF Next, Keys

\* The application implements the promise of push to talk: Key2Pressed, StartSender,
\* StoreTalking and Key2Released, with every callback that may come between them.
THEOREM SpeechCorrect == Spec => IsSpeech
<1>1. TalkInv /\ TalkInv' /\ [Next]_vars => [SpeechApp!Next]_SpeechApp!speechVars
  BY SpeechStep
<1> QED  BY SpeechInit, TalkInvariant, <1>1, PTL DEF Spec, IsSpeech, SpeechApp!Spec

-----------------------------------------------------------------------------
(* The sleep logic, undisturbed.                                           *)

LEMMA SleepInit == DInit => SleepInv
<1> SUFFICES ASSUME DInit PROVE SleepInv
  OBVIOUS
<1>1. /\ worker = "rest" /\ key[2] = "none" /\ key = NoKey /\ pm = 1 /\ state = "STANDBY"
      /\ role = RoleOf(lib_role)
  BY DEF DInit, Init, NoKey, RoleOf
<1>2. is_idle /\ lcd /\ ~disturbed
  BY Zenon DEF DInit, Init
<1>3. disturbed \in BOOLEAN
  BY Zenon DEF DInit
<1> QED
  BY <1>1, <1>2, <1>3 DEF SleepInv, OneAtATime, NothingUnderWay, SwitchedOff, RolesOnTheWay

LEMMA DNextIsNext == DNext => Next
  BY DEF DNext, DTimerExpires, DIdleWork, Next

\* What is remembered of disturbances adds no behaviour: everything proved of Spec
\* holds of the behaviours TLC explores.
THEOREM HistoryOnly == DSpec => Spec
<1>1. [DNext]_dvars => [Next]_vars
  BY DNextIsNext DEF dvars
<1> QED  BY <1>1, PTL DEF DSpec, DInit, Spec

\* The idle work, alone: one call after the other.
LEMMA IdleWorkSleep ==
  ASSUME TalkInv, SleepInv, ~disturbed, key = NoKey, IdleWork
  PROVE  OneAtATime' /\ NothingUnderWay' /\ SwitchedOff' /\ RolesOnTheWay'
         /\ (lit' \/ state' = "STANDBY")
<1> USE DEF SleepInv, OneAtATime, NothingUnderWay, SwitchedOff, RolesOnTheWay, RoleOf,
            powerVars, libVars
<1>1. key[2] = "none" /\ UNCHANGED <<state, key>>
  BY DEF NoKey, IdleWork, CheckStandby, EnterIdle, LcdPowerDown, LedOff, RoleSlave, PmRelease,
     FlagAsleep
<1>2. lit' \/ state' = "STANDBY"
  <2>1. CASE worker = "led"
    BY <1>1, <2>1
  <2>2. CASE worker # "led"
    <3>1. UNCHANGED lit
      BY <2>2 DEF IdleWork, CheckStandby, EnterIdle, LcdPowerDown, LedOff, RoleSlave, PmRelease,
         FlagAsleep
    <3> QED  BY <1>1, <3>1
  <2> QED  BY <2>1, <2>2
<1>3. CASE CheckStandby
  <2>1. is_idle
    BY <1>1, <1>3 DEF CheckStandby
  <2> QED
    BY <1>1, <1>2, <1>3, <2>1 DEF CheckStandby
<1>4. CASE EnterIdle
  BY <1>1, <1>2, <1>4 DEF EnterIdle
<1>5. CASE LcdPowerDown
  BY <1>1, <1>2, <1>5 DEF LcdPowerDown
<1>6. CASE LedOff
  <2>1. worker = "led" /\ worker' = "role"
        /\ UNCHANGED <<role, is_idle, lcd, pm, work, lib_role, request, reconnecting>>
    BY <1>6 DEF LedOff
  <2> QED
    BY <1>1, <1>2, <2>1
<1>7. CASE RoleSlave
  BY <1>1, <1>2, <1>7 DEF RoleSlave
<1>8. CASE PmRelease
  <2>1. worker = "release" /\ worker' = "flag"
        /\ UNCHANGED <<role, is_idle, lcd, work, lib_role, request, reconnecting>>
    BY <1>8 DEF PmRelease
  <2>2. is_idle /\ pm = 1
    BY <1>1, <2>1
  <2>3. pm' = 0
    BY <1>8, <2>2 DEF PmRelease
  <2> QED
    BY <1>1, <1>2, <2>1, <2>2, <2>3
<1>9. CASE FlagAsleep
  <2>1. worker = "flag" /\ worker' = "rest"
        /\ UNCHANGED <<role, lcd, pm, work, lib_role, request, reconnecting>>
    BY <1>9 DEF FlagAsleep
  <2>2. ~is_idle'
    BY <1>9, Zenon DEF FlagAsleep
  <2> QED
    BY <1>1, <1>2, <2>1, <2>2
<1> QED  BY <1>3, <1>4, <1>5, <1>6, <1>7, <1>8, <1>9 DEF IdleWork

\* A key handler, while the idle work rests.
LEMMA KeysSleep ==
  ASSUME TalkInv, SleepInv, ~disturbed, worker = "rest", Keys
  PROVE  OneAtATime' /\ NothingUnderWay' /\ SwitchedOff' /\ RolesOnTheWay'
         /\ (lit' \/ state' = "STANDBY")
<1> USE DEF SleepInv, OneAtATime, NothingUnderWay, SwitchedOff, RolesOnTheWay,
            powerVars, libVars
<1>1. CASE \E k \in KeyEvents : KeyEvent(k)
  <2> PICK k \in KeyEvents : KeyEvent(k)
    BY <1>1
  <2>1. key'[2] = "common" /\ key[2] = "none"
    BY DEF KeyEvent, NoKey
  <2>2. UNCHANGED <<state, role, is_idle, lcd, pm, work, worker, lib_role, request, reconnecting, lit>>
    BY DEF KeyEvent
  <2> QED  BY <2>1, <2>2
<1>2. CASE KeyTestState \/ KeyArm
  <2>1. UNCHANGED outsideKey /\ key[2] \in {"common", "arm"}
        /\ key' = <<key[1], IF state = "STANDBY" THEN (IF key[2] = "common" THEN "arm" ELSE "submit")
                            ELSE "wake">>
    BY <1>2 DEF KeyTestState, KeyArm, Goes
  <2>2. key'[2] \in {"arm", "submit", "wake"} /\ (key'[2] = "wake" => state # "STANDBY")
    BY <2>1
  <2>3. UNCHANGED <<state, role, is_idle, lcd, pm, work, worker, lib_role, request, reconnecting, lit>>
    BY <2>1 DEF outsideKey
  \* A device that sleeps is in standby: its handler arms the countdown.
  <2>4. ~is_idle => key'[2] # "wake"
    BY <2>2
  <2>5. key[2] \notin {"flag", "request", "wake"} /\ key'[2] \notin {"flag", "request"}
    BY <2>1, <2>2
  <2> QED  BY <2>2, <2>3, <2>4, <2>5 DEF Waking
<1>3. CASE KeySubmit
  <2>1. UNCHANGED <<state, role, is_idle, lcd, pm, worker, lib_role, request, reconnecting, lit>>
        /\ key[2] = "submit" /\ key'[2] = "wake" /\ work' = "delayed"
    BY <1>3 DEF KeySubmit, Goes, standby_idle_timer_arm
  <2> QED  BY <2>1 DEF Waking
<1>4. CASE KeyWake
  <2>1. UNCHANGED <<state, role, is_idle, pm, lit, work, worker, lib_role, request, reconnecting>>
        /\ key[2] = "wake"
    BY <1>4 DEF KeyWake
  <2>2. CASE is_idle /\ Goes("own") /\ UNCHANGED lcd
    BY <2>1, <2>2 DEF Goes
  <2>3. CASE ~is_idle /\ Goes("flag") /\ lcd' = TRUE
    BY <2>1, <2>3 DEF Goes, Waking
  <2> QED  BY <1>4, <2>2, <2>3 DEF KeyWake
<1>5. CASE FlagAwake
  <2>1. UNCHANGED <<state, role, lcd, pm, lit, work, worker, lib_role, request, reconnecting>>
        /\ key[2] = "flag" /\ key'[2] = "request"
    BY <1>5 DEF FlagAwake, Goes
  <2>2. is_idle'
    BY <1>5, Zenon DEF FlagAwake
  <2> QED  BY <2>1, <2>2
<1>6. CASE PmRequest
  <2>1. UNCHANGED <<state, role, is_idle, lcd, lit, work, worker, lib_role, request, reconnecting>>
        /\ key[2] = "request" /\ key'[2] = "own"
    BY <1>6 DEF PmRequest, Goes
  <2>2. is_idle
    BY <2>1 DEF Waking, NoKey
  <2>3. pm = 0 /\ pm' = 1
    BY <1>6, <2>1 DEF PmRequest
  <2> QED  BY <2>1, <2>2, <2>3
\* Past the point where it has woken the device a handler finds it awake.
<1>7. CASE Key1 \/ LeaveRoom \/ Reconnect \/ Key2Pressed \/ StartSender \/ StoreTalking
           \/ Key2Released \/ Key2Clicked \/ SwitchRole \/ Key2LongPressed \/ Command
  <2>1. is_idle /\ key[2] \notin {"flag", "request"}
    BY <1>7 DEF Key1, LeaveRoom, Reconnect, Key2Pressed, StartSender, StoreTalking, Key2Released,
         Key2Clicked, SwitchRole, Key2LongPressed, Command, NoKey, Waking
  <2>2. key'[2] \notin {"flag", "request"}
    BY <1>7 DEF Key1, LeaveRoom, Reconnect, Key2Pressed, StartSender, StoreTalking, Key2Released,
         Key2Clicked, SwitchRole, Key2LongPressed, Command, Goes, NoKey
  <2>3. UNCHANGED <<state, is_idle, lcd, pm, work, worker>> /\ (UNCHANGED lit \/ lit')
    BY <1>7, Zenon DEF Key1, LeaveRoom, Reconnect, Key2Pressed, StartSender, StoreTalking,
         Key2Released, Key2Clicked, SwitchRole, Key2LongPressed, Command, outsideKey
  <2>4. role' = RoleOf(lib_role')
    BY <1>7 DEF Key1, LeaveRoom, Reconnect, Key2Pressed, StartSender, StoreTalking,
         Key2Released, Key2Clicked, SwitchRole, Key2LongPressed, Command, outsideKey
  <2> QED  BY <2>1, <2>2, <2>3, <2>4
<1> QED  BY <1>1, <1>2, <1>3, <1>4, <1>5, <1>6, <1>7 DEF Keys, WakeUp

\* A callback of the library, while the idle work rests: on a device that sleeps
\* only the loss of a stream is left to be reported.
LEMMA CallbacksSleep ==
  ASSUME TalkInv, SleepInv, ~disturbed, worker = "rest", Callbacks
  PROVE  OneAtATime' /\ NothingUnderWay' /\ SwitchedOff' /\ RolesOnTheWay'
         /\ (lit' \/ state' = "STANDBY")
<1> USE DEF SleepInv, OneAtATime, NothingUnderWay, SwitchedOff, RolesOnTheWay,
            powerVars, libVars
<1>1. UNCHANGED <<is_idle, lcd, pm, worker, key, lib_role>>
  BY DEF Callbacks, PhaseChanged, PairingTimeout, app_on_reconnect_timeout, app_on_room_full,
     StreamIndicated
<1>2. role' = RoleOf(lib_role)
  BY DEF Callbacks, PhaseChanged, PairingTimeout, app_on_reconnect_timeout, app_on_room_full,
     StreamIndicated, app_on_phase_changed, BackToStandby
<1>3. CASE is_idle
  <2>1. lit'
    BY DEF Callbacks, PhaseChanged, PairingTimeout, app_on_reconnect_timeout, app_on_room_full,
       StreamIndicated, app_on_phase_changed, BackToStandby
  <2> QED  BY <1>1, <1>2, <1>3, <2>1
<1>4. CASE ~is_idle
  <2>1. StreamIndicated
    BY <1>4 DEF Callbacks, PhaseChanged, MayChange, PairingTimeout, app_on_reconnect_timeout,
       app_on_room_full
  <2>2. UNCHANGED <<state, work, request, reconnecting>>
    BY <2>1 DEF StreamIndicated, libVars
  <2> QED  BY <1>1, <1>2, <1>4, <2>2
<1> QED  BY <1>3, <1>4

LEMMA SleepStep ==
  ASSUME TalkInv, SleepInv, [DNext]_dvars
  PROVE  SleepInv'
<1>1. CASE DTimerExpires
  <2>1. work = "delayed" /\ work' = "queued" /\ disturbed' = disturbed
        /\ UNCHANGED <<state, role, is_idle, lcd, pm, lit, worker, key, lib_role, request, reconnecting>>
        /\ key[2] \notin Waking
    BY <1>1 DEF DTimerExpires, TimerExpires, powerVars, libVars
  <2> QED
    BY <2>1 DEF SleepInv, OneAtATime, NothingUnderWay, SwitchedOff, RolesOnTheWay, Waking
<1>2. CASE DIdleWork
  <2>1. disturbed' = (disturbed \/ key # NoKey)
    BY <1>2 DEF DIdleWork
  <2>2. disturbed' \in BOOLEAN /\ (~disturbed' => ~disturbed /\ key = NoKey)
    BY <2>1, Zenon DEF SleepInv
  <2> QED
    BY <1>2, <2>2, IdleWorkSleep DEF DIdleWork, SleepInv
<1>3. CASE (Keys \/ Callbacks) /\ disturbed' = (disturbed \/ worker # "rest")
  <2>1. disturbed' \in BOOLEAN /\ (~disturbed' => ~disturbed /\ worker = "rest")
    BY <1>3, Zenon DEF SleepInv
  <2> QED
    BY <1>3, <2>1, KeysSleep, CallbacksSleep DEF SleepInv
<1>4. CASE UNCHANGED dvars
  BY <1>4 DEF SleepInv, OneAtATime, NothingUnderWay, SwitchedOff, RolesOnTheWay, dvars, vars,
     powerVars, libVars
<1> QED  BY <1>1, <1>2, <1>3, <1>4 DEF DNext

\* Both invariants hold in every behaviour, disturbed or not.
THEOREM SleepInvariant == DSpec => [](TalkInv /\ SleepInv)
<1>1. DInit => TalkInv /\ SleepInv
  BY InitInv, SleepInit DEF DInit
<1>2. TalkInv /\ SleepInv /\ [DNext]_dvars => (TalkInv /\ SleepInv)'
  <2> SUFFICES ASSUME TalkInv, SleepInv, [DNext]_dvars PROVE TalkInv' /\ SleepInv'
    OBVIOUS
  <2>1. CASE DNext
    BY <2>1, DNextIsNext, TypeStep, CountdownStep, TalkingStep, SleepStep DEF TalkInv
  <2>2. CASE UNCHANGED dvars
    BY <2>2, StutterStep, SleepStep DEF dvars
  <2> QED  BY <2>1, <2>2
<1> QED  BY <1>1, <1>2, PTL DEF DSpec

\* As long as the idle work has not been interleaved with a key or a callback: LCD,
\* power request and is_idle agree whenever nobody is changing them.
THEOREM PowerCorrect == DSpec => []PowerAgrees
<1>1. TalkInv /\ SleepInv => PowerAgrees
  <2> SUFFICES ASSUME TalkInv, SleepInv, ~disturbed, worker = "rest",
                      key[2] \notin {"flag", "request"}
               PROVE  lcd = is_idle /\ pm = IF is_idle THEN 1 ELSE 0
    BY DEF PowerAgrees
  <2>1. lcd <=> is_idle
    BY DEF SleepInv, SwitchedOff
  <2>2. lcd \in BOOLEAN /\ is_idle \in BOOLEAN
    BY DEF TalkInv, TypeOK, FlagsOK
  <2> QED  BY <2>1, <2>2 DEF SleepInv, SwitchedOff
<1> QED  BY <1>1, SleepInvariant, PTL

\* As long as the idle work has not been interleaved, a device sleeps only in standby.
THEOREM SleepCorrect == DSpec => []SleepsInStandby
<1>1. TalkInv /\ SleepInv => SleepsInStandby
  BY DEF SleepInv, NothingUnderWay, SleepsInStandby
<1> QED  BY <1>1, SleepInvariant, PTL

\* As long as the idle work has not been interleaved, the application's role is the
\* library's.
THEOREM RoleCorrect == DSpec => []RoleAgrees
<1>1. TalkInv /\ SleepInv => RoleAgrees
  BY DEF SleepInv, RolesOnTheWay, RoleAgrees
<1> QED  BY <1>1, SleepInvariant, PTL

\* As long as the idle work has not been interleaved, a device is dark in standby only.
THEOREM LitCorrect == DSpec => []LitOutOfStandby
<1>1. TalkInv /\ SleepInv => LitOutOfStandby
  BY DEF SleepInv, LitOutOfStandby
<1> QED  BY <1>1, SleepInvariant, PTL
=============================================================================
