--------------------------- MODULE MonitorProofs ---------------------------
(***************************************************************************)
(* For every list of fields, every set of values and times: what the PC    *)
(* has sent is shown or has its flag set.  MonitorIInv says at each point  *)
(* of the shell's command and of the callback what is already true.        *)
(***************************************************************************)
EXTENDS Monitor, TLAPS

USE MonitorAssumption

\* Date and time: while the callback shows them the flag stays set, and what it has
\* shown is what the structure holds.
ClockInv ==
    /\ screen \in {"date", "time", "clear"} => has_time_data
    /\ screen = "time" => clock[1] = datetime[1]
    /\ screen = "clear" => clock = datetime
    /\ shell[1] \in {"idle", "monitor"} => has_time_data \/ clock = datetime

\* The values: those before shownUpTo have been shown.
LabelsInv ==
    /\ screen = "fields" => has_monitor_data
    /\ screen # "fields" => shownUpTo = 0
    /\ \A n \in 1 .. Len(Fields) : n <= shownUpTo => Shows(Fields[n])
    /\ shell[1] # "monitor" => has_monitor_data \/ \A k \in Keys : Shows(k)

MonitorIInv ==
    /\ TypeOK
    /\ shell \in {"idle", "monitor", "clock", "time"} \X Times
    /\ ClockInv /\ LabelsInv

-----------------------------------------------------------------------------
LEMMA FieldCount == Len(Fields) \in Nat /\ 0 \in 0 .. Len(Fields) /\ 0 \in 0 .. MaxCommands
<1>1. Len(Fields) \in Nat
  OBVIOUS
<1> QED
  BY <1>1

LEMMA MonitorInit == Init => MonitorIInv
<1> SUFFICES ASSUME Init PROVE MonitorIInv
  OBVIOUS
<1>1. shownUpTo \in 0 .. Len(Fields) /\ commands \in 0 .. MaxCommands
  BY FieldCount DEF Init
<1>2. TypeOK
  <2>1. /\ status \in [Keys -> Values] /\ labels \in [Keys -> Values]
        /\ "disk_d" \in Keys => labels["disk_d"] >= 0
    BY DEF Init
  <2>2. datetime \in Times \X Times /\ clock \in Times \X Times
    BY DEF Init
  <2>3. shell[1] = "idle" /\ screen = "idle" /\ has_monitor_data = FALSE /\ has_time_data = FALSE
    BY DEF Init, Idle
  <2> QED
    BY <1>1, <2>1, <2>2, <2>3 DEF TypeOK
<1>3. shell \in {"idle", "monitor", "clock", "time"} \X Times
  BY DEF Init, Idle
<1>4. ClockInv /\ LabelsInv
  BY FieldCount DEF Init, ClockInv, LabelsInv, Shows, Idle
<1> QED
  BY <1>2, <1>3, <1>4 DEF MonitorIInv

LEMMA StoreValueStep ==
  ASSUME MonitorIInv, NEW k \in Keys, NEW v \in Values, StoreValue(k, v)
  PROVE  MonitorIInv'
<1>1. /\ screen = "idle" /\ shell = Idle /\ shell' = <<"monitor", 0>>
      /\ commands < MaxCommands /\ commands' = commands + 1
      /\ status' = [status EXCEPT ![k] = v]
      /\ UNCHANGED <<datetime, has_monitor_data, has_time_data, labels, clock, screen, shownUpTo>>
  BY DEF StoreValue, ShellRuns
<1>2. TypeOK'
  BY <1>1 DEF MonitorIInv, TypeOK
<1>3. shell' \in {"idle", "monitor", "clock", "time"} \X Times
  BY <1>1
<1>4. ClockInv'
  BY <1>1 DEF MonitorIInv, ClockInv, Idle
<1>5. LabelsInv'
  <2>1. shownUpTo' = 0 /\ shell'[1] = "monitor" /\ screen' = "idle"
    BY <1>1 DEF MonitorIInv, LabelsInv
  <2> QED
    BY <2>1 DEF LabelsInv
<1> QED
  BY <1>2, <1>3, <1>4, <1>5 DEF MonitorIInv

\* The steps of the shell on date, time and flags.
LEMMA ShellStep ==
  ASSUME MonitorIInv, (\E t \in Times : StoreDate(t)) \/ StoreTime \/ SetFlag
  PROVE  MonitorIInv'
<1>1. /\ screen = "idle" /\ UNCHANGED <<status, labels, clock, screen, shownUpTo>>
  BY DEF StoreDate, StoreTime, SetFlag, ShellRuns
<1>2. shownUpTo = 0 /\ shell \in {"idle", "monitor", "clock", "time"} \X Times
  BY <1>1 DEF MonitorIInv, LabelsInv
<1>3. ASSUME NEW t \in Times, StoreDate(t) PROVE MonitorIInv'
  <2>1. /\ shell = Idle /\ shell' = <<"clock", t>> /\ datetime' = <<t, datetime[2]>>
        /\ commands < MaxCommands /\ commands' = commands + 1
        /\ UNCHANGED <<has_monitor_data, has_time_data>>
    BY <1>3 DEF StoreDate
  <2>2. TypeOK' /\ shell' \in {"idle", "monitor", "clock", "time"} \X Times
    BY <1>1, <2>1 DEF MonitorIInv, TypeOK
  <2>3. ClockInv' /\ LabelsInv'
    BY <1>1, <1>2, <2>1 DEF MonitorIInv, ClockInv, LabelsInv, Shows, Hidden, Idle
  <2> QED
    BY <2>2, <2>3 DEF MonitorIInv
<1>4. CASE StoreTime
  <2>1. /\ shell[1] = "clock" /\ shell' = <<"time", 0>> /\ datetime' = <<datetime[1], shell[2]>>
        /\ UNCHANGED <<has_monitor_data, has_time_data, commands>>
    BY <1>4 DEF StoreTime
  <2>2. TypeOK' /\ shell' \in {"idle", "monitor", "clock", "time"} \X Times
    BY <1>1, <1>2, <2>1 DEF MonitorIInv, TypeOK
  <2>3. ClockInv' /\ LabelsInv'
    BY <1>1, <1>2, <2>1 DEF MonitorIInv, ClockInv, LabelsInv, Shows, Hidden
  <2> QED
    BY <2>2, <2>3 DEF MonitorIInv
<1>5. CASE SetFlag
  <2>1. /\ shell[1] \in {"monitor", "time"} /\ shell' = Idle
        /\ IF shell[1] = "monitor"
           THEN has_monitor_data' = TRUE /\ UNCHANGED has_time_data
           ELSE has_time_data' = TRUE /\ UNCHANGED has_monitor_data
        /\ UNCHANGED <<datetime, commands>>
    BY <1>5 DEF SetFlag
  <2>2. TypeOK' /\ shell' \in {"idle", "monitor", "clock", "time"} \X Times
    BY <1>1, <2>1 DEF MonitorIInv, TypeOK, Idle
  <2>3. ClockInv' /\ LabelsInv'
    BY <1>1, <1>2, <2>1 DEF MonitorIInv, ClockInv, LabelsInv, Shows, Hidden, Idle
  <2> QED
    BY <2>2, <2>3 DEF MonitorIInv
<1> QED
  BY <1>3, <1>4, <1>5

\* The steps of the callback on date and time, and its start.
LEMMA ClockStep ==
  ASSUME MonitorIInv, Tick \/ ShowDate \/ ShowTime \/ ClearTime
  PROVE  MonitorIInv'
<1>1. UNCHANGED <<status, datetime, has_monitor_data, labels, shell, shownUpTo, commands>>
  BY DEF Tick, ShowDate, ShowTime, ClearTime, shared
<1>2. /\ datetime \in Times \X Times /\ clock \in Times \X Times
  BY DEF MonitorIInv, TypeOK
<1>3. CASE Tick
  BY <1>1, <1>3 DEF Tick, shared, Monitored, MonitorIInv, TypeOK, ClockInv, LabelsInv, Shows, Hidden
<1>4. CASE ShowDate
  BY <1>1, <1>2, <1>4 DEF ShowDate, shared, MonitorIInv, TypeOK, ClockInv, LabelsInv, Shows, Hidden
<1>5. CASE ShowTime
  <2>1. clock' = datetime /\ has_time_data' = has_time_data /\ has_time_data
        /\ screen = "time" /\ screen' = "clear"
    BY <1>2, <1>5 DEF ShowTime, shared, MonitorIInv, ClockInv
  <2> QED
    BY <1>1, <1>2, <2>1 DEF MonitorIInv, TypeOK, ClockInv, LabelsInv, Shows, Hidden
<1>6. CASE ClearTime
  <2>1. clock' = clock /\ clock = datetime /\ has_time_data' = FALSE
        /\ screen = "clear" /\ screen' = Monitored
    BY <1>6 DEF ClearTime, MonitorIInv, ClockInv
  <2> QED
    BY <1>1, <2>1 DEF MonitorIInv, TypeOK, ClockInv, LabelsInv, Shows, Hidden, Monitored
<1> QED
  BY <1>3, <1>4, <1>5, <1>6

LEMMA ShowFieldStep ==
  ASSUME MonitorIInv, ShowField
  PROVE  MonitorIInv'
<1>0. PICK k : k = Fields[shownUpTo + 1]
  OBVIOUS
<1>1. /\ screen = "fields" /\ shownUpTo < Len(Fields) /\ shownUpTo' = shownUpTo + 1
      /\ labels' = IF Hidden(k) THEN labels ELSE [labels EXCEPT ![k] = status[k]]
      /\ UNCHANGED <<shared, clock, shell, screen, commands>>
  BY <1>0 DEF ShowField
<1>2. shownUpTo \in Nat /\ shownUpTo + 1 \in 1 .. Len(Fields) /\ k \in Keys
  BY <1>0, <1>1, FieldCount DEF MonitorIInv, TypeOK, Keys
<1>3. /\ status \in [Keys -> Values] /\ labels \in [Keys -> Values]
      /\ "disk_d" \in Keys => labels["disk_d"] >= 0
  BY DEF MonitorIInv, TypeOK
<1>4. labels' \in [Keys -> Values]
  BY <1>1, <1>2, <1>3
<1>5. "disk_d" \in Keys => labels'["disk_d"] >= 0
  <2> SUFFICES ASSUME "disk_d" \in Keys PROVE labels'["disk_d"] >= 0
    OBVIOUS
  <2>1. CASE k = "disk_d" /\ ~Hidden(k)
    <3>1. ~(status["disk_d"] < 0) /\ status["disk_d"] \in Int
      BY <1>3, <2>1 DEF Hidden
    <3>2. labels'["disk_d"] = status["disk_d"]
      BY <1>1, <1>3, <2>1
    <3> QED
      BY <3>1, <3>2
  <2>2. CASE ~(k = "disk_d" /\ ~Hidden(k))
    BY <1>1, <1>3, <2>2
  <2> QED
    BY <2>1, <2>2
<1>6. TypeOK'
  BY <1>1, <1>2, <1>4, <1>5 DEF MonitorIInv, TypeOK, shared
<1>7. ClockInv' /\ shell' = shell
  BY <1>1 DEF MonitorIInv, ClockInv, shared
<1>8. Shows(k)' /\ \A j \in Keys : Shows(j) => Shows(j)'
  BY <1>1, <1>2, <1>3 DEF Shows, Hidden, shared
<1>9. LabelsInv'
  <2>1. \A n \in 1 .. Len(Fields) : n <= shownUpTo' => Shows(Fields[n])'
    <3> SUFFICES ASSUME NEW n \in 1 .. Len(Fields), n <= shownUpTo + 1 PROVE Shows(Fields[n])'
      BY <1>1
    <3>1. CASE n = shownUpTo + 1
      BY <1>0, <1>8, <3>1
    <3>2. CASE n # shownUpTo + 1
      <4>1. n <= shownUpTo /\ Fields[n] \in Keys
        BY <1>2, <3>2 DEF Keys
      <4> QED
        BY <1>8, <4>1 DEF MonitorIInv, LabelsInv
    <3> QED
      BY <3>1, <3>2
  <2> QED
    BY <1>1, <2>1 DEF MonitorIInv, LabelsInv, shared
<1> QED
  BY <1>6, <1>7, <1>9 DEF MonitorIInv

LEMMA ClearMonitorStep ==
  ASSUME MonitorIInv, ClearMonitor
  PROVE  MonitorIInv'
<1>1. /\ screen = "fields" /\ shownUpTo = Len(Fields) /\ shownUpTo' = 0 /\ screen' = "idle"
      /\ has_monitor_data' = FALSE
      /\ UNCHANGED <<status, datetime, has_time_data, labels, clock, shell, commands>>
  BY DEF ClearMonitor
<1>2. TypeOK'
  BY <1>1, FieldCount DEF MonitorIInv, TypeOK
<1>3. \A k \in Keys : Shows(k)
  BY <1>1 DEF MonitorIInv, LabelsInv, Keys
<1>4. ClockInv' /\ LabelsInv'
  BY <1>1, <1>3 DEF MonitorIInv, ClockInv, LabelsInv, Shows, Hidden
<1> QED
  BY <1>1, <1>2, <1>4 DEF MonitorIInv

LEMMA MonitorStep == MonitorIInv /\ [Next]_vars => MonitorIInv'
<1> SUFFICES ASSUME MonitorIInv, [Next]_vars PROVE MonitorIInv'
  OBVIOUS
<1>1. CASE UNCHANGED vars
  BY <1>1 DEF vars, shared, MonitorIInv, TypeOK, ClockInv, LabelsInv, Shows, Hidden
<1> QED
  BY <1>1, StoreValueStep, ShellStep, ClockStep, ShowFieldStep, ClearMonitorStep
     DEF Next, sys_set_cmd, update_screen_display

-----------------------------------------------------------------------------
THEOREM MonitorInvariant == Spec => []MonitorIInv
  BY MonitorInit, MonitorStep, PTL DEF Spec

\* Nothing the PC sends is forgotten, whenever the callback cuts into a command.
THEOREM MonitorCorrect == Spec => []MonitorInv
<1>1. MonitorIInv => MonitorInv
  BY DEF MonitorIInv, ClockInv, LabelsInv, MonitorInv, NothingForgotten, Idle
<1> QED
  BY <1>1, MonitorInvariant, PTL

-----------------------------------------------------------------------------
(* One callback, once the PC is silent, shows everything: what LatestShown   *)
(* needs beside a timer that runs.                                         *)

\* The steps the callback still has before it.
StepsLeft ==
    CASE screen = "date" -> Len(Fields) + 4
      [] screen = "time" -> Len(Fields) + 3
      [] screen = "clear" -> Len(Fields) + 2
      [] screen = "fields" -> Len(Fields) + 1 - shownUpTo
      [] OTHER -> 0

\* While the callback runs each step of the system leaves fewer of its own.
CallbackDescends == [][screen # "idle" => StepsLeft' \in Nat /\ StepsLeft' < StepsLeft]_vars

\* A callback that ends has shown all the shell had stored, unless it has cut into a
\* command; no flag is left, so that the next callback finds nothing to do.
CallbackComplete ==
    [][screen # "idle" /\ screen' = "idle" =>
        /\ ~has_time_data' /\ ~has_monitor_data'
        /\ shell = Idle => clock' = datetime' /\ \A k \in Keys : Shows(k)']_vars

\* While the values are shown no date and time waits: the callback has shown it, and
\* the shell cannot run.
TimeShown == screen = "fields" => ~has_time_data

LEMMA CallbackSteps ==
  ASSUME MonitorIInv, Next, screen # "idle"
  PROVE  update_screen_display /\ StepsLeft' \in Nat /\ StepsLeft' < StepsLeft
<1> USE DEF StepsLeft
<1>1. update_screen_display /\ ~Tick
  BY DEF Next, sys_set_cmd, StoreValue, StoreDate, StoreTime, SetFlag, ShellRuns, Tick
<1>2. Len(Fields) \in Nat /\ shownUpTo \in 0 .. Len(Fields)
      /\ (screen # "fields" => shownUpTo = 0)
  BY FieldCount DEF MonitorIInv, TypeOK, LabelsInv
<1>3. CASE ShowDate \/ ShowTime
  BY <1>1, <1>2, <1>3 DEF ShowDate, ShowTime
<1>4. CASE ClearTime
  BY <1>1, <1>2, <1>4 DEF ClearTime, Monitored
<1>5. CASE ShowField
  BY <1>1, <1>2, <1>5 DEF ShowField
<1>6. CASE ClearMonitor
  BY <1>1, <1>2, <1>6 DEF ClearMonitor
<1> QED
  BY <1>1, <1>3, <1>4, <1>5, <1>6 DEF update_screen_display

\* update_screen_display comes to its end in at most Len(Fields) + 4 steps.
THEOREM CallbacksEnd == Spec => CallbackDescends
<1>1. MonitorIInv /\ [Next]_vars
        => [screen # "idle" => StepsLeft' \in Nat /\ StepsLeft' < StepsLeft]_vars
  BY CallbackSteps
<1> QED
  BY <1>1, MonitorInvariant, PTL DEF Spec, CallbackDescends

\* update_screen_display has dealt with the date and time when it starts on the values.
THEOREM TimeShownFirst == Spec => []TimeShown
<1>1. Init => TimeShown
  BY DEF Init, TimeShown
<1>2. TimeShown /\ [Next]_vars => TimeShown'
  <2> SUFFICES ASSUME TimeShown, [Next]_vars PROVE TimeShown'
    OBVIOUS
  <2>1. CASE sys_set_cmd
    BY <2>1 DEF sys_set_cmd, StoreValue, StoreDate, StoreTime, SetFlag, ShellRuns, TimeShown
  <2>2. CASE update_screen_display
    BY <2>2 DEF update_screen_display, Tick, ShowDate, ShowTime, ClearTime, ShowField, ClearMonitor,
                Monitored, shared, TimeShown
  <2>3. CASE UNCHANGED vars
    BY <2>3 DEF vars, shared, TimeShown
  <2> QED
    BY <2>1, <2>2, <2>3 DEF Next
<1> QED
  BY <1>1, <1>2, PTL DEF Spec

\* update_screen_display clears a flag only when what it stands for is on the screens,
\* and ends with both cleared.
THEOREM CallbacksComplete == Spec => CallbackComplete
<1> DEFINE Complete ==
      /\ ~has_time_data' /\ ~has_monitor_data'
      /\ shell = Idle => clock' = datetime' /\ \A k \in Keys : Shows(k)'
<1>1. ASSUME MonitorIInv, MonitorIInv', TimeShown, Next, screen # "idle", screen' = "idle"
      PROVE  Complete
  <2>1. ClearTime \/ ClearMonitor
    BY <1>1, CallbackSteps
       DEF update_screen_display, Tick, ShowDate, ShowTime, ShowField
  <2>2. shell' = shell /\ ~has_time_data' /\ ~has_monitor_data'
    BY <1>1, <2>1 DEF ClearTime, ClearMonitor, Monitored, TimeShown
  <2>3. shell = Idle => clock' = datetime' /\ \A k \in Keys : Shows(k)'
    BY <1>1, <2>2 DEF MonitorIInv, ClockInv, LabelsInv, Idle, Keys
  <2> QED
    BY <2>2, <2>3
<1>2. MonitorIInv /\ MonitorIInv' /\ TimeShown /\ [Next]_vars
        => [screen # "idle" /\ screen' = "idle" => Complete]_vars
  BY <1>1
<1> QED
  BY <1>2, MonitorInvariant, TimeShownFirst, PTL DEF Spec, CallbackComplete
=============================================================================
