------------------------------ MODULE Monitor ------------------------------
(***************************************************************************)
(* The PC monitor (multi-screen_pc): the shell stores what the PC sends    *)
(* in system_status (cmd_parser.c), an LVGL timer of the main thread shows *)
(* it (screen.c).  The two threads share the structure and its two flags   *)
(* without a lock.                                                         *)
(*                                                                         *)
(* proj.conf gives the main thread a priority; the shell's is the SDK's.   *)
(* With the main thread above it, the shell never runs inside the timer's  *)
(* callback, but the callback may run between any two of its steps.        *)
(***************************************************************************)
EXTENDS Integers, Sequences

CONSTANTS
    Fields,         \* the monitored values, in the order they are shown
    Values,         \* what the PC sends for them; -1: no such disk
    Times,          \* the dates and times the PC sends
    MaxCommands     \* bound: how many commands the PC sends

ASSUME MonitorAssumption ==
    /\ Fields \in Seq({"cpu_usage", "cpu_temp", "gpu_usage", "gpu_temp", "ram_usage", "disk_c",
                       "disk_d", "net_up", "net_down"})
    /\ Len(Fields) > 0
    /\ Values \subseteq Int /\ 0 \in Values /\ 0 \in Times
    /\ MaxCommands \in Nat

VARIABLES
    status,         \* system_status: the monitored values
    datetime,       \* its datetime: the date and the time of day
    has_monitor_data, has_time_data,
    labels,         \* what the screens show of the values
    clock,          \* and of date and time
    shell,          \* what the shell still has to do of a command
    screen,         \* where update_screen_display is
    shownUpTo,      \* how many of the fields it has shown
    commands        \* the number of commands so far

shared == <<status, datetime, has_monitor_data, has_time_data>>
vars == <<shared, labels, clock, shell, screen, shownUpTo, commands>>

Keys == {Fields[n] : n \in 1 .. Len(Fields)}
Idle == <<"idle", 0>>

Init ==
    /\ status = [k \in Keys |-> 0] /\ datetime = <<0, 0>>
    /\ has_monitor_data = FALSE /\ has_time_data = FALSE
    /\ labels = [k \in Keys |-> 0] /\ clock = <<0, 0>>
    /\ shell = Idle /\ screen = "idle" /\ shownUpTo = 0
    /\ commands = 0

-----------------------------------------------------------------------------
(* sys_set_cmd                                                             *)

\* The shell waits while the main thread is in the callback.
ShellRuns == screen = "idle"

\* The value is stored, then the flag is set.
StoreValue(k, v) ==
    /\ ShellRuns /\ shell = Idle /\ commands < MaxCommands
    /\ commands' = commands + 1
    /\ status' = [status EXCEPT ![k] = v]
    /\ shell' = <<"monitor", 0>>
    /\ UNCHANGED <<datetime, has_monitor_data, has_time_data, labels, clock, screen, shownUpTo>>

\* strncpy copies the string from the left.
StoreDate(t) ==
    /\ ShellRuns /\ shell = Idle /\ commands < MaxCommands
    /\ commands' = commands + 1
    /\ datetime' = <<t, datetime[2]>>
    /\ shell' = <<"clock", t>>
    /\ UNCHANGED <<status, has_monitor_data, has_time_data, labels, clock, screen, shownUpTo>>

StoreTime ==
    /\ ShellRuns /\ shell[1] = "clock"
    /\ datetime' = <<datetime[1], shell[2]>>
    /\ shell' = <<"time", 0>>
    /\ UNCHANGED <<status, has_monitor_data, has_time_data, labels, clock, screen, shownUpTo,
                   commands>>

SetFlag ==
    /\ ShellRuns /\ shell[1] \in {"monitor", "time"}
    /\ IF shell[1] = "monitor"
       THEN has_monitor_data' = TRUE /\ UNCHANGED has_time_data
       ELSE has_time_data' = TRUE /\ UNCHANGED has_monitor_data
    /\ shell' = Idle
    /\ UNCHANGED <<status, datetime, labels, clock, screen, shownUpTo, commands>>

sys_set_cmd ==
    \/ \E k \in Keys, v \in Values : StoreValue(k, v)
    \/ \E t \in Times : StoreDate(t)
    \/ StoreTime \/ SetFlag

-----------------------------------------------------------------------------
(* update_screen_display                                                   *)

\* Where the callback goes after the date and time.
Monitored == IF has_monitor_data THEN "fields" ELSE "idle"

Tick ==
    /\ screen = "idle"
    /\ screen' = IF has_time_data THEN "date" ELSE Monitored
    /\ UNCHANGED <<shared, labels, clock, shell, shownUpTo, commands>>

ShowDate ==
    /\ screen = "date"
    /\ clock' = <<datetime[1], clock[2]>>
    /\ screen' = "time"
    /\ UNCHANGED <<shared, labels, shell, shownUpTo, commands>>

ShowTime ==
    /\ screen = "time"
    /\ clock' = <<clock[1], datetime[2]>>
    /\ screen' = "clear"
    /\ UNCHANGED <<shared, labels, shell, shownUpTo, commands>>

\* Broken variant: both flags are cleared.
ClearBoth ==
    /\ screen = "clear"
    /\ has_time_data' = FALSE /\ has_monitor_data' = FALSE
    /\ screen' = "idle"
    /\ UNCHANGED <<status, datetime, labels, clock, shell, shownUpTo, commands>>

ClearTime ==
    /\ screen = "clear"
    /\ has_time_data' = FALSE
    /\ screen' = Monitored
    /\ UNCHANGED <<status, datetime, has_monitor_data, labels, clock, shell, shownUpTo, commands>>

\* A disk that is not there leaves its bar and label as they are.
Hidden(k) == k = "disk_d" /\ status[k] < 0

ShowField ==
    /\ screen = "fields" /\ shownUpTo < Len(Fields)
    /\ LET k == Fields[shownUpTo + 1] IN
       labels' = IF Hidden(k) THEN labels ELSE [labels EXCEPT ![k] = status[k]]
    /\ shownUpTo' = shownUpTo + 1
    /\ UNCHANGED <<shared, clock, shell, screen, commands>>

ClearMonitor ==
    /\ screen = "fields" /\ shownUpTo = Len(Fields)
    /\ has_monitor_data' = FALSE
    /\ shownUpTo' = 0 /\ screen' = "idle"
    /\ UNCHANGED <<status, datetime, has_time_data, labels, clock, shell, commands>>

update_screen_display ==
    Tick \/ ShowDate \/ ShowTime \/ ClearTime \/ ShowField \/ ClearMonitor

-----------------------------------------------------------------------------
Next == sys_set_cmd \/ update_screen_display

Spec == Init /\ [][Next]_vars

\* The timer's callback runs and comes to its end; a command that has begun ends.
LiveSpec == Spec /\ WF_vars(update_screen_display) /\ WF_vars(StoreTime) /\ WF_vars(SetFlag)

-----------------------------------------------------------------------------
TypeOK ==
    /\ status \in [Keys -> Values] /\ labels \in [Keys -> Values]
    /\ "disk_d" \in Keys => labels["disk_d"] >= 0
    /\ datetime \in Times \X Times /\ clock \in Times \X Times
    /\ has_monitor_data \in BOOLEAN /\ has_time_data \in BOOLEAN
    /\ shell[1] \in {"idle", "monitor", "clock", "time"}
    /\ screen \in {"idle", "date", "time", "clear", "fields"}
    /\ shownUpTo \in 0 .. Len(Fields) /\ commands \in 0 .. MaxCommands

Shows(k) == labels[k] = status[k] \/ Hidden(k)

\* Between commands and callbacks, whatever the screens do not show yet has its
\* flag set, in spite of the two threads' unlocked use of it.
NothingForgotten ==
    shell = Idle /\ screen = "idle" =>
        /\ has_monitor_data \/ \A k \in Keys : Shows(k)
        /\ has_time_data \/ clock = datetime

\* Types (a missing disk never reaches its label), and nothing forgotten.
MonitorInv == TypeOK /\ NothingForgotten

\* README.md of multi-screen_pc, "updates the screens from the latest data in
\* system_status every 500 ms": when the PC falls silent, the screens end up with
\* its last values.
LatestShown == <>[]((\A k \in Keys : Shows(k)) /\ clock = datetime)
=============================================================================
