--------------------------- MODULE TalkDisturbed ---------------------------
(***************************************************************************)
(* TalkApp with a history variable that remembers whether                  *)
(* standby_idle_timeout_handler has ever been interleaved with a key       *)
(* handler or a callback.  As long as it has not, the sleep logic is       *)
(* right.                                                                  *)
(***************************************************************************)
EXTENDS TalkApp

VARIABLE disturbed

DInit == Init /\ disturbed = FALSE

dvars == <<vars, disturbed>>

DTimerExpires == TimerExpires /\ UNCHANGED disturbed

DIdleWork == IdleWork /\ disturbed' = (disturbed \/ key # NoKey)

DNext ==
    \/ DTimerExpires
    \/ DIdleWork
    \/ (Keys \/ Callbacks) /\ disturbed' = (disturbed \/ worker # "rest")

DSpec == DInit /\ [][DNext]_dvars

\* The timer thread and the work queue make progress.
DLiveSpec == DSpec /\ WF_dvars(DTimerExpires) /\ WF_dvars(DIdleWork)

-----------------------------------------------------------------------------
\* LCD, power request and is_idle change in different statements of two
\* threads, but agree: when neither the idle work nor a handler is changing them,
\* all three say awake, or all three say asleep.
PowerAgrees ==
    ~disturbed /\ worker = "rest" /\ key[2] \notin {"flag", "request"} =>
        /\ lcd = is_idle
        /\ pm = IF is_idle THEN 1 ELSE 0

\* A device sleeps only in standby, and nothing is under way in the library
\* that could take it out of standby before a key wakes it.
SleepsInStandby ==
    ~disturbed /\ (worker # "rest" \/ ~is_idle) =>
        state = "STANDBY"

\* env->role, kept by the application for the choice between creating and
\* joining a room, is the role the library has.
RoleAgrees ==
    ~disturbed /\ worker = "rest" => role = RoleOf(lib_role)

\* README.md:24-31: in every state but sleep the LED shows something.  Waking up
\* does not light it again, so that a device may be dark in standby; out of
\* standby it never is, however the phase was reached.
LitOutOfStandby ==
    ~disturbed => lit \/ state = "STANDBY"

-----------------------------------------------------------------------------
(* The inductive strengthening of the four: how far the idle work has     *)
(* come says what is switched off already.                                 *)

\* No key is being handled while the idle work runs, nor past the point where it
\* wakes a device that sleeps.
OneAtATime ==
    /\ worker # "rest" => key = NoKey /\ is_idle
    /\ ~is_idle => key = NoKey \/ key[2] = "common" \/ key[2] \in Waking
    /\ key[2] = "flag" => ~is_idle

\* Nothing is under way once the library has been told to be idle.
NothingUnderWay ==
    /\ worker # "rest" \/ ~is_idle => state = "STANDBY"
    /\ worker # "rest" \/ ~is_idle => work = IF key[2] \in {"wake", "flag"} THEN "delayed" ELSE "none"
    /\ worker \notin {"rest", "enter idle"} \/ ~is_idle => request = "none" /\ ~reconnecting

SwitchedOff ==
    /\ lcd <=> (is_idle \/ key[2] = "flag") /\ worker \notin {"led", "role", "release", "flag"}
    /\ pm = IF is_idle /\ worker # "flag" /\ key[2] # "request" THEN 1 ELSE 0

RolesOnTheWay ==
    IF worker \in {"lcd", "led", "role"} THEN lib_role = "RECEIVER"
    ELSE role = RoleOf(lib_role)

SleepInv ==
    /\ disturbed \in BOOLEAN
    /\ ~disturbed => OneAtATime /\ NothingUnderWay /\ SwitchedOff /\ RolesOnTheWay
                  /\ (lit \/ state = "STANDBY")
=============================================================================
