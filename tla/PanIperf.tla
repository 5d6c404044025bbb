------------------------------ MODULE PanIperf ------------------------------
(***************************************************************************)
(* The connection logic of the PAN demo (pan_iperf/src/main.c): the        *)
(* Bluetooth event handler, the soft timer that delays the PAN connection, *)
(* the main thread with its mailbox, and the shell command.                *)
(*                                                                         *)
(* The handler runs in the stack's task, so an event of the stack and its  *)
(* handler are one action.  The stack is external: one phone at a time     *)
(* (bt_cm_set_profile_target), which pairs or has a key, is encrypted,     *)
(* then has profiles; profiles go down before the link does.  Between a    *)
(* test of bt_connected and what follows it in another thread, the stack's *)
(* task may take the link down.                                            *)
(***************************************************************************)
EXTENDS Naturals, Sequences

CONSTANTS
    Phones,         \* the devices that connect
    Zero, Erased,   \* bd_addr before any device, and filled with 0xFF
    Kept,           \* those whose key the flash still has at power-on
    Budget,         \* retry_max_times at power-on; 5 in the code
    Tries,          \* values given to set_retry_time
    Shell,          \* whether pan_cmd is used
    MbSize          \* length of the mailbox; 8 in the code

None == "none"

ASSUME PanAssumption ==
    /\ None \notin Phones
    /\ Zero \notin Phones /\ Erased \notin Phones /\ Zero # Erased
    /\ Kept \subseteq Phones /\ Budget \in Nat /\ Tries \subseteq Nat
    /\ Shell \in BOOLEAN /\ MbSize \in Nat \ {0}

VARIABLES
    \* g_bt_app_env and g_bt_app_mb
    bt_connected, bd_addr, pan_connect_timer, pan_connected, retry_flag, retry_times,
    retry_max_times, g_bt_app_mb,
    main,           \* the mailbox call the main thread is in, or where it is after it
    soft,           \* where the thread of the soft timers is in the timer's handler
    shell,          \* where the shell is in pan_cmd
    \* the stack
    ready, link, stage, hid, bonded,
    asked,          \* the addresses PAN is asked for: requests not answered yet
    \* history
    paired,         \* the last device paired with success
    late            \* requests for PAN made since the link went down

env == <<bt_connected, bd_addr, pan_connected>>
retry == <<retry_flag, retry_times, retry_max_times>>
stack == <<ready, link, stage, hid, bonded, paired>>
threads == <<main, soft, shell>>
vars == <<env, pan_connect_timer, retry, g_bt_app_mb, threads, stack, asked, late>>

Addrs == Phones \cup {Zero, Erased}

\* The two messages have the same value.
BT_APP_READY == 1
BT_APP_CONNECT_PAN == 1

\* main has created the mailbox, set the retries and started the stack, and begins
\* its loop.
Init ==
    /\ bt_connected = FALSE /\ bd_addr = Zero /\ pan_connected = 0
    /\ pan_connect_timer = "none"
    /\ retry_flag = 1 /\ retry_times = 0 /\ retry_max_times = Budget
    /\ g_bt_app_mb = <<>>
    /\ main = "ready" /\ soft = "idle" /\ shell = "idle"
    /\ ready = FALSE /\ link = None /\ stage = "down" /\ hid = FALSE
    /\ asked = {} /\ paired = None /\ late = 0
    /\ bonded = Kept

\* rt_mb_send: a message that does not fit is dropped.
Posted(m) == IF Len(g_bt_app_mb) < MbSize THEN Append(g_bt_app_mb, m) ELSE g_bt_app_mb
Post(m) == g_bt_app_mb' = Posted(m)

\* rt_timer_stop, when the timer was created.
StopTimer == pan_connect_timer' = IF pan_connect_timer = "none" THEN "none" ELSE "stopped"

\* bt_interface_conn_ext for PAN: asks the stack; the answer is an event.
AskPan == asked' = asked \cup {bd_addr}

-----------------------------------------------------------------------------
(* bt_app_interface_event_handle                                           *)

STACK_READY ==
    /\ ~ready
    /\ ready' = TRUE
    /\ Post(BT_APP_READY)
    /\ UNCHANGED <<env, pan_connect_timer, retry, threads, link, stage, hid, bonded, paired,
                   asked, late>>

\* The stack's link comes up; the handler has no case for it.
LinkUp(p) ==
    /\ ready /\ link = None
    /\ link' = p /\ stage' = "acl"
    /\ UNCHANGED <<env, pan_connect_timer, retry, g_bt_app_mb, threads, ready, hid, bonded,
                   paired, asked, late>>

\* Broken variant: the timer runs on.
DisconnectedTimerRuns ==
    /\ link # None /\ ~hid /\ pan_connected = 0
    /\ link' = None /\ stage' = "down"
    /\ bt_connected' = FALSE
    /\ UNCHANGED <<bd_addr, pan_connected, pan_connect_timer, retry, g_bt_app_mb, threads,
                   ready, hid, bonded, paired, asked, late>>

ACL_DISCONNECTED ==
    /\ link # None /\ ~hid /\ pan_connected = 0
    /\ link' = None /\ stage' = "down"
    /\ bt_connected' = FALSE
    /\ StopTimer
    /\ UNCHANGED <<bd_addr, pan_connected, retry, g_bt_app_mb, threads, ready, hid, bonded,
                   paired, asked, late>>

\* The tail of the handler: connect PAN a while from now.
PanConn ==
    /\ bt_connected' = TRUE
    /\ pan_connect_timer' = "running"
    /\ late' = 0

\* Broken variant: the address of the phone before is kept.
EncryptionKeepsAddress ==
    /\ stage = "paired" \/ (stage = "acl" /\ link \in bonded)
    /\ stage' = "encrypted"
    /\ bd_addr' = IF bd_addr = Zero THEN link ELSE bd_addr
    /\ PanConn
    /\ UNCHANGED <<pan_connected, retry, g_bt_app_mb, threads, ready, link, hid, bonded, paired,
                   asked>>

ENCRYPTION ==
    /\ stage = "paired" \/ (stage = "acl" /\ link \in bonded)
    /\ stage' = "encrypted"
    /\ bd_addr' = link
    /\ PanConn
    /\ UNCHANGED <<pan_connected, retry, g_bt_app_mb, threads, ready, link, hid, bonded, paired,
                   asked>>

\* The case of PAIR_IND runs on into the one of KEY_MISSING: the address just
\* stored is erased and the device's key deleted, whatever the result.
PAIR_IND(success) ==
    /\ stage = "acl" /\ link \notin bonded
    /\ bd_addr' = Erased
    /\ bonded' = bonded \ {link}
    /\ IF success
       THEN PanConn /\ stage' = "paired" /\ paired' = link
       ELSE UNCHANGED <<bt_connected, pan_connect_timer, stage, paired, late>>
    /\ UNCHANGED <<pan_connected, retry, g_bt_app_mb, threads, ready, link, hid, asked>>

KEY_MISSING ==
    /\ stage = "acl" /\ link \in bonded
    /\ bd_addr' = Erased
    /\ bonded' = bonded \ {link}
    /\ UNCHANGED <<bt_connected, pan_connected, pan_connect_timer, retry, g_bt_app_mb, threads,
                   ready, link, stage, hid, paired, asked, late>>

PAN_CONNECTED ==
    /\ stage = "encrypted" /\ pan_connected = 0 /\ link \in asked
    /\ StopTimer
    /\ pan_connected' = 1
    /\ asked' = asked \ {link}
    /\ UNCHANGED <<bt_connected, bd_addr, retry, g_bt_app_mb, threads, stack, late>>

PAN_DISCONNECTED ==
    /\ pan_connected = 1
    /\ pan_connected' = 0
    /\ UNCHANGED <<bt_connected, bd_addr, pan_connect_timer, retry, g_bt_app_mb, threads, stack,
                   asked, late>>

\* The phone or pan_reconnect brought HID up: PAN follows at once.  The phone may do
\* so at any time, so that requests for HID are not kept.
HID_CONNECTED ==
    /\ stage = "encrypted" /\ ~hid
    /\ hid' = TRUE
    /\ IF pan_connected = 0
       THEN StopTimer /\ AskPan
       ELSE UNCHANGED <<pan_connect_timer, asked>>
    /\ UNCHANGED <<env, retry, g_bt_app_mb, threads, ready, link, stage, bonded, paired,
                   late>>

HID_DISCONNECTED ==
    /\ hid
    /\ hid' = FALSE
    /\ UNCHANGED <<env, pan_connect_timer, retry, g_bt_app_mb, threads, ready, link, stage,
                   bonded, paired, asked, late>>

\* The stack gives a request up; the handler has no case for it.
RequestFails(a) ==
    /\ a \in asked
    /\ asked' = asked \ {a}
    /\ UNCHANGED <<env, pan_connect_timer, retry, g_bt_app_mb, threads, stack, late>>

Handler ==
    \/ STACK_READY \/ ACL_DISCONNECTED \/ ENCRYPTION \/ KEY_MISSING
    \/ \E success \in BOOLEAN : PAIR_IND(success)
    \/ PAN_CONNECTED \/ PAN_DISCONNECTED \/ HID_CONNECTED \/ HID_DISCONNECTED

-----------------------------------------------------------------------------
(* bt_app_connect_pan_timeout_handle, in the thread of the soft timers     *)

TimerExpires ==
    /\ pan_connect_timer = "running" /\ soft = "idle"
    /\ pan_connect_timer' = "stopped"
    /\ soft' = "test"
    /\ UNCHANGED <<env, retry, g_bt_app_mb, main, shell, stack, asked, late>>

TimerTest ==
    /\ soft = "test"
    /\ soft' = IF bt_connected THEN "post" ELSE "idle"
    /\ UNCHANGED <<env, pan_connect_timer, retry, g_bt_app_mb, main, shell, stack, asked, late>>

TimerPost ==
    /\ soft = "post"
    /\ soft' = "idle"
    /\ Post(BT_APP_CONNECT_PAN)
    /\ UNCHANGED <<env, pan_connect_timer, retry, main, shell, stack, asked, late>>

Timer == TimerExpires \/ TimerTest \/ TimerPost

-----------------------------------------------------------------------------
(* The loop of main                                                        *)

\* The wait for the stack: any message ends it, and is gone; so does a timeout.
MainReady ==
    /\ main = "ready"
    /\ main' = "pan"
    /\ g_bt_app_mb' = IF g_bt_app_mb = <<>> THEN <<>> ELSE Tail(g_bt_app_mb)
    /\ UNCHANGED <<env, pan_connect_timer, retry, soft, shell, stack, asked, late>>

\* The wait for the event to connect PAN, which a late READY ends just the same.
MainPan ==
    /\ main = "pan" /\ g_bt_app_mb # <<>>
    /\ main' = IF Head(g_bt_app_mb) = BT_APP_CONNECT_PAN THEN "test" ELSE "ready"
    /\ g_bt_app_mb' = Tail(g_bt_app_mb)
    /\ UNCHANGED <<env, pan_connect_timer, retry, soft, shell, stack, asked, late>>

\* Broken variant: the link is not looked at again.
NoTest ==
    /\ main = "test"
    /\ main' = "ask"
    /\ UNCHANGED <<env, pan_connect_timer, retry, g_bt_app_mb, soft, shell, stack, asked, late>>

MainTest ==
    /\ main = "test"
    /\ main' = IF bt_connected THEN "ask" ELSE "ready"
    /\ UNCHANGED <<env, pan_connect_timer, retry, g_bt_app_mb, soft, shell, stack, asked, late>>

\* The link may have gone down since the test.
MainAsk ==
    /\ main = "ask"
    /\ main' = "ready"
    /\ AskPan
    /\ late' = IF bt_connected THEN late ELSE late + 1
    /\ UNCHANGED <<env, pan_connect_timer, retry, g_bt_app_mb, soft, shell, stack>>

MainThread == MainReady \/ MainPan \/ MainTest \/ MainAsk

-----------------------------------------------------------------------------
(* pan_cmd: the shell runs one command at a time                           *)

Command == Shell /\ shell = "idle"

del_bond ==
    /\ Command
    /\ bonded' = {}
    /\ UNCHANGED <<env, pan_connect_timer, retry, g_bt_app_mb, threads, ready, link, stage, hid,
                   paired, asked, late>>

\* conn_pan is the timer's handler, called from the shell: test and post.
conn_pan ==
    /\ Command
    /\ bt_connected
    /\ shell' = "post"
    /\ UNCHANGED <<env, pan_connect_timer, retry, g_bt_app_mb, main, soft, stack, asked, late>>

ShellPost ==
    /\ shell = "post"
    /\ shell' = "idle"
    /\ Post(BT_APP_CONNECT_PAN)
    /\ UNCHANGED <<env, pan_connect_timer, retry, main, soft, stack, asked, late>>

bt_pan_set_retry(flag, times) ==
    /\ Command
    /\ \/ retry_flag' = flag /\ UNCHANGED retry_max_times
       \/ retry_max_times' = times /\ UNCHANGED retry_flag
    /\ UNCHANGED <<env, pan_connect_timer, retry_times, g_bt_app_mb, threads, stack, asked, late>>

autoconnect ==
    /\ Command
    /\ shell' = "loop"
    /\ UNCHANGED <<env, pan_connect_timer, retry, g_bt_app_mb, main, soft, stack, asked, late>>

\* Broken variant: the count is not raised.
AttemptUncounted ==
    /\ shell = "loop" /\ retry_times < retry_max_times
    /\ IF retry_flag = 0
       THEN shell' = "idle" /\ UNCHANGED pan_connect_timer
       ELSE StopTimer /\ shell' = "delay"
    /\ UNCHANGED <<env, retry, g_bt_app_mb, main, soft, stack, asked, late>>

\* The head of the loop of pan_reconnect, up to the delay: HID is asked for.
Attempt ==
    /\ shell = "loop" /\ retry_times < retry_max_times
    /\ IF retry_flag = 0
       THEN /\ shell' = "idle"
            /\ UNCHANGED <<pan_connect_timer, retry_times>>
       ELSE /\ StopTimer
            /\ retry_times' = retry_times + 1
            /\ shell' = "delay"
    /\ UNCHANGED <<env, retry_flag, retry_max_times, g_bt_app_mb, main, soft, stack, asked, late>>

\* Broken variant: success leaves the count where it is.
DelayCountKept ==
    /\ shell = "delay"
    /\ shell' = IF pan_connected = 1 THEN "idle" ELSE "loop"
    /\ UNCHANGED <<env, pan_connect_timer, retry, g_bt_app_mb, main, soft, stack, asked, late>>

\* After the delay.
Delay ==
    /\ shell = "delay"
    /\ IF pan_connected = 1
       THEN retry_times' = 0 /\ shell' = "idle"
       ELSE UNCHANGED retry_times /\ shell' = "loop"
    /\ UNCHANGED <<env, pan_connect_timer, retry_flag, retry_max_times, g_bt_app_mb, main, soft,
                   stack, asked, late>>

Exhausted ==
    /\ shell = "loop" /\ retry_times >= retry_max_times
    /\ retry_times' = 0 /\ shell' = "idle"
    /\ UNCHANGED <<env, pan_connect_timer, retry_flag, retry_max_times, g_bt_app_mb, main, soft,
                   stack, asked, late>>

pan_reconnect == Attempt \/ Delay \/ Exhausted

-----------------------------------------------------------------------------
Next ==
    \/ Handler
    \/ \E p \in Phones : LinkUp(p)
    \/ \E a \in asked : RequestFails(a)
    \/ Timer
    \/ MainThread
    \/ del_bond \/ conn_pan \/ ShellPost \/ autoconnect
    \/ \E flag \in {0, 1}, times \in Tries : bt_pan_set_retry(flag, times)
    \/ pan_reconnect

Spec == Init /\ [][Next]_vars

\* The threads run, a running timer expires, and a pairing is followed by encryption
\* while the link is up.
LiveSpec ==
    /\ Spec
    /\ WF_vars(Timer) /\ WF_vars(MainThread) /\ WF_vars(pan_reconnect \/ ShellPost)
    /\ WF_vars(stage = "paired" /\ ENCRYPTION)

-----------------------------------------------------------------------------
TypeOK ==
    /\ bt_connected \in BOOLEAN /\ bd_addr \in Addrs /\ pan_connected \in {0, 1}
    /\ pan_connect_timer \in {"none", "stopped", "running"}
    /\ retry_flag \in {0, 1} /\ retry_times \in Nat /\ retry_max_times \in Nat
    /\ g_bt_app_mb \in Seq({BT_APP_READY, BT_APP_CONNECT_PAN}) /\ Len(g_bt_app_mb) <= MbSize
    /\ main \in {"ready", "pan", "test", "ask"} /\ soft \in {"idle", "test", "post"}
    /\ shell \in {"idle", "post", "loop", "delay"}
    /\ ready \in BOOLEAN /\ link \in Phones \cup {None} /\ hid \in BOOLEAN
    /\ stage \in {"down", "acl", "paired", "encrypted"}
    /\ bonded \subseteq Phones /\ asked \subseteq Addrs
    /\ paired \in Phones \cup {None} /\ late \in Nat

\* The timer runs only for a link that is up, and the flag follows the link: it is
\* set from pairing or encryption on until the link is gone.
TimerHasLink ==
    /\ pan_connect_timer = "running" => bt_connected
    /\ bt_connected <=> stage \in {"paired", "encrypted"}

\* Types, and the timer and the flag in step with the link.
LinkInv == TypeOK /\ TimerHasLink

\* While the flag says that a phone is connected, a new PAN request names this phone
\* and no phone before it, however old the message that led to it is; or it names
\* nobody, between a pairing, which erases the address, and the encryption.
AsksThePeer ==
    [][\A a \in Addrs : bt_connected /\ a \in asked' \ asked =>
        a = link \/ (a = Erased /\ stage = "paired")]_vars

\* Messages of a link that is gone do not keep asking for it: once it is down, main
\* makes one request for PAN at most, the one it was about to make (main.c:322, 323).
OneLateRequest == late <= 1

\* pan_reconnect tries at most as often as it may, and always leaves the whole
\* budget to the next call, also when it was switched off or succeeded.
BudgetWhole ==
    /\ shell \in {"idle", "post"} => retry_times = 0
    /\ shell = "delay" => 0 < retry_times /\ retry_times <= retry_max_times

\* The shell comes back from pan_reconnect, and from the mailbox.
ShellReturns == shell # "idle" ~> shell = "idle"

\* Comment of bt_app_interface_event_handle, "Trigger PAN connection after
\* PAN_TIMER_MS period": the timer of a link leads to a PAN request, unless PAN is up
\* or the link goes down first.
PanIsTriggered ==
    pan_connect_timer = "running" ~>
        link = None \/ pan_connected = 1 \/ asked # {}

\* Help text of pan_cmd, "Connect PAN to last paired device": without a link, the
\* address kept for the next connection is the one of the last device paired.
LastPairedKept == link = None /\ paired # None => bd_addr = paired
=============================================================================
