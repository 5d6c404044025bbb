--------------------------- MODULE PanIperfProofs ---------------------------
(***************************************************************************)
(* For any phones, budget and length of the mailbox: flag, timer, address  *)
(* and profiles follow the link; the budget of pan_reconnect is whole      *)
(* between two calls; and a request for PAN names the phone on the line.   *)
(*                                                                         *)
(* For the commands of the demo's web clients, with any answers: what they *)
(* point to they free once, whichever call fails, what they lose is one    *)
(* document each (and the strings printed), and each is over after a       *)
(* bounded number of calls.                                                *)
(***************************************************************************)
EXTENDS PanIperf, Weather, SequenceTheorems, TLAPS

USE PanAssumption

\* The link's stages: a phone is on the line unless the link is down, profiles are
\* up only when it is encrypted, and the address kept is then its own, and nobody's
\* between pairing and encryption.
StageInv ==
    /\ stage = "down" <=> link = None
    /\ pan_connected = 1 \/ hid => stage = "encrypted"
    /\ stage = "encrypted" => bd_addr = link
    /\ stage = "paired" => bd_addr = Erased

\* With the retries switched off no attempt has been counted.
OffInv == retry_flag = 0 => retry_times = 0

\* None has been made late while the link is up, nor when main is about to make one.
LateInv == late <= 1 /\ (bt_connected \/ main = "ask" => late = 0)

PanInv == LinkInv /\ BudgetWhole /\ StageInv /\ OffInv /\ LateInv

Messages == {BT_APP_READY, BT_APP_CONNECT_PAN}

\* What the parts of the invariant rest on.
linkVars == <<bt_connected, bd_addr, pan_connected, pan_connect_timer, ready, link, stage, hid,
              bonded, paired>>
loopVars == <<retry, shell>>

MailOK == g_bt_app_mb \in Seq(Messages) /\ Len(g_bt_app_mb) <= MbSize
LoopOK ==
    /\ retry_flag \in {0, 1} /\ retry_times \in Nat /\ retry_max_times \in Nat
    /\ shell \in {"idle", "post", "loop", "delay"}
    /\ BudgetWhole /\ OffInv
LinkOK ==
    /\ bt_connected \in BOOLEAN /\ bd_addr \in Addrs /\ pan_connected \in {0, 1}
    /\ pan_connect_timer \in {"none", "stopped", "running"}
    /\ ready \in BOOLEAN /\ link \in Phones \cup {None} /\ hid \in BOOLEAN
    /\ stage \in {"down", "acl", "paired", "encrypted"}
    /\ bonded \subseteq Phones /\ paired \in Phones \cup {None}
    /\ TimerHasLink /\ StageInv
RequestsOK == asked \subseteq Addrs
MainOK == main \in {"ready", "pan", "test", "ask"} /\ soft \in {"idle", "test", "post"}
LateOK == late \in Nat /\ LateInv
mainVars == <<main, soft>>
lateVars == <<late, main, bt_connected>>

LEMMA PanParts == PanInv <=> MailOK /\ LoopOK /\ LinkOK /\ RequestsOK /\ MainOK /\ LateOK
  BY DEF PanInv, LinkInv, TypeOK, MailOK, LoopOK, LinkOK, RequestsOK, MainOK, LateOK, Messages

LEMMA PartsNext ==
  MailOK' /\ LoopOK' /\ LinkOK' /\ RequestsOK' /\ MainOK' /\ LateOK' => PanInv'
  BY DEF PanInv, LinkInv, TypeOK, MailOK, LoopOK, LinkOK, RequestsOK, MainOK, LateOK, Messages

-----------------------------------------------------------------------------
LEMMA PanInit == Init => PanInv
<1> SUFFICES ASSUME Init PROVE PanInv
  OBVIOUS
<1>1. MailOK
  BY DEF Init, MailOK
<1>2. LoopOK
  BY DEF Init, LoopOK, BudgetWhole, OffInv
<1>3. LinkOK
  <2>1. bonded \subseteq Phones /\ bd_addr \in Addrs
    BY DEF Init, Addrs
  <2>2. /\ bt_connected = FALSE /\ pan_connected = 0 /\ pan_connect_timer = "none" /\ ready = FALSE
        /\ link = None /\ stage = "down" /\ hid = FALSE /\ paired = None
    BY DEF Init
  <2>3. TimerHasLink /\ StageInv
    BY <2>2 DEF TimerHasLink, StageInv
  <2> QED
    BY <2>1, <2>2, <2>3 DEF LinkOK
<1> QED
  BY <1>1, <1>2, <1>3, PanParts DEF Init, RequestsOK, MainOK, LateOK, LateInv

\* The mailbox takes a message or drops it.
LEMMA PostStep ==
    ASSUME MailOK, NEW m \in Messages, Post(m)
    PROVE  MailOK'
<1>1. g_bt_app_mb' = IF Len(g_bt_app_mb) < MbSize THEN Append(g_bt_app_mb, m) ELSE g_bt_app_mb
  BY DEF Post, Posted
<1>2. Append(g_bt_app_mb, m) \in Seq(Messages)
      /\ Len(Append(g_bt_app_mb, m)) = Len(g_bt_app_mb) + 1 /\ Len(g_bt_app_mb) \in Nat
  BY DEF MailOK
<1> QED
  BY <1>1, <1>2 DEF MailOK

LEMMA TakeStep ==
    ASSUME MailOK, g_bt_app_mb # <<>>, g_bt_app_mb' = Tail(g_bt_app_mb)
    PROVE  MailOK'
<1>1. Tail(g_bt_app_mb) \in Seq(Messages) /\ Len(Tail(g_bt_app_mb)) = Len(g_bt_app_mb) - 1
      /\ Len(g_bt_app_mb) \in Nat
  BY HeadTailProperties DEF MailOK
<1> QED
  BY <1>1 DEF MailOK

\* Parts that a step leaves alone.
LEMMA PanFrames ==
    /\ UNCHANGED g_bt_app_mb /\ MailOK => MailOK'
    /\ UNCHANGED loopVars /\ LoopOK => LoopOK'
    /\ UNCHANGED linkVars /\ LinkOK => LinkOK'
    /\ UNCHANGED asked /\ RequestsOK => RequestsOK'
    /\ UNCHANGED mainVars /\ MainOK => MainOK'
    /\ UNCHANGED lateVars /\ LateOK => LateOK'
  BY DEF MailOK, LoopOK, LinkOK, RequestsOK, MainOK, LateOK, loopVars, linkVars, mainVars, lateVars,
         retry, BudgetWhole, OffInv, TimerHasLink, StageInv, LateInv

-----------------------------------------------------------------------------
\* The events of the stack.
LEMMA EventStep ==
    ASSUME LinkOK, RequestsOK, LateOK,
           ACL_DISCONNECTED \/ ENCRYPTION \/ KEY_MISSING \/ (\E s \in BOOLEAN : PAIR_IND(s))
             \/ PAN_CONNECTED \/ PAN_DISCONNECTED \/ HID_CONNECTED \/ HID_DISCONNECTED
             \/ (\E p \in Phones : LinkUp(p)) \/ (\E a \in asked : RequestFails(a))
    PROVE  LinkOK' /\ RequestsOK' /\ LateOK' /\ UNCHANGED <<g_bt_app_mb, loopVars, mainVars>>
<1> USE DEF LinkOK, RequestsOK, LateOK, LateInv, TimerHasLink, StageInv, StopTimer, PanConn,
            loopVars, mainVars, env, stack, threads, Addrs, AskPan
<1>1. CASE ACL_DISCONNECTED
  <2>1. /\ link' = None /\ stage' = "down" /\ bt_connected' = FALSE /\ StopTimer
        /\ ~hid /\ pan_connected = 0
        /\ UNCHANGED <<bd_addr, pan_connected, retry, g_bt_app_mb, threads, ready, hid, bonded,
                       paired, asked, late>>
    BY <1>1 DEF ACL_DISCONNECTED
  <2>2. TimerHasLink' /\ StageInv'
    BY <2>1
  <2> QED
    BY <2>1, <2>2
<1>2. CASE ENCRYPTION
  BY <1>2 DEF ENCRYPTION
<1>3. CASE KEY_MISSING
  BY <1>3 DEF KEY_MISSING
<1>4. ASSUME NEW s \in BOOLEAN, PAIR_IND(s)
      PROVE  LinkOK' /\ RequestsOK' /\ LateOK' /\ UNCHANGED <<g_bt_app_mb, loopVars, mainVars>>
  <2>1. CASE s
    BY <1>4, <2>1 DEF PAIR_IND
  <2>2. CASE ~s
    BY <1>4, <2>2 DEF PAIR_IND
  <2> QED
    BY <2>1, <2>2
<1>5. CASE PAN_CONNECTED
  BY <1>5 DEF PAN_CONNECTED
<1>6. CASE PAN_DISCONNECTED
  BY <1>6 DEF PAN_DISCONNECTED
<1>7. CASE HID_CONNECTED
  BY <1>7 DEF HID_CONNECTED
<1>8. CASE HID_DISCONNECTED
  BY <1>8 DEF HID_DISCONNECTED
<1>9. CASE \E p \in Phones : LinkUp(p)
  BY <1>9 DEF LinkUp
<1>10. CASE \E a \in asked : RequestFails(a)
  BY <1>10 DEF RequestFails
<1> QED
  BY <1>1, <1>2, <1>3, <1>4, <1>5, <1>6, <1>7, <1>8, <1>9, <1>10

\* The loop of pan_reconnect, and the shell's other commands.
LEMMA LoopStep ==
    ASSUME LoopOK, LinkOK, pan_reconnect \/ autoconnect
             \/ (\E flag \in {0, 1}, times \in Tries : bt_pan_set_retry(flag, times))
    PROVE  LoopOK' /\ LinkOK' /\ UNCHANGED <<g_bt_app_mb, mainVars, lateVars, asked>>
<1> USE DEF LoopOK, BudgetWhole, OffInv, mainVars, lateVars
<1>1. CASE Attempt
  <2>1. UNCHANGED <<env, retry_flag, retry_max_times, g_bt_app_mb, main, soft, stack, asked, late>>
        /\ shell = "loop" /\ retry_times < retry_max_times
    BY <1>1 DEF Attempt
  <2>2. CASE retry_flag = 0
    <3>1. shell' = "idle" /\ UNCHANGED <<pan_connect_timer, retry_times>>
      BY <1>1, <2>2 DEF Attempt
    <3>2. LinkOK'
      BY <2>1, <3>1, PanFrames DEF linkVars, env, stack
    <3> QED
      BY <2>1, <2>2, <3>1, <3>2 DEF env
  <2>3. CASE retry_flag # 0
    <3>1. StopTimer /\ retry_times' = retry_times + 1 /\ shell' = "delay"
      BY <1>1, <2>3 DEF Attempt
    <3>2. LinkOK'
      BY <2>1, <3>1 DEF LinkOK, TimerHasLink, StageInv, StopTimer, env, stack, Addrs
    <3> QED
      BY <2>1, <2>3, <3>1, <3>2 DEF env
  <2> QED
    BY <2>2, <2>3
<1>2. CASE Delay \/ Exhausted \/ autoconnect
             \/ (\E flag \in {0, 1}, times \in Tries : bt_pan_set_retry(flag, times))
  <2>1. UNCHANGED <<g_bt_app_mb, mainVars, lateVars, linkVars, asked>>
    BY <1>2
       DEF Delay, Exhausted, autoconnect, bt_pan_set_retry, linkVars, env, stack, threads, retry
  <2>2. LoopOK'
    BY <1>2 DEF Delay, Exhausted, autoconnect, bt_pan_set_retry, Command, retry, threads
  <2> QED
    BY <2>1, <2>2, PanFrames
<1> QED
  BY <1>1, <1>2 DEF pan_reconnect

\* The timer's thread, and the commands that touch the mailbox or the keys.
LEMMA MailStep ==
    ASSUME MailOK, LinkOK, LoopOK, MainOK,
           STACK_READY \/ Timer \/ del_bond \/ conn_pan \/ ShellPost
    PROVE  MailOK' /\ LinkOK' /\ LoopOK' /\ MainOK' /\ UNCHANGED <<lateVars, asked>>
<1> USE DEF env, stack, threads, loopVars, linkVars, mainVars, lateVars
<1>1. CASE STACK_READY
  <2>1. MailOK'
    BY <1>1, PostStep DEF STACK_READY, Messages
  <2>2. UNCHANGED <<loopVars, mainVars, lateVars, asked>>
    BY <1>1 DEF STACK_READY
  <2>3. LinkOK'
    BY <1>1 DEF STACK_READY, LinkOK, TimerHasLink, StageInv
  <2> QED
    BY <2>1, <2>2, <2>3, PanFrames
<1>2. CASE TimerExpires
  <2>1. LinkOK'
    BY <1>2 DEF TimerExpires, LinkOK, TimerHasLink, StageInv
  <2>2. MainOK'
    BY <1>2 DEF TimerExpires, MainOK
  <2>3. UNCHANGED <<g_bt_app_mb, loopVars, lateVars, asked>>
    BY <1>2 DEF TimerExpires
  <2> QED
    BY <2>1, <2>2, <2>3, PanFrames
<1>3. CASE TimerTest
  <2>1. UNCHANGED <<g_bt_app_mb, loopVars, linkVars, lateVars, asked>>
    BY <1>3 DEF TimerTest
  <2>2. MainOK'
    BY <1>3 DEF TimerTest, MainOK
  <2> QED
    BY <2>1, <2>2, PanFrames
<1>4. CASE TimerPost
  <2>1. MailOK'
    BY <1>4, PostStep DEF TimerPost, Messages
  <2>2. UNCHANGED <<loopVars, linkVars, lateVars, asked>>
    BY <1>4 DEF TimerPost
  <2>3. MainOK'
    BY <1>4 DEF TimerPost, MainOK
  <2> QED
    BY <2>1, <2>2, <2>3, PanFrames
<1>5. CASE del_bond
  <2>1. UNCHANGED <<g_bt_app_mb, loopVars, mainVars, lateVars, asked>>
    BY <1>5 DEF del_bond
  <2>2. LinkOK'
    BY <1>5 DEF del_bond, LinkOK, TimerHasLink, StageInv
  <2> QED
    BY <2>1, <2>2, PanFrames
<1>6. CASE conn_pan
  <2>1. UNCHANGED <<g_bt_app_mb, linkVars, mainVars, lateVars, asked>>
    BY <1>6 DEF conn_pan
  <2>2. LoopOK'
    BY <1>6 DEF conn_pan, Command, LoopOK, BudgetWhole, OffInv, retry
  <2> QED
    BY <2>1, <2>2, PanFrames
<1>7. CASE ShellPost
  <2>1. MailOK'
    BY <1>7, PostStep DEF ShellPost, Messages
  <2>2. UNCHANGED <<linkVars, mainVars, lateVars, asked>>
    BY <1>7 DEF ShellPost
  <2>3. LoopOK'
    BY <1>7 DEF ShellPost, LoopOK, BudgetWhole, OffInv, retry
  <2> QED
    BY <2>1, <2>2, <2>3, PanFrames
<1> QED
  BY <1>1, <1>2, <1>3, <1>4, <1>5, <1>6, <1>7 DEF Timer

\* The loop of main.
LEMMA MainStep ==
    ASSUME MailOK, LinkOK, RequestsOK, MainOK, LateOK, MainThread
    PROVE  MailOK' /\ RequestsOK' /\ MainOK' /\ LateOK' /\ UNCHANGED <<linkVars, loopVars>>
<1>1. UNCHANGED <<linkVars, loopVars, soft>>
  BY DEF MainThread, MainReady, MainPan, MainTest, MainAsk, loopVars, linkVars, env, stack
<1>2. MailOK'
  <2>1. CASE g_bt_app_mb # <<>> /\ g_bt_app_mb' = Tail(g_bt_app_mb)
    BY <2>1, TakeStep
  <2>2. CASE g_bt_app_mb' = g_bt_app_mb
    BY <2>2, PanFrames
  <2> QED
    BY <2>1, <2>2 DEF MainThread, MainReady, MainPan, MainTest, MainAsk
<1>3. RequestsOK'
  BY DEF MainThread, MainReady, MainPan, MainTest, MainAsk, AskPan, RequestsOK, LinkOK
<1>4. MainOK'
  BY <1>1 DEF MainThread, MainReady, MainPan, MainTest, MainAsk, MainOK
<1>5. LateOK'
  BY <1>1 DEF MainThread, MainReady, MainPan, MainTest, MainAsk, LateOK, LateInv, linkVars
<1> QED
  BY <1>1, <1>2, <1>3, <1>4, <1>5

LEMMA PanStep == PanInv /\ [Next]_vars => PanInv'
<1> SUFFICES ASSUME PanInv, [Next]_vars PROVE PanInv'
  OBVIOUS
<1>0. MailOK /\ LoopOK /\ LinkOK /\ RequestsOK /\ MainOK /\ LateOK
  BY PanParts
<1>1. CASE UNCHANGED vars
  <2>1. UNCHANGED <<g_bt_app_mb, loopVars, linkVars, asked, mainVars, lateVars>>
    BY <1>1 DEF vars, env, stack, threads, loopVars, linkVars, mainVars, lateVars
  <2> QED
    BY <1>0, <2>1, PanFrames, PartsNext
<1>2. CASE \/ ACL_DISCONNECTED \/ ENCRYPTION \/ KEY_MISSING \/ (\E s \in BOOLEAN : PAIR_IND(s))
           \/ PAN_CONNECTED \/ PAN_DISCONNECTED \/ HID_CONNECTED \/ HID_DISCONNECTED
           \/ (\E p \in Phones : LinkUp(p)) \/ (\E a \in asked : RequestFails(a))
  <2>1. LinkOK' /\ RequestsOK' /\ LateOK' /\ UNCHANGED <<g_bt_app_mb, loopVars, mainVars>>
    BY <1>0, <1>2, EventStep
  <2> QED
    BY <1>0, <2>1, PanFrames, PartsNext
<1>3. CASE pan_reconnect \/ autoconnect
             \/ (\E flag \in {0, 1}, times \in Tries : bt_pan_set_retry(flag, times))
  <2>1. LoopOK' /\ LinkOK' /\ UNCHANGED <<g_bt_app_mb, mainVars, lateVars, asked>>
    BY <1>0, <1>3, LoopStep
  <2> QED
    BY <1>0, <2>1, PanFrames, PartsNext
<1>4. CASE STACK_READY \/ Timer \/ del_bond \/ conn_pan \/ ShellPost
  <2>1. MailOK' /\ LinkOK' /\ LoopOK' /\ MainOK' /\ UNCHANGED <<lateVars, asked>>
    BY <1>0, <1>4, MailStep
  <2> QED
    BY <1>0, <2>1, PanFrames, PartsNext
<1>5. CASE MainThread
  <2>1. MailOK' /\ RequestsOK' /\ MainOK' /\ LateOK' /\ UNCHANGED <<linkVars, loopVars>>
    BY <1>0, <1>5, MainStep
  <2> QED
    BY <1>0, <2>1, PanFrames, PartsNext
<1> QED
  BY <1>1, <1>2, <1>3, <1>4, <1>5 DEF Next, Handler

-----------------------------------------------------------------------------
\* Everything that the connection logic keeps in step, in every reachable state.
THEOREM PanInvariant == Spec => []PanInv
  BY PanInit, PanStep, PTL DEF Spec

\* Timer and flag follow the link.
THEOREM LinkCorrect == Spec => []LinkInv
  BY PanInvariant, PTL DEF PanInv

\* Every call of pan_reconnect finds its whole budget.
THEOREM BudgetCorrect == Spec => []BudgetWhole
  BY PanInvariant, PTL DEF PanInv

\* While a phone is connected, a new request for PAN names this phone, or nobody.
THEOREM PeerAsked == Spec => AsksThePeer
<1> DEFINE Asks == \A a \in Addrs : bt_connected /\ a \in asked' \ asked =>
                       a = link \/ (a = Erased /\ stage = "paired")
<1>1. PanInv /\ [Next]_vars => [Asks]_vars
  <2> SUFFICES ASSUME PanInv, Next PROVE Asks
    OBVIOUS
  <2>1. LinkOK
    BY PanParts
  <2>2. CASE HID_CONNECTED \/ MainAsk
    <3>1. asked' \subseteq asked \cup {bd_addr}
      BY <2>2 DEF HID_CONNECTED, MainAsk, AskPan
    <3>2. bt_connected => bd_addr = link \/ (bd_addr = Erased /\ stage = "paired")
      BY <2>1 DEF LinkOK, StageInv, TimerHasLink
    <3> QED
      BY <3>1, <3>2
  <2>3. CASE asked' \subseteq asked
    BY <2>3
  <2> QED
    BY <2>2, <2>3
       DEF Next, Handler, STACK_READY, ACL_DISCONNECTED, ENCRYPTION, KEY_MISSING, PAIR_IND,
           PAN_CONNECTED, PAN_DISCONNECTED, HID_DISCONNECTED, LinkUp, RequestFails, Timer,
           TimerExpires, TimerTest, TimerPost, MainThread, MainReady, MainPan, MainTest, del_bond,
           conn_pan, ShellPost, autoconnect, bt_pan_set_retry, pan_reconnect, Attempt, Delay,
           Exhausted
<1> QED
  BY <1>1, PanInvariant, PTL DEF AsksThePeer, Spec

\* A link that is gone is asked for once at most: main tests the flag again for every
\* message, and can only have been between this test and the request.
THEOREM LateRequests == Spec => []OneLateRequest
<1>1. PanInv => OneLateRequest
  BY DEF PanInv, LateInv, OneLateRequest
<1> QED
  BY <1>1, PanInvariant, PTL

-----------------------------------------------------------------------------
(* pan_reconnect comes to its end: what ShellReturns needs beside a shell   *)
(* that runs.                                                              *)

\* The steps the loop still has before it, two for each attempt and one to leave.
StepsLeft == 2 * (retry_max_times - retry_times) + (IF shell = "delay" THEN 2 ELSE 1)

\* Whatever the stack, the timer and the other threads do between them, each step of
\* the loop leaves fewer, or is its last.
ReconnectDescends ==
    [][shell # "idle" =>
        \/ UNCHANGED <<shell, retry>>
        \/ shell' = "idle"
        \/ StepsLeft' \in Nat /\ StepsLeft' < StepsLeft]_vars

\* The count never passes the budget, which no command can lower meanwhile.
CountInv == retry_times <= retry_max_times

\* Attempt counts only below retry_max_times, and no command lowers that during a call.
THEOREM CountWithinBudget == Spec => []CountInv
<1>1. Init => CountInv
  BY DEF Init, CountInv
<1>2. PanInv /\ CountInv /\ [Next]_vars => CountInv'
  <2> SUFFICES ASSUME PanInv, CountInv, [Next]_vars PROVE CountInv'
    OBVIOUS
  <2>1. LoopOK
    BY PanParts
  <2>2. CASE UNCHANGED retry
    BY <2>2 DEF CountInv, retry
  <2>3. CASE pan_reconnect \/ (\E flag \in {0, 1}, times \in Tries : bt_pan_set_retry(flag, times))
    BY <2>1, <2>3 DEF pan_reconnect, Attempt, Delay, Exhausted, bt_pan_set_retry, Command, retry,
                      CountInv, LoopOK, BudgetWhole
  <2> QED
    BY <2>2, <2>3
       DEF Next, Handler, STACK_READY, ACL_DISCONNECTED, ENCRYPTION, KEY_MISSING, PAIR_IND,
           PAN_CONNECTED, PAN_DISCONNECTED, HID_CONNECTED, HID_DISCONNECTED, LinkUp, RequestFails,
           Timer, TimerExpires, TimerTest, TimerPost, MainThread, MainReady, MainPan, MainTest,
           MainAsk, del_bond, conn_pan, ShellPost, autoconnect, vars
<1> QED
  BY <1>1, <1>2, PanInvariant, PTL DEF Spec

\* A call of pan_reconnect is over after at most two steps for each attempt allowed.
THEOREM ReconnectsEnd == Spec => ReconnectDescends
<1> DEFINE Nearer ==
      \/ UNCHANGED <<shell, retry>>
      \/ shell' = "idle"
      \/ StepsLeft' \in Nat /\ StepsLeft' < StepsLeft
<1>1. ASSUME PanInv, CountInv, Next, shell # "idle"
      PROVE  Nearer
  <2>1. LoopOK
    BY <1>1, PanParts
  <2>2. CASE Attempt
    BY <1>1, <2>1, <2>2 DEF Attempt, StepsLeft, LoopOK, CountInv
  <2>3. CASE Delay
    BY <1>1, <2>1, <2>3 DEF Delay, StepsLeft, LoopOK, CountInv
  <2>4. CASE Exhausted
    BY <2>4 DEF Exhausted
  <2> QED
    BY <1>1, <2>2, <2>3, <2>4
       DEF Next, Handler, STACK_READY, ACL_DISCONNECTED, ENCRYPTION, KEY_MISSING, PAIR_IND,
           PAN_CONNECTED, PAN_DISCONNECTED, HID_CONNECTED, HID_DISCONNECTED, LinkUp, RequestFails,
           Timer, TimerExpires, TimerTest, TimerPost, MainThread, MainReady, MainPan, MainTest,
           MainAsk, del_bond, conn_pan, ShellPost, autoconnect, bt_pan_set_retry, Command,
           pan_reconnect, threads
<1>2. PanInv /\ CountInv /\ [Next]_vars => [shell # "idle" => Nearer]_vars
  BY <1>1
<1> QED
  BY <1>2, PanInvariant, CountWithinBudget, PTL DEF Spec, ReconnectDescends

-----------------------------------------------------------------------------
(* The web clients                                                         *)

\* What a command points to before each of its calls: of the weather exactly, of the
\* chat at most, its requests and answers being taken for granted.
PointersInv ==
    /\ pc \in {"idle", "lookup", "url", "compose"} => pointers = {}
    /\ pc = "session" => pointers = {"weather_url"}
    /\ pc \in {"get", "buffer"} => pointers = {"weather_url", "session"}
    /\ pc \in {"length", "read"} => pointers = {"weather_url", "session", "buffer"}
    /\ pc = "exit" => pointers \subseteq {"weather_url", "session", "buffer"}
    /\ pc \in {"parse", "free"} => pointers = {"buffer"}
    /\ pc \in {"results", "delete"} => pointers = {"buffer", "root"}
    /\ pc = "post" => pointers \subseteq {"request_data"}
    /\ pc \in {"answer", "release"} => pointers \subseteq {"request_data", "response_data"}
    /\ pc \in {"choices", "deleteAnswer"} =>
         /\ "response_json" \in pointers
         /\ pointers \subseteq {"request_data", "response_data", "response_json"}

\* What is allocated is what is pointed to, but for what the code loses; a command has
\* lost nothing before it parses or composes, and one document at most after that.
HeapInv ==
    /\ \A o \in Objects \ Lost : live[o] = IF o \in pointers THEN 1 ELSE 0
    /\ live["strings"] >= 0 /\ live["root"] >= 0 /\ live["message"] >= 0
    /\ "root" \in pointers => live["root"] > 0
    /\ "strings" \notin pointers /\ "message" \notin pointers
    /\ live["root"] + live["message"] <= commands
    /\ pc \in {"lookup", "url", "session", "get", "buffer", "length", "read", "exit", "parse",
               "compose"} => live["root"] + live["message"] < commands

\* Nothing has been read before the loop, and never more than there is in it.
ReadingInv ==
    /\ pc \in {"url", "session", "get", "buffer", "length"} => content_pos = 0
    /\ ReadsWithin

ClientInv == ClientTypeOK /\ PointersInv /\ HeapInv /\ ReadingInv

\* Where a command is on its way, and what its two loops have left to do.
Place ==
    [idle |-> 13, fault |-> 13,
     lookup |-> 1, url |-> 2, session |-> 3, get |-> 4, buffer |-> 5, length |-> 6, read |-> 7,
     exit |-> 8, parse |-> 9, results |-> 10, delete |-> 11, free |-> 12,
     compose |-> 1, post |-> 2, answer |-> 3, choices |-> 4, deleteAnswer |-> 5, release |-> 6]
Remaining == IF pc = "read" THEN content_length - content_pos ELSE results

\* What makes CommandEnds true whatever the answers are: every call takes the command
\* further on its way, or is one more round of a loop that has less left to do each
\* time.
CommandDescends ==
    [][pc # "idle" =>
        \/ Place[pc'] > Place[pc]
        \/ pc' = pc /\ Remaining \in Nat /\ Remaining' \in Nat /\ Remaining' < Remaining]_clientVars

LEMMA ClientStart == ClientInit => ClientInv
<1> SUFFICES ASSUME ClientInit PROVE ClientInv
  OBVIOUS
<1>1. pc = "idle" /\ pointers = {} /\ live = [o \in Objects |-> 0] /\ content_length = -1
      /\ content_pos = 0 /\ results = 0 /\ filled = FALSE /\ commands = 0
  BY DEF ClientInit
<1>2. ClientTypeOK
  <2>1. 0 \in 0 .. MaxResults /\ 0 \in 0 .. MaxCommands /\ {} \subseteq Objects
    BY WeatherAssumption
  <2>2. content_length \in Lengths \cup {-1} /\ content_pos \in Nat
    BY <1>1
  <2>3. live \in [Objects -> Int] /\ pointers \subseteq Objects
    BY <1>1
  <2>4. filled \in BOOLEAN
    BY <1>1, Zenon
  <2> QED
    BY <1>1, <2>1, <2>2, <2>3, <2>4 DEF ClientTypeOK
<1>3. PointersInv /\ HeapInv /\ ReadingInv
  BY <1>1 DEF PointersInv, HeapInv, ReadingInv, ReadsWithin, Objects, Lost
<1> QED
  BY <1>2, <1>3 DEF ClientInv

\* What a read takes is never more than the answer has left.
LEMMA ReadBound ==
    ASSUME ClientTypeOK, NEW n \in Returned
    PROVE  n \in Int /\ content_pos + n <= content_length
<1>1. content_length \in Int /\ content_pos \in Nat /\ BufSize \in Nat
  BY WeatherAssumption DEF ClientTypeOK
<1> QED
  BY <1>1 DEF Returned, Smaller

\* What making and freeing do to the heap.
LEMMA MakeStep ==
    ASSUME ClientInv, NEW o \in Objects \ Lost, o \notin pointers, Make(o)
    PROVE  /\ live' \in [Objects -> Int] /\ pointers' = pointers \cup {o} /\ pointers' \subseteq Objects
           /\ \A q \in Objects \ Lost : live'[q] = IF q \in pointers' THEN 1 ELSE 0
           /\ \A q \in Lost : live'[q] = live[q] /\ (q \in pointers' <=> q \in pointers)
  BY DEF ClientInv, ClientTypeOK, HeapInv, Make, Lost, Objects

LEMMA FreeStep ==
    ASSUME ClientInv, NEW os \in SUBSET (Objects \ Lost), os \subseteq pointers, FreeAll(os)
    PROVE  /\ live' \in [Objects -> Int] /\ pointers' = pointers \ os /\ pointers' \subseteq Objects
           /\ \A q \in Objects \ Lost : live'[q] = IF q \in pointers' THEN 1 ELSE 0
           /\ \A q \in Lost : live'[q] = live[q] /\ (q \in pointers' <=> q \in pointers)
  BY DEF ClientInv, ClientTypeOK, HeapInv, FreeAll, Lost, Objects

\* What the cleanup leaves of what the request pointed to.
LEMMA BufferIsLeft ==
    ASSUME NEW S \in SUBSET {"weather_url", "session", "buffer"}
    PROVE  S \ {"weather_url", "session"} = IF "buffer" \in S THEN {"buffer"} ELSE {}
  OBVIOUS

LEMMA WeatherStep ==
    ASSUME ClientInv, get_weather
    PROVE  ClientInv'
<1> USE WeatherAssumption
        DEF ClientInv, ClientTypeOK, PointersInv, HeapInv, ReadingInv, ReadsWithin, reading, parsing,
            heap, Objects, Lost
<1>1. CASE check_internet_access
  BY <1>1 DEF check_internet_access
<1>2. CASE AllocateUrl
  <2>1. CASE Make("weather_url") /\ pc' = "session"
    BY <1>2, <2>1, MakeStep DEF AllocateUrl, Allocate
  <2>2. CASE UNCHANGED heap /\ pc' = "exit"
    BY <1>2, <2>2 DEF AllocateUrl, Allocate
  <2> QED
    BY <1>2, <2>1, <2>2 DEF AllocateUrl, Allocate
<1>3. CASE CreateSession
  <2>1. CASE Make("session") /\ pc' = "get"
    BY <1>3, <2>1, MakeStep DEF CreateSession, Allocate
  <2>2. CASE UNCHANGED heap /\ pc' = "exit"
    BY <1>3, <2>2 DEF CreateSession, Allocate
  <2> QED
    BY <1>3, <2>1, <2>2 DEF CreateSession, Allocate
<1>4. CASE webclient_get
  BY <1>4 DEF webclient_get
<1>5. CASE AllocateBuffer
  <2>1. CASE Make("buffer") /\ pc' = "length"
    BY <1>5, <2>1, MakeStep DEF AllocateBuffer, Allocate
  <2>2. CASE UNCHANGED heap /\ pc' = "exit"
    BY <1>5, <2>2 DEF AllocateBuffer, Allocate
  <2> QED
    BY <1>5, <2>1, <2>2 DEF AllocateBuffer, Allocate
<1>6. CASE webclient_content_length_get
  <2>1. CASE UNCHANGED heap /\ pc' = "read" /\ content_length' > 0
    BY <1>6, <2>1 DEF webclient_content_length_get
  <2>2. CASE FreeAll({"buffer"}) /\ pc' = "exit"
    BY <1>6, <2>2, FreeStep DEF webclient_content_length_get
  <2> QED
    BY <1>6, <2>1, <2>2 DEF webclient_content_length_get
<1>7. CASE webclient_read
  <2>1. PICK n \in Returned :
          /\ content_pos' = IF n <= 0 THEN content_pos ELSE content_pos + n
          /\ pc' = IF n > 0 /\ content_pos' < content_length THEN "read" ELSE "exit"
    BY <1>7 DEF webclient_read
  <2>2. n \in Int /\ content_pos' \in Nat
    BY <2>1, ReadBound
  <2> QED
    BY <1>7, <2>1, <2>2 DEF webclient_read
<1>8. CASE Exit
  <2>1. pointers \subseteq {"weather_url", "session", "buffer"}
    BY <1>8 DEF Exit
  <2>2. /\ live' \in [Objects -> Int] /\ pointers' = pointers \ {"weather_url", "session"}
        /\ \A q \in Objects \ Lost : live'[q] = IF q \in pointers' THEN 1 ELSE 0
        /\ \A q \in Lost : live'[q] = live[q] /\ (q \in pointers' <=> q \in pointers)
    BY <1>8, FreeStep DEF Exit
  <2>3. pointers' = IF "buffer" \in pointers THEN {"buffer"} ELSE {}
    BY <2>1, <2>2, BufferIsLeft
  <2> QED
    BY <1>8, <2>2, <2>3 DEF Exit
<1> QED
  BY <1>1, <1>2, <1>3, <1>4, <1>5, <1>6, <1>7, <1>8 DEF get_weather

LEMMA ParseStep ==
    ASSUME ClientInv, http_weather_data_parse \/ FreeWeather
    PROVE  ClientInv'
<1> USE WeatherAssumption
        DEF ClientInv, ClientTypeOK, PointersInv, HeapInv, ReadingInv, ReadsWithin, reading, parsing,
            heap, Objects, Lost, Wild
<1>1. CASE ParseRoot
  <2>1. CASE Make("root") /\ pc' = "results" /\ results' \in 0 .. MaxResults
    <3>1. live' = [live EXCEPT !["root"] = @ + 1] /\ pointers' = {"buffer", "root"}
      BY <1>1, <2>1 DEF ParseRoot, Make
    <3>2. /\ live' \in [Objects -> Int] /\ live'["root"] = live["root"] + 1
          /\ \A o \in Objects \ {"root"} : live'[o] = live[o]
      BY <3>1
    <3>3. ClientTypeOK' /\ PointersInv' /\ ReadingInv'
      BY <1>1, <2>1, <3>1, <3>2 DEF ParseRoot
    <3>4. live["root"] + live["message"] < commands /\ commands' = commands /\ pc = "parse"
      BY <1>1 DEF ParseRoot
    <3>5. HeapInv'
      BY <2>1, <3>1, <3>2, <3>4
    <3> QED
      BY <3>3, <3>5
  <2>2. CASE UNCHANGED <<heap, results>> /\ pc' = "free"
    BY <1>1, <2>2 DEF ParseRoot
  <2> QED
    BY <1>1, <2>1, <2>2 DEF ParseRoot
<1>2. CASE ParseResult
  <2>1. pointers = {"buffer", "root"} /\ results \in Nat /\ results > 0 /\ pc = "results"
        /\ UNCHANGED <<content_length, content_pos, commands>>
    BY <1>2 DEF ParseResult
  <2>2. CASE /\ \E n \in 1 .. Fields : Printed(n)
             /\ results' = results - 1 /\ filled' = TRUE /\ UNCHANGED <<pc, pointers>>
    <3>1. PICK n \in 1 .. Fields : live' = [live EXCEPT !["strings"] = @ + n]
      BY <2>2 DEF Printed
    <3> QED
      BY <2>1, <2>2, <3>1
  <2>3. CASE /\ \E n \in 0 .. 1 : Printed(n)
             /\ pointers' = pointers \ {"root"} /\ pc' = "free" /\ UNCHANGED parsing
    <3>1. PICK n \in 0 .. 1 : live' = [live EXCEPT !["strings"] = @ + n]
      BY <2>3 DEF Printed
    <3>2. pointers' = {"buffer"}
      BY <2>1, <2>3
    <3> QED
      BY <2>1, <2>3, <3>1, <3>2
  <2> QED
    BY <1>2, <2>2, <2>3 DEF ParseResult
<1>3. CASE PrintWeather
  BY <1>3 DEF PrintWeather
<1>4. CASE DeleteRoot
  <2>1. pointers' = pointers \ {"root"} /\ pointers = {"buffer", "root"}
    BY <1>4 DEF DeleteRoot, FreeAll
  <2>2. /\ live' \in [Objects -> Int] /\ live'["root"] = live["root"] - 1
        /\ \A o \in Objects \ {"root"} : live'[o] = live[o]
    BY <1>4 DEF DeleteRoot, FreeAll
  <2>3. pointers' = {"buffer"}
    BY <2>1, Zenon
  <2> QED
    BY <1>4, <2>1, <2>2, <2>3 DEF DeleteRoot
<1>5. CASE FreeWeather
  <2>1. /\ live' \in [Objects -> Int] /\ pointers' = {}
        /\ \A q \in Objects \ Lost : live'[q] = IF q \in pointers' THEN 1 ELSE 0
        /\ \A q \in Lost : live'[q] = live[q]
    BY <1>5, FreeStep DEF FreeWeather
  <2> QED
    BY <1>5, <2>1 DEF FreeWeather
<1> QED
  BY <1>1, <1>2, <1>3, <1>4, <1>5 DEF http_weather_data_parse

LEMMA ChatStep ==
    ASSUME ClientInv, webclient_post_request
    PROVE  ClientInv'
<1> USE WeatherAssumption
        DEF ClientInv, ClientTypeOK, PointersInv, HeapInv, ReadingInv, ReadsWithin, reading, parsing,
            heap, Objects, Lost, Wild
<1>1. CASE ComposeRequest
  <2>1. PICK messages \in BOOLEAN, message \in BOOLEAN, text \in BOOLEAN :
          /\ live' = [live EXCEPT !["message"] = IF message /\ ~messages THEN @ + 1 ELSE @,
                                 !["request_data"] = IF text THEN @ + 1 ELSE @]
          /\ pointers' = IF text THEN pointers \cup {"request_data"} ELSE pointers
          /\ IF text THEN pc' = "post" ELSE pc' \in {"post", "fault"}
    BY <1>1 DEF ComposeRequest
  <2>2. /\ live'["message"] = IF message /\ ~messages THEN live["message"] + 1 ELSE live["message"]
        /\ live'["request_data"] = IF text THEN 1 ELSE 0
        /\ \A o \in Objects \ {"message", "request_data"} : live'[o] = live[o]
        /\ live' \in [Objects -> Int]
        /\ pointers' = IF text THEN {"request_data"} ELSE {}
    <3>1. live \in [Objects -> Int] /\ pointers = {} /\ live["request_data"] = 0
      BY <1>1 DEF ComposeRequest
    <3>2. live["message"] \in Int /\ "message" \in Objects /\ "request_data" \in Objects
      BY <3>1
    <3> HIDE DEF Objects
    <3> DEFINE kept == IF message /\ ~messages THEN live["message"] + 1 ELSE live["message"]
    <3>3. live' = [live EXCEPT !["message"] = kept, !["request_data"] = IF text THEN 1 ELSE 0]
      BY <2>1, <3>1
    <3>4. kept \in Int
      BY <3>2
    <3>5. pointers' = IF text THEN {"request_data"} ELSE {}
      BY <2>1, <3>1, Zenon
    <3> HIDE DEF kept
    <3>6. /\ live'["message"] = kept /\ live'["request_data"] = (IF text THEN 1 ELSE 0)
          /\ \A o \in Objects \ {"message", "request_data"} : live'[o] = live[o]
          /\ live' \in [Objects -> Int]
      BY <3>1, <3>2, <3>3, <3>4
    <3> QED
      BY <3>5, <3>6 DEF kept
  <2>3. live["root"] + live["message"] < commands /\ commands' = commands
    BY <1>1 DEF ComposeRequest
  <2> QED
    BY <1>1, <2>1, <2>2, <2>3 DEF ComposeRequest
<1>2. CASE webclient_request
  <2>1. CASE UNCHANGED heap
    BY <1>2, <2>1 DEF webclient_request
  <2>2. CASE Make("response_data")
    BY <1>2, <2>2, MakeStep DEF webclient_request
  <2> QED
    BY <1>2, <2>1, <2>2 DEF webclient_request
<1>3. CASE ParseAnswer
  <2>1. CASE Make("response_json") /\ pc' = "choices"
    BY <1>3, <2>1, MakeStep DEF ParseAnswer
  <2>2. CASE UNCHANGED heap /\ pc' = "release"
    BY <1>3, <2>2 DEF ParseAnswer
  <2> QED
    BY <1>3, <2>1, <2>2 DEF ParseAnswer
<1>4. CASE PrintAnswer
  BY <1>4 DEF PrintAnswer
<1>5. CASE DeleteAnswer
  BY <1>5, FreeStep DEF DeleteAnswer
<1>6. CASE Release
  <2>1. pointers \subseteq {"request_data", "response_data"}
    BY <1>6 DEF Release
  <2>2. /\ live' \in [Objects -> Int] /\ pointers' = {}
        /\ \A q \in Objects \ Lost : live'[q] = IF q \in pointers' THEN 1 ELSE 0
        /\ \A q \in Lost : live'[q] = live[q]
    BY <1>6, <2>1, FreeStep DEF Release
  <2> QED
    BY <1>6, <2>2 DEF Release
<1> QED
  BY <1>1, <1>2, <1>3, <1>4, <1>5, <1>6 DEF webclient_post_request

LEMMA ClientStep == ClientInv /\ [ClientNext]_clientVars => ClientInv'
<1> SUFFICES ASSUME ClientInv, [ClientNext]_clientVars PROVE ClientInv'
  OBVIOUS
<1> USE WeatherAssumption
        DEF ClientInv, ClientTypeOK, PointersInv, HeapInv, ReadingInv, ReadsWithin, reading, parsing,
            heap, Objects, Lost
<1>1. CASE weather \/ doubao
  <2>1. /\ pc = "idle" /\ pc' \in {"lookup", "compose"} /\ commands < MaxCommands
        /\ commands' = commands + 1 /\ UNCHANGED <<live, pointers, content_length, content_pos>>
    BY <1>1 DEF weather, doubao, Begin
  <2>2. UNCHANGED <<results, filled>>
    BY <1>1 DEF weather, doubao, Begin
  <2>3. ClientTypeOK'
    BY <2>1, <2>2
  <2>4. PointersInv' /\ ReadingInv'
    BY <2>1
  <2>5. live["root"] \in Int /\ live["message"] \in Int /\ commands \in Nat
    OBVIOUS
  <2>6. HeapInv'
    BY <2>1, <2>5
  <2> QED
    BY <2>3, <2>4, <2>6
<1>2. CASE UNCHANGED clientVars
  BY <1>2 DEF clientVars
<1> QED
  BY <1>1, <1>2, WeatherStep, ParseStep, ChatStep DEF ClientNext, Steps

\* At every call of the web clients: what is pointed to, what is allocated, and how far
\* has been read.
THEOREM ClientInvariant == ClientSpec => []ClientInv
  BY ClientStart, ClientStep, PTL DEF ClientSpec

\* Whichever of its calls fails, a command that is over has freed what it pointed to,
\* each object once, and has lost one document at most beside the strings it printed;
\* the loop never asks for more than the answer has left.
THEOREM WeatherCorrect == ClientSpec => []WeatherInv
<1>1. ClientInv => WeatherInv
  <2> SUFFICES ASSUME ClientInv PROVE WeatherInv
    OBVIOUS
  <2>1. ClientTypeOK /\ ReadsWithin
    BY DEF ClientInv, ReadingInv
  <2>2. pc = "idle" => pointers = {} /\ \A o \in Objects \ Lost : live[o] = 0
    BY DEF ClientInv, PointersInv, HeapInv
  <2>3. \A o \in Objects : IF o \in pointers THEN live[o] > 0 ELSE live[o] >= 0
    BY DEF ClientInv, HeapInv, Lost
  <2>4. live["root"] + live["message"] <= commands
    BY DEF ClientInv, HeapInv
  <2> QED
    BY <2>1, <2>2, <2>3, <2>4 DEF WeatherInv, Released
<1> QED
  BY <1>1, ClientInvariant, PTL

\* Every call brings a command nearer to its end, whatever comes back.
THEOREM CommandsEnd == ClientSpec => CommandDescends
<1> DEFINE Nearer ==
      \/ Place[pc'] > Place[pc]
      \/ pc' = pc /\ Remaining \in Nat /\ Remaining' \in Nat /\ Remaining' < Remaining
<1>1. ASSUME ClientInv, ClientNext, pc # "idle"
      PROVE  Nearer
  <2> USE DEF Place, Allocate, Wild
  <2>1. CASE webclient_read
    <3>1. PICK n \in Returned :
            /\ content_pos' = IF n <= 0 THEN content_pos ELSE content_pos + n
            /\ pc' = IF n > 0 /\ content_pos' < content_length THEN "read" ELSE "exit"
      BY <2>1 DEF webclient_read
    <3>2. n \in Int /\ content_pos \in Nat /\ content_length \in Int
          /\ content_pos < content_length
      BY <1>1, <2>1, <3>1, ReadBound, WeatherAssumption
         DEF ClientInv, ClientTypeOK, ReadingInv, ReadsWithin, webclient_read
    <3> QED
      BY <2>1, <3>1, <3>2 DEF webclient_read, Remaining
  <2>2. CASE get_weather /\ ~webclient_read
    BY <2>2 DEF get_weather, check_internet_access, AllocateUrl, CreateSession, webclient_get,
                AllocateBuffer, webclient_content_length_get, Exit
  <2>3. CASE ParseResult
    BY <1>1, <2>3 DEF ParseResult, Remaining, ClientInv, ClientTypeOK
  <2>4. CASE ParseRoot \/ PrintWeather \/ DeleteRoot \/ FreeWeather
    BY <2>4 DEF ParseRoot, PrintWeather, DeleteRoot, FreeWeather
  <2>5. CASE webclient_post_request
    BY <2>5 DEF webclient_post_request, ComposeRequest, webclient_request, ParseAnswer,
                PrintAnswer, DeleteAnswer, Release
  <2> QED
    BY <1>1, <2>1, <2>2, <2>3, <2>4, <2>5
       DEF ClientNext, Steps, weather, doubao, Begin, http_weather_data_parse
<1>2. ClientInv /\ [ClientNext]_clientVars => [pc # "idle" => Nearer]_clientVars
  BY <1>1
<1> QED
  BY <1>2, ClientInvariant, PTL DEF ClientSpec, CommandDescends
=============================================================================
