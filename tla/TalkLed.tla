------------------------------ MODULE TalkLed ------------------------------
(***************************************************************************)
(* The LED thread of the walkie-talkie (talkback/src/main.c,               *)
(* rgb_led_thread_entry): it serves one mailbox for two LEDs, and one      *)
(* rt_mb_recv with one timeout makes both of them blink.  The battery      *)
(* thread, the one regular sender, shows a low battery on the plain LED.   *)
(*                                                                         *)
(* A step of the thread is one turn of its loop: a message handled or a    *)
(* timeout, with the computation of the next wait that opens the following *)
(* turn.  Commands come from any thread (send_rgb_led_command,             *)
(* send_nled_command).  Time is counted in ticks; it does not advance      *)
(* while a message waits.                                                  *)
(***************************************************************************)
EXTENDS Integers, Sequences

CONSTANTS
    Colours,    \* of the RGB LED
    Black,      \* 0x000000, and the plain LED switched off
    On,         \* the plain LED switched on
    Intervals,  \* blink_interval: the periods asked for, in ticks
    Default,    \* the period that interval 0 stands for (1000 ms)
    Counts,     \* blink_count: how often to flash, 0 for ever
    Capacity,   \* of the mailbox
    Period,     \* ticks between two readings of the battery (10.3 s)
    MaxSends    \* bound: how many commands the other threads send

ASSUME LedAssumption ==
    /\ Black \in Colours /\ On # Black
    /\ Intervals \subseteq Nat \ {1} /\ Default \in Nat \ {0, 1}
    /\ Counts \subseteq Nat /\ 0 \in Counts
    /\ Capacity \in Nat \ {0} /\ Period \in Nat \ {0} /\ MaxSends \in Nat

VARIABLES
    mailbox,    \* g_rgb_led_mb
    heap,       \* messages allocated and not freed
    led,        \* per LED: blinking, colour, half period, flashes left, phase, next change
    lit,        \* per LED: the level set last
    wait,       \* wait_ticks of the rt_mb_recv in progress
    waited,     \* ticks since it began
    age,        \* per LED: ticks since the phase in progress began
    slip,       \* per LED: ticks of this phase that the thread has forgotten
    sent,       \* commands sent so far by the other threads
    low,        \* percentage < 20 at the last reading
    pause       \* ticks until the battery is read again

ledVars == <<led, lit, wait, waited, age, slip>>
vars == <<mailbox, heap, ledVars, sent, low, pause>>

Leds == {"rgb", "nled"}
LevelsOf(l) == IF l = "rgb" THEN Colours ELSE {Black, On}
Forever == -1

\* A message: show a level (SET_COLOR, SET_ON, SET_OFF, and STOP_BLINK, which
\* shows dark) or blink.
Messages ==
    UNION {[led : {l}, blink : {FALSE}, level : LevelsOf(l), interval : {0}, count : {0}] \cup
           [led : {l}, blink : {TRUE}, level : LevelsOf(l) \ {Black}, interval : Intervals, count : Counts]
           : l \in Leds}

\* What a steady LED keeps of its last blinking is never read again.
Steady == [blink |-> FALSE, level |-> Black, half |-> Default \div 2, left |-> 0, on |-> FALSE,
           next |-> Forever]

\* Broken variant: wait for the later of the two.
WaitForTheLater(s) ==
    IF s["rgb"].blink /\ ~(s["nled"].blink /\ s["nled"].next > s["rgb"].next)
    THEN s["rgb"].next
    ELSE IF s["nled"].blink THEN s["nled"].next ELSE Forever

\* The head of the loop: wait for the LED whose phase ends first.
WaitOf(s) ==
    IF s["rgb"].blink /\ ~(s["nled"].blink /\ s["nled"].next < s["rgb"].next)
    THEN s["rgb"].next
    ELSE IF s["nled"].blink THEN s["nled"].next ELSE Forever

-----------------------------------------------------------------------------
Init ==
    /\ mailbox = <<>>
    /\ heap = 0
    /\ led = [l \in Leds |-> Steady]
    /\ lit = [l \in Leds |-> Black]
    /\ wait = Forever
    /\ waited = 0
    /\ age = [l \in Leds |-> 0]
    /\ slip = [l \in Leds |-> 0]
    /\ sent = 0
    /\ low = FALSE
    /\ pause = 0

\* Broken variant: a message the mailbox has no room for is not freed.
PostAndLeak(m) ==
    /\ heap' = heap + 1
    /\ mailbox' = IF Len(mailbox) < Capacity THEN Append(mailbox, m) ELSE mailbox

\* There may be no memory for the message; a full mailbox refuses it, and it is
\* freed again.  The sender goes on either way.
Post(m) ==
    \/ /\ Len(mailbox) < Capacity
       /\ mailbox' = Append(mailbox, m)
       /\ heap' = heap + 1
    \/ UNCHANGED <<mailbox, heap>>

Send(m) ==
    /\ sent < MaxSends
    /\ sent' = sent + 1
    /\ Post(m)
    /\ UNCHANGED <<ledVars, low, pause>>

\* battery_thread_entry: a reading, and the plain LED is told to blink or to
\* stop, again at every reading.
BatteryMessage(is_low) ==
    [led |-> "nled", blink |-> is_low, level |-> IF is_low THEN On ELSE Black,
     interval |-> IF is_low THEN Default ELSE 0, count |-> 0]

AllMessages == Messages \cup {BatteryMessage(TRUE), BatteryMessage(FALSE)}

\* Broken variant: the LED is told only of a change.
BatteryChange ==
    /\ pause = 0
    /\ low' \in BOOLEAN
    /\ IF low' # low THEN Post(BatteryMessage(low')) ELSE UNCHANGED <<mailbox, heap>>
    /\ pause' = Period
    /\ UNCHANGED <<ledVars, sent>>

Battery ==
    /\ pause = 0
    /\ low' \in BOOLEAN
    /\ Post(BatteryMessage(low'))
    /\ pause' = Period
    /\ UNCHANGED <<ledVars, sent>>

\* The command part of the loop: what message m makes of its LED.  An interval of
\* 1 ms, which no caller asks for, would make this half 0 and the thread spin.
HalfOf(m) == (IF m.interval = 0 THEN Default ELSE m.interval) \div 2

Obey(m) ==
    IF m.blink
    THEN [blink |-> TRUE, level |-> m.level, half |-> HalfOf(m), left |-> m.count,
          on |-> TRUE, next |-> HalfOf(m)]
    ELSE Steady

\* Broken variant: what darkens one LED darkens the other one with it.
DarkensBoth(m) ==
    IF m.level = Black THEN [l \in Leds |-> Black] ELSE [lit EXCEPT ![m.led] = m.level]

Shown(m) == [lit EXCEPT ![m.led] = m.level]

\* What the thread has waited until now is not taken off the other LED's phase.
Handle ==
    /\ mailbox # <<>>
    /\ LET m == Head(mailbox) IN
         /\ led' = [led EXCEPT ![m.led] = Obey(m)]
         /\ lit' = Shown(m)
         /\ age' = [age EXCEPT ![m.led] = 0]
         /\ slip' = [l \in Leds |-> IF l = m.led \/ ~led[l].blink THEN 0
                                    ELSE slip[l] + waited]
    /\ mailbox' = Tail(mailbox)
    /\ heap' = heap - 1
    /\ wait' = WaitOf(led')
    /\ waited' = 0
    /\ UNCHANGED <<sent, low, pause>>

-----------------------------------------------------------------------------
(* A timeout: both LEDs are brought forward by the time waited.            *)

Due(l) == led[l].blink /\ led[l].next - wait <= 0

\* The phase ends; the end of the last flash ends the blinking.
Toggled(l) ==
    IF led[l].left > 0 /\ led[l].on
    THEN IF led[l].left = 1
         THEN Steady
         ELSE [led[l] EXCEPT !.left = led[l].left - 1, !.on = FALSE, !.next = led[l].half]
    ELSE [led[l] EXCEPT !.on = ~led[l].on, !.next = led[l].half]

\* Broken variant: an LED that is not due is not brought forward.
OnlyTheDue(l) == IF Due(l) THEN Toggled(l) ELSE led[l]

Forwarded(l) ==
    IF Due(l) THEN Toggled(l)
    ELSE IF led[l].blink THEN [led[l] EXCEPT !.next = led[l].next - wait]
    ELSE led[l]

Timeout ==
    /\ mailbox = <<>> /\ wait # Forever /\ waited = wait
    /\ led' = [l \in Leds |-> Forwarded(l)]
    /\ lit' = [l \in Leds |-> IF ~Due(l) THEN lit[l]
                              ELSE IF led[l].on THEN Black ELSE led[l].level]
    /\ age' = [l \in Leds |-> IF Due(l) THEN 0 ELSE age[l]]
    /\ slip' = [l \in Leds |-> IF Due(l) THEN 0 ELSE slip[l]]
    /\ wait' = WaitOf(led')
    /\ waited' = 0
    /\ UNCHANGED <<mailbox, heap, sent, low, pause>>

Tick ==
    /\ mailbox = <<>> /\ pause > 0
    /\ wait = Forever \/ waited < wait
    /\ waited' = IF wait = Forever THEN 0 ELSE waited + 1
    /\ pause' = pause - 1
    /\ age' = [l \in Leds |-> IF led[l].blink THEN age[l] + 1 ELSE age[l]]
    /\ UNCHANGED <<mailbox, heap, led, lit, wait, slip, sent, low>>

Next == (\E m \in Messages : Send(m)) \/ Battery \/ Handle \/ Timeout \/ Tick

Spec == Init /\ [][Next]_vars

\* Both threads get their turns; memory is not exhausted, and the reading not another
\* one, at every reading for ever.
LiveSpec ==
    /\ Spec
    /\ WF_vars(Battery \/ Handle \/ Timeout \/ Tick)
    /\ SF_vars(Battery /\ low' = low /\ mailbox' # mailbox)

-----------------------------------------------------------------------------
LedStates ==
    [blink : BOOLEAN, level : Colours \cup {On}, half : Nat \ {0},
     left : Nat, on : BOOLEAN, next : Nat \cup {Forever}]

TypeOK ==
    /\ mailbox \in Seq(AllMessages)
    /\ Len(mailbox) <= Capacity
    /\ heap \in Nat
    /\ led \in [Leds -> LedStates]
    /\ lit \in [Leds -> Colours \cup {On}]
    /\ wait \in Nat \cup {Forever} /\ waited \in Nat
    /\ age \in [Leds -> Nat] /\ slip \in [Leds -> Nat]
    /\ sent \in 0 .. MaxSends
    /\ low \in BOOLEAN
    /\ pause \in 0 .. Period

\* Every message is freed: the heap holds those that wait in the mailbox.
NoLeak == heap = Len(mailbox)

\* Types and the heap: what post and the loop must agree on, when a full mailbox
\* refuses a message as well as when it takes one.
LedInv == TypeOK /\ NoLeak

\* The two LEDs do not disturb each other's rhythm: the phase in progress ends
\* when its half period is over, plus the time that the thread lost because a
\* command interrupted its wait.
OnSchedule ==
    \A l \in Leds : led[l].blink => age[l] + (led[l].next - waited) = led[l].half + slip[l]

\* The thread never sleeps past the end of a phase, and never spins.
WakesInTime ==
    \A l \in Leds : led[l].blink => 0 < wait /\ waited <= wait /\ wait <= led[l].next

\* The inductive strengthening of these: the thread waits for what the LEDs'
\* states say, and the level shown is that of the phase.
WaitInv ==
    /\ wait = WaitOf(led)
    /\ IF wait = Forever THEN waited = 0 ELSE waited <= wait

PhaseInv(l) ==
    /\ lit[l] \in LevelsOf(l)
    /\ IF led[l].blink
       THEN /\ led[l].level \in LevelsOf(l) \ {Black}
            /\ lit[l] = IF led[l].on THEN led[l].level ELSE Black
            /\ led[l].next > 0
       ELSE led[l] = Steady

LedIInv == LedInv /\ OnSchedule /\ WaitInv /\ \A l \in Leds : PhaseInv(l)

\* The messages for LED l that wait in the mailbox.
OrdersOf(l) == {mailbox[k] : k \in {i \in 1 .. Len(mailbox) : mailbox[i].led = l}}

CommandsOf(l) == {m \in AllMessages : m.led = l}

\* Each of the two is a blinker of its own: it changes for a message sent to it
\* and for the end of its own phases, and neither a message for the other LED
\* nor a phase of the other LED changes anything of it (main.c:219-348).
Rgb == INSTANCE LedBlinker WITH
    Commands <- CommandsOf("rgb"), Dark <- Black, orders <- OrdersOf("rgb"),
    shown <- lit["rgb"], flashing <- led["rgb"].blink,
    level <- IF led["rgb"].blink THEN led["rgb"].level ELSE Black,
    left <- IF led["rgb"].blink THEN led["rgb"].left ELSE 0

Nled == INSTANCE LedBlinker WITH
    Commands <- CommandsOf("nled"), Dark <- Black, orders <- OrdersOf("nled"),
    shown <- lit["nled"], flashing <- led["nled"].blink,
    level <- IF led["nled"].blink THEN led["nled"].level ELSE Black,
    left <- IF led["nled"].blink THEN led["nled"].left ELSE 0

LedsAreBlinkers == Rgb!Spec /\ Nled!Spec

\* A battery that stays low ends up blinking for good, though a reading may
\* find the mailbox full or no memory, and though other threads command both
\* LEDs in between: every later reading says it again (main.c:280-289).
LowBatteryBlinks ==
    <>[]low => []<>(lit["nled"] = On) /\ []<>(lit["nled"] = Black)
=============================================================================
