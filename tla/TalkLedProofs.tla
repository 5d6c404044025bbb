--------------------------- MODULE TalkLedProofs ---------------------------
(***************************************************************************)
(* LedIInv is inductive, for all colours, half periods, counts, capacities *)
(* of the mailbox and periods of the battery thread; with it every step of *)
(* the two threads is, for each LED, a step of LedBlinker or none.         *)
(***************************************************************************)
EXTENDS TalkLed, SequenceTheorems, TLAPS

USE LedAssumption

-----------------------------------------------------------------------------
(* Messages and waits.                                                     *)

\* Half of an interval the thread may be given is at least one tick.
LEMMA HalfTypes ==
  ASSUME NEW n \in Nat \ {0, 1}
  PROVE  n \div 2 \in Nat \ {0}
  OBVIOUS

\* The fields of a message.
LEMMA MessageTypes ==
  ASSUME NEW m \in AllMessages
  PROVE  /\ m.led \in Leds /\ m.blink \in BOOLEAN /\ m.level \in LevelsOf(m.led)
         /\ m.blink => /\ m.level # Black
                       /\ HalfOf(m) \in Nat \ {0}
                       /\ m.count \in Counts
<1>1. CASE m \in Messages
  <2>1. PICK l \in Leds :
          \/ m \in [led : {l}, blink : {FALSE}, level : LevelsOf(l), interval : {0}, count : {0}]
          \/ m \in [led : {l}, blink : {TRUE}, level : LevelsOf(l) \ {Black}, interval : Intervals,
                    count : Counts]
    BY <1>1 DEF Messages
  <2>2. CASE m \in [led : {l}, blink : {FALSE}, level : LevelsOf(l), interval : {0}, count : {0}]
    BY <2>2
  <2>3. CASE m \in [led : {l}, blink : {TRUE}, level : LevelsOf(l) \ {Black}, interval : Intervals,
                    count : Counts]
    <3>1. /\ m.led = l /\ m.blink = TRUE /\ m.level \in LevelsOf(l) \ {Black}
          /\ m.interval \in Intervals /\ m.count \in Counts
      BY <2>3
    <3>2. (IF m.interval = 0 THEN Default ELSE m.interval) \in Nat \ {0, 1}
      BY <3>1
    <3>3. HalfOf(m) \in Nat \ {0}
      BY <3>2, HalfTypes DEF HalfOf
    <3> QED  BY <3>1, <3>3
  <2> QED  BY <2>1, <2>2, <2>3
<1>2. CASE m = BatteryMessage(TRUE)
  BY <1>2 DEF BatteryMessage, HalfOf, Leds, LevelsOf
<1>3. CASE m = BatteryMessage(FALSE)
  BY <1>3 DEF BatteryMessage, HalfOf, Leds, LevelsOf
<1> QED  BY <1>1, <1>2, <1>3 DEF AllMessages

\* The wait ends with the phase that ends first; without a phase it has no end.
LEMMA WaitFacts ==
  ASSUME NEW s, \A l \in Leds : s[l].blink \in BOOLEAN,
         \A l \in Leds : s[l].blink => s[l].next \in Nat \ {0}
  PROVE  /\ WaitOf(s) \in Nat \cup {Forever}
         /\ \A l \in Leds : s[l].blink => 0 < WaitOf(s) /\ WaitOf(s) <= s[l].next
         /\ (\A l \in Leds : ~s[l].blink) => WaitOf(s) = Forever
  BY DEF WaitOf, Leds, Forever

\* The state of an LED after a command.
LEMMA ObeyTypes ==
  ASSUME NEW m \in AllMessages
  PROVE  /\ Obey(m) \in LedStates
         /\ Obey(m).blink = m.blink
         /\ m.blink => /\ Obey(m).level = m.level /\ Obey(m).on
                       /\ Obey(m).next = HalfOf(m) /\ Obey(m).half = HalfOf(m)
                       /\ Obey(m).left = m.count
                       /\ HalfOf(m) \in Nat \ {0}
         /\ ~m.blink => Obey(m) = Steady
<1>1. CASE m.blink
  <2>1. /\ m.level \in Colours \cup {On}
        /\ HalfOf(m) \in Nat \ {0} /\ m.count \in Nat
    BY <1>1, MessageTypes DEF LevelsOf
  <2> QED  BY <1>1, <2>1 DEF Obey, LedStates
<1>2. CASE ~m.blink
  <2>1. m.blink = FALSE
    BY <1>2, MessageTypes
  <2>2. Default \div 2 \in Nat \ {0}
    BY HalfTypes
  <2> QED  BY <1>2, <2>1, <2>2 DEF Obey, LedStates, Steady, Forever
<1> QED  BY <1>1, <1>2

-----------------------------------------------------------------------------
LEMMA LedInit == Init => LedIInv
<1> SUFFICES ASSUME Init PROVE LedIInv
  OBVIOUS
<1>1. mailbox \in Seq(AllMessages) /\ Len(mailbox) = 0
  BY DEF Init
<1>2. Steady \in LedStates /\ ~Steady.blink
  BY HalfTypes DEF Steady, LedStates, Forever
<1>3. TypeOK
  <2>1. /\ led \in [Leds -> LedStates] /\ lit \in [Leds -> Colours \cup {On}]
        /\ age \in [Leds -> Nat] /\ slip \in [Leds -> Nat]
    BY <1>2 DEF Init
  <2>2. wait \in Nat \cup {Forever} /\ waited \in Nat /\ heap \in Nat
    BY DEF Init
  <2>3. sent = 0 /\ pause = 0 /\ low = FALSE
    BY DEF Init
  <2>4. 0 \in 0 .. MaxSends /\ 0 \in 0 .. Period
    OBVIOUS
  <2>5. low \in BOOLEAN
    BY <2>3
  <2>6. sent \in 0 .. MaxSends /\ pause \in 0 .. Period
    BY <2>3, <2>4
  <2> QED  BY <1>1, <2>1, <2>2, <2>5, <2>6 DEF TypeOK
<1>4. WaitOf(led) = Forever
  BY <1>2 DEF Init, WaitOf, Leds
<1>5. \A l \in Leds : led[l] = Steady /\ lit[l] = Black /\ ~led[l].blink
  BY <1>2 DEF Init
<1>6. \A l \in Leds : PhaseInv(l)
  BY <1>5 DEF PhaseInv, LevelsOf
<1> QED
  BY <1>1, <1>3, <1>4, <1>5, <1>6 DEF Init, LedIInv, LedInv, NoLeak, OnSchedule, WaitInv

\* What the invariant says of one LED's state.
LEMMA LedTypes ==
  ASSUME LedIInv, NEW l \in Leds
  PROVE  /\ led[l] \in LedStates /\ led[l].blink \in BOOLEAN /\ led[l].on \in BOOLEAN
         /\ led[l].half \in Nat \ {0} /\ led[l].left \in Nat
         /\ led[l].blink => led[l].next \in Nat \ {0}
         /\ age[l] \in Nat /\ slip[l] \in Nat
<1>1. led[l] \in LedStates /\ age[l] \in Nat /\ slip[l] \in Nat
  BY DEF LedIInv, LedInv, TypeOK
<1>2. /\ led[l].blink \in BOOLEAN /\ led[l].on \in BOOLEAN /\ led[l].left \in Nat
      /\ led[l].half \in Nat \ {0} /\ led[l].next \in Nat \cup {Forever}
  BY <1>1 DEF LedStates
<1>3. led[l].blink => led[l].next > 0
  BY DEF LedIInv, PhaseInv
<1>4. led[l].blink => led[l].next \in Nat \ {0}
  BY <1>2, <1>3 DEF Forever
<1>5. led[l].half \in Nat \ {0}
  BY <1>2
<1> QED  BY <1>1, <1>2, <1>4, <1>5

\* The posting of a message leaves the LEDs alone.
LEMMA PostStep ==
  ASSUME LedIInv, NEW m \in AllMessages, Post(m), UNCHANGED ledVars,
         low' \in BOOLEAN, sent' \in 0 .. MaxSends, pause' \in 0 .. Period
  PROVE  LedIInv'
<1> USE DEF LedIInv, LedInv
<1>1. mailbox' \in Seq(AllMessages) /\ Len(mailbox') <= Capacity /\ heap' \in Nat
      /\ heap' = Len(mailbox')
  <2>1. CASE Len(mailbox) < Capacity /\ mailbox' = Append(mailbox, m) /\ heap' = heap + 1
    <3>1. Len(mailbox') = Len(mailbox) + 1 /\ mailbox' \in Seq(AllMessages) /\ Len(mailbox) \in Nat
      BY <2>1 DEF TypeOK
    <3> QED  BY <2>1, <3>1 DEF TypeOK, NoLeak
  <2>2. CASE UNCHANGED <<mailbox, heap>>
    BY <2>2 DEF TypeOK, NoLeak
  <2> QED  BY <2>1, <2>2 DEF Post
<1>2. UNCHANGED <<led, lit, wait, waited, age, slip>>
  BY DEF ledVars
<1>3. TypeOK'
  BY <1>1, <1>2 DEF TypeOK
<1>4. OnSchedule' /\ WaitInv' /\ \A l \in Leds : PhaseInv(l)'
  BY <1>2 DEF OnSchedule, WaitInv, PhaseInv
<1> QED  BY <1>1, <1>3, <1>4 DEF NoLeak

\* A message handled: its own LED starts anew, the other one keeps its phase and
\* loses what was waited.
LEMMA HandleStep ==
  ASSUME LedIInv, Handle
  PROVE  LedIInv'
<1> DEFINE m == Head(mailbox)
<1>1. /\ m \in AllMessages
      /\ mailbox' \in Seq(AllMessages) /\ Len(mailbox') = Len(mailbox) - 1 /\ Len(mailbox) \in Nat
      /\ Len(mailbox) > 0
  <2>1. mailbox \in Seq(AllMessages) /\ mailbox # <<>> /\ mailbox' = Tail(mailbox)
    BY DEF Handle, LedIInv, LedInv, TypeOK
  <2> QED  BY <2>1, HeadTailProperties, EmptySeq
<1>2. /\ led' = [led EXCEPT ![m.led] = Obey(m)]
      /\ lit' = [lit EXCEPT ![m.led] = m.level]
      /\ age' = [age EXCEPT ![m.led] = 0]
      /\ slip' = [l \in Leds |-> IF l = m.led \/ ~led[l].blink THEN 0 ELSE slip[l] + waited]
      /\ heap' = heap - 1 /\ wait' = WaitOf(led') /\ waited' = 0
      /\ UNCHANGED <<sent, low, pause>>
  BY DEF Handle, Shown
<1> HIDE DEF m
<1>3. m.led \in Leds /\ m.level \in LevelsOf(m.led) /\ m.blink \in BOOLEAN
  BY <1>1, MessageTypes
<1>4. Obey(m) \in LedStates
  BY <1>1, ObeyTypes
<1>5. \A l \in Leds : l # m.led => /\ led'[l] = led[l] /\ lit'[l] = lit[l] /\ age'[l] = age[l]
                                   /\ led[l].blink => slip'[l] = slip[l] + waited
  BY <1>2 DEF LedIInv, LedInv, TypeOK
<1>6. led'[m.led] = Obey(m) /\ lit'[m.led] = m.level /\ age'[m.led] = 0 /\ slip'[m.led] = 0
  BY <1>2, <1>3 DEF LedIInv, LedInv, TypeOK
<1>7. \A l \in Leds : PhaseInv(l)'
  <2> SUFFICES ASSUME NEW l \in Leds PROVE PhaseInv(l)'
    OBVIOUS
  <2>1. CASE l # m.led
    BY <2>1, <1>5 DEF PhaseInv, LedIInv
  <2>2. CASE l = m.led /\ m.blink
    <3>1. Obey(m).blink /\ Obey(m).level = m.level /\ Obey(m).on /\ Obey(m).next \in Nat \ {0}
      BY <2>2, <1>1, ObeyTypes
    <3>2. m.level # Black
      BY <2>2, <1>1, MessageTypes
    <3> QED  BY <2>2, <3>1, <3>2, <1>3, <1>6 DEF PhaseInv
  <2>3. CASE l = m.led /\ ~m.blink
    <3>1. ~Obey(m).blink /\ Obey(m) = Steady
      BY <2>3, <1>1, ObeyTypes
    <3> QED  BY <2>3, <3>1, <1>3, <1>6 DEF PhaseInv
  <2> QED  BY <2>1, <2>2, <2>3
<1>8. led' \in [Leds -> LedStates]
  BY <1>2, <1>4 DEF LedIInv, LedInv, TypeOK
<1>9. \A l \in Leds : led'[l].blink \in BOOLEAN /\ (led'[l].blink => led'[l].next \in Nat \ {0})
  BY <1>7, <1>8 DEF PhaseInv, LedStates, Forever
<1>10. wait' \in Nat \cup {Forever}
  BY <1>2, <1>9, WaitFacts
<1>11. lit' \in [Leds -> Colours \cup {On}] /\ age' \in [Leds -> Nat] /\ slip' \in [Leds -> Nat]
  BY <1>2, <1>3 DEF LedIInv, LedInv, TypeOK, LevelsOf
<1>12. TypeOK' /\ NoLeak'
  BY <1>1, <1>2, <1>8, <1>10, <1>11 DEF LedIInv, LedInv, TypeOK, NoLeak
<1>13. WaitInv'
  BY <1>2, <1>10 DEF WaitInv, Forever
<1>14. OnSchedule'
  <2> SUFFICES ASSUME NEW l \in Leds, led'[l].blink
               PROVE  age'[l] + (led'[l].next - waited') = led'[l].half + slip'[l]
    BY DEF OnSchedule
  <2>1. CASE l # m.led
    <3>1. age[l] + (led[l].next - waited) = led[l].half + slip[l] /\ led[l].next \in Nat
      BY <2>1, <1>5, LedTypes DEF LedIInv, OnSchedule
    <3>2. waited \in Nat /\ led[l].half \in Nat /\ age[l] \in Nat /\ slip[l] \in Nat
      BY LedTypes DEF LedIInv, LedInv, TypeOK
    <3>3. led'[l] = led[l] /\ age'[l] = age[l]
      BY <2>1, <1>5
    <3>4. slip'[l] = slip[l] + waited
      BY <2>1, <1>5, <3>3
    <3>5. waited' = 0
      BY <1>2
    <3> QED  BY <3>1, <3>2, <3>3, <3>4, <3>5
  <2>2. CASE l = m.led
    <3>1. m.blink
      BY <2>2, <1>1, <1>6, ObeyTypes
    <3>2. Obey(m).next = HalfOf(m) /\ Obey(m).half = HalfOf(m) /\ HalfOf(m) \in Nat
      BY <3>1, <1>1, ObeyTypes
    <3> QED  BY <2>2, <3>2, <1>2, <1>6
  <2> QED  BY <2>1, <2>2
<1> QED  BY <1>7, <1>12, <1>13, <1>14 DEF LedIInv, LedInv

-----------------------------------------------------------------------------
(* A timeout.                                                              *)

\* What becomes of an LED whose phase ends.
LEMMA ToggledFacts ==
  ASSUME LedIInv, NEW l \in Leds, led[l].blink
  PROVE  /\ Toggled(l) \in LedStates
         /\ Toggled(l).blink \in BOOLEAN
         /\ Toggled(l).blink <=> ~(led[l].on /\ led[l].left = 1)
         /\ Toggled(l).blink => /\ Toggled(l).on = ~led[l].on
                                /\ Toggled(l).level = led[l].level
                                /\ Toggled(l).half = led[l].half
                                /\ Toggled(l).next = led[l].half
                                /\ Toggled(l).left = IF led[l].on /\ led[l].left > 0
                                                     THEN led[l].left - 1 ELSE led[l].left
         /\ ~Toggled(l).blink => Toggled(l) = Steady
<1>1. /\ led[l] \in LedStates /\ led[l].left \in Nat /\ led[l].half \in Nat \ {0}
      /\ led[l].on \in BOOLEAN /\ led[l].blink \in BOOLEAN
  BY LedTypes
<1>0. /\ led[l].level \in Colours \cup {On}
      /\ led[l].half \in Nat \ {0}
      /\ DOMAIN led[l] = {"blink", "level", "half", "left", "on", "next"}
  BY <1>1 DEF LedStates
<1>2. CASE led[l].left > 0 /\ led[l].on /\ led[l].left = 1
  BY <1>1, <1>2 DEF Toggled, Steady, LedStates, Forever
<1>3. CASE led[l].left > 0 /\ led[l].on /\ led[l].left # 1
  <2>1. Toggled(l) = [led[l] EXCEPT !.left = led[l].left - 1, !.on = FALSE, !.next = led[l].half]
    BY <1>3 DEF Toggled
  <2>2. /\ Toggled(l).blink = led[l].blink /\ Toggled(l).level = led[l].level
        /\ Toggled(l).half = led[l].half /\ Toggled(l).left = led[l].left - 1
        /\ Toggled(l).on = FALSE /\ Toggled(l).next = led[l].half
    BY <1>0, <2>1
  <2>3. Toggled(l) \in LedStates
    <3>1. led[l].left - 1 \in Nat
      BY <1>1, <1>3
    <3> QED  BY <1>0, <1>1, <2>1, <3>1 DEF LedStates
  <2> QED  BY <1>1, <1>3, <2>2, <2>3
<1>4. CASE ~(led[l].left > 0 /\ led[l].on)
  <2>1. Toggled(l) = [led[l] EXCEPT !.on = ~led[l].on, !.next = led[l].half]
    BY <1>4 DEF Toggled
  <2>2. /\ Toggled(l).blink = led[l].blink /\ Toggled(l).level = led[l].level
        /\ Toggled(l).half = led[l].half /\ Toggled(l).left = led[l].left
        /\ Toggled(l).on = ~led[l].on /\ Toggled(l).next = led[l].half
    BY <1>0, <2>1
  <2>3. Toggled(l) \in LedStates
    BY <1>0, <1>1, <2>1 DEF LedStates
  <2> QED  BY <1>1, <1>4, <2>2, <2>3
<1> QED  BY <1>2, <1>3, <1>4

LEMMA TimeoutStep ==
  ASSUME LedIInv, Timeout
  PROVE  LedIInv'
<1>1. /\ wait \in Nat /\ waited = wait
      /\ led' = [l \in Leds |-> Forwarded(l)]
      /\ lit' = [l \in Leds |-> IF ~Due(l) THEN lit[l]
                                ELSE IF led[l].on THEN Black ELSE led[l].level]
      /\ age' = [l \in Leds |-> IF Due(l) THEN 0 ELSE age[l]]
      /\ slip' = [l \in Leds |-> IF Due(l) THEN 0 ELSE slip[l]]
      /\ wait' = WaitOf(led') /\ waited' = 0
      /\ UNCHANGED <<mailbox, heap, sent, low, pause>>
  BY DEF Timeout, LedIInv, LedInv, TypeOK
<1>2. ASSUME NEW l \in Leds
      PROVE  led'[l] \in LedStates /\ PhaseInv(l)'
             /\ (led'[l].blink => age'[l] + (led'[l].next - waited') = led'[l].half + slip'[l])
  <2>1. CASE Due(l)
    <3>1. led[l].blink /\ led'[l] = Toggled(l)
      BY <1>1, <2>1 DEF Due, Forwarded
    <3>2. lit'[l] = (IF led[l].on THEN Black ELSE led[l].level) /\ age'[l] = 0 /\ slip'[l] = 0
      BY <1>1, <2>1
    <3>3. led[l].level \in LevelsOf(l) \ {Black} /\ led[l].half \in Nat \ {0}
          /\ led[l].on \in BOOLEAN
      BY <3>1, LedTypes DEF LedIInv, PhaseInv
    <3>4. Black \in LevelsOf(l)
      BY DEF LevelsOf
    <3>5. CASE Toggled(l).blink
      <4>1. /\ led'[l] \in LedStates /\ led'[l].blink
            /\ led'[l].on <=> ~led[l].on
            /\ led'[l].level = led[l].level /\ led'[l].half = led[l].half
            /\ led'[l].next = led[l].half
        BY <3>1, <3>5, ToggledFacts
      <4>2. lit'[l] = (IF led'[l].on THEN led'[l].level ELSE Black)
        BY <3>2, <4>1
      <4>3. PhaseInv(l)'
        BY <3>2, <3>3, <3>4, <4>1, <4>2 DEF PhaseInv
      <4>4. age'[l] + (led'[l].next - waited') = led'[l].half + slip'[l]
        BY <1>1, <3>2, <3>3, <4>1
      <4> QED  BY <4>1, <4>3, <4>4
    <3>6. CASE ~Toggled(l).blink
      <4>1. led[l].on /\ Toggled(l) = Steady
        BY <3>1, <3>6, ToggledFacts
      <4> QED  BY <3>1, <3>2, <3>4, <3>6, <4>1, ToggledFacts DEF PhaseInv
    <3> QED  BY <3>5, <3>6
  <2>2. CASE ~Due(l) /\ led[l].blink
    <3>1. led'[l] = [led[l] EXCEPT !.next = led[l].next - wait]
          /\ lit'[l] = lit[l] /\ age'[l] = age[l] /\ slip'[l] = slip[l]
      BY <1>1, <2>2 DEF Forwarded
    <3>2. led[l].next - wait \in Nat \ {0}
      BY <1>1, <2>2, LedTypes DEF Due
    <3>3. age[l] + (led[l].next - waited) = led[l].half + slip[l]
      BY <2>2 DEF LedIInv, OnSchedule
    <3>4. led[l] \in LedStates /\ PhaseInv(l)
      BY LedTypes DEF LedIInv
    <3>5. led'[l] \in LedStates
      BY <3>1, <3>2, <3>4 DEF LedStates
    <3>6. /\ led'[l].blink = led[l].blink /\ led'[l].level = led[l].level /\ led'[l].on = led[l].on
          /\ led'[l].half = led[l].half /\ led'[l].next = led[l].next - wait
      BY <3>1, <3>4 DEF LedStates
    <3>7. PhaseInv(l)'
      BY <2>2, <3>1, <3>2, <3>4, <3>6 DEF PhaseInv
    <3>8. age'[l] + (led'[l].next - waited') = led'[l].half + slip'[l]
      BY <1>1, <2>2, <3>1, <3>3, <3>6, LedTypes
    <3> QED  BY <3>5, <3>7, <3>8
  <2>3. CASE ~led[l].blink
    <3>1. led'[l] = led[l] /\ lit'[l] = lit[l]
      BY <1>1, <2>3 DEF Forwarded, Due
    <3> QED  BY <2>3, <3>1, LedTypes DEF LedIInv, PhaseInv
  <2> QED  BY <2>1, <2>2, <2>3
<1>3. led' \in [Leds -> LedStates]
  BY <1>1, <1>2
<1>4. \A l \in Leds : led'[l].blink \in BOOLEAN /\ (led'[l].blink => led'[l].next \in Nat \ {0})
  BY <1>2, <1>3 DEF PhaseInv, LedStates, Forever
<1>5. wait' \in Nat \cup {Forever}
  BY <1>1, <1>4, WaitFacts
<1>6. lit' \in [Leds -> Colours \cup {On}]
  BY <1>1, <1>2 DEF PhaseInv, LevelsOf
<1>7. age' \in [Leds -> Nat] /\ slip' \in [Leds -> Nat]
  BY <1>1, LedTypes
<1>8. TypeOK' /\ NoLeak'
  BY <1>1, <1>3, <1>5, <1>6, <1>7 DEF LedIInv, LedInv, TypeOK, NoLeak
<1>9. WaitInv'
  BY <1>1, <1>5 DEF WaitInv, Forever
<1> QED  BY <1>2, <1>8, <1>9 DEF LedIInv, LedInv, OnSchedule

LEMMA TickStep ==
  ASSUME LedIInv, Tick
  PROVE  LedIInv'
<1>1. /\ pause > 0 /\ pause' = pause - 1
      /\ wait = Forever \/ waited < wait
      /\ waited' = IF wait = Forever THEN 0 ELSE waited + 1
      /\ age' = [l \in Leds |-> IF led[l].blink THEN age[l] + 1 ELSE age[l]]
      /\ UNCHANGED <<mailbox, heap, led, lit, wait, slip, sent, low>>
  BY DEF Tick
<1>2. wait \in Nat \cup {Forever} /\ waited \in Nat /\ wait = WaitOf(led)
  BY DEF LedIInv, LedInv, TypeOK, WaitInv
<1>3. \A l \in Leds : led[l].blink \in BOOLEAN /\ (led[l].blink => led[l].next \in Nat \ {0})
  BY LedTypes
<1>4. \A l \in Leds : led[l].blink => wait > 0
  BY <1>2, <1>3, WaitFacts
<1>5. age' \in [Leds -> Nat]
  BY <1>1, LedTypes
<1>6. TypeOK' /\ NoLeak'
  BY <1>1, <1>2, <1>5 DEF LedIInv, LedInv, TypeOK, NoLeak
<1>7. WaitInv'
  BY <1>1, <1>2 DEF LedIInv, WaitInv, Forever
<1>8. OnSchedule'
  <2> SUFFICES ASSUME NEW l \in Leds, led[l].blink
               PROVE  age'[l] + (led[l].next - waited') = led[l].half + slip[l]
    BY <1>1 DEF OnSchedule
  <2>1. waited' = waited + 1 /\ age'[l] = age[l] + 1
    BY <1>1, <1>4 DEF Forever
  <2>2. age[l] + (led[l].next - waited) = led[l].half + slip[l]
    BY DEF LedIInv, OnSchedule
  <2> QED  BY <1>2, <2>1, <2>2, LedTypes
<1>9. \A l \in Leds : PhaseInv(l)'
  BY <1>1 DEF LedIInv, PhaseInv
<1> QED  BY <1>6, <1>7, <1>8, <1>9 DEF LedIInv, LedInv

-----------------------------------------------------------------------------
(* The theorems.                                                           *)

LEMMA LedStep == LedIInv /\ [Next]_vars => LedIInv'
<1> SUFFICES ASSUME LedIInv, [Next]_vars PROVE LedIInv'
  OBVIOUS
<1>1. ASSUME NEW m \in Messages, Send(m) PROVE LedIInv'
  <2>1. sent' \in 0 .. MaxSends /\ UNCHANGED <<low, pause, ledVars>> /\ Post(m)
    BY <1>1 DEF Send, LedIInv, LedInv, TypeOK
  <2>2. m \in AllMessages
    BY DEF AllMessages
  <2> QED  BY <2>1, <2>2, PostStep DEF LedIInv, LedInv, TypeOK
<1>2. CASE Battery
  <2>1. low' \in BOOLEAN /\ Post(BatteryMessage(low')) /\ pause' = Period
        /\ UNCHANGED ledVars /\ UNCHANGED sent
    BY <1>2 DEF Battery
  <2>2. BatteryMessage(low') \in AllMessages
    BY <2>1 DEF AllMessages
  <2>3. pause' \in 0 .. Period /\ sent' \in 0 .. MaxSends
    BY <2>1 DEF LedIInv, LedInv, TypeOK
  <2> QED  BY <2>1, <2>2, <2>3, PostStep
<1>3. CASE UNCHANGED vars
  BY <1>3 DEF LedIInv, LedInv, TypeOK, NoLeak, OnSchedule, WaitInv, PhaseInv, vars, ledVars
<1> QED  BY <1>1, <1>2, <1>3, HandleStep, TimeoutStep, TickStep DEF Next

\* LedIInv holds in every reachable state of the two threads.
THEOREM LedInvariant == Spec => []LedIInv
<1> QED  BY LedInit, LedStep, PTL DEF Spec

\* Messages are well typed and every one of them is freed.
THEOREM LedCorrect == Spec => []LedInv
<1>1. LedIInv => LedInv
  BY DEF LedIInv
<1> QED  BY <1>1, LedInvariant, PTL

\* A phase lasts its half period and what the commands made the thread forget.
THEOREM ScheduleKept == Spec => []OnSchedule
<1>1. LedIInv => OnSchedule
  BY DEF LedIInv
<1> QED  BY <1>1, LedInvariant, PTL

\* The thread neither sleeps past the end of a phase nor spins.
THEOREM WakeCorrect == Spec => []WakesInTime
<1>1. LedIInv => WakesInTime
  <2> SUFFICES ASSUME LedIInv, NEW l \in Leds, led[l].blink
               PROVE  0 < wait /\ waited <= wait /\ wait <= led[l].next
    BY DEF WakesInTime
  <2>1. wait = WaitOf(led) /\ (wait = Forever \/ waited <= wait)
    BY DEF LedIInv, WaitInv
  <2>2. \A k \in Leds : led[k].blink \in BOOLEAN /\ (led[k].blink => led[k].next \in Nat \ {0})
    BY LedTypes
  <2>3. 0 < wait /\ wait <= led[l].next
    BY <2>1, <2>2, WaitFacts
  <2> QED  BY <2>1, <2>3 DEF Forever
<1> QED  BY <1>1, LedInvariant, PTL

-----------------------------------------------------------------------------
(* Each LED is a blinker.  What happens to the orders of LED l.            *)

\* A message that is posted is an order for its own LED and for no other.
LEMMA PostOrders ==
  ASSUME LedIInv, NEW m \in AllMessages, Post(m), NEW l \in Leds
  PROVE  \/ OrdersOf(l)' = OrdersOf(l)
         \/ m.led = l /\ OrdersOf(l)' = OrdersOf(l) \cup {m}
<1> DEFINE n == Len(mailbox)
<1>1. mailbox \in Seq(AllMessages) /\ n \in Nat
  BY DEF LedIInv, LedInv, TypeOK
<1>2. CASE mailbox' = Append(mailbox, m)
  <2>1. /\ Len(mailbox') = n + 1 /\ mailbox'[n + 1] = m
        /\ \A k \in 1 .. n : mailbox'[k] = mailbox[k]
    BY <1>1, <1>2
  <2>2. 1 .. Len(mailbox') = (1 .. n) \cup {n + 1}
    BY <1>1, <2>1
  <2> HIDE DEF n
  <2>3. CASE m.led = l
    <3>1. {i \in 1 .. Len(mailbox') : mailbox'[i].led = l} =
            {i \in 1 .. n : mailbox[i].led = l} \cup {n + 1}
      BY <2>1, <2>2, <2>3
    <3>2. OrdersOf(l)' = {mailbox[k] : k \in {i \in 1 .. n : mailbox[i].led = l}} \cup {m}
      BY <2>1, <3>1 DEF OrdersOf
    <3> QED  BY <2>3, <3>2 DEF OrdersOf, n
  <2>4. CASE m.led # l
    <3>1. {i \in 1 .. Len(mailbox') : mailbox'[i].led = l} = {i \in 1 .. n : mailbox[i].led = l}
      BY <2>1, <2>2, <2>4
    <3>2. OrdersOf(l)' = {mailbox[k] : k \in {i \in 1 .. n : mailbox[i].led = l}}
      BY <2>1, <3>1 DEF OrdersOf
    <3> QED  BY <3>2 DEF OrdersOf, n
  <2> QED  BY <2>3, <2>4
<1>3. CASE mailbox' = mailbox
  BY <1>3 DEF OrdersOf
<1> QED  BY <1>2, <1>3 DEF Post

\* The message received is an order for its own LED; only this one is taken away.
LEMMA HandleOrders ==
  ASSUME LedIInv, mailbox # <<>>, mailbox' = Tail(mailbox), NEW l \in Leds
  PROVE  /\ Head(mailbox).led # l => OrdersOf(l)' = OrdersOf(l)
         /\ Head(mailbox).led = l =>
              /\ Head(mailbox) \in OrdersOf(l)
              /\ OrdersOf(l)' \in {OrdersOf(l), OrdersOf(l) \ {Head(mailbox)}}
<1> DEFINE n == Len(mailbox)
           m == Head(mailbox)
<1>1. mailbox \in Seq(AllMessages) /\ n \in Nat \ {0} /\ m = mailbox[1]
  BY EmptySeq DEF LedIInv, LedInv, TypeOK
<1>2. Len(mailbox') = n - 1 /\ \A k \in 1 .. n - 1 : mailbox'[k] = mailbox[k + 1]
  BY <1>1, HeadTailProperties
<1> HIDE DEF n, m
<1>3. OrdersOf(l) = {mailbox[k] : k \in {i \in 1 .. n : mailbox[i].led = l}}
  BY DEF OrdersOf, n
<1>4. OrdersOf(l)' = {mailbox'[k] : k \in {i \in 1 .. n - 1 : mailbox'[i].led = l}}
  BY <1>2 DEF OrdersOf
<1>5. OrdersOf(l)' \subseteq OrdersOf(l)
  <2> SUFFICES ASSUME NEW k \in 1 .. n - 1, mailbox'[k].led = l
               PROVE  mailbox'[k] \in OrdersOf(l)
    BY <1>4
  <2>1. k + 1 \in 1 .. n /\ mailbox'[k] = mailbox[k + 1]
    BY <1>1, <1>2
  <2> QED  BY <1>3, <2>1
<1>6. \A x \in OrdersOf(l) : x # m => x \in OrdersOf(l)'
  <2> SUFFICES ASSUME NEW k \in 1 .. n, mailbox[k].led = l, mailbox[k] # m
               PROVE  mailbox[k] \in OrdersOf(l)'
    BY <1>3
  <2>1. k - 1 \in 1 .. n - 1 /\ (k - 1) + 1 = k
    BY <1>1
  <2>2. mailbox'[k - 1] = mailbox[k]
    BY <1>2, <2>1
  <2> QED  BY <1>4, <2>1, <2>2
<1>7. CASE m.led # l
  <2>1. m \notin OrdersOf(l)
    BY <1>3, <1>7
  <2> QED  BY <1>5, <1>6, <1>7, <2>1 DEF m
<1>8. CASE m.led = l
  <2>1. m \in OrdersOf(l)
    BY <1>1, <1>3, <1>8
  <2> QED  BY <1>5, <1>6, <1>8, <2>1 DEF m
<1> QED  BY <1>7, <1>8

-----------------------------------------------------------------------------
(* A move of LED l, in the words of LedBlinker.                            *)

LevelOf(l) == IF led[l].blink THEN led[l].level ELSE Black
FlashesOf(l) == IF led[l].blink THEN led[l].left ELSE 0

Still(l) ==
    /\ lit'[l] = lit[l] /\ led'[l].blink = led[l].blink
    /\ LevelOf(l)' = LevelOf(l) /\ FlashesOf(l)' = FlashesOf(l)

Shows(l, c) ==
    led'[l].blink = FALSE /\ lit'[l] = c /\ LevelOf(l)' = Black /\ FlashesOf(l)' = 0

Flashes(l, c, n) ==
    led'[l].blink = TRUE /\ lit'[l] = c /\ LevelOf(l)' = c /\ FlashesOf(l)' = n

Obeys(l, m) ==
    /\ OrdersOf(l)' \in {OrdersOf(l), OrdersOf(l) \ {m}}
    /\ IF m.blink THEN Flashes(l, m.level, m.count) ELSE Shows(l, m.level)

GoesDark(l) ==
    /\ led[l].blink /\ lit[l] = LevelOf(l)
    /\ IF FlashesOf(l) = 1
       THEN Shows(l, Black)
       ELSE /\ lit'[l] = Black
            /\ FlashesOf(l)' = IF FlashesOf(l) = 0 THEN 0 ELSE FlashesOf(l) - 1
            /\ led'[l].blink = led[l].blink /\ LevelOf(l)' = LevelOf(l)
    /\ OrdersOf(l)' = OrdersOf(l)

GoesLit(l) ==
    /\ led[l].blink /\ lit[l] = Black
    /\ lit'[l] = LevelOf(l)
    /\ led'[l].blink = led[l].blink /\ LevelOf(l)' = LevelOf(l)
    /\ FlashesOf(l)' = FlashesOf(l)
    /\ OrdersOf(l)' = OrdersOf(l)

Moves(l) ==
    \/ Still(l) /\ OrdersOf(l)' = OrdersOf(l)
    \/ \E m \in CommandsOf(l) : Still(l) /\ OrdersOf(l)' = OrdersOf(l) \cup {m}
    \/ \E m \in OrdersOf(l) : Obeys(l, m)
    \/ GoesDark(l) \/ GoesLit(l)

LEMMA PostMoves ==
  ASSUME LedIInv, NEW m \in AllMessages, Post(m), led' = led, lit' = lit, NEW l \in Leds
  PROVE  Moves(l)
<1>1. Still(l)
  BY DEF Still, LevelOf, FlashesOf
<1>2. m.led = l => m \in CommandsOf(l)
  BY DEF CommandsOf
<1> QED  BY <1>1, <1>2, PostOrders DEF Moves

LEMMA HandleMoves ==
  ASSUME LedIInv, Handle, NEW l \in Leds
  PROVE  Moves(l)
<1> DEFINE m == Head(mailbox)
<1>1. m \in AllMessages
  BY HeadTailProperties, EmptySeq DEF Handle, LedIInv, LedInv, TypeOK
<1>2. led' = [led EXCEPT ![m.led] = Obey(m)] /\ lit' = [lit EXCEPT ![m.led] = m.level]
  BY DEF Handle, Shown
<1>3. led \in [Leds -> LedStates] /\ lit \in [Leds -> Colours \cup {On}]
  BY DEF LedIInv, LedInv, TypeOK
<1>4. /\ m.led # l => OrdersOf(l)' = OrdersOf(l)
      /\ m.led = l => /\ m \in OrdersOf(l)
                      /\ OrdersOf(l)' \in {OrdersOf(l), OrdersOf(l) \ {m}}
  BY HandleOrders DEF Handle
<1> HIDE DEF m
<1>5. CASE l # m.led
  <2>1. led'[l] = led[l] /\ lit'[l] = lit[l]
    BY <1>2, <1>3, <1>5
  <2>2. Still(l)
    BY <2>1 DEF Still, LevelOf, FlashesOf
  <2> QED  BY <1>4, <1>5, <2>2 DEF Moves
<1>6. CASE l = m.led /\ m.blink
  <2>1. led'[l] = Obey(m) /\ lit'[l] = m.level
    BY <1>2, <1>3, <1>6
  <2>2. Obey(m).blink = TRUE /\ Obey(m).level = m.level /\ Obey(m).left = m.count
    BY <1>1, <1>6, ObeyTypes, MessageTypes
  <2>3. Flashes(l, m.level, m.count)
    BY <2>1, <2>2 DEF Flashes, LevelOf, FlashesOf
  <2> QED  BY <1>4, <1>6, <2>3 DEF Moves, Obeys
<1>7. CASE l = m.led /\ ~m.blink
  <2>1. led'[l] = Steady /\ lit'[l] = m.level
    BY <1>1, <1>2, <1>3, <1>7, ObeyTypes
  <2>2. Steady.blink = FALSE
    BY DEF Steady
  <2>3. Shows(l, m.level)
    BY <2>1, <2>2 DEF Shows, LevelOf, FlashesOf
  <2> QED  BY <1>4, <1>7, <2>3 DEF Moves, Obeys
<1> QED  BY <1>5, <1>6, <1>7

LEMMA TimeoutMoves ==
  ASSUME LedIInv, Timeout, NEW l \in Leds
  PROVE  Moves(l)
<1>1. /\ led'[l] = Forwarded(l)
      /\ lit'[l] = IF ~Due(l) THEN lit[l] ELSE IF led[l].on THEN Black ELSE led[l].level
  BY DEF Timeout
<1>2. /\ led[l] \in LedStates /\ led[l].blink \in BOOLEAN /\ led[l].on \in BOOLEAN
      /\ led[l].left \in Nat /\ PhaseInv(l)
  BY LedTypes DEF LedIInv
<1>5. OrdersOf(l)' = OrdersOf(l)
  BY DEF Timeout, OrdersOf
<1>3. CASE ~Due(l)
  <2>1. lit'[l] = lit[l] /\ led'[l].blink = led[l].blink
        /\ led'[l].level = led[l].level /\ led'[l].left = led[l].left
    BY <1>1, <1>2, <1>3 DEF Forwarded, LedStates
  <2> QED  BY <1>5, <2>1 DEF Moves, Still, LevelOf, FlashesOf
<1>4. CASE Due(l)
  <2>1. led[l].blink = TRUE /\ led'[l] = Toggled(l)
        /\ lit'[l] = IF led[l].on THEN Black ELSE led[l].level
    BY <1>1, <1>2, <1>4 DEF Due, Forwarded
  <2>2. LevelOf(l) = led[l].level /\ FlashesOf(l) = led[l].left
        /\ led[l].level # Black /\ lit[l] = (IF led[l].on THEN led[l].level ELSE Black)
    BY <1>2, <2>1 DEF LevelOf, FlashesOf, PhaseInv
  <2>3. CASE Toggled(l).blink
    <3>1. /\ Toggled(l).blink = TRUE /\ Toggled(l).level = led[l].level
          /\ Toggled(l).left = IF led[l].on /\ led[l].left > 0
                               THEN led[l].left - 1 ELSE led[l].left
          /\ ~(led[l].on /\ led[l].left = 1)
      BY <2>1, <2>3, ToggledFacts
    <3>2. LevelOf(l)' = led[l].level /\ FlashesOf(l)' = Toggled(l).left
          /\ led'[l].blink = led[l].blink
      BY <2>1, <3>1 DEF LevelOf, FlashesOf
    <3>3. CASE led[l].on
      <4>1. GoesDark(l)
        BY <1>2, <1>5, <2>1, <2>2, <3>1, <3>2, <3>3 DEF GoesDark
      <4> QED  BY <4>1 DEF Moves
    <3>4. CASE ~led[l].on
      <4>1. GoesLit(l)
        BY <1>2, <1>5, <2>1, <2>2, <3>1, <3>2, <3>4 DEF GoesLit
      <4> QED  BY <4>1 DEF Moves
    <3> QED  BY <3>3, <3>4
  <2>4. CASE ~Toggled(l).blink
    <3>1. Toggled(l) = Steady /\ led[l].on /\ led[l].left = 1
      BY <2>1, <2>4, ToggledFacts
    <3>2. Shows(l, Black)
      <4>1. Steady.blink = FALSE
        BY DEF Steady
      <4> QED  BY <2>1, <3>1, <4>1 DEF Shows, LevelOf, FlashesOf
    <3>3. GoesDark(l)
      BY <1>5, <2>1, <2>2, <3>1, <3>2 DEF GoesDark
    <3> QED  BY <3>3 DEF Moves
  <2> QED  BY <2>3, <2>4
<1> QED  BY <1>3, <1>4

LEMMA StepMoves ==
  ASSUME LedIInv, [Next]_vars, NEW l \in Leds
  PROVE  Moves(l)
<1>1. CASE \E m \in Messages : Send(m)
  <2>1. PICK m \in Messages : Send(m)
    BY <1>1
  <2> QED  BY <2>1, PostMoves DEF Send, ledVars, AllMessages
<1>2. CASE Battery
  <2>1. Post(BatteryMessage(low')) /\ BatteryMessage(low') \in AllMessages
    BY <1>2 DEF Battery, AllMessages
  <2> QED  BY <1>2, <2>1, PostMoves DEF Battery, ledVars
<1>3. CASE Tick \/ UNCHANGED vars
  <2>1. led' = led /\ lit' = lit /\ mailbox' = mailbox
    BY <1>3 DEF Tick, vars, ledVars
  <2> QED  BY <2>1 DEF Moves, Still, LevelOf, FlashesOf, OrdersOf
<1> QED
  BY <1>1, <1>2, <1>3, HandleMoves, TimeoutMoves DEF Next

\* The two LEDs are two blinkers that share nothing, although one thread, one
\* mailbox and one timeout serve them both: each changes for its own messages and
\* its own phases only.
THEOREM BlinkersCorrect == Spec => LedsAreBlinkers
<1>1. Init => Rgb!Init /\ Nled!Init
  <2> SUFFICES ASSUME Init PROVE Rgb!Init /\ Nled!Init
    OBVIOUS
  <2>1. OrdersOf("rgb") = {} /\ OrdersOf("nled") = {}
    BY DEF Init, OrdersOf
  <2> QED  BY <2>1 DEF Init, Rgb!Init, Nled!Init, Steady, Leds
<1>2. LedIInv /\ [Next]_vars => [Rgb!Next]_(Rgb!bvars)
  <2> SUFFICES ASSUME LedIInv, [Next]_vars PROVE [Rgb!Next]_(Rgb!bvars)
    OBVIOUS
  <2>1. Moves("rgb")
    BY StepMoves DEF Leds
  <2> QED
    BY <2>1 DEF Moves, Still, Obeys, Shows, Flashes, GoesDark, GoesLit, LevelOf, FlashesOf,
      Rgb!Next, Rgb!bvars, Rgb!Order, Rgb!Obey, Rgb!Show, Rgb!Flash, Rgb!GoDark, Rgb!GoLit
<1>3. LedIInv /\ [Next]_vars => [Nled!Next]_(Nled!bvars)
  <2> SUFFICES ASSUME LedIInv, [Next]_vars PROVE [Nled!Next]_(Nled!bvars)
    OBVIOUS
  <2>1. Moves("nled")
    BY StepMoves DEF Leds
  <2> QED
    BY <2>1 DEF Moves, Still, Obeys, Shows, Flashes, GoesDark, GoesLit, LevelOf, FlashesOf,
      Nled!Next, Nled!bvars, Nled!Order, Nled!Obey, Nled!Show, Nled!Flash, Nled!GoDark, Nled!GoLit
<1> QED
  BY <1>1, <1>2, <1>3, LedInvariant, PTL DEF Spec, LedsAreBlinkers, Rgb!Spec, Nled!Spec

-----------------------------------------------------------------------------
(* Punctuality.                                                            *)

\* A timeout always ends a phase, and every phase ends at the very tick its half period
\* (and what was forgotten of it) is over: the one wait of rt_mb_recv is the right one for
\* both LEDs.
Punctual ==
    [][Timeout =>
        /\ \E l \in Leds : Due(l)
        /\ \A l \in Leds : Due(l) => age[l] = led[l].half + slip[l]]_vars

\* No phase of either LED, however often commands for the other one cut into the
\* wait, lasts longer than its half period and what was forgotten of it.
PhaseBounded == \A l \in Leds : led[l].blink => age[l] <= led[l].half + slip[l]

\* Whoever blinks is not due before the wait is over; some LED is due then.
LEMMA WaitIsFirst ==
  ASSUME LedIInv, wait # Forever
  PROVE  /\ wait \in Nat
         /\ \A l \in Leds : led[l].blink => wait <= led[l].next
         /\ \E l \in Leds : led[l].blink /\ led[l].next = wait
<1>1. wait = WaitOf(led) /\ wait \in Nat \cup {Forever}
  BY DEF LedIInv, WaitInv, LedInv, TypeOK
<1>2. \A l \in Leds : led[l].blink \in BOOLEAN /\ (led[l].blink => led[l].next \in Nat \ {0})
  BY LedTypes
<1> QED
  BY <1>1, <1>2, WaitFacts DEF WaitOf, Leds, Forever

\* The waits of rgb_led_thread_entry end neither early nor late.
THEOREM PunctualPhases == Spec => Punctual
<1>1. ASSUME LedIInv, Timeout
      PROVE  /\ \E l \in Leds : Due(l)
             /\ \A l \in Leds : Due(l) => age[l] = led[l].half + slip[l]
  <2>1. wait # Forever /\ waited = wait
    BY <1>1 DEF Timeout
  <2>2. /\ wait \in Nat
        /\ \A l \in Leds : led[l].blink => wait <= led[l].next
        /\ \E l \in Leds : led[l].blink /\ led[l].next = wait
    BY <1>1, <2>1, WaitIsFirst
  <2>3. ASSUME NEW l \in Leds, Due(l) PROVE age[l] = led[l].half + slip[l]
    <3>1. /\ led[l].blink /\ led[l].next \in Nat /\ age[l] \in Nat
          /\ led[l].half \in Nat /\ slip[l] \in Nat
      BY <1>1, <2>3, LedTypes DEF Due
    <3>2. led[l].next = waited
      BY <2>1, <2>2, <2>3, <3>1 DEF Due
    <3>3. age[l] + (led[l].next - waited) = led[l].half + slip[l]
      BY <1>1, <3>1 DEF LedIInv, OnSchedule
    <3> QED  BY <2>1, <2>2, <3>1, <3>2, <3>3
  <2> QED  BY <2>2, <2>3 DEF Due
<1>2. LedIInv /\ [Next]_vars =>
        [Timeout => /\ \E l \in Leds : Due(l)
                    /\ \A l \in Leds : Due(l) => age[l] = led[l].half + slip[l]]_vars
  BY <1>1
<1> QED  BY <1>2, LedInvariant, PTL DEF Spec, Punctual

\* rgb_led_thread_entry lets no phase of a blinking LED outlast its half period.
THEOREM PhasesBounded == Spec => []PhaseBounded
<1>1. LedIInv => PhaseBounded
  <2> SUFFICES ASSUME LedIInv, NEW l \in Leds, led[l].blink
               PROVE  age[l] <= led[l].half + slip[l]
    BY DEF PhaseBounded
  <2>1. wait # Forever
    <3>1. \A k \in Leds : led[k].blink \in BOOLEAN /\ (led[k].blink => led[k].next \in Nat \ {0})
      BY LedTypes
    <3> QED  BY <3>1, WaitFacts DEF LedIInv, WaitInv, Forever
  <2>2. waited <= led[l].next /\ waited \in Nat
    BY <2>1, WaitIsFirst, LedTypes DEF LedIInv, WaitInv, LedInv, TypeOK
  <2>3. age[l] + (led[l].next - waited) = led[l].half + slip[l]
    BY DEF LedIInv, OnSchedule
  <2> QED  BY <2>2, <2>3, LedTypes
<1> QED  BY <1>1, LedInvariant, PTL
=============================================================================
