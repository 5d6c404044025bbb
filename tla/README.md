# Verification of the SiFli-SDK demos

TLA+ models of the demos in this repository, the TLC runs that check them, and TLAPS proofs of
what matters most in them. The repository holds six independent demos for SF32LB52 boards. None
of them has tests; the models are about the parts of each that callbacks, threads, timers and
interrupts make hard to test.

Paths below are relative to `src/`, the root of the repository.

## 1. The system

| Part | Code | State | Operations | Acted on by |
|---|---|---|---|---|
| Range tester | `ble_range_test/src/main.c` | connection table, scan/connect flags, retry counter, LED state | BLE events, power-on message, service registration | BLE task, main thread (once) |
| Its send thread | same file, `range_tx_send_entry` | the thread's own copies of link number, slot and handle | reads flag, number, slot and handles, then writes a packet | its thread, beside the BLE task |
| Walkie-talkie | `talkback/src/main.c` | state and role, `is_idle`, `is_talking`, idle work, power request | two key handlers, callbacks of `ble_talk_network`, idle work | button thread, BLE task, work queue |
| Its LED thread | same file, `rgb_led_thread_entry` | mailbox, blink state of two LEDs | commands, timeouts | any sender, LED thread |
| Its battery thread | same file, `battery_thread_entry` | last reading | a reading every 10.3 s, sent as a command to the LED | its thread |
| Panel driver | `*/gc9107_Multi_screen/gc9107_Multi_screen.c` (three identical copies) | region, current panel, saved callback, chip selects | the driver table, completion interrupt | display framework, interrupt |
| Refresh task | `multi-screen/src/main.c` | framebuffer, semaphore | draw, wait, delay | its thread, completion callback |
| GIF wall | `multi-screen_gif/src/screen.c` | keypad flag, active screens, timers | click, poll, key handler | button thread, LVGL thread |
| PC monitor | `multi-screen_pc/src/{cmd_parser,screen}.c` | `system_status` and two flags | shell command, timer callback | shell thread, main thread |
| PAN demo | `pan_iperf/src/main.c` | address, flags, timer, mailbox, retry budget | stack events, timer, main loop, shell commands | Bluetooth task, timer thread, main, shell |
| Web clients | `pan_iperf/src/{wheather,doubao}.c` | what a command has allocated, how much of the answer is read | the calls of one command | shell |

How they interact: the demos do not interact with each other, except that three of them contain
the panel driver. Inside a demo the parts communicate by shared variables without locks
(walkie-talkie, monitor, GIF wall), by mailboxes (LED thread, PAN demo, power-on of the range
tester), by callbacks of the stack or the SDK (all), and by a chain of interrupts (panel driver).

What makes each one correct:

- *Range tester.* The table holds the accepted links and no others; a TX asks for one connection
  at a time and is never left without a next event; the LED and the send flag follow the link; a
  lost link comes back.
- *Send thread.* It reads five things without a lock; while the link is up the packet still goes out on
  the link it was meant for, with that link's handles, and when the link is lost at most one more packet goes out.
- *Walkie-talkie.* Speech needs a pressed key; no room is left while speaking; a device in standby
  falls asleep, and one that sleeps is in standby with everything switched off; the LED is lit out of standby.
- *LED and battery threads.* Two LEDs blink with one timeout and do not disturb each other; no message
  leaks; a low battery is shown in the end, though a full mailbox drops commands.
- *Panel driver.* Many panels are one screen: each pixel goes to its panel, one panel listens at a
  time, the caller is called back once.
- *Refresh task.* The framebuffer is not touched while it is being sent.
- *GIF wall.* Count, screens and timers agree; a click counts once.
- *PC monitor.* What the PC sent last is shown in the end.
- *PAN demo.* Timer and flags follow the link; PAN is requested from the phone on the line; the
  retry budget is whole for every call.
- *Web clients.* Whichever call fails, the command frees what it points to, each object once, loses no more than
  the code is known to lose, and ends.

## 2. Modules

| Module | Models | Composes or extends |
|---|---|---|
| `RangeTest` | the link manager of the range tester, with the stack's side of every request | implements `TxLink` |
| `TxLink` | abstract: what a TX board shows and sends | |
| `RangeTestHistory` | a history variable: the length of a chain of retries | extends `RangeTest` |
| `RangeSend` | the send thread and the handles it reads, beside the link manager | extends `RangeTestHistory` |
| `TalkApp` | the walkie-talkie application | implements `Speech` |
| `Speech` | abstract: push to talk | |
| `TalkDisturbed` | whether the idle work was ever interleaved | extends `TalkApp` |
| `TalkLed` | the LED thread, its mailbox and its time, with the battery thread | implements `LedBlinker`, twice |
| `LedBlinker` | abstract: what one LED promises | |
| `Gc9107` | the panel driver | implements `BigScreen` |
| `BigScreen` | abstract: one big screen | |
| `LcdRefresh` | the refresh task and the driver together | extends `Gc9107` |
| `GifKeys` | the key, the poll and the wall of GIFs | implements `GifWall` |
| `GifWall` | abstract: a wall that clicks move on | |
| `Monitor`, `PanIperf` | the other two demos | |
| `Weather` | the two web clients of the PAN demo | |
| `RangeTestProofs`, `TalkAppProofs`, `TalkLedProofs`, `Gc9107Proofs`, `LcdRefreshProofs`, `GifKeysProofs`, `MonitorProofs`, `PanIperfProofs` | proofs | each extends the outermost module of its component; the web clients are in `PanIperfProofs` |
| `MC*` | constant values for TLC | one for each composition that is checked |

Names of the source are kept where TLA+ allows it (also its spelling, as in
`ble_app_deivce_disconnected`). Definitions commented *Broken variant* are alternative bodies
with a plausible bug; no specification uses them. They show that each property can fail.

### RangeTest

Each callback of `ble_app_event_handler` and `ble_app_gattc_event_handler` is one action, as the BLE task runs them
one after the other. `conn`, `conn_count`, `g_tx_*` and the LED state are the variables of the same name. `scan`,
`reports`, `stop_inds`, `creating`, `link` and `setup` are the stack: what it has been asked and which answers are
under way. The answers to scanning, to connection requests and to the setup of different links may come in any order,
a request may fail, and a stop indication that is under way does not go away when the scan starts again. What is under
way for a link ends with the link: after its disconnection the stack reports no answer of its search or registration
(`setup` is reset). `RegisterRemoteSvcRsp` tests neither link nor slot (`main.c:398-402`), so the code depends on it.
A disconnection carries whether its reason is 62 (connection failed to be established). The watchdog has no action:
its start function has no caller. The peers are boards whose advertising name matches. Power-on is delivered once, as
by the stack.

### RangeSend

`range_tx_send_entry` is split at each read of what the BLE task may write: the flag (`TestSending`), the
link number (`ReadConnIdx`), the slot (`LookUp`), its value handle (`ReadHandle`), its remote handle with the
write itself (`Write`). A step of the BLE task (`LinkStep`) is a step of `RangeTest` with what it does to the
handles and to the thread's existence. A handle is not a number but says whose it is: of the link that has
the slot (`own`), of one that had it before (`old`), of none. `lost` and `late` are history: whether the
flag was cleared since the thread tested it, and how many packets were written since.

### TalkApp

A key handler is several actions: what it tests and what it does upon the test are steps of their own, and another
thread may run in between. Common to both keys are the test of the state (`KeyTestState`), the second test in
`standby_idle_timer_arm` (`KeyArm`) and the restart of the countdown (`KeySubmit`), the test of `is_idle` with the LCD
(`KeyWake`; nobody else sets the flag), the store to it (`FlagAwake`) and the power request (`PmRequest`). Then comes
what the handler finds (`Key1`, `Key2Pressed`, `Key2Clicked`, `Key2LongPressed`), and what it does about it
(`LeaveRoom`, `Reconnect`, `SwitchRole`, `Command`). A press has three steps: the tests, the sender's start, which
fails if the room is closed meanwhile or for reasons of its own, and the store of `is_talking` (`StartSender`,
`StoreTalking`). The idle work is one action per statement (`CheckStandby` to `FlagAsleep`). Callbacks are one action
each: they run in the BLE task, above the other threads. The library `ble_talk_network` is not in the repository; its
phase, role, pending reconnection and the command it has not carried out are variables, and `MayChange` names the
phase changes it may report. `TimerExpires` excludes that sixty seconds pass in the middle of two statements.

Of the LED the model keeps whether the last command lights it (`lit`). Colours are left out, since the code relates
none of them to the state: the indications of streams are shown whatever the state is, also after the room is left or
the device sleeps (`main.c:191-203`).

### TalkLed

One action is one turn of the thread's loop, with the computation of the next wait. `Tick` is a tick of time; `age`
and `slip` are history: how long a phase has lasted, and how much of it the thread has forgotten, since the ticks
waited before a message arrives are not taken off (`rgb_led_thread_entry` subtracts only on a timeout). A message
carries its interval, a period in ticks, and `HalfOf` halves it as the code does. An interval of 1 ms would give a
wait of 0 ticks, on which the thread spins; no caller asks for it, and `LedAssumption` excludes it. In `LedBlinker` an
LED has orders of its own and changes only when it obeys one of them or a phase of its own ends: the messages of the
other LED are not among its orders. `Battery` is one turn of the battery thread: any reading, and the command it
sends; `Post` may refuse it, since the mailbox may be full or the heap empty.

### Gc9107, LcdRefresh

An operation of the driver table is one action (the SDK's display framework calls one at a time);
the completion interrupt is `XferCplt`. The panels are modelled with their memory: for each local
pixel the number of the drawing and the position whose colour it took, so that a pixel that
arrives in the wrong place is seen. Each selected panel receives what is on the bus. Reads of
`LCD_ReadPixel` change the colour mode of the current panel and back, which is modelled by its net effect.
The rectangle that `LCD_WriteMultiplePixels` is called with is taken to be the region set just before, as the
framework calls it: the function hands its own rectangle to the controller layer, while panels and windows are those
of the region (`gc9107_Multi_screen.c:547-549`).
`LCD_WritePixel` sets neither window nor panel, so its pixel lands at the start of the current panel's
window: `BigScreen` promises of it only that no other pixel changes (`Dot`).
`LcdRefresh` takes the driver's actions as they are and adds the statements of `lcd_refresh_task`
around them.

### GifKeys, Monitor, PanIperf, Weather

`GifKeys`: the click, the poll in its four steps (key, state, reset of the state, handler), the frame
timers. `last_key` is a variable: a click between the reads of key and state (`screen.c:151`, `152`) is handled with the
key of the click before, and the first one, having none, is lost.
`Monitor`: a command is two or three steps (value, or date and time of day, then flag), the timer
callback one step per label. The shell does not run inside the callback: `proj.conf` gives the main
thread priority 19, above RT-Thread's 20 for the shell.
`PanIperf`: every case of `bt_app_interface_event_handle` with the stack's own change (the handler runs in the stack's
task); the soft timer, `conn_pan` of the shell and the main thread, each with its test of `bt_connected` and what follows it
as steps of their own, since the link may go down in between; the other shell commands, at any time, also before the stack is
ready. Both messages of the mailbox have the value 1 (`main.c:38`, `40`), so that either ends either of the main thread's
two waits (the first has a timeout). `pan_reconnect` is three actions, its ten second delay lets everything else run. Of
requests to the stack only those for PAN are kept: the phone may bring HID up at any time by itself. The address is
copied at the call.
`Weather`: one action per call of `get_weather`, `http_weather_data_parse` and `webclient_post_request`,
with each outcome of that call the code tells apart. `live` counts the objects of each kind that are allocated,
`pointers` says which of them a variable of the command points to: an object that is dropped without being freed
stays in `live` for good. Where the code uses a pointer that may not be set, the processor's fault
is one of the outcomes (`Wild`).

## 3. What TLC checks

Deadlock is checked except in `Weather`, where the instance ends by its bound (no more commands) or in a
fault of the processor.
The specifications that carry fairness are used wherever a run has a liveness property; fairness
removes no reachable state, so the safety properties of the same run lose nothing by it.

| Run | Question and result |
|---|---|
| `RangeTest` | Link manager and send thread together. `RangeInv` (the inductive invariant: the table holds the links, flags, scan and LED fit together, a TX is never stuck), `RetriesBounded`; a TX implements `TxLink` (`IsTxLink`: one request or link at a time, the LED shows which, packets only on a usable link); while the link is up a packet goes out with the link's own handles (`SentOnOwnHandles`), and after its loss at most one packet does with whatever the thread has read (`OneLatePacket`), under every interleaving of the thread's reads; a TX gets its link back (`Reconnects`), and a ready link is used (`PacketsFlow`). Two roles, 3 slots, 4 link numbers (one more than fits, so that a link is refused), 2 peers, 5 retries. |
| `TalkApp` | Under all interleavings: `TalkInv`; the application implements `Speech` (`IsSpeech`: one push puts it on air once at most and only if it found itself in a room, letting go takes it off); no room is left while speaking (`NoLeaveWhileSpeaking`); left alone, the device does not stay awake in standby (`SleepsWhenLeftAlone`). While the idle work has not overlapped with a key or a callback (of the states after an overlap nothing is claimed): power, LCD and flag agree when nobody is changing them (`PowerAgrees`), so do the roles (`RoleAgrees`), only a device in standby sleeps (`SleepsInStandby`), and the LED is dark in standby only (`LitOutOfStandby`). |
| `TalkLed` | No leak, rhythm kept, never late, both LEDs implement `LedBlinker` (neither changes for the other's orders or phases), a low battery ends up blinking whatever commands are dropped. |
| `Gc9107` | The six-panel layout of the code, two drawings and all other operations between them: one panel listens, the callback comes once, `BigScreen` is implemented. |
| `LcdRefresh` | The task and the interrupts never meet; the picture is whole when the task goes on; every wait ends (every drawing does). |
| `PanIperf` | Timer and flag follow the link (`LinkInv`), the budget is whole (`BudgetWhole`); while a phone is connected PAN is asked of that phone (`AsksThePeer`), and after a link has gone down at most one request is made on account of its messages (`OneLateRequest`); the shell returns. |
| `Monitor` | Nothing is forgotten; the last values are shown. |
| `GifKeys` | Wall, timers and count agree; the wall implements `GifWall` (`IsWall`: no ghost click, a screen that joins starts at its beginning); a click on a released keypad takes effect. |
| `Weather` | Whichever call fails, what a variable points to is freed, once, and of root and message at most one is lost in a command (`Released`); no read past the answer; every command ends, also when the connection is closed in the middle. |

### Disagreements between code and documents

Each of these runs checks one statement of a document or comment, and TLC shows how the code breaks it.

| Run | The code | The document |
|---|---|---|
| `TalkAppSleep` | a device may fall asleep in a room (`main.c:211-224`) | sleeps in standby |
| `PanIperfTrigger` | a READY that comes late ends the second wait, which cannot tell it from CONNECT_PAN (`main.c:38`, `40`); the main thread is then in the first wait, which swallows the request (`main.c:310`), and waits for ever | PAN is triggered after the timer |
| `PanIperfPaired` | a missing `break` erases the device just paired (`main.c:192`) | PAN to the last paired device |

Seen while modelling, and kept in the models as the code has it, without a run of their own:

- `ble_range_test`: an RX that loses one of several links flashes as if it had none (`main.c:675`;
  README.md:36-39); a failed request does not reset the retry counter (`main.c:543-557`; comment at
  `main.c:649-651`); the first report wins, not the strongest (`main.c:563`; README.md:47-48); the
  scan watchdog is never started (`main.c:511`).
- `talkback`: waking sends no LED command, so standby is dark after sleep (`main.c:495-500`;
  README.md:22); a stream that is reported after the room is left, or after the device fell asleep, colours the LED all
  the same (`main.c:191-203`); a key between `main.c:223` and `224` in two successive runs of the idle work leaves a
  sleeping device holding its power request; a room that is joined while the handler of KEY1 is about to reconnect may have
  its colour overwritten (`main.c:517-522`).
- `multi-screen`: `LCD_WritePixel` does not write at X, Y (`gc9107_Multi_screen.c:508`); the step to the
  next picture is commented out (`main.c:415`; README.md:14).
- `multi-screen_gif`: quick clicks merge (`screen.c:139`; README.md:139).
- `ble_range_test`: the characteristic's getter does not test whether its link has a slot (`main.c:208`), which
  a refused link has not.
- `pan_iperf`: the strings printed from an answer are never freed, and a result that cannot be parsed returns without
  deleting the document (`wheather.c:104-107`; comments at `wheather.c:145` and `:159`: after each `cJSON_Parse` the memory
  must be released); a message made without an array to go into is never deleted (`doubao.c:17-25`);
  each piece of an answer overwrites the one before, and a full buffer has no terminating
  zero (`wheather.c:215`); an answer without results prints unassigned fields (`wheather.c:149`); texts
  and contents that may be missing are used as they are (`doubao.c:36` and `:53`).

### Bounds, and why they are enough

- *Range tester*: three slots against four links fill, overflow and reuse the table; two peers are
  enough for a candidate and a rival; `BurstMax` is the code's own 5. Nothing else counts: `stop_inds`,
  `creating` and `late` stay small by themselves. The proofs remove all of these bounds.
- *Walkie-talkie*: all variables but the power count are flags and small enumerations; `PmLimit`
  2 stands for the saturation of the SDK's 8 bit counter and is one more than a correct run uses.
- *LED thread*: mailbox of 2 against 3 commands, of which the thread need not have taken any, overflows; periods of 4 and 6 ticks (6 stands for the default,
  1000 ms)
  make the two LEDs drift through all relative phases; counts 0 and 2 are endless and finite.
  Two commands of other threads meet a battery command in the mailbox in every order; a `Period` of 8 is longer than
  the longest phase, as in the code.
- *Panel driver*: panels of 2x1 pixels have two distinct horizontal edges and coincident
  vertical ones; six panels as in the code. Two drawings, with every other operation before,
  between and after them, show what one leaves behind for the next; regions include
  one that meets no panel, one that is a pixel, one across a seam, and the whole. The proof of `SplitIsExact` covers all sizes.
- *Refresh task*: eight turns; a turn leaves nothing behind but the counters.
- *PAN demo*: two phones, of which one has a key at power-on, show stale addresses and all kinds of
  connections; a budget of 2 (5 in the code) is exhausted, succeeded within and switched off, 0 is exhausted
  at once; a mailbox of 1 instead of 8 is full whenever a message waits, so that both a message that is
  dropped and one that has become old occur.
- *Monitor*: three fields (the first, the last, and the disk that may be missing), three commands.
- *GIF wall*: three screens, two frames, five clicks: the count wraps around and goes on.
- *Web clients*: lengths below, at and well above the buffer, none and zero; up to two results; two
  commands, so that a second one meets what the first left.

### Fairness

Weak fairness of a thread's steps says that the scheduler runs a thread that is ready, which the priorities of these
demos allow since every thread blocks in its loop; of `XferCplt`, that a started transfer raises its interrupt; of
`TimerExpires`, that a started timer expires. `RangeTest` also assumes (also of the link manager in `RangeSend`), in
the words of its README, a peer in reach: a scanner that scans again and again hears it, and a request repeated for
ever succeeds some time (strong fairness of those two steps of the environment). The send thread has the lowest
priority, but the threads above it wait most of the time, so it gets its turns. `LowBatteryBlinks` assumes besides
that a battery command which could be posted again and again is posted some time (strong fairness: memory is not
exhausted at exactly every reading that repeats the one before). A web client's calls return, if only with an error,
since each has a timeout in the SDK. No fairness is assumed of keys, phones, commands or the PC.

## 4. What is proved

The proofs hold for every value of the constants that satisfies the module's `ASSUME`.

- **Range tester** (`RangeTestProofs`). `RangeInv` is inductive. The properties alone are not: that
  the table matches the links needs that no link exists before power-on (`Quiet`) and that only an accepted link
  waits for an answer (`SetupInv`); "one link or request" is kept as a case distinction on
  `g_tx_connecting` (`TxPhase`); "never stuck" is `ScanInv`, that an idle TX scans or has a stop
  indication under way. The argument for the table is by cardinality of the slots in use: lemmas
  `AcceptKeepsTable` and `LossKeepsTable` show that a slot is taken or freed together with the
  counter, `FreeSlotExists` that a table which is not full has a free slot, which is why the
  `RT_ASSERT` cannot fail (`AssertNeverFails`). For the send thread `SendInv` adds what the thread has read so far
  (`ThreadInv`: until the link is lost it would read the same again) and that a link past its search has its
  handles in its slot (`HandlesInv`). The bound on a chain of retries is proved from the program's own counter,
  which may be ahead of the chain but never behind it (`RetriesInv`).
  `TxCorrect` is the refinement of `TxLink` for any number of slots, peers and retries: the phase of a TX is read off
  the links, requests and setups, and `ManagerAlone` carries what is proved of the manager to the composition.
- **Walkie-talkie** (`TalkAppProofs`). `TalkInv` adds to the properties what the interleavings need:
  `WakeArmed` (a handler that found the device outside standby cannot have left the countdown
  unarmed when standby comes back) and `HeldAgrees` (a press is handled while the key is down, a release while it is
  up). It holds whatever the order of the threads' steps. From it follows the refinement `SpeechCorrect`: the push is
  granted in the step that tests for a room and dealt with in the one that starts the sender, the release in the one that stops
  it, and the callbacks of the library between them can only close the room, or stop the speech early. `SleepInv` is the part that
  does depend on the order: how far the idle work has come says what is switched off,
  and from it follow `PowerAgrees`, `SleepsInStandby`, `RoleAgrees` and `LitOutOfStandby`. `HistoryOnly` shows that the history variable
  `disturbed` takes no behaviour away.
- **LED thread** (`TalkLedProofs`). `LedIInv` adds to leak, rhythm and wake-up that the thread waits for the LED
  that is due first (`WaitInv`) and that the level shown is that of the phase (`PhaseInv`).
  `BlinkersCorrect` proves the refinement: each step of the thread is, for each LED, a step of its
  `LedBlinker` or a stutter. `PunctualPhases` and `PhasesBounded` are the timing: a timeout always ends a phase, at the tick
  its half period is over (not counting what a message made the thread forget), and no phase outlasts that.
- **Panel driver** (`Gc9107Proofs`). `SplitIsExact` (a pixel is in the region if and only if its panel is served and the
  pixel lies in the window set) and `PanelsDisjoint` are statements about the arithmetic of
  `LCDC_SetROIArea` for every panel size and layout. `PartFits` shows that the second test of that function
  never fails. `DriverInvariant` carries type correctness, one listener, the callback and
  the agreement of the panels through every operation and every interrupt. `PictureInvariant` says what the big screen
  shows in the middle of a drawing: the panels before the current one their new part, the others what they showed
  before. From it and `SplitIsExact` follows the refinement `OneBigScreen`: for every layout, `Gc9107` implements
  `BigScreen`.
- **Refresh task** (`LcdRefreshProofs`). `DriverUsed` shows that the composition is a behaviour of the driver, so that
  the driver's invariant and its refinement (`TaskDrawsOnBigScreen`) are available; with where the task is
  (`TaskInv`) it gives `RefreshInv` and `WholePicture`.
- **GIF wall** (`GifKeysProofs`). The click read and not yet handled counts against the clicks made (`ClickInv`); the number of
  clicks that have not moved the wall is the debt of `GifWall`, and `IsOneWall` its refinement.
- **Monitor** (`MonitorProofs`). While the timer callback shows the values their flag is still set, and what it has shown is
  what is stored, or a command is on its way to set the flag again (`ClockInv`, `LabelsInv`). `CallbacksComplete`: a callback
  that ends leaves both flags cleared and, unless it has cut into a command, every stored value on the screens.
- **PAN demo** (`PanIperfProofs`). The profiles follow the stages of the link, and the address is that of the phone once the link is
  encrypted (`StageInv`), from which `PeerAsked` follows for any message; with the retries switched off none is counted
  (`OffInv`). That a link which has gone leaves one request at most (`LateRequests`) needs that the main thread gets past its test
  only with the flag set, and makes a late request only if the flag was cleared since (`LateInv`).
- **Web clients** (`PanIperfProofs`). Each call is reached with exactly the pointers the calls before it have set
  (`PointersInv`); of the objects that are not among the lost ones exactly those pointed to are allocated, and a command
  has lost at most one document (`HeapInv`); the loop has read no more than was announced (`ReadingInv`). So a command that
  is over has freed what it pointed to, each object once, whichever call failed (`WeatherCorrect`). The theorem says what
  the code loses as well, since it does not hold without that.

Liveness itself is out of the prover's reach, but the larger part of each argument for it is a safety property: every
step that fairness can bring leaves less to do. These descents are proved: `DrawingsEnd` (at most N transfers),
`WaitsEnd` (the task never waits for nothing, and each step is the end or leaves fewer panels), `ReconnectsEnd` (two
steps for each attempt in the budget, `CountWithinBudget`), `ClicksTakeEffect` (a click the keypad can see is never
dropped and counts in five steps of the poll at most), `CallbacksEnd`, `CommandsEnd`. What remains to TLC is that the
next step comes.

Some theorems state nothing a run checks: most of the inductive invariants, the descents, `AssertNeverFails`,
`SingleLink`, `NeverStuck`, `SendingCorrect`, `TableCorrect`, `LedCorrect`, `CountdownRuns`, `SenderCovered`,
`TalkOnlyWhilePushed`, `ClicksCorrect`, `PanelsAgree`, `PunctualPhases`, `PhasesBounded`, `TimeShownFirst`,
`CallbacksComplete`, the specifications implied (`ManagerAlone`, `HistoryOnly`, `DriverUsed`), the types of the
driver, and the lemmas on regions. For these the theorem stands alone: a run would only repeat it for one instance.

Only model-checked: the liveness properties `Reconnects`, `PacketsFlow`, `SleepsWhenLeftAlone`, `LowBatteryBlinks`,
`WaitEnds`, `ShellReturns`, `LatestShown`, `ClickTakesEffect` and `CommandEnds`, since the prover knows neither fairness
nor ENABLED. Every invariant and every action property or refinement that a passing run checks is proved.

## 5. What is assumed of code outside this repository

The BLE and Bluetooth stacks, RT-Thread, LVGL, the display framework, the LCD controller and `ble_talk_network` belong
to the SDK. They are modelled from how the code here uses them and their definitions are marked external in
`PROJECT.json`: requests are answered later or not at all, and not after the link they are about is gone; a mailbox
refuses what it has no room for; cancelling a work item does not stop one that is running; the framework calls one
driver operation at a time and not during a transfer, and writes pixels to the region it has just set; one phone at a
time is connected; any call of webclient or cJSON may fail, and a read returns at most what it was asked for; profiles
go down before their link does; the library changes phases only as `MayChange` says.

## 6. What is not modelled

The range tester's GATT server, LED patterns and power table; the walkie-talkie's hibernation and power-on
check, its RGB driver, and the pins its battery thread drives while the device sleeps; the fill functions
and the touch task of `multi-screen`; widget construction; start-up code; the file system of the PAN demo; board
files, simulator, build files, the PC script. What these have in common is that they keep no state that another
thread or callback reads: they are sequences of register, device or widget calls whose effect is outside this
repository, or computations of colours. The reasons are with each component in `PROJECT.json`.

Not composed: `TalkLed` and `TalkApp`. The application's LED commands are any commands of `TalkLed`'s other
senders, so what is checked of the LED thread holds below the application; that a particular
command reaches the LED does not, as the mailbox may refuse it, and so no property relates the colour shown to
the application's state. `TalkApp` relates to it whether the last command lights the LED.

## 7. Course of the work

1. Range tester: module, runs, inductive invariant and proofs; then the send thread, with its proofs. *Done.* 2.
Walkie-talkie: application, disturbed idle work, LED thread, its abstraction and its refinement, battery thread.
*Done, with proofs.* 3. Panel driver, its abstraction, the refresh task on top. *Done, with proofs, the refinement
included.* 4. PAN demo, monitor, GIF wall, web clients. *Done, with proofs of the safety properties.* 5. The
abstractions `TxLink`, `Speech` and `GifWall` with their refinements, and the descents behind liveness. *Done.*

What could follow: the contents of the web client's buffer, so that the overwritten pieces show as a
violated promise; a model of the pins shared by battery thread and display, once the boards' pin use is in the
repository; the descents of the range tester (an idle TX comes closer to asking with each answer of the stack) and of the
LED of a low battery.
