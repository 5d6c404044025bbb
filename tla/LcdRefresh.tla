----------------------------- MODULE LcdRefresh -----------------------------
(***************************************************************************)
(* The refresh task of the demo multi-screen (main.c) on top of the panel  *)
(* driver: it fills the framebuffer, draws it on the whole big screen,     *)
(* waits for the semaphore that the completion callback releases, sets the *)
(* brightness, and sleeps.  The display framework between the two is       *)
(* external: it hands the calls down and the completion up.                *)
(***************************************************************************)
EXTENDS Gc9107

\* The task's window is the whole big screen.
ASSUME RefreshAssumption ==
    \A r \in Regions : r.x0 = 0 /\ r.y0 = 0 /\ \A i \in Screens : X1(i) <= r.x1 /\ Y1(i) <= r.y1

VARIABLES
    task,           \* where lcd_refresh_task is
    lcd_sema        \* the value of the semaphore

taskVars == <<task, lcd_sema>>
allVars == <<vars, taskVars>>

InitRefresh == Init /\ task = "open" /\ lcd_sema = 0

\* The device is opened: the framework sets the driver up.
OpenLcd ==
    /\ task = "open"
    /\ LCD_Init \/ LCD_ReadID
    /\ UNCHANGED taskVars

StartLoop ==
    /\ task = "open" /\ phase = "ready"
    /\ task' = "fill"
    /\ UNCHANGED <<vars, lcd_sema>>

\* The framebuffer is filled, always with the first of the test pictures: the
\* statement that would go on to the next one is commented out.
Fill ==
    /\ task = "fill" /\ frame < MaxDraws
    /\ task' = "window"
    /\ UNCHANGED <<vars, lcd_sema>>

set_window ==
    /\ task = "window"
    /\ \E r \in Regions : LCD_SetRegion(r)
    /\ task' = "draw"
    /\ UNCHANGED lcd_sema

\* lcd_flush_done, called for a drawing that is over.
lcd_flush_done == lcd_sema' = lcd_sema + (done' - done)

draw_rect_async ==
    /\ task = "draw"
    /\ LCD_WriteMultiplePixels
    /\ lcd_flush_done
    /\ task' = "wait"

\* The controller's interrupt.
Interrupt ==
    /\ XferCplt
    /\ lcd_flush_done
    /\ UNCHANGED task

\* Broken variant: the task goes on at once.
FlushNotAwaited ==
    /\ task = "wait"
    /\ task' = "bright"
    /\ UNCHANGED <<vars, lcd_sema>>

FlushAwaited ==
    /\ task = "wait" /\ lcd_sema > 0
    /\ lcd_sema' = lcd_sema - 1
    /\ task' = "bright"
    /\ UNCHANGED vars

SetBrightness ==
    /\ task = "bright"
    /\ LCD_SetBrightness(100)
    /\ task' = "delay"
    /\ UNCHANGED lcd_sema

Delay ==
    /\ task = "delay"
    /\ task' = "fill"
    /\ UNCHANGED <<vars, lcd_sema>>

\* Bound: after MaxDraws drawings the instance ends.
AtBound == task = "fill" /\ frame = MaxDraws /\ UNCHANGED allVars

lcd_refresh_task ==
    OpenLcd \/ StartLoop \/ Fill \/ set_window \/ draw_rect_async \/ FlushAwaited \/ SetBrightness
        \/ Delay

NextRefresh == lcd_refresh_task \/ Interrupt \/ AtBound

SpecRefresh == InitRefresh /\ [][NextRefresh]_allVars

\* The task's thread runs, and a started transfer ends.
LiveRefresh == SpecRefresh /\ WF_allVars(lcd_refresh_task) /\ WF_allVars(Interrupt)

-----------------------------------------------------------------------------
TypeRefresh ==
    /\ TypeOK
    /\ task \in {"open", "fill", "window", "draw", "wait", "bright", "delay"}
    /\ lcd_sema \in {0, 1}

\* What the driver takes for granted: while a transfer runs, the task neither calls it
\* nor touches the framebuffer, and a completion that is announced has no transfer
\* after it.
DriverUndisturbed ==
    /\ busy => task = "wait"
    /\ lcd_sema > 0 => task = "wait" /\ ~busy

\* Types, and the task's part and the driver's in step.
RefreshInv == TypeRefresh /\ DriverUndisturbed

\* When the task goes on after its wait, every pixel of every panel shows the frame
\* just drawn.
WholePicture ==
    task \in {"bright", "delay"} => \A g \in Pixels : Shown(g) = frame

\* No wait lasts for ever: each drawing releases the semaphore.
WaitEnds == task = "wait" ~> task = "delay"
=============================================================================
