-------------------------- MODULE LcdRefreshProofs --------------------------
(***************************************************************************)
(* The refresh task uses the driver as the driver wants to be used, for    *)
(* every layout of panels, so that what is proved of the driver holds      *)
(* under the task; and each time it goes on, its whole frame is shown.     *)
(***************************************************************************)
EXTENDS LcdRefresh, Gc9107Proofs

Flushed == (task = "wait" /\ ~busy) \/ task \in {"bright", "delay"}

\* The semaphore holds the one completion that the task still waits for.
TaskInv ==
    /\ task \in {"open", "fill", "window", "draw", "wait", "bright", "delay"}
    /\ busy => task = "wait"
    /\ lcd_sema = IF task = "wait" /\ ~busy THEN 1 ELSE 0
    /\ task \in {"draw", "wait"} => Region \in Regions
    /\ Flushed => \A g \in Pixels : Shown(g) = frame

-----------------------------------------------------------------------------
\* Every step of the task and of the interrupt is a step of the driver or none.
LEMMA DriverStep == [NextRefresh]_allVars => [Next]_vars
<1> SUFFICES ASSUME [NextRefresh]_allVars PROVE [Next]_vars
  OBVIOUS
<1>1. CASE set_window
  BY <1>1 DEF set_window, Next
<1>2. CASE SetBrightness
  BY <1>2 DEF SetBrightness, Next
<1>3. CASE OpenLcd \/ draw_rect_async \/ Interrupt
  BY <1>3 DEF OpenLcd, draw_rect_async, Interrupt, Next
<1>4. CASE StartLoop \/ Fill \/ FlushAwaited \/ Delay \/ AtBound \/ UNCHANGED allVars
  BY <1>4 DEF StartLoop, Fill, FlushAwaited, Delay, AtBound, allVars
<1> QED
  BY <1>1, <1>2, <1>3, <1>4 DEF NextRefresh, lcd_refresh_task

\* The task never calls the driver in a way the driver's own specification excludes.
THEOREM DriverUsed == SpecRefresh => Spec
<1>1. InitRefresh => Init
  BY DEF InitRefresh
<1> QED
  BY <1>1, DriverStep, PTL DEF SpecRefresh, Spec

-----------------------------------------------------------------------------
\* The task's window holds every pixel of every panel.
LEMMA WholeWindow ==
    ASSUME Region \in Regions, NEW g \in Pixels
    PROVE  InRegion(g)
<1>1. PICK i \in Screens, p \in Local : g = Place(i, p)
  BY DEF Pixels
<1>2. /\ X0(i) \in Nat /\ Y0(i) \in Nat
      /\ X1(i) = X0(i) + Width - 1 /\ Y1(i) = Y0(i) + Height - 1
  BY PanelArea
<1>3. /\ Region.x0 = 0 /\ Region.y0 = 0 /\ X1(i) <= Region.x1 /\ Y1(i) <= Region.y1
      /\ Region.x1 \in Nat /\ Region.y1 \in Nat
  BY RefreshAssumption, GcAssumption
<1>4. p[1] \in 0 .. Width - 1 /\ p[2] \in 0 .. Height - 1 /\ Width \in Nat /\ Height \in Nat
  BY GcAssumption DEF Local
<1>5. X0(i) + p[1] \in Region.x0 .. Region.x1 /\ Y0(i) + p[2] \in Region.y0 .. Region.y1
  BY <1>2, <1>3, <1>4
<1> QED
  BY <1>1, <1>5 DEF InRegion, Place

\* So the first panel is always served, and a drawing is never over at once.
LEMMA NeverOutside ==
    ASSUME RegionOK, Region \in Regions
    PROVE  ~NoneFrom(0)
<1>1. 0 \in Screens /\ <<0, 0>> \in Local
  BY GcAssumption DEF Screens, Local
<1>2. Place(0, <<0, 0>>) \in Pixels
  BY <1>1 DEF Pixels
<1>3. SetsRoi(0, Region)
  BY <1>1, <1>2, WholeWindow, NotServed
<1> QED
  BY <1>1, <1>3 DEF NoneFrom

LEMMA ShownStays ==
    ASSUME UNCHANGED <<panel, frame>>, \A g \in Pixels : Shown(g) = frame
    PROVE  \A g \in Pixels : Shown(g)' = frame'
  BY DEF Shown

LEMMA TaskInit == InitRefresh => TaskInv
  BY DEF InitRefresh, Init, TaskInv, Flushed

LEMMA DrawTask == GcInv /\ TaskInv /\ draw_rect_async => TaskInv'
<1> SUFFICES ASSUME GcInv, TaskInv, draw_rect_async PROVE TaskInv'
  OBVIOUS
<1>1. /\ task = "draw" /\ task' = "wait" /\ LCD_WriteMultiplePixels
      /\ lcd_sema' = lcd_sema + (done' - done) /\ lcd_sema = 0 /\ Region \in Regions
  BY DEF draw_rect_async, lcd_flush_done, TaskInv
<1>2. busy' /\ done' = done
  BY <1>1, NeverOutside DEF LCD_WriteMultiplePixels, SendTo, GcInv
<1>3. Region' = Region /\ done \in Nat
  BY <1>1 DEF LCD_WriteMultiplePixels, GcInv, TypeOK
<1>4. lcd_sema' = 0
  BY <1>1, <1>2, <1>3
<1> QED
  BY <1>1, <1>2, <1>3, <1>4 DEF TaskInv, Flushed

LEMMA InterruptTask == GcInv /\ PictureInv /\ TaskInv /\ Interrupt => TaskInv'
<1> SUFFICES ASSUME GcInv, PictureInv, TaskInv, Interrupt PROVE TaskInv'
  OBVIOUS
<1>1. /\ XferCplt /\ task' = task /\ busy /\ lcd_sema' = lcd_sema + (done' - done)
      /\ Region' = Region /\ frame' = frame /\ done \in Nat
  BY DEF Interrupt, lcd_flush_done, XferCplt, GcInv, TypeOK
<1>2. task = "wait" /\ lcd_sema = 0 /\ Region \in Regions
  BY <1>1 DEF TaskInv
<1>3. CASE busy'
  <2>1. done' = done
    BY <1>1, <1>3 DEF XferCplt, LCD_SendLayerDataCpltCbk
  <2>2. lcd_sema' = 0
    BY <1>1, <1>2, <2>1
  <2> QED
    BY <1>1, <1>2, <1>3, <2>2 DEF TaskInv, Flushed
<1>4. CASE ~busy'
  <2>1. done' = done + 1
    BY <1>1, <1>4 DEF XferCplt, LCD_SendLayerDataCpltCbk, SendTo
  <2>2. lcd_sema' = 1
    BY <1>1, <1>2, <2>1
  <2>3. Big!Paint
    BY <1>1, CpltPaints
  <2>4. drawing = Pixels /\ drawing # {} /\ drawing' = {}
    BY <1>1, <1>2, <1>4, <2>3, WholeWindow DEF drawing, Big!Paint
  <2>5. \A g \in Pixels : picture'[g] = frame
    BY <2>3, <2>4 DEF Big!Paint, drawing, picture
  <2>6. picture' = [g \in Pixels |-> Shown(g)']
    BY DEF picture, Pixels, Place, X0, Y0, Screens, Local
  <2>7. \A g \in Pixels : Shown(g)' = frame'
    BY <1>1, <2>5, <2>6
  <2> QED
    BY <1>1, <1>2, <1>4, <2>2, <2>7
       DEF TaskInv, Flushed, Pixels, Place, X0, Y0, Screens, Local
<1> QED
  BY <1>3, <1>4

LEMMA TaskStep == GcInv /\ PictureInv /\ TaskInv /\ [NextRefresh]_allVars => TaskInv'
<1> SUFFICES ASSUME GcInv, PictureInv, TaskInv, [NextRefresh]_allVars PROVE TaskInv'
  OBVIOUS
<1>1. CASE OpenLcd
  <2>1. ~busy /\ ~busy' /\ task = "open" /\ UNCHANGED taskVars
    BY <1>1 DEF OpenLcd, LCD_Init, LCD_ReadID, GcInv, QuietUntilReady
  <2> QED
    BY <2>1 DEF TaskInv, Flushed, taskVars
<1>2. CASE set_window
  <2>1. PICK r \in Regions : LCD_SetRegion(r)
    BY <1>2 DEF set_window
  <2>2. task' = "draw" /\ task = "window" /\ lcd_sema' = lcd_sema /\ Region' = r /\ ~busy /\ ~busy'
    BY <1>2, <2>1 DEF set_window, LCD_SetRegion, Idle
  <2> QED
    BY <2>2 DEF TaskInv, Flushed
<1>3. CASE SetBrightness
  <2>1. /\ task = "bright" /\ task' = "delay" /\ lcd_sema' = lcd_sema /\ ~busy /\ ~busy'
        /\ UNCHANGED <<panel, frame>>
    BY <1>3 DEF SetBrightness, LCD_SetBrightness, Idle
  <2>2. \A g \in Pixels : Shown(g)' = frame'
    BY <2>1, ShownStays DEF TaskInv, Flushed
  <2> QED
    BY <2>1, <2>2 DEF TaskInv, Flushed, Pixels, Place, X0, Y0, Screens, Local
<1>4. CASE FlushAwaited
  <2>1. /\ task = "wait" /\ lcd_sema > 0 /\ task' = "bright" /\ lcd_sema' = lcd_sema - 1
        /\ UNCHANGED vars
    BY <1>4 DEF FlushAwaited
  <2>2. ~busy /\ lcd_sema = 1 /\ ~busy' /\ UNCHANGED <<panel, frame>>
    BY <2>1 DEF TaskInv, vars
  <2>3. \A g \in Pixels : Shown(g)' = frame'
    BY <2>1, <2>2, ShownStays DEF TaskInv, Flushed
  <2> QED
    BY <2>1, <2>2, <2>3 DEF TaskInv, Flushed, Pixels, Place, X0, Y0, Screens, Local
<1>5. CASE StartLoop \/ Fill \/ Delay
  <2>1. /\ task \in {"open", "fill", "delay"} /\ task' \in {"fill", "window"}
        /\ lcd_sema' = lcd_sema /\ busy' = busy
    BY <1>5 DEF StartLoop, Fill, Delay, vars
  <2> QED
    BY <2>1 DEF TaskInv, Flushed
<1>6. CASE AtBound \/ UNCHANGED allVars
  <2>1. UNCHANGED <<task, lcd_sema, busy, Region, panel, frame>>
    BY <1>6 DEF AtBound, allVars, vars, taskVars
  <2>2. Flushed => \A g \in Pixels : Shown(g)' = frame'
    BY <2>1, ShownStays DEF TaskInv
  <2> QED
    BY <2>1, <2>2 DEF TaskInv, Flushed, Pixels, Place, X0, Y0, Screens, Local
<1> QED
  BY <1>1, <1>2, <1>3, <1>4, <1>5, <1>6, DrawTask, InterruptTask DEF NextRefresh, lcd_refresh_task

-----------------------------------------------------------------------------
THEOREM TaskInvariant == SpecRefresh => [](GcInv /\ TaskInv)
  BY TaskInit, TaskStep, DriverUsed, DriverInvariant, PictureInvariant, PTL DEF SpecRefresh

\* The task leaves the driver alone while a transfer runs.
THEOREM RefreshCorrect == SpecRefresh => []RefreshInv
<1>1. GcInv /\ TaskInv => RefreshInv
  BY DEF GcInv, TaskInv, RefreshInv, TypeRefresh, DriverUndisturbed
<1> QED
  BY <1>1, TaskInvariant, PTL

\* When its wait ends, the whole of its frame is on the panels.
THEOREM PictureComplete == SpecRefresh => []WholePicture
<1>1. TaskInv => WholePicture
  BY DEF TaskInv, Flushed, WholePicture
<1> QED
  BY <1>1, TaskInvariant, PTL

\* Under the task, too, the panels are one big screen.
THEOREM TaskDrawsOnBigScreen == SpecRefresh => IsBigScreen
  BY DriverUsed, OneBigScreen

-----------------------------------------------------------------------------
(* The wait comes to its end: what WaitEnds needs beside a processor that  *)
(* runs the task and a controller that ends its transfers.                 *)

\* The task never waits for nothing: a transfer runs, or the semaphore is there.
NeverStuck == task = "wait" => busy \/ lcd_sema > 0

\* Each step during the wait is the end of the wait or leaves fewer panels to serve.
WaitDescends ==
    [][task = "wait" =>
        \/ task' = "bright"
        \/ task' = "wait" /\ PanelsLeft' \in Nat /\ PanelsLeft' < PanelsLeft]_allVars

\* The semaphore taken by lcd_refresh_task is released after at most N transfers.
THEOREM WaitsEnd == SpecRefresh => []NeverStuck /\ WaitDescends
<1>1. TaskInv => NeverStuck
  BY DEF TaskInv, NeverStuck
<1>2. ASSUME GcInv, PictureInv, TaskInv, NextRefresh, task = "wait"
      PROVE  \/ task' = "bright"
             \/ task' = "wait" /\ PanelsLeft' \in Nat /\ PanelsLeft' < PanelsLeft
  <2>1. CASE FlushAwaited
    BY <2>1 DEF FlushAwaited
  <2>2. CASE Interrupt
    BY <1>2, <2>2, CpltDescends DEF Interrupt
  <2> QED
    BY <1>2, <2>1, <2>2
       DEF NextRefresh, lcd_refresh_task, OpenLcd, StartLoop, Fill, set_window, draw_rect_async,
           SetBrightness, Delay, AtBound
<1>3. GcInv /\ PictureInv /\ TaskInv /\ [NextRefresh]_allVars
        => [task = "wait" =>
              \/ task' = "bright"
              \/ task' = "wait" /\ PanelsLeft' \in Nat /\ PanelsLeft' < PanelsLeft]_allVars
  BY <1>2
<1> QED
  BY <1>1, <1>3, TaskInvariant, DriverUsed, PictureInvariant, PTL DEF SpecRefresh, WaitDescends
=============================================================================
