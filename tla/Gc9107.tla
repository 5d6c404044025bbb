------------------------------- MODULE Gc9107 -------------------------------
(***************************************************************************)
(* The driver that makes one screen of several GC9107 panels               *)
(* (gc9107_Multi_screen.c).  All panels share the bus and the data/command *)
(* line; each has a chip-select pin of its own.  A drawing is split among  *)
(* the panels: the first transfer is started by LCD_WriteMultiplePixels,   *)
(* every further one by the completion interrupt of the one before.        *)
(*                                                                         *)
(* The display framework of the SDK calls one operation at a time and      *)
(* never during a transfer.  Each operation is one action: the controller  *)
(* is idle until its last statement has started the transfer.              *)
(***************************************************************************)
EXTENDS Integers, FiniteSets

CONSTANTS
    Width, Height,  \* THE_LCD_PIXEL_WIDTH, THE_LCD_PIXEL_HEIGHT
    N,              \* LCD_SCREEN_NUM
    screen_map,     \* the column and row of each panel
    Regions,        \* the regions callers ask for
    MaxDraws        \* bound: how many drawings are made

Screens == 0 .. N - 1

ASSUME GcAssumption ==
    /\ Width \in Nat \ {0} /\ Height \in Nat \ {0} /\ N \in Nat \ {0}
    /\ screen_map \in [Screens -> [col : Nat, row : Nat]]
    /\ \A i, j \in Screens : screen_map[i] = screen_map[j] => i = j
    /\ Regions \subseteq [x0 : Nat, y0 : Nat, x1 : Nat, y1 : Nat]
    /\ \A r \in Regions : r.x0 <= r.x1 /\ r.y0 <= r.y1
    /\ MaxDraws \in Nat

VARIABLES
    phase,          \* what the framework has called: nothing, LCD_Init, LCD_ReadID
    Region,         \* Region_Xpos0 .. Region_Ypos1
    current,        \* the panel of current_lcd_cs_pin
    index,          \* current_screen_index
    callback,       \* hlcdc->XferCpltCallback
    Ori,            \* Ori_XferCpltCallback
    cs,             \* per panel: its select pin, 0 when selected
    window,         \* per panel: the area of CASET and RASET
    regs,           \* per panel: colour mode, display switch, brightness
    color_mode,     \* lcdc_int_cfg.color_mode
    roi,            \* the region the controller sends, of the big screen
    busy,           \* the controller sends
    frame,          \* the number of the last drawing
    panel,          \* per panel and pixel: the drawing, and which of its pixels
    done            \* calls of the framework's completion callback

config == <<phase, regs, color_mode>>
vars == <<config, Region, current, index, callback, Ori, cs, window, roi, busy, frame, panel,
          done>>

Modes == {"RGB565", "RGB888"}
Local == (0 .. Width - 1) \X (0 .. Height - 1)
Whole == [x0 |-> 0, y0 |-> 0, x1 |-> Width - 1, y1 |-> Height - 1]

-----------------------------------------------------------------------------
(* LCDC_SetROIArea: the part of the region that lies on panel i.           *)

X0(i) == screen_map[i].col * Width
Y0(i) == screen_map[i].row * Height
X1(i) == X0(i) + Width - 1
Y1(i) == Y0(i) + Height - 1

Larger(a, b)  == IF a > b THEN a ELSE b
Smaller(a, b) == IF a < b THEN a ELSE b

Meets(i, r) == ~(r.x0 > X1(i) \/ r.x1 < X0(i) \/ r.y0 > Y1(i) \/ r.y1 < Y0(i))

\* Broken variant: the left edge is not made local.
LocalRoiNotShifted(i, r) ==
    [x0 |-> Larger(r.x0, X0(i)),           y0 |-> Larger(r.y0, Y0(i)) - Y0(i),
     x1 |-> Smaller(r.x1, X1(i)) - X0(i),  y1 |-> Smaller(r.y1, Y1(i)) - Y0(i)]

LocalRoi(i, r) ==
    [x0 |-> Larger(r.x0, X0(i)) - X0(i),   y0 |-> Larger(r.y0, Y0(i)) - Y0(i),
     x1 |-> Smaller(r.x1, X1(i)) - X0(i),  y1 |-> Smaller(r.y1, Y1(i)) - Y0(i)]

\* The second test of LCDC_SetROIArea.
ValidLocal(l) ==
    /\ l.x0 < Width /\ l.y0 < Height /\ l.x1 < Width /\ l.y1 < Height
    /\ l.x0 <= l.x1 /\ l.y0 <= l.y1

SetsRoi(i, r) == Meets(i, r) /\ ValidLocal(LocalRoi(i, r))

Place(i, p) == <<X0(i) + p[1], Y0(i) + p[2]>>

Global(i, l) ==
    [x0 |-> X0(i) + l.x0, y0 |-> Y0(i) + l.y0, x1 |-> X0(i) + l.x1, y1 |-> Y0(i) + l.y1]

-----------------------------------------------------------------------------
Init ==
    /\ phase = "off"
    /\ Region = [x0 |-> 0, y0 |-> 0, x1 |-> 0, y1 |-> 0]
    /\ current = N - 1
    /\ index = 0
    /\ callback = "framework" /\ Ori = "framework"
    /\ cs = [i \in Screens |-> 1]
    /\ window = [i \in Screens |-> Whole]
    /\ regs = [i \in Screens |-> [mode |-> "RGB565", on |-> FALSE, bright |-> 0]]
    /\ color_mode = "RGB565"
    /\ roi = Whole
    /\ busy = FALSE
    /\ frame = 0
    /\ panel = [i \in Screens |-> [p \in Local |-> <<0, Place(i, p)>>]]
    /\ done = 0

Idle == phase = "ready" /\ ~busy

\* LCD_WriteReg_More: a register of all panels; LCD_WriteReg: of the current one.
Everywhere(f, v) == regs' = [i \in Screens |-> [regs[i] EXCEPT ![f] = v]]
OnCurrent(f, v)  == regs' = [regs EXCEPT ![current][f] = v]

\* LCD_Init resets the panels, LCD_Drv_Init sets them up, all at once.
LCD_Init ==
    /\ phase = "off"
    /\ phase' = "init"
    /\ regs' = [i \in Screens |-> [mode |-> "RGB565", on |-> FALSE, bright |-> 0]]
    /\ cs' = [i \in Screens |-> 1]
    /\ window' = [i \in Screens |-> Whole]
    /\ UNCHANGED <<Region, current, index, callback, Ori, color_mode, roi, busy, frame, panel,
                   done>>

\* LCD_ReadID asks the panels one after the other; the last one stays current.
LCD_ReadID ==
    /\ phase = "init"
    /\ phase' = "ready"
    /\ current' = N - 1
    /\ cs' = [i \in Screens |-> 1]
    /\ UNCHANGED <<Region, index, callback, Ori, window, regs, color_mode, roi, busy, frame,
                   panel, done>>

LCD_DisplayOnOff(on) ==
    /\ Idle
    /\ Everywhere("on", on)
    /\ UNCHANGED <<phase, Region, current, index, callback, Ori, cs, window, color_mode, roi,
                   busy, frame, panel, done>>

LCD_SetColorMode(m) ==
    /\ Idle
    /\ color_mode' = m
    /\ Everywhere("mode", m)
    /\ UNCHANGED <<phase, Region, current, index, callback, Ori, cs, window, roi, busy, frame,
                   panel, done>>

\* The value computed is dropped, the percentage itself is written.
LCD_SetBrightness(br) ==
    /\ Idle
    /\ Everywhere("bright", br)
    /\ UNCHANGED <<phase, Region, current, index, callback, Ori, cs, window, color_mode, roi,
                   busy, frame, panel, done>>

LCD_SetRegion(r) ==
    /\ Idle
    /\ Region' = r
    /\ UNCHANGED <<config, current, index, callback, Ori, cs, window, roi, busy, frame, panel,
                   done>>

\* LCD_ReadPixel sets the current panel to 16 bits, reads, and sets it back to
\* the mode of lcdc_int_cfg.
LCD_ReadPixel(x, y) ==
    /\ Idle
    /\ Region' = [x0 |-> x, y0 |-> y, x1 |-> x, y1 |-> y]
    /\ OnCurrent("mode", color_mode)
    /\ UNCHANGED <<phase, color_mode, current, index, callback, Ori, cs, window, roi, busy, frame,
                   panel, done>>

\* LCD_WritePixel keeps the region to itself: the pixel goes where the window of
\* the current panel begins, not to the place asked for.
LCD_WritePixel(x, y) ==
    /\ Idle
    /\ Region' = [x0 |-> x, y0 |-> y, x1 |-> x, y1 |-> y]
    /\ panel' = [panel EXCEPT ![current][<<window[current].x0, window[current].y0>>] =
                    <<frame, <<x, y>>>>]
    /\ UNCHANGED <<config, current, index, callback, Ori, cs, window, roi, busy, frame, done>>

-----------------------------------------------------------------------------
(* A drawing.                                                              *)

\* The first panel from k on that LCDC_SetROIArea accepts.
IsNext(k, i) ==
    /\ i >= k /\ SetsRoi(i, Region)
    /\ \A j \in Screens : k <= j /\ j < i => ~SetsRoi(j, Region)

NoneFrom(k) == \A i \in Screens : i >= k => ~SetsRoi(i, Region)

\* Select panel i, set its window, and send its part of the layer.
SendTo(i) ==
    /\ current' = i
    /\ index' = i
    /\ window' = [window EXCEPT ![i] = LocalRoi(i, Region)]
    /\ roi' = Global(i, LocalRoi(i, Region))
    /\ callback' = "LCD_SendLayerDataCpltCbk"
    /\ busy' = TRUE

\* The rectangle of the pixels is an argument of its own (547-549); the framework
\* draws into the region that it has set just before, so it is taken to be Region.
LCD_WriteMultiplePixels ==
    /\ Idle /\ frame < MaxDraws
    /\ frame' = frame + 1
    /\ Ori' = callback
    /\ \/ \E i \in Screens :
            /\ IsNext(0, i)
            /\ SendTo(i)
            /\ cs' = [cs EXCEPT ![i] = 0]
            /\ UNCHANGED done
       \/ /\ NoneFrom(0)
          /\ current' = N - 1
          /\ index' = N
          /\ done' = done + 1
          /\ UNCHANGED <<window, roi, callback, busy, cs>>
    /\ UNCHANGED <<config, Region, panel>>

\* The transfer ends: every selected panel has taken the pixels into its window,
\* from its first corner on.
Received(i) ==
    [p \in Local |->
        LET w == window[i]
            g == <<roi.x0 + (p[1] - w.x0), roi.y0 + (p[2] - w.y0)>> IN
        IF cs[i] = 0 /\ p[1] \in w.x0 .. w.x1 /\ p[2] \in w.y0 .. w.y1
        THEN <<frame, g>> ELSE panel[i][p]]

\* Broken variant: the panel that is done stays selected.
CpltCbkStillSelected ==
    \/ \E i \in Screens :
         /\ IsNext(index + 1, i)
         /\ SendTo(i)
         /\ cs' = [cs EXCEPT ![i] = 0]
         /\ UNCHANGED done
    \/ /\ NoneFrom(index + 1)
       /\ current' = N - 1
       /\ index' = 0
       /\ callback' = Ori
       /\ busy' = FALSE
       /\ done' = done + 1
       /\ UNCHANGED <<window, roi, cs>>

\* Broken variant: the framework's callback is called but not put back.
CpltCbkNotRestored ==
    \/ \E i \in Screens :
         /\ IsNext(index + 1, i)
         /\ SendTo(i)
         /\ cs' = [cs EXCEPT ![current] = 1, ![i] = 0]
         /\ UNCHANGED done
    \/ /\ NoneFrom(index + 1)
       /\ current' = N - 1
       /\ index' = 0
       /\ busy' = FALSE
       /\ done' = done + 1
       /\ cs' = [cs EXCEPT ![current] = 1]
       /\ UNCHANGED <<window, roi, callback>>

\* Broken variant: the interrupt starts with the panel it has just served.
CpltCbkSamePanel ==
    \/ \E i \in Screens :
         /\ IsNext(index, i)
         /\ SendTo(i)
         /\ cs' = [cs EXCEPT ![current] = 1, ![i] = 0]
         /\ UNCHANGED done
    \/ /\ NoneFrom(index)
       /\ current' = N - 1
       /\ index' = 0
       /\ callback' = Ori
       /\ busy' = FALSE
       /\ done' = done + 1
       /\ cs' = [cs EXCEPT ![current] = 1]
       /\ UNCHANGED <<window, roi>>

LCD_SendLayerDataCpltCbk ==
    \/ \E i \in Screens :
         /\ IsNext(index + 1, i)
         /\ SendTo(i)
         /\ cs' = [cs EXCEPT ![current] = 1, ![i] = 0]
         /\ UNCHANGED done
    \/ /\ NoneFrom(index + 1)
       /\ current' = N - 1
       /\ index' = 0
       /\ callback' = Ori
       /\ busy' = FALSE
       /\ done' = done + 1
       /\ cs' = [cs EXCEPT ![current] = 1]
       /\ UNCHANGED <<window, roi>>

XferCplt ==
    /\ busy
    /\ panel' = [i \in Screens |-> Received(i)]
    /\ LCD_SendLayerDataCpltCbk
    /\ UNCHANGED <<config, Region, Ori, frame>>

Next ==
    \/ LCD_Init \/ LCD_ReadID
    \/ \E on \in BOOLEAN : LCD_DisplayOnOff(on)
    \/ \E m \in Modes : LCD_SetColorMode(m)
    \/ \E br \in {0, 100} : LCD_SetBrightness(br)
    \/ \E r \in Regions : LCD_SetRegion(r)
    \/ \E r \in Regions : LCD_ReadPixel(r.x0, r.y0) \/ LCD_WritePixel(r.x0, r.y0)
    \/ LCD_WriteMultiplePixels
    \/ XferCplt

Spec == Init /\ [][Next]_vars

Coordinates == [x0 : Nat, y0 : Nat, x1 : Nat, y1 : Nat]
Registers == [mode : Modes, on : BOOLEAN, bright : Nat]

TypeOK ==
    /\ phase \in {"off", "init", "ready"}
    /\ Region \in Coordinates
    /\ current \in Screens
    /\ index \in 0 .. N
    /\ callback \in {"framework", "LCD_SendLayerDataCpltCbk"}
    /\ Ori \in {"framework", "LCD_SendLayerDataCpltCbk"}
    /\ cs \in [Screens -> {0, 1}]
    /\ window \in [Screens -> Coordinates]
    /\ regs \in [Screens -> Registers]
    /\ color_mode \in Modes
    /\ roi \in Coordinates
    /\ busy \in BOOLEAN
    /\ frame \in Nat /\ done \in Nat
    /\ panel \in [Screens -> [Local -> Nat \X (Nat \X Nat)]]

\* While the controller sends, exactly the panel the driver holds current
\* listens, and no panel does otherwise: every byte on the shared bus reaches
\* the panel it is meant for.
OneScreenListens ==
    {i \in Screens : cs[i] = 0} = IF busy THEN {current} ELSE {}

\* The framework's completion callback is in place whenever no transfer runs,
\* is never lost behind the driver's own one, and was called exactly once for
\* every drawing that is over, also for one that lies on no panel.
CallsBackOnce ==
    /\ Ori = "framework"
    /\ callback = IF busy THEN "LCD_SendLayerDataCpltCbk" ELSE "framework"
    /\ done = IF busy THEN frame - 1 ELSE frame

\* The panels of a screen that is set up agree in colour mode, display switch and
\* brightness, and in the colour mode with the controller.
AllScreensAlike ==
    phase # "off" =>
        /\ \A i, j \in Screens : regs[i] = regs[j]
        /\ \A i \in Screens : regs[i].mode = color_mode

(***************************************************************************)
(* The panels together are one big screen.  A pixel of it that shows what  *)
(* belongs elsewhere shows no frame at all.                                *)
(***************************************************************************)
Pixels == {Place(i, p) : i \in Screens, p \in Local}

Home == [g \in Pixels |->
            CHOOSE c \in Screens \X Local : Place(c[1], c[2]) = g]

Shown(g) ==
    LET c == panel[Home[g][1]][Home[g][2]] IN
    IF c[2] = g THEN c[1] ELSE -1

InRegion(g) == g[1] \in Region.x0 .. Region.x1 /\ g[2] \in Region.y0 .. Region.y1

Big == INSTANCE BigScreen WITH
    picture <- [g \in Pixels |-> Shown(g)],
    drawing <- IF busy THEN {g \in Pixels : InRegion(g)} ELSE {}

\* The driver of the panels implements one big screen: every drawing fills
\* exactly the region's pixels, each at its place, however it is split, and a
\* single pixel written disturbs no other.
IsBigScreen == Big!Spec
=============================================================================
