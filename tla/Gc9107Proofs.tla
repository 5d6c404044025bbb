---------------------------- MODULE Gc9107Proofs ----------------------------
(***************************************************************************)
(* Proofs about the panel driver: the geometry of the split, and what      *)
(* every step keeps, for every layout of panels and every set of regions.  *)
(***************************************************************************)
EXTENDS Gc9107, TLAPS

Ordered(r) == r.x0 <= r.x1 /\ r.y0 <= r.y1

-----------------------------------------------------------------------------
(* The geometry.                                                           *)

\* Where a panel begins and ends on the big screen.
LEMMA PanelArea ==
    ASSUME NEW i \in Screens
    PROVE  /\ X0(i) \in Nat /\ Y0(i) \in Nat
           /\ X1(i) = X0(i) + Width - 1 /\ Y1(i) = Y0(i) + Height - 1
  <1>1. screen_map[i].col \in Nat /\ screen_map[i].row \in Nat
    BY GcAssumption
  <1>2. Width \in Nat /\ Height \in Nat
    BY GcAssumption
  <1> QED
    BY <1>1, <1>2 DEF X0, Y0, X1, Y1

\* The part of a region that a panel is given lies within the panel: the second
\* test of LCDC_SetROIArea never refuses what the first one let through.
LEMMA PartFits ==
    ASSUME NEW i \in Screens, NEW r \in Coordinates, Ordered(r), Meets(i, r)
    PROVE  LocalRoi(i, r) \in Coordinates /\ ValidLocal(LocalRoi(i, r))
  <1> DEFINE x == X0(i)
             y == Y0(i)
  <1>1. x \in Nat /\ y \in Nat /\ X1(i) = x + Width - 1 /\ Y1(i) = y + Height - 1
    BY PanelArea
  <1>2. Width \in Nat \ {0} /\ Height \in Nat \ {0}
    BY GcAssumption
  <1>3. r.x0 \in Nat /\ r.x1 \in Nat /\ r.y0 \in Nat /\ r.y1 \in Nat
    BY DEF Coordinates
  <1>4. /\ r.x0 <= x + Width - 1 /\ r.x1 >= x /\ r.y0 <= y + Height - 1 /\ r.y1 >= y
        /\ r.x0 <= r.x1 /\ r.y0 <= r.y1
    BY <1>1, <1>2, <1>3 DEF Meets, Ordered
  <1> HIDE DEF x, y
  <1>5. /\ Larger(r.x0, x) - x \in 0 .. Width - 1
        /\ Smaller(r.x1, x + Width - 1) - x \in 0 .. Width - 1
        /\ Larger(r.x0, x) - x <= Smaller(r.x1, x + Width - 1) - x
    BY <1>1, <1>2, <1>3, <1>4 DEF Larger, Smaller
  <1>6. /\ Larger(r.y0, y) - y \in 0 .. Height - 1
        /\ Smaller(r.y1, y + Height - 1) - y \in 0 .. Height - 1
        /\ Larger(r.y0, y) - y <= Smaller(r.y1, y + Height - 1) - y
    BY <1>1, <1>2, <1>3, <1>4 DEF Larger, Smaller
  <1>7. LocalRoi(i, r) =
            [x0 |-> Larger(r.x0, x) - x,               y0 |-> Larger(r.y0, y) - y,
             x1 |-> Smaller(r.x1, x + Width - 1) - x,  y1 |-> Smaller(r.y1, y + Height - 1) - y]
    BY <1>1 DEF LocalRoi, x, y
  <1> QED
    BY <1>2, <1>5, <1>6, <1>7 DEF ValidLocal, Coordinates

\* A panel is served exactly when it meets the region.
LEMMA ServedWhenMet ==
    ASSUME NEW i \in Screens, NEW r \in Coordinates, Ordered(r)
    PROVE  SetsRoi(i, r) <=> Meets(i, r)
  BY PartFits DEF SetsRoi

\* The split is exact: a pixel of a panel belongs to the region if and only if the
\* panel is served and the pixel lies in the window that is set.
THEOREM SplitIsExact ==
    ASSUME NEW i \in Screens, NEW r \in Coordinates, Ordered(r), NEW p \in Local
    PROVE  /\ Place(i, p)[1] \in r.x0 .. r.x1 /\ Place(i, p)[2] \in r.y0 .. r.y1
           <=> /\ SetsRoi(i, r)
               /\ p[1] \in LocalRoi(i, r).x0 .. LocalRoi(i, r).x1
               /\ p[2] \in LocalRoi(i, r).y0 .. LocalRoi(i, r).y1
  <1> DEFINE x == X0(i)
             y == Y0(i)
             l == LocalRoi(i, r)
  <1>1. x \in Nat /\ y \in Nat /\ X1(i) = x + Width - 1 /\ Y1(i) = y + Height - 1
    BY PanelArea
  <1>2. Width \in Nat \ {0} /\ Height \in Nat \ {0}
    BY GcAssumption
  <1>3. /\ r.x0 \in Nat /\ r.x1 \in Nat /\ r.y0 \in Nat /\ r.y1 \in Nat
        /\ r.x0 <= r.x1 /\ r.y0 <= r.y1
    BY DEF Coordinates, Ordered
  <1>4. p[1] \in 0 .. Width - 1 /\ p[2] \in 0 .. Height - 1
    BY DEF Local
  <1>5. Place(i, p)[1] = x + p[1] /\ Place(i, p)[2] = y + p[2]
    BY DEF Place
  <1>6. /\ l.x0 = Larger(r.x0, x) - x /\ l.x1 = Smaller(r.x1, x + Width - 1) - x
        /\ l.y0 = Larger(r.y0, y) - y /\ l.y1 = Smaller(r.y1, y + Height - 1) - y
    BY <1>1 DEF LocalRoi
  <1>7. SetsRoi(i, r) <=> /\ ~(r.x0 > x + Width - 1 \/ r.x1 < x)
                          /\ ~(r.y0 > y + Height - 1 \/ r.y1 < y)
    BY ServedWhenMet, <1>1 DEF Meets
  <1> HIDE DEF x, y, l
  <1>8. x + p[1] \in r.x0 .. r.x1 <=> /\ ~(r.x0 > x + Width - 1 \/ r.x1 < x)
                                      /\ p[1] \in l.x0 .. l.x1
    BY <1>1, <1>2, <1>3, <1>4, <1>6 DEF Larger, Smaller
  <1>9. y + p[2] \in r.y0 .. r.y1 <=> /\ ~(r.y0 > y + Height - 1 \/ r.y1 < y)
                                      /\ p[2] \in l.y0 .. l.y1
    BY <1>1, <1>2, <1>3, <1>4, <1>6 DEF Larger, Smaller
  <1> QED
    BY <1>5, <1>7, <1>8, <1>9 DEF l

\* Two numbers of equal columns or rows apart by at least one panel.
LEMMA Apart ==
    ASSUME NEW a \in Nat, NEW b \in Nat, NEW w \in Nat, a < b
    PROVE  a * w + w <= b * w
  <1>1. PICK d \in Nat : b = a + 1 + d
    <2>1. b - a - 1 \in Nat /\ b = a + 1 + (b - a - 1)
      OBVIOUS
    <2> QED
      BY <2>1
  <1>2. b * w = a * w + w + d * w
    BY <1>1
  <1>3. d * w \in Nat /\ a * w \in Nat
    OBVIOUS
  <1> QED
    BY <1>2, <1>3

\* No pixel of the big screen lies on two panels.
THEOREM PanelsDisjoint ==
    ASSUME NEW i \in Screens, NEW j \in Screens, NEW p \in Local, NEW q \in Local,
           Place(i, p) = Place(j, q)
    PROVE  i = j
  <1> DEFINE a == screen_map[i]
             b == screen_map[j]
  <1>1. a \in [col : Nat, row : Nat] /\ b \in [col : Nat, row : Nat]
    BY GcAssumption
  <1>2. Width \in Nat \ {0} /\ Height \in Nat \ {0}
    BY GcAssumption
  <1>3. p[1] \in 0 .. Width - 1 /\ q[1] \in 0 .. Width - 1
    BY DEF Local
  <1>4. p[2] \in 0 .. Height - 1 /\ q[2] \in 0 .. Height - 1
    BY DEF Local
  <1>5. a.col * Width + p[1] = b.col * Width + q[1]
    BY DEF Place, X0
  <1>6. a.row * Height + p[2] = b.row * Height + q[2]
    BY DEF Place, Y0
  <1>7. a.col \in Nat /\ b.col \in Nat /\ a.row \in Nat /\ b.row \in Nat
    BY <1>1
  <1> HIDE DEF a, b
  <1>8. /\ a.col * Width \in Nat /\ b.col * Width \in Nat
        /\ a.row * Height \in Nat /\ b.row * Height \in Nat
    BY <1>2, <1>7
  <1>9. ~(a.col < b.col) /\ ~(b.col < a.col)
    <2>1. a.col < b.col => a.col * Width + Width <= b.col * Width
      BY Apart, <1>2, <1>7
    <2>2. b.col < a.col => b.col * Width + Width <= a.col * Width
      BY Apart, <1>2, <1>7
    <2> QED
      BY <2>1, <2>2, <1>2, <1>3, <1>5, <1>8
  <1>10. ~(a.row < b.row) /\ ~(b.row < a.row)
    <2>1. a.row < b.row => a.row * Height + Height <= b.row * Height
      BY Apart, <1>2, <1>7
    <2>2. b.row < a.row => b.row * Height + Height <= a.row * Height
      BY Apart, <1>2, <1>7
    <2> QED
      BY <2>1, <2>2, <1>2, <1>4, <1>6, <1>8
  <1>11. a.col = b.col /\ a.row = b.row
    BY <1>7, <1>9, <1>10
  <1>12. a = b
    BY <1>1, <1>11
  <1> QED
    BY <1>12, GcAssumption DEF a, b

-----------------------------------------------------------------------------
(* What every step keeps.                                                  *)

\* The region is never empty, and no transfer runs before the panels are set up.
RegionOK == Region \in Coordinates /\ Ordered(Region)
QuietUntilReady == busy => phase = "ready"

\* The colour mode the setup writes is the one the controller starts with.
ModeAtStart == phase = "off" => color_mode = "RGB565"

GcInv ==
    /\ TypeOK
    /\ RegionOK
    /\ QuietUntilReady
    /\ ModeAtStart
    /\ OneScreenListens
    /\ CallsBackOnce
    /\ AllScreensAlike

LEMMA SomeScreen == N - 1 \in Screens /\ 0 .. N - 1 = Screens /\ N \in Nat /\ N - 1 \in 0 .. N
  BY GcAssumption DEF Screens

LEMMA GlobalFits ==
    ASSUME NEW i \in Screens, NEW l \in Coordinates
    PROVE  Global(i, l) \in Coordinates
  <1>1. X0(i) \in Nat /\ Y0(i) \in Nat
    BY PanelArea
  <1> QED
    BY <1>1 DEF Global, Coordinates

LEMMA WholeFits == Whole \in Coordinates
  BY GcAssumption DEF Whole, Coordinates

\* Serving a panel keeps the types of what it changes.
LEMMA SendToTypes ==
    ASSUME TypeOK, RegionOK, NEW i \in Screens, SetsRoi(i, Region), SendTo(i)
    PROVE  /\ current' \in Screens /\ index' \in 0 .. N
           /\ window' \in [Screens -> Coordinates]
           /\ roi' \in Coordinates
           /\ callback' = "LCD_SendLayerDataCpltCbk"
           /\ busy' = TRUE
  <1>1. Meets(i, Region)
    BY DEF SetsRoi
  <1>2. LocalRoi(i, Region) \in Coordinates
    BY <1>1, PartFits DEF RegionOK
  <1>3. Global(i, LocalRoi(i, Region)) \in Coordinates
    BY <1>2, GlobalFits
  <1>4. i \in 0 .. N
    BY GcAssumption DEF Screens
  <1> QED
    BY <1>2, <1>3, <1>4 DEF SendTo, TypeOK

\* What the panels hold after a transfer.
LEMMA ReceivedTypes ==
    ASSUME TypeOK, NEW i \in Screens
    PROVE  Received(i) \in [Local -> Nat \X (Nat \X Nat)]
  <1> SUFFICES ASSUME NEW p \in Local
               PROVE  Received(i)[p] \in Nat \X (Nat \X Nat)
    BY DEF Received
  <1> DEFINE w == window[i]
             g == <<roi.x0 + (p[1] - w.x0), roi.y0 + (p[2] - w.y0)>>
  <1>1. w \in Coordinates /\ roi \in Coordinates /\ frame \in Nat
    BY DEF TypeOK
  <1>2. p[1] \in Nat /\ p[2] \in Nat
    BY GcAssumption DEF Local
  <1>3. p[1] \in w.x0 .. w.x1 /\ p[2] \in w.y0 .. w.y1 => g \in Nat \X Nat
    BY <1>1, <1>2 DEF Coordinates
  <1>4. panel[i][p] \in Nat \X (Nat \X Nat)
    BY DEF TypeOK
  <1>5. Received(i)[p] = IF cs[i] = 0 /\ p[1] \in w.x0 .. w.x1 /\ p[2] \in w.y0 .. w.y1
                         THEN <<frame, g>> ELSE panel[i][p]
    BY DEF Received
  <1> HIDE DEF g, w
  <1> QED
    BY <1>1, <1>3, <1>4, <1>5

LEMMA InitGc == Init => GcInv
  <1> SUFFICES ASSUME Init PROVE GcInv
    OBVIOUS
  <1>1. \A i \in Screens, p \in Local : Place(i, p) \in Nat \X Nat
    <2> SUFFICES ASSUME NEW i \in Screens, NEW p \in Local
                 PROVE  Place(i, p) \in Nat \X Nat
      OBVIOUS
    <2>1. X0(i) \in Nat /\ Y0(i) \in Nat
      BY PanelArea
    <2>2. p[1] \in Nat /\ p[2] \in Nat
      BY GcAssumption DEF Local
    <2> QED
      BY <2>1, <2>2 DEF Place
  <1>2. panel \in [Screens -> [Local -> Nat \X (Nat \X Nat)]]
    BY <1>1 DEF Init
  <1>3. TypeOK
    <2>1. regs \in [Screens -> Registers]
      BY DEF Init, Registers, Modes
    <2>2. window \in [Screens -> Coordinates] /\ roi \in Coordinates
      BY WholeFits DEF Init
    <2>3. Region \in Coordinates
      BY DEF Init, Coordinates
    <2>4. current \in Screens /\ index \in 0 .. N /\ frame \in Nat /\ done \in Nat
      BY SomeScreen DEF Init
    <2>5. /\ phase \in {"off", "init", "ready"} /\ color_mode \in Modes /\ busy \in BOOLEAN
          /\ callback \in {"framework", "LCD_SendLayerDataCpltCbk"}
          /\ Ori \in {"framework", "LCD_SendLayerDataCpltCbk"}
          /\ cs \in [Screens -> {0, 1}]
      BY DEF Init, Modes
    <2> QED
      BY <1>2, <2>1, <2>2, <2>3, <2>4, <2>5 DEF TypeOK
  <1>4. RegionOK
    BY DEF Init, RegionOK, Ordered, Coordinates
  <1>5. OneScreenListens
    BY DEF Init, OneScreenListens
  <1> QED
    BY <1>3, <1>4, <1>5 DEF Init, GcInv, QuietUntilReady, ModeAtStart, CallsBackOnce, AllScreensAlike

\* A step that writes registers keeps everything but their values.
quiet == <<Region, current, index, callback, Ori, cs, window, roi, busy, frame, panel, done>>

LEMMA RegisterStep ==
    ASSUME GcInv, UNCHANGED <<phase, quiet>>, ~busy, phase # "off",
           regs' \in [Screens -> Registers], color_mode' \in Modes,
           \A i, j \in Screens : regs'[i] = regs'[j],
           \A i \in Screens : regs'[i].mode = color_mode'
    PROVE  GcInv'
  <1>1. TypeOK'
    BY DEF GcInv, TypeOK, quiet
  <1>2. RegionOK' /\ QuietUntilReady' /\ ModeAtStart'
    BY DEF GcInv, RegionOK, Ordered, QuietUntilReady, ModeAtStart, quiet
  <1>3. OneScreenListens' /\ CallsBackOnce'
    BY DEF GcInv, OneScreenListens, CallsBackOnce, quiet
  <1> QED
    BY <1>1, <1>2, <1>3 DEF GcInv, AllScreensAlike

LEMMA InitStep == GcInv /\ LCD_Init => GcInv'
  <1> SUFFICES ASSUME GcInv, LCD_Init PROVE GcInv'
    OBVIOUS
  <1>1. phase = "off" /\ phase' = "init" /\ busy = FALSE /\ color_mode = "RGB565"
    BY DEF LCD_Init, GcInv, QuietUntilReady, ModeAtStart, TypeOK
  <1>2. UNCHANGED <<Region, current, index, callback, Ori, color_mode, roi, busy, frame, panel,
                    done>>
    BY DEF LCD_Init
  <1>3. cs' = [i \in Screens |-> 1] /\ window' \in [Screens -> Coordinates]
    BY WholeFits DEF LCD_Init
  <1>4. regs' = [i \in Screens |-> [mode |-> "RGB565", on |-> FALSE, bright |-> 0]]
    BY DEF LCD_Init
  <1>5. regs' \in [Screens -> Registers]
    BY <1>4 DEF Registers, Modes
  <1>6. cs' \in [Screens -> {0, 1}]
    BY <1>3
  <1>7. TypeOK'
    BY <1>1, <1>2, <1>3, <1>5, <1>6 DEF GcInv, TypeOK
  <1>8. RegionOK' /\ QuietUntilReady' /\ ModeAtStart'
    BY <1>1, <1>2 DEF GcInv, RegionOK, Ordered, QuietUntilReady, ModeAtStart
  <1>9. OneScreenListens'
    BY <1>1, <1>2, <1>3 DEF OneScreenListens
  <1>10. CallsBackOnce'
    BY <1>1, <1>2 DEF GcInv, CallsBackOnce
  <1>11. AllScreensAlike'
    BY <1>1, <1>2, <1>4 DEF AllScreensAlike
  <1> QED
    BY <1>7, <1>8, <1>9, <1>10, <1>11 DEF GcInv

LEMMA ReadIDStep == GcInv /\ LCD_ReadID => GcInv'
  <1> SUFFICES ASSUME GcInv, LCD_ReadID PROVE GcInv'
    OBVIOUS
  <1>1. phase = "init" /\ phase' = "ready" /\ busy = FALSE
    BY DEF LCD_ReadID, GcInv, QuietUntilReady, TypeOK
  <1>2. UNCHANGED <<Region, index, callback, Ori, window, regs, color_mode, roi, busy, frame,
                    panel, done>>
    BY DEF LCD_ReadID
  <1>3. cs' = [i \in Screens |-> 1] /\ current' \in Screens
    BY SomeScreen DEF LCD_ReadID
  <1>4. cs' \in [Screens -> {0, 1}]
    BY <1>3
  <1>5. TypeOK'
    BY <1>1, <1>2, <1>3, <1>4 DEF GcInv, TypeOK
  <1>6. RegionOK' /\ QuietUntilReady' /\ ModeAtStart'
    BY <1>1, <1>2 DEF GcInv, RegionOK, Ordered, QuietUntilReady, ModeAtStart
  <1>7. OneScreenListens'
    BY <1>1, <1>2, <1>3 DEF OneScreenListens
  <1>8. CallsBackOnce'
    BY <1>1, <1>2 DEF GcInv, CallsBackOnce
  <1>9. AllScreensAlike'
    BY <1>1, <1>2 DEF GcInv, AllScreensAlike
  <1> QED
    BY <1>5, <1>6, <1>7, <1>8, <1>9 DEF GcInv

\* The registers of all panels agree while it is ready, and are records.
LEMMA ReadyRegisters ==
    ASSUME GcInv, Idle
    PROVE  /\ phase = "ready" /\ busy = FALSE
           /\ \A i \in Screens : regs[i] \in Registers /\ regs[i].mode = color_mode
           /\ \A i, j \in Screens : regs[i] = regs[j]
  BY DEF GcInv, Idle, TypeOK, AllScreensAlike

LEMMA DisplayStep ==
    ASSUME GcInv, NEW on \in BOOLEAN, LCD_DisplayOnOff(on)
    PROVE  GcInv'
  <1>1. Idle /\ UNCHANGED <<phase, quiet>> /\ UNCHANGED color_mode
    BY DEF LCD_DisplayOnOff, quiet
  <1>2. regs' = [i \in Screens |-> [regs[i] EXCEPT !["on"] = on]]
    BY DEF LCD_DisplayOnOff, Everywhere
  <1>3. \A i \in Screens : regs'[i] = [regs[i] EXCEPT !["on"] = on]
    BY <1>2
  <1>4. \A i \in Screens : regs'[i] \in Registers /\ regs'[i].mode = color_mode
    BY <1>1, <1>3, ReadyRegisters DEF Registers
  <1>5. \A i, j \in Screens : regs'[i] = regs'[j]
    BY <1>1, <1>3, ReadyRegisters
  <1>6. regs' \in [Screens -> Registers]
    BY <1>2, <1>4
  <1>7. color_mode' \in Modes /\ \A i \in Screens : regs'[i].mode = color_mode'
    BY <1>1, <1>4 DEF GcInv, TypeOK
  <1> QED
    BY <1>1, <1>5, <1>6, <1>7, ReadyRegisters, RegisterStep

LEMMA BrightnessStep ==
    ASSUME GcInv, NEW br \in Nat, LCD_SetBrightness(br)
    PROVE  GcInv'
  <1>1. Idle /\ UNCHANGED <<phase, quiet>> /\ UNCHANGED color_mode
    BY DEF LCD_SetBrightness, quiet
  <1>2. regs' = [i \in Screens |-> [regs[i] EXCEPT !["bright"] = br]]
    BY DEF LCD_SetBrightness, Everywhere
  <1>3. \A i \in Screens : regs'[i] = [regs[i] EXCEPT !["bright"] = br]
    BY <1>2
  <1>4. \A i \in Screens : regs'[i] \in Registers /\ regs'[i].mode = color_mode
    BY <1>1, <1>3, ReadyRegisters DEF Registers
  <1>5. \A i, j \in Screens : regs'[i] = regs'[j]
    BY <1>1, <1>3, ReadyRegisters
  <1>6. regs' \in [Screens -> Registers]
    BY <1>2, <1>4
  <1>7. color_mode' \in Modes /\ \A i \in Screens : regs'[i].mode = color_mode'
    BY <1>1, <1>4 DEF GcInv, TypeOK
  <1> QED
    BY <1>1, <1>5, <1>6, <1>7, ReadyRegisters, RegisterStep

LEMMA ColorModeStep ==
    ASSUME GcInv, NEW m \in Modes, LCD_SetColorMode(m)
    PROVE  GcInv'
  <1>1. Idle /\ UNCHANGED <<phase, quiet>> /\ color_mode' = m
    BY DEF LCD_SetColorMode, quiet
  <1>2. regs' = [i \in Screens |-> [regs[i] EXCEPT !["mode"] = m]]
    BY DEF LCD_SetColorMode, Everywhere
  <1>3. \A i \in Screens : regs'[i] = [regs[i] EXCEPT !["mode"] = m]
    BY <1>2
  <1>4. \A i \in Screens : regs'[i] \in Registers /\ regs'[i].mode = m
    BY <1>1, <1>3, ReadyRegisters DEF Registers
  <1>5. \A i, j \in Screens : regs'[i] = regs'[j]
    BY <1>1, <1>3, ReadyRegisters
  <1>6. regs' \in [Screens -> Registers]
    BY <1>2, <1>4
  <1> QED
    BY <1>1, <1>4, <1>5, <1>6, ReadyRegisters, RegisterStep

\* Setting a region, or a pixel, moves only Region.
LEMMA RegionStep ==
    ASSUME GcInv, UNCHANGED <<config, current, index, callback, Ori, cs, window, roi, busy, frame,
                              panel, done>>,
           Region' \in Coordinates, Ordered(Region')
    PROVE  GcInv'
  <1>1. UNCHANGED <<phase, regs, color_mode>>
    BY DEF config
  <1>2. TypeOK'
    BY <1>1 DEF GcInv, TypeOK
  <1>3. RegionOK' /\ QuietUntilReady' /\ ModeAtStart'
    BY <1>1 DEF GcInv, RegionOK, Ordered, QuietUntilReady, ModeAtStart
  <1>4. OneScreenListens' /\ CallsBackOnce' /\ AllScreensAlike'
    BY <1>1 DEF GcInv, OneScreenListens, CallsBackOnce, AllScreensAlike
  <1> QED
    BY <1>2, <1>3, <1>4 DEF GcInv

LEMMA SetRegionStep ==
    ASSUME GcInv, NEW r \in Regions, LCD_SetRegion(r)
    PROVE  GcInv'
  <1>1. r \in Coordinates /\ Ordered(r)
    BY GcAssumption DEF Coordinates, Ordered
  <1> QED
    BY <1>1, RegionStep DEF LCD_SetRegion

\* The pixel a caller names.
LEMMA PixelRegion ==
    ASSUME NEW r \in Regions
    PROVE  /\ [x0 |-> r.x0, y0 |-> r.y0, x1 |-> r.x0, y1 |-> r.y0] \in Coordinates
           /\ Ordered([x0 |-> r.x0, y0 |-> r.y0, x1 |-> r.x0, y1 |-> r.y0])
           /\ r.x0 \in Nat /\ r.y0 \in Nat
  BY GcAssumption DEF Coordinates, Ordered

LEMMA ReadPixelStep ==
    ASSUME GcInv, NEW r \in Regions, LCD_ReadPixel(r.x0, r.y0)
    PROVE  GcInv'
  <1>1. /\ Idle
        /\ UNCHANGED <<phase, color_mode, current, index, callback, Ori, cs, window, roi, busy,
                       frame, panel, done>>
        /\ Region' = [x0 |-> r.x0, y0 |-> r.y0, x1 |-> r.x0, y1 |-> r.y0]
    BY DEF LCD_ReadPixel
  <1>2. regs' = [regs EXCEPT ![current]["mode"] = color_mode]
    BY DEF LCD_ReadPixel, OnCurrent
  <1>3. regs \in [Screens -> Registers]
    BY DEF GcInv, TypeOK
  <1>4. regs[current].mode = color_mode
    BY <1>1, ReadyRegisters DEF GcInv, TypeOK
  <1>5. regs' = regs
    BY <1>2, <1>3, <1>4 DEF Registers
  <1>6. Region' \in Coordinates /\ Ordered(Region')
    BY <1>1, PixelRegion
  <1> QED
    BY <1>1, <1>5, <1>6, RegionStep DEF config

LEMMA WritePixelStep ==
    ASSUME GcInv, NEW r \in Regions, LCD_WritePixel(r.x0, r.y0)
    PROVE  GcInv'
  <1> DEFINE c == <<window[current].x0, window[current].y0>>
             v == <<frame, <<r.x0, r.y0>>>>
  <1>1. UNCHANGED <<phase, regs, color_mode, current, index, callback, Ori, cs, window, roi, busy,
                    frame, done>>
    BY DEF LCD_WritePixel, config
  <1>2. Region' \in Coordinates /\ Ordered(Region')
    BY PixelRegion DEF LCD_WritePixel
  <1>3. v \in Nat \X (Nat \X Nat)
    BY PixelRegion DEF GcInv, TypeOK
  <1>4. panel' = [panel EXCEPT ![current][c] = v]
    BY DEF LCD_WritePixel
  <1>5. panel' \in [Screens -> [Local -> Nat \X (Nat \X Nat)]]
    <2> HIDE DEF c, v
    <2>1. panel \in [Screens -> [Local -> Nat \X (Nat \X Nat)]]
      BY DEF GcInv, TypeOK
    <2> QED
      BY <1>3, <1>4, <2>1
  <1>6. TypeOK'
    BY <1>1, <1>2, <1>5 DEF GcInv, TypeOK
  <1>7. RegionOK' /\ QuietUntilReady' /\ ModeAtStart'
    BY <1>1, <1>2 DEF GcInv, RegionOK, QuietUntilReady, ModeAtStart
  <1>8. OneScreenListens' /\ AllScreensAlike'
    BY <1>1 DEF GcInv, OneScreenListens, AllScreensAlike
  <1>9. CallsBackOnce'
    BY <1>1 DEF GcInv, CallsBackOnce
  <1> QED
    BY <1>6, <1>7, <1>8, <1>9 DEF GcInv

LEMMA WriteMultipleStep == GcInv /\ LCD_WriteMultiplePixels => GcInv'
  <1> SUFFICES ASSUME GcInv, LCD_WriteMultiplePixels PROVE GcInv'
    OBVIOUS
  <1>1. busy = FALSE /\ phase = "ready"
    BY DEF LCD_WriteMultiplePixels, Idle, GcInv, TypeOK
  <1>2. UNCHANGED <<phase, regs, color_mode, Region, panel>>
    BY DEF LCD_WriteMultiplePixels, config
  <1>3. frame' = frame + 1 /\ frame \in Nat /\ done \in Nat /\ Ori' = "framework"
    BY <1>1 DEF LCD_WriteMultiplePixels, GcInv, TypeOK, CallsBackOnce
  <1>4. RegionOK' /\ QuietUntilReady' /\ ModeAtStart' /\ AllScreensAlike'
    BY <1>1, <1>2
       DEF GcInv, RegionOK, Ordered, QuietUntilReady, ModeAtStart, AllScreensAlike
  <1>5. ASSUME NEW i \in Screens, IsNext(0, i), SendTo(i), cs' = [cs EXCEPT ![i] = 0],
               UNCHANGED done
        PROVE  GcInv'
    <2>1. SetsRoi(i, Region)
      BY <1>5 DEF IsNext
    <2>2. /\ current' \in Screens /\ index' \in 0 .. N /\ window' \in [Screens -> Coordinates]
          /\ roi' \in Coordinates /\ callback' = "LCD_SendLayerDataCpltCbk" /\ busy' = TRUE
      BY <1>5, <2>1, SendToTypes DEF GcInv
    <2>3. cs' \in [Screens -> {0, 1}]
      BY <1>5 DEF GcInv, TypeOK
    <2>4. TypeOK'
      BY <1>2, <1>3, <1>5, <2>2, <2>3 DEF GcInv, TypeOK
    <2>5. OneScreenListens'
      <3>1. \A j \in Screens : cs[j] # 0
        BY <1>1 DEF GcInv, OneScreenListens
      <3>2. current' = i
        BY <1>5 DEF SendTo
      <3> QED
        BY <1>5, <2>2, <3>1, <3>2 DEF OneScreenListens, GcInv, TypeOK
    <2>6. CallsBackOnce'
      BY <1>1, <1>3, <1>5, <2>2 DEF GcInv, CallsBackOnce
    <2> QED
      BY <1>4, <2>4, <2>5, <2>6 DEF GcInv
  <1>6. ASSUME current' = N - 1, index' = N, done' = done + 1,
               UNCHANGED <<window, roi, callback, busy, cs>>
        PROVE  GcInv'
    <2>1. current' \in Screens /\ index' \in 0 .. N
      BY <1>6, SomeScreen
    <2>2. frame' \in Nat /\ done' \in Nat
      BY <1>3, <1>6
    <2>3. TypeOK'
      BY <1>2, <1>3, <1>6, <2>1, <2>2 DEF GcInv, TypeOK
    <2>4. OneScreenListens'
      BY <1>1, <1>6 DEF GcInv, OneScreenListens
    <2>5. CallsBackOnce'
      BY <1>1, <1>3, <1>6 DEF GcInv, CallsBackOnce
    <2> QED
      BY <1>4, <2>3, <2>4, <2>5 DEF GcInv
  <1> QED
    BY <1>5, <1>6 DEF LCD_WriteMultiplePixels

LEMMA XferCpltStep == GcInv /\ XferCplt => GcInv'
  <1> SUFFICES ASSUME GcInv, XferCplt PROVE GcInv'
    OBVIOUS
  <1>1. busy = TRUE /\ phase = "ready" /\ LCD_SendLayerDataCpltCbk
    BY DEF XferCplt, GcInv, TypeOK, QuietUntilReady
  <1>2. UNCHANGED <<phase, regs, color_mode, Region, Ori, frame>>
    BY DEF XferCplt, config
  <1>3. panel' \in [Screens -> [Local -> Nat \X (Nat \X Nat)]]
    BY ReceivedTypes DEF XferCplt, GcInv
  <1>4. frame \in Nat /\ done \in Nat /\ Ori = "framework" /\ current \in Screens
        /\ cs \in [Screens -> {0, 1}]
    BY DEF GcInv, TypeOK, CallsBackOnce
  <1>5. \A j \in Screens : j # current => cs[j] = 1
    BY <1>1, <1>4 DEF GcInv, OneScreenListens
  <1>6. RegionOK' /\ ModeAtStart' /\ AllScreensAlike' /\ QuietUntilReady'
    BY <1>1, <1>2 DEF GcInv, RegionOK, Ordered, ModeAtStart, AllScreensAlike, QuietUntilReady
  <1>7. ASSUME NEW i \in Screens, IsNext(index + 1, i), SendTo(i),
               cs' = [cs EXCEPT ![current] = 1, ![i] = 0], UNCHANGED done
        PROVE  GcInv'
    <2>1. SetsRoi(i, Region)
      BY <1>7 DEF IsNext
    <2>2. /\ current' \in Screens /\ index' \in 0 .. N /\ window' \in [Screens -> Coordinates]
          /\ roi' \in Coordinates /\ callback' = "LCD_SendLayerDataCpltCbk" /\ busy' = TRUE
      BY <1>7, <2>1, SendToTypes DEF GcInv
    <2>3. cs' \in [Screens -> {0, 1}]
      BY <1>4, <1>7
    <2>4. TypeOK'
      BY <1>2, <1>3, <1>4, <1>7, <2>2, <2>3 DEF GcInv, TypeOK
    <2>5. OneScreenListens'
      <3>1. current' = i
        BY <1>7 DEF SendTo
      <3>2. cs'[i] = 0 /\ \A j \in Screens : j # i => cs'[j] = 1
        BY <1>4, <1>5, <1>7
      <3> QED
        BY <2>2, <3>1, <3>2 DEF OneScreenListens
    <2>6. CallsBackOnce'
      BY <1>1, <1>2, <1>7, <2>2 DEF GcInv, CallsBackOnce
    <2> QED
      BY <1>6, <2>4, <2>5, <2>6 DEF GcInv
  <1>8. ASSUME current' = N - 1, index' = 0, callback' = Ori, busy' = FALSE,
               done' = done + 1, cs' = [cs EXCEPT ![current] = 1], UNCHANGED <<window, roi>>
        PROVE  GcInv'
    <2>1. current' \in Screens /\ index' \in 0 .. N
      BY <1>8, SomeScreen
    <2>2. done' \in Nat
      BY <1>4, <1>8
    <2>3. cs' \in [Screens -> {0, 1}] /\ \A j \in Screens : cs'[j] = 1
      BY <1>4, <1>5, <1>8
    <2>4. TypeOK'
      BY <1>2, <1>3, <1>4, <1>8, <2>1, <2>2, <2>3 DEF GcInv, TypeOK
    <2>5. OneScreenListens'
      BY <1>8, <2>3 DEF OneScreenListens
    <2>6. CallsBackOnce'
      BY <1>1, <1>2, <1>4, <1>8 DEF GcInv, CallsBackOnce
    <2> QED
      BY <1>6, <2>4, <2>5, <2>6 DEF GcInv
  <1> QED
    BY <1>1, <1>7, <1>8 DEF LCD_SendLayerDataCpltCbk

LEMMA NextGc == GcInv /\ [Next]_vars => GcInv'
  <1> SUFFICES ASSUME GcInv, [Next]_vars PROVE GcInv'
    OBVIOUS
  <1>1. CASE LCD_Init
    BY <1>1, InitStep
  <1>2. CASE LCD_ReadID
    BY <1>2, ReadIDStep
  <1>3. CASE \E on \in BOOLEAN : LCD_DisplayOnOff(on)
    BY <1>3, DisplayStep
  <1>4. CASE \E m \in Modes : LCD_SetColorMode(m)
    BY <1>4, ColorModeStep
  <1>5. CASE \E br \in {0, 100} : LCD_SetBrightness(br)
    BY <1>5, BrightnessStep
  <1>6. CASE \E r \in Regions : LCD_SetRegion(r)
    BY <1>6, SetRegionStep
  <1>7. CASE \E r \in Regions : LCD_ReadPixel(r.x0, r.y0)
    BY <1>7, ReadPixelStep
  <1>8. CASE \E r \in Regions : LCD_WritePixel(r.x0, r.y0)
    BY <1>8, WritePixelStep
  <1>9. CASE LCD_WriteMultiplePixels
    BY <1>9, WriteMultipleStep
  <1>10. CASE XferCplt
    BY <1>10, XferCpltStep
  <1>11. CASE UNCHANGED vars
    <2>1. /\ UNCHANGED <<config, current, index, callback, Ori, cs, window, roi, busy, frame, panel,
                         done>>
          /\ UNCHANGED Region
      BY <1>11 DEF vars
    <2> QED
      BY <2>1, RegionStep DEF GcInv, RegionOK
  <1> QED
    BY <1>1, <1>2, <1>3, <1>4, <1>5, <1>6, <1>7, <1>8, <1>9, <1>10, <1>11 DEF Next

-----------------------------------------------------------------------------
\* The driver's inductive invariant: the types, a region that is never empty, no
\* transfer before the setup, and the three properties below.
THEOREM DriverInvariant == Spec => []GcInv
  BY InitGc, NextGc, PTL DEF Spec

\* The types hold for any layout and any regions.
THEOREM TypeCorrect == Spec => []TypeOK
  BY DriverInvariant, PTL DEF GcInv

\* Exactly the panel that is served listens while the controller sends, and none
\* else, in every split and between any two interrupts.
THEOREM ListenerCorrect == Spec => []OneScreenListens
  BY DriverInvariant, PTL DEF GcInv

\* Every drawing calls the framework back exactly once.
THEOREM CallbackCorrect == Spec => []CallsBackOnce
  BY DriverInvariant, PTL DEF GcInv

\* The panels keep the same mode, switch and brightness, also across the reads of a
\* pixel that write the mode of one panel alone.
THEOREM PanelsAgree == Spec => []AllScreensAlike
  BY DriverInvariant, PTL DEF GcInv

-----------------------------------------------------------------------------
(* The panels implement one big screen.  While a drawing is sent, the panel *)
(* being served is the first of those left, its window is its part of the   *)
(* region, and the panels before it already show the frame.                 *)

PictureInv ==
    busy =>
        /\ index = current
        /\ SetsRoi(current, Region)
        /\ window[current] = LocalRoi(current, Region)
        /\ roi = Global(current, LocalRoi(current, Region))
        /\ \A i \in Screens, p \in Local :
               i < current /\ InRegion(Place(i, p)) => panel[i][p] = <<frame, Place(i, p)>>

\* A panel that is not served has no pixel in the region.
LEMMA NotServed ==
    ASSUME RegionOK, NEW i \in Screens, ~SetsRoi(i, Region), NEW p \in Local
    PROVE  ~InRegion(Place(i, p))
  BY SplitIsExact DEF RegionOK, InRegion

\* A transfer reaches no panel but the current one.
LEMMA ReceivedElsewhere ==
    ASSUME GcInv, busy, NEW i \in Screens, i # current
    PROVE  Received(i) = panel[i]
  <1>1. cs[i] # 0 /\ panel[i] \in [Local -> Nat \X (Nat \X Nat)]
    BY DEF GcInv, OneScreenListens, TypeOK
  <1> QED
    BY <1>1 DEF Received

\* It fills the current panel's part of the region, every pixel at its place.
LEMMA ReceivedHere ==
    ASSUME GcInv, PictureInv, busy, NEW p \in Local
    PROVE  Received(current)[p] = IF InRegion(Place(current, p))
                                  THEN <<frame, Place(current, p)>> ELSE panel[current][p]
  <1> DEFINE l == LocalRoi(current, Region)
  <1>1. current \in Screens /\ cs[current] = 0 /\ RegionOK
    BY DEF GcInv, OneScreenListens, TypeOK
  <1>2. SetsRoi(current, Region) /\ window[current] = l /\ roi = Global(current, l)
    BY DEF PictureInv
  <1>3. l \in Coordinates /\ X0(current) \in Nat /\ Y0(current) \in Nat
    BY <1>1, <1>2, PartFits, PanelArea DEF RegionOK, SetsRoi
  <1>4. InRegion(Place(current, p)) <=> p[1] \in l.x0 .. l.x1 /\ p[2] \in l.y0 .. l.y1
    BY <1>1, <1>2, SplitIsExact DEF RegionOK, InRegion
  <1>5. p[1] \in Nat /\ p[2] \in Nat
    BY GcAssumption DEF Local
  <1>6. <<roi.x0 + (p[1] - l.x0), roi.y0 + (p[2] - l.y0)>> = Place(current, p)
    <2>1. roi.x0 = X0(current) + l.x0 /\ roi.y0 = Y0(current) + l.y0
      BY <1>2 DEF Global
    <2>2. l.x0 \in Nat /\ l.y0 \in Nat
      BY <1>3 DEF Coordinates
    <2> HIDE DEF l
    <2>3. roi.x0 + (p[1] - l.x0) = X0(current) + p[1] /\ roi.y0 + (p[2] - l.y0) = Y0(current) + p[2]
      BY <1>3, <1>5, <2>1, <2>2
    <2> QED
      BY <2>3 DEF Place
  <1>7. Received(current)[p] =
          IF cs[current] = 0 /\ p[1] \in l.x0 .. l.x1 /\ p[2] \in l.y0 .. l.y1
          THEN <<frame, <<roi.x0 + (p[1] - l.x0), roi.y0 + (p[2] - l.y0)>>>>
          ELSE panel[current][p]
    BY <1>2 DEF Received
  <1> HIDE DEF l
  <1> QED
    BY <1>1, <1>4, <1>6, <1>7

\* The first panel from k on: those between have nothing of the region.
LEMMA FirstFrom ==
    ASSUME RegionOK, NEW k \in Nat, NEW i \in Screens, IsNext(k, i), NEW j \in Screens,
           k <= j, j < i, NEW p \in Local
    PROVE  ~InRegion(Place(j, p))
  BY NotServed DEF IsNext

\* The frame is complete on all panels before the next one to be served.
LEMMA PaintedBefore ==
    ASSUME GcInv, PictureInv, busy, NEW j \in Screens, NEW p \in Local,
           InRegion(Place(j, p)), j <= current
    PROVE  Received(j)[p] = <<frame, Place(j, p)>>
  <1>1. CASE j = current
    BY <1>1, ReceivedHere
  <1>2. CASE j # current
    <2>1. j < current
      BY <1>2 DEF GcInv, TypeOK, Screens
    <2> QED
      BY <1>2, <2>1, ReceivedElsewhere DEF PictureInv
  <1> QED
    BY <1>1, <1>2

LEMMA PictureInit == Init => PictureInv
  BY DEF Init, PictureInv

LEMMA PictureWrite == GcInv /\ LCD_WriteMultiplePixels => PictureInv'
  <1> SUFFICES ASSUME GcInv, LCD_WriteMultiplePixels, busy' PROVE PictureInv'
    BY DEF PictureInv
  <1>1. PICK i \in Screens : IsNext(0, i) /\ SendTo(i)
    BY DEF LCD_WriteMultiplePixels, Idle
  <1>2. Region' = Region /\ RegionOK /\ SetsRoi(i, Region)
    BY <1>1 DEF LCD_WriteMultiplePixels, GcInv, IsNext
  <1>3. index' = i /\ current' = i /\ window'[i] = LocalRoi(i, Region)
        /\ roi' = Global(i, LocalRoi(i, Region))
    BY <1>1 DEF SendTo, GcInv, TypeOK
  <1>4. ASSUME NEW j \in Screens, NEW p \in Local, j < i PROVE ~InRegion(Place(j, p))'
    <2>1. ~InRegion(Place(j, p))
      BY <1>1, <1>2, <1>4, FirstFrom DEF Screens
    <2> QED
      BY <1>2, <2>1 DEF InRegion, Place, X0, Y0
  <1> QED
    BY <1>2, <1>3, <1>4
       DEF PictureInv, SetsRoi, Meets, LocalRoi, Global, X0, Y0, X1, Y1, Place

LEMMA PictureCplt == GcInv /\ PictureInv /\ XferCplt => PictureInv'
  <1> SUFFICES ASSUME GcInv, PictureInv, XferCplt, busy' PROVE PictureInv'
    BY DEF PictureInv
  <1>1. busy /\ index = current /\ index \in Nat /\ RegionOK /\ current \in Screens
    BY DEF XferCplt, PictureInv, GcInv, TypeOK, Screens
  <1>2. PICK i \in Screens : IsNext(index + 1, i) /\ SendTo(i)
    BY DEF XferCplt, LCD_SendLayerDataCpltCbk
  <1>3. Region' = Region /\ frame' = frame /\ SetsRoi(i, Region)
        /\ panel' = [k \in Screens |-> Received(k)]
    BY <1>2 DEF XferCplt, IsNext
  <1>4. index' = i /\ current' = i /\ window'[i] = LocalRoi(i, Region)
        /\ roi' = Global(i, LocalRoi(i, Region))
    BY <1>2 DEF SendTo, GcInv, TypeOK
  <1>5. ASSUME NEW j \in Screens, NEW p \in Local, j < i, InRegion(Place(j, p))'
        PROVE  panel'[j][p] = <<frame, Place(j, p)>>
    <2>1. InRegion(Place(j, p))
      BY <1>3, <1>5 DEF InRegion, Place, X0, Y0
    <2>2. j <= current
      <3>1. ~(index + 1 <= j)
        BY <1>1, <1>2, <1>5, <2>1, FirstFrom
      <3> QED
        BY <1>1, <3>1 DEF Screens
    <2> QED
      BY <1>1, <1>3, <2>1, <2>2, PaintedBefore
  <1> QED
    BY <1>3, <1>4, <1>5
       DEF PictureInv, SetsRoi, Meets, LocalRoi, Global, X0, Y0, X1, Y1, Place

LEMMA PictureStep == GcInv /\ PictureInv /\ [Next]_vars => PictureInv'
  <1> SUFFICES ASSUME GcInv, PictureInv, [Next]_vars PROVE PictureInv'
    OBVIOUS
  <1>1. CASE LCD_WriteMultiplePixels
    BY <1>1, PictureWrite
  <1>2. CASE XferCplt
    BY <1>2, PictureCplt
  <1>3. CASE UNCHANGED vars
    BY <1>3 DEF vars, PictureInv, InRegion, Place, X0, Y0, SetsRoi, Meets, LocalRoi, Global, X1, Y1
  <1>4. CASE ~busy'
    BY <1>4 DEF PictureInv
  <1>5. CASE LCD_Init \/ LCD_ReadID
    BY <1>5, <1>4 DEF GcInv, QuietUntilReady, LCD_Init, LCD_ReadID
  <1>6. CASE \/ \E on \in BOOLEAN : LCD_DisplayOnOff(on)
             \/ \E m \in Modes : LCD_SetColorMode(m)
             \/ \E br \in {0, 100} : LCD_SetBrightness(br)
             \/ \E r \in Regions : LCD_SetRegion(r)
             \/ \E r \in Regions : LCD_ReadPixel(r.x0, r.y0) \/ LCD_WritePixel(r.x0, r.y0)
    BY <1>6, <1>4 DEF Idle, LCD_DisplayOnOff, LCD_SetColorMode, LCD_SetBrightness,
                      LCD_SetRegion, LCD_ReadPixel, LCD_WritePixel
  <1> QED
    BY <1>1, <1>2, <1>3, <1>5, <1>6 DEF Next

THEOREM PictureInvariant == Spec => []PictureInv
  BY PictureInit, PictureStep, DriverInvariant, PTL DEF Spec

-----------------------------------------------------------------------------
(* The big picture.                                                        *)

picture == [g \in Pixels |-> Shown(g)]
drawing == IF busy THEN {g \in Pixels : InRegion(g)} ELSE {}

\* Every pixel of the big screen is one pixel of one panel.
LEMMA HomeIs ==
    ASSUME NEW i \in Screens, NEW p \in Local
    PROVE  Place(i, p) \in Pixels /\ Home[Place(i, p)] = <<i, p>>
  <1> DEFINE g == Place(i, p)
             c == CHOOSE c \in Screens \X Local : Place(c[1], c[2]) = g
  <1>1. g \in Pixels
    BY DEF Pixels
  <1>2. Home[g] = c
    BY <1>1 DEF Home
  <1>3. c \in Screens \X Local /\ Place(c[1], c[2]) = g
    <2>1. <<i, p>> \in Screens \X Local /\ Place(<<i, p>>[1], <<i, p>>[2]) = g
      OBVIOUS
    <2> QED
      BY <2>1
  <1>4. PICK j \in Screens, q \in Local : c = <<j, q>> /\ Place(j, q) = g
    BY <1>3
  <1>5. j = i
    BY <1>4, PanelsDisjoint
  <1>6. q = p
    <2>1. X0(i) \in Nat /\ Y0(i) \in Nat
      BY PanelArea
    <2>2. /\ p[1] \in Nat /\ p[2] \in Nat /\ p = <<p[1], p[2]>>
          /\ q[1] \in Nat /\ q[2] \in Nat /\ q = <<q[1], q[2]>>
      BY GcAssumption DEF Local
    <2>3. X0(i) + p[1] = X0(i) + q[1] /\ Y0(i) + p[2] = Y0(i) + q[2]
      BY <1>4, <1>5 DEF Place
    <2>4. p[1] = q[1] /\ p[2] = q[2]
      BY <2>1, <2>2, <2>3
    <2> QED
      BY <2>2, <2>4
  <1> QED
    BY <1>1, <1>2, <1>4, <1>5, <1>6

LEMMA ShownAt ==
    ASSUME NEW i \in Screens, NEW p \in Local
    PROVE  Shown(Place(i, p)) = IF panel[i][p][2] = Place(i, p) THEN panel[i][p][1] ELSE -1
  BY HomeIs DEF Shown

LEMMA ShownNextAt ==
    ASSUME NEW i \in Screens, NEW p \in Local
    PROVE  Shown(Place(i, p))' =
             IF panel'[i][p][2] = Place(i, p) THEN panel'[i][p][1] ELSE -1
  <1> DEFINE g == Place(i, p)
  <1>1. Shown(g)' = LET c == panel'[Home[g][1]][Home[g][2]] IN IF c[2] = g THEN c[1] ELSE -1
    BY DEF Shown, Home, Place, X0, Y0, Pixels, Screens, Local
  <1>2. Home[g] = <<i, p>>
    BY HomeIs
  <1> QED
    BY <1>1, <1>2

LEMMA BigInit == Init => Big!Init
  <1> SUFFICES ASSUME Init PROVE Big!Init
    OBVIOUS
  <1>1. ASSUME NEW g \in Pixels PROVE Shown(g) = 0
    <2>1. PICK i \in Screens, p \in Local : g = Place(i, p)
      BY DEF Pixels
    <2>2. panel[i][p] = <<0, Place(i, p)>>
      BY DEF Init
    <2> QED
      BY <2>1, <2>2, ShownAt
  <1> QED
    BY <1>1 DEF Init, Big!Init

LEMMA SamePicture ==
    ASSUME UNCHANGED panel
    PROVE  picture' = picture
  BY DEF picture, Shown

\* What shows after a transfer.
LEMMA ShownAfter ==
    ASSUME GcInv, PictureInv, XferCplt, NEW g \in Pixels
    PROVE  \/ Shown(g)' = Shown(g)
           \/ InRegion(g) /\ Shown(g)' = frame
  <1>1. PICK i \in Screens, p \in Local : g = Place(i, p)
    BY DEF Pixels
  <1>2. busy /\ panel'[i][p] = Received(i)[p]
    BY DEF XferCplt
  <1>3. CASE i # current
    BY <1>1, <1>2, <1>3, ReceivedElsewhere, ShownAt, ShownNextAt
  <1>4. CASE i = current
    <2>1. panel'[i][p] = IF InRegion(g) THEN <<frame, g>> ELSE panel[i][p]
      BY <1>1, <1>2, <1>4, ReceivedHere
    <2> QED
      BY <1>1, <2>1, ShownAt, ShownNextAt
  <1> QED
    BY <1>3, <1>4

\* A panel that is served has a pixel in the region.
LEMMA SomethingDrawn ==
    ASSUME RegionOK, NEW i \in Screens, SetsRoi(i, Region)
    PROVE  \E g \in Pixels : InRegion(g)
  <1> DEFINE l == LocalRoi(i, Region)
             p == <<l.x0, l.y0>>
  <1>1. l \in Coordinates /\ ValidLocal(l)
    BY PartFits DEF RegionOK, SetsRoi
  <1>2. Width \in Nat /\ Height \in Nat
    BY GcAssumption
  <1>3. l.x0 \in l.x0 .. l.x1 /\ l.y0 \in l.y0 .. l.y1 /\ p \in Local
    <2> HIDE DEF l
    <2> QED
      BY <1>1, <1>2 DEF ValidLocal, Coordinates, Local
  <1>4. p[1] \in l.x0 .. l.x1 /\ p[2] \in l.y0 .. l.y1
    BY <1>3
  <1> HIDE DEF p
  <1>5. InRegion(Place(i, p))
    BY <1>3, <1>4, SplitIsExact DEF RegionOK, InRegion
  <1> QED
    BY <1>3, <1>5, HomeIs

\* The end of a transfer paints a piece, and the end of the last one the rest.
LEMMA CpltPaints ==
    ASSUME GcInv, PictureInv, XferCplt
    PROVE  Big!Paint
  <1>1. /\ busy /\ SetsRoi(current, Region) /\ RegionOK /\ current \in Screens
        /\ index = current /\ index \in Nat /\ frame' = frame /\ Region' = Region
        /\ panel' = [k \in Screens |-> Received(k)]
    BY DEF XferCplt, PictureInv, GcInv, TypeOK, Screens
  <1>2. drawing # {} /\ drawing = {g \in Pixels : InRegion(g)}
    BY <1>1, SomethingDrawn DEF drawing
  <1> DEFINE S == {g \in Pixels : picture'[g] # picture[g]}
  <1>3. \A g \in Pixels : picture[g] = Shown(g) /\ picture'[g] = Shown(g)'
    BY DEF picture, Pixels, Place, X0, Y0, Screens, Local
  <1>4. S \subseteq drawing
    BY <1>2, <1>3, ShownAfter
  <1>5. picture' = [g \in Pixels |-> IF g \in S THEN frame ELSE picture[g]]
    <2>1. picture' = [g \in Pixels |-> Shown(g)']
      BY DEF picture, Pixels, Place, X0, Y0, Screens, Local
    <2>2. \A g \in Pixels : Shown(g)' = IF g \in S THEN frame ELSE picture[g]
      BY <1>3, ShownAfter
    <2> QED
      BY <2>1, <2>2
  <1>6. \/ drawing' = drawing
        \/ drawing' = {} /\ \A g \in drawing : picture'[g] = frame
    <2>1. ASSUME busy' PROVE drawing' = drawing
      BY <1>1, <2>1 DEF drawing, InRegion, Pixels, Place, X0, Y0, Screens, Local
    <2>2. ASSUME ~busy' PROVE drawing' = {} /\ \A g \in drawing : picture'[g] = frame
      <3>1. NoneFrom(index + 1)
        BY <1>1, <2>2 DEF XferCplt, LCD_SendLayerDataCpltCbk, SendTo
      <3>2. ASSUME NEW g \in drawing PROVE picture'[g] = frame
        <4>1. g \in Pixels /\ InRegion(g)
          BY <1>2
        <4>2. PICK i \in Screens, p \in Local : g = Place(i, p)
          BY <4>1 DEF Pixels
        <4>3. i <= current
          <5>1. ~(i >= index + 1)
            BY <1>1, <3>1, <4>1, <4>2, NotServed DEF NoneFrom
          <5> QED
            BY <1>1, <5>1 DEF Screens
        <4>4. panel'[i][p] = <<frame, g>>
          BY <1>1, <4>1, <4>2, <4>3, PaintedBefore
        <4> QED
          BY <1>3, <4>1, <4>2, <4>4, ShownNextAt
      <3> QED
        BY <2>2, <3>2 DEF drawing
    <2> QED
      BY <2>1, <2>2
  <1> QED
    BY <1>1, <1>2, <1>4, <1>5, <1>6 DEF Big!Paint, Big!Painted, picture, drawing

\* A pixel written changes one pixel of the big screen, or none.
LEMMA PixelDots ==
    ASSUME GcInv, NEW r \in Regions, LCD_WritePixel(r.x0, r.y0)
    PROVE  [Big!Next]_(Big!bigVars)
  <1> DEFINE c == <<window[current].x0, window[current].y0>>
  <1>1. ~busy /\ ~busy' /\ frame' = frame /\ current \in Screens
    BY DEF LCD_WritePixel, Idle, GcInv, TypeOK
  <1>2. \A i \in Screens, p \in Local : i # current \/ p # c => panel'[i][p] = panel[i][p]
    BY DEF LCD_WritePixel, GcInv, TypeOK
  <1>3. picture' = [g \in Pixels |-> Shown(g)'] /\ picture = [g \in Pixels |-> Shown(g)]
    BY DEF picture, Pixels, Place, X0, Y0, Screens, Local
  <1>4. drawing = {} /\ drawing' = {}
    BY <1>1 DEF drawing
  <1> HIDE DEF c
  <1>5. ASSUME NEW g \in Pixels, Shown(g)' # Shown(g)
        PROVE  c \in Local /\ g = Place(current, c)
    <2>1. PICK i \in Screens, p \in Local : g = Place(i, p)
      BY DEF Pixels
    <2>2. panel'[i][p] # panel[i][p]
      BY <1>5, <2>1, ShownAt, ShownNextAt
    <2> QED
      BY <1>2, <2>1, <2>2
  <1>6. CASE c \in Local
    <2> DEFINE h == Place(current, c)
    <2>1. h \in Pixels /\ \A g \in Pixels : g # h => Shown(g)' = Shown(g)
      BY <1>1, <1>5, <1>6, HomeIs
    <2> HIDE DEF h
    <2>2. picture' = [picture EXCEPT ![h] = picture'[h]]
      BY <1>3, <2>1
    <2> QED
      BY <1>1, <1>4, <2>1, <2>2 DEF Big!Next, Big!Dot, picture, drawing
  <1>7. CASE c \notin Local
    <2>1. picture' = picture
      BY <1>3, <1>5, <1>7
    <2> QED
      BY <1>1, <1>4, <2>1 DEF Big!bigVars, picture, drawing
  <1> QED
    BY <1>6, <1>7

\* What neither draws nor starts to leaves the big screen as it is.
LEMMA BigStutter ==
    ASSUME UNCHANGED <<panel, frame>>, ~busy, ~busy'
    PROVE  UNCHANGED Big!bigVars
  BY SamePicture DEF Big!bigVars, picture

LEMMA BigStep == GcInv /\ PictureInv /\ [Next]_vars => [Big!Next]_(Big!bigVars)
  <1> SUFFICES ASSUME GcInv, PictureInv, [Next]_vars PROVE [Big!Next]_(Big!bigVars)
    OBVIOUS
  <1>1. CASE LCD_WriteMultiplePixels
    <2>1. ~busy /\ frame' = frame + 1 /\ picture' = picture
      BY <1>1, SamePicture DEF LCD_WriteMultiplePixels, Idle
    <2>2. drawing = {} /\ drawing' \in SUBSET Pixels
      BY <2>1 DEF drawing, Pixels, Place, X0, Y0, Screens, Local
    <2> QED
      BY <2>1, <2>2 DEF Big!Next, Big!Start, picture, drawing
  <1>2. CASE XferCplt
    BY <1>2, CpltPaints DEF Big!Next
  <1>3. CASE \E r \in Regions : LCD_WritePixel(r.x0, r.y0)
    BY <1>3, PixelDots
  <1>4. CASE UNCHANGED vars
    <2>1. picture' = picture /\ drawing' = drawing /\ frame' = frame
      BY <1>4, SamePicture DEF vars, drawing, InRegion, Pixels, Place, X0, Y0, Screens, Local
    <2> QED
      BY <2>1 DEF Big!bigVars, picture, drawing
  <1>5. CASE LCD_Init \/ LCD_ReadID
    <2>1. ~busy /\ ~busy' /\ UNCHANGED <<panel, frame>>
      BY <1>5 DEF GcInv, QuietUntilReady, LCD_Init, LCD_ReadID
    <2> QED
      BY <2>1, BigStutter
  <1>6. CASE \/ \E on \in BOOLEAN : LCD_DisplayOnOff(on)
             \/ \E m \in Modes : LCD_SetColorMode(m)
             \/ \E br \in {0, 100} : LCD_SetBrightness(br)
             \/ \E r \in Regions : LCD_SetRegion(r)
             \/ \E r \in Regions : LCD_ReadPixel(r.x0, r.y0)
    <2>1. ~busy /\ ~busy' /\ UNCHANGED <<panel, frame>>
      BY <1>6 DEF Idle, LCD_DisplayOnOff, LCD_SetColorMode, LCD_SetBrightness,
                  LCD_SetRegion, LCD_ReadPixel, config
    <2> QED
      BY <2>1, BigStutter
  <1> QED
    BY <1>1, <1>2, <1>3, <1>4, <1>5, <1>6 DEF Next

\* The driver of many panels is one big screen, for every layout of the panels and
\* all regions: each drawing fills exactly its region, in however many transfers.
THEOREM OneBigScreen == Spec => IsBigScreen
  BY BigInit, BigStep, DriverInvariant, PictureInvariant, PTL DEF Spec, IsBigScreen, Big!Spec

-----------------------------------------------------------------------------
(* A drawing comes to its end.                                             *)

\* The panels a drawing still has before it, the current one among them.
PanelsLeft == IF busy THEN N - current ELSE 0

\* While a drawing is under way every step of the driver, and the framework makes no
\* other, leaves fewer panels: it is over after at most N transfers.
DrawingDescends == [][busy => PanelsLeft' \in Nat /\ PanelsLeft' < PanelsLeft]_vars

\* LCD_SendLayerDataCpltCbk never serves a panel twice and never goes back.
LEMMA CpltDescends ==
    ASSUME GcInv, PictureInv, XferCplt
    PROVE  PanelsLeft' \in Nat /\ PanelsLeft' < PanelsLeft
<1>1. busy /\ index = current /\ current \in 0 .. N - 1 /\ N \in Nat
  BY GcAssumption DEF XferCplt, GcInv, PictureInv, TypeOK, Screens
<1>2. CASE busy'
  <2>1. PICK i \in Screens : IsNext(index + 1, i) /\ SendTo(i)
    BY <1>2 DEF XferCplt, LCD_SendLayerDataCpltCbk
  <2>2. current' = i /\ i >= current + 1 /\ i \in 0 .. N - 1
    BY <1>1, <2>1 DEF SendTo, IsNext, Screens
  <2> QED
    BY <1>1, <1>2, <2>2 DEF PanelsLeft
<1>3. CASE ~busy'
  BY <1>1, <1>3 DEF PanelsLeft
<1> QED
  BY <1>2, <1>3

\* A drawing, however it is split, is over after at most N transfers.
THEOREM DrawingsEnd == Spec => DrawingDescends
<1>1. ASSUME GcInv, PictureInv, Next, busy
      PROVE  XferCplt
  BY <1>1 DEF Next, Idle, LCD_Init, LCD_ReadID, LCD_DisplayOnOff, LCD_SetColorMode,
              LCD_SetBrightness, LCD_SetRegion, LCD_ReadPixel, LCD_WritePixel,
              LCD_WriteMultiplePixels, GcInv, QuietUntilReady
<1>2. GcInv /\ PictureInv /\ [Next]_vars
        => [busy => PanelsLeft' \in Nat /\ PanelsLeft' < PanelsLeft]_vars
  BY <1>1, CpltDescends
<1> QED
  BY <1>2, DriverInvariant, PictureInvariant, PTL DEF Spec, DrawingDescends
=============================================================================
