----------------------------- MODULE LedBlinker -----------------------------
(***************************************************************************)
(* What one LED of the walkie-talkie promises: it shows a steady level or  *)
(* alternates between a level and dark, for ever or a given number of      *)
(* times, and changes for no reason but the end of a phase or an order     *)
(* that was given to it, and not to another LED, before.                   *)
(***************************************************************************)
EXTENDS Naturals

CONSTANTS
    Commands,   \* the orders for this LED: records with blink, level and count
    Dark        \* the level of an LED that is off

VARIABLES
    orders,     \* given and not obeyed yet
    shown,      \* the level to be seen
    flashing,   \* the LED alternates
    level,      \* between dark and this one
    left        \* flashes left to do, the current one included; 0: for ever

bvars == <<orders, shown, flashing, level, left>>

Init == orders = {} /\ shown = Dark /\ flashing = FALSE /\ level = Dark /\ left = 0

Show(c) ==
    /\ flashing' = FALSE /\ shown' = c /\ level' = Dark /\ left' = 0

Flash(c, n) ==
    /\ flashing' = TRUE /\ shown' = c /\ level' = c /\ left' = n

Order(m) ==
    /\ orders' = orders \cup {m}
    /\ UNCHANGED <<shown, flashing, level, left>>

\* The same order may have been given twice.
Obey(m) ==
    /\ orders' \in {orders, orders \ {m}}
    /\ IF m.blink THEN Flash(m.level, m.count) ELSE Show(m.level)

\* A flash ends; the last one leaves the LED steady and dark.
GoDark ==
    /\ flashing /\ shown = level
    /\ IF left = 1
       THEN Show(Dark)
       ELSE /\ shown' = Dark
            /\ left' = IF left = 0 THEN 0 ELSE left - 1
            /\ UNCHANGED <<flashing, level>>
    /\ UNCHANGED orders

GoLit ==
    /\ flashing /\ shown = Dark
    /\ shown' = level
    /\ UNCHANGED <<orders, flashing, level, left>>

Next ==
    \/ \E m \in Commands : Order(m)
    \/ \E m \in orders : Obey(m)
    \/ GoDark \/ GoLit

Spec == Init /\ [][Next]_bvars
=============================================================================
