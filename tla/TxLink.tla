------------------------------- MODULE TxLink -------------------------------
(***************************************************************************)
(* What a TX board of the range tester promises whoever watches its LED    *)
(* and its radio: it searches, asks one board at a time for a link, sends  *)
(* on that link only once it has proved usable, and shows all the time     *)
(* which of these it does.  A link that fails is asked for again at once,  *)
(* but only so many times in a row; then the board searches again.         *)
(***************************************************************************)
EXTENDS Naturals

CONSTANT BurstMax   \* how often in a row a link is asked for again

VARIABLES
    phase,          \* what the board is doing
    led,            \* what its LED shows
    sending,        \* packets are being sent
    tries           \* how often in a row the link has been asked for again

txVars == <<phase, led, sending, tries>>

Shown ==
    [off |-> "SEARCHING", searching |-> "SEARCHING", asking |-> "CONNECTING",
     linked |-> "CONNECTED", usable |-> "CONNECTED"]

Init == phase = "off" /\ led = "SEARCHING" /\ sending = FALSE /\ tries = 0

Enter(p) == phase' = p /\ led' = Shown[p]

Start == phase = "off" /\ Enter("searching") /\ tries' = 0 /\ UNCHANGED sending

Ask == phase = "searching" /\ Enter("asking") /\ UNCHANGED <<sending, tries>>

Refused == phase = "asking" /\ Enter("searching") /\ tries' = 0 /\ UNCHANGED sending

Linked == phase = "asking" /\ Enter("linked") /\ UNCHANGED <<sending, tries>>

\* The link has proved usable: the chain of retries is over.
Usable == phase = "linked" /\ Enter("usable") /\ tries' = 0 /\ UNCHANGED sending

Send == phase = "usable" /\ sending' = TRUE /\ UNCHANGED <<phase, led, tries>>

Lost ==
    /\ phase \in {"linked", "usable"}
    /\ sending' = FALSE
    /\ \/ Enter("searching") /\ tries' = 0
       \/ tries < BurstMax /\ Enter("asking") /\ tries' = tries + 1

Next == Start \/ Ask \/ Refused \/ Linked \/ Usable \/ Send \/ Lost

Spec == Init /\ [][Next]_txVars
=============================================================================
