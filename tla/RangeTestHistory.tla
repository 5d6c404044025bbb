-------------------------- MODULE RangeTestHistory --------------------------
(***************************************************************************)
(* RangeTest with a history variable for whole chains of retries.          *)
(***************************************************************************)
EXTENDS RangeTest

VARIABLE
    retries     \* retries made since the current candidate was locked or its
                \* link last proved usable

RetriesNext ==
    retries' = IF creating' > creating /\ conn' # conn THEN retries + 1
               ELSE IF g_tx_have_candidate # g_tx_have_candidate' THEN 0
               ELSE IF \E i \in ConnIdx : setup[i] = "mtu" /\ setup'[i] = "search" THEN 0
               ELSE retries

HInit == Init /\ retries = 0
HNext == Next /\ RetriesNext

HSpec == HInit /\ [][HNext]_<<vars, retries>>

-----------------------------------------------------------------------------
\* A chain of retries is bounded (main.c:92-94): a candidate that never
\* answers is given up after BurstMax retries, however refusals, losses and
\* MTU exchanges alternate.
RetriesBounded == retries <= BurstMax

\* Its inductive strengthening.  g_tx_burst_retry may be ahead of the chain: a
\* refused request (main.c:546) drops the candidate but keeps the counter, so
\* that the next candidate has fewer retries, never more.
RetriesInv ==
    /\ retries \in Nat
    /\ retries <= g_tx_burst_retry
    /\ retries > 0 => role = "TX" /\ g_tx_have_candidate

-----------------------------------------------------------------------------
(* What a TX does, seen from outside.                                      *)

\* "several" is more than a TX may have.
TxDoes ==
    IF role # "TX" \/ boot # "on" THEN "off"
    ELSE CASE creating = 0 /\ Live = {}             -> "searching"
           [] creating = 1 /\ Live = {}             -> "asking"
           [] creating = 0 /\ Cardinality(Live) = 1 ->
                IF \E i \in Live : setup[i] = "mtu" THEN "linked" ELSE "usable"
           [] OTHER                                 -> "several"

TxShows == IF role = "TX" THEN g_led_state ELSE "SEARCHING"

Tx == INSTANCE TxLink WITH phase <- TxDoes, led <- TxShows, sending <- g_tx_sending,
                           tries <- retries

\* Behind its callbacks, flags and counters a TX is a machine of a few steps: one
\* request or link at a time, the LED following it, packets only on a usable link, and a
\* bounded number of retries in a row.
IsTxLink == Tx!Spec
=============================================================================
