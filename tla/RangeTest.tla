----------------------------- MODULE RangeTest -----------------------------
(***************************************************************************)
(* The BLE range tester (ble_range_test/src/main.c): one board, either the *)
(* TX (central: scans, connects, sends) or the RX (peripheral: advertises, *)
(* accepts), together with the part of the BLE stack it talks to.          *)
(*                                                                         *)
(* Everything the application does after boot happens in callbacks of the  *)
(* BLE task (ble_app_event_handler, ble_app_gattc_event_handler): each     *)
(* callback is one action.  A request to the stack (scan, stop, connect,   *)
(* exchange MTU, search, register, disconnect) only changes the stack's    *)
(* side; the stack answers later, in an event of its own.  Events of       *)
(* different kinds may be delivered in any order.                          *)
(***************************************************************************)
EXTENDS Naturals, FiniteSets

CONSTANTS
    Roles,      \* the roles the jumper PA27 may select in this instance
    MaxConn,    \* BLE_APP_MAX_CONN_COUNT
    ConnIdx,    \* the link numbers the stack hands out
    Free,       \* 0xFF: no link in this slot
    Peers,      \* the addresses of RX boards a TX can hear
    BurstMax    \* BURST_RETRY_MAX

ASSUME RangeAssumption ==
    /\ Roles \subseteq {"TX", "RX"}
    /\ MaxConn \in Nat \ {0}
    /\ BurstMax \in Nat
    /\ Free \notin ConnIdx

VARIABLES
    role,                \* g_role
    boot,                \* progress of the power-on message
    conn,                \* env->conn[].conn_idx
    conn_count,          \* env->conn_count
    g_tx_connecting,
    g_tx_have_candidate,
    g_tx_target,
    g_tx_burst_retry,
    g_tx_sending,
    g_tx_send_conn_idx,
    g_led_state,
    asserted,            \* an RT_ASSERT has failed and the board has stopped
    scan,                \* stack: the scanner is running
    reports,             \* stack: peers with an advertising report under way
    stop_inds,           \* stack: SCAN_STOPPED indications under way
    creating,            \* stack: connection requests not answered yet
    link,                \* stack: state of each link number
    setup                \* stack: the answer a link is waiting for

appVars   == <<conn, conn_count, g_tx_connecting, g_tx_have_candidate, g_tx_target,
               g_tx_burst_retry, g_tx_sending, g_tx_send_conn_idx, g_led_state, asserted>>
stackVars == <<scan, reports, stop_inds, creating, link, setup>>
vars      == <<role, boot, appVars, stackVars>>

table   == <<conn, conn_count, asserted>>
sender  == <<g_tx_sending, g_tx_send_conn_idx>>
links   == <<link, setup>>

Slots == 0 .. MaxConn - 1
NoPeer == "none"   \* g_tx_target before the first candidate

-----------------------------------------------------------------------------
(* The connection table.                                                   *)

Used == {s \in Slots : conn[s] # Free}

\* ble_app_get_dev_by_idx(idx) returns s
IsDev(s, idx) ==
    /\ conn[s] = idx
    /\ \A t \in Slots : conn[t] = idx => s <= t

HasDev(idx) == \E s \in Slots : conn[s] = idx

-----------------------------------------------------------------------------
(* Requests to the stack made inside the handlers.                         *)

range_test_scan_start ==
    /\ g_tx_connecting' = FALSE
    /\ g_tx_have_candidate' = FALSE
    /\ scan' = TRUE

range_test_connect == creating' = creating + 1

\* Broken variant: the test of g_tx_connecting (main.c:485) is missing.
ScanDecideUnguarded ==
    \/ /\ g_tx_have_candidate
       /\ g_tx_connecting' = TRUE
       /\ g_led_state' = "CONNECTING"
       /\ range_test_connect
       /\ UNCHANGED <<g_tx_have_candidate, scan>>
    \/ /\ ~g_tx_have_candidate
       /\ range_test_scan_start
       /\ UNCHANGED <<g_led_state, creating>>

range_tx_scan_decide ==
    \/ /\ g_tx_connecting
       /\ UNCHANGED <<g_tx_connecting, g_tx_have_candidate, g_led_state, scan, creating>>
    \/ /\ ~g_tx_connecting
       /\ g_tx_have_candidate
       /\ g_tx_connecting' = TRUE
       /\ g_led_state' = "CONNECTING"
       /\ range_test_connect
       /\ UNCHANGED <<g_tx_have_candidate, scan>>
    \/ /\ ~g_tx_connecting
       /\ ~g_tx_have_candidate
       /\ range_test_scan_start
       /\ UNCHANGED <<g_led_state, creating>>

-----------------------------------------------------------------------------
\* The jumpers choose the role, the LED starts searching.
range_test_io_init == role \in Roles /\ g_led_state = "SEARCHING"

Init ==
    /\ range_test_io_init
    /\ boot = "enabling"
    /\ conn = [s \in Slots |-> 0]          \* static storage: all zero
    /\ conn_count = 0
    /\ g_tx_connecting = FALSE
    /\ g_tx_have_candidate = FALSE
    /\ g_tx_target = NoPeer
    /\ g_tx_burst_retry = 0
    /\ g_tx_sending = FALSE
    /\ g_tx_send_conn_idx = 0
    /\ asserted = FALSE
    /\ scan = FALSE
    /\ reports = {}
    /\ stop_inds = 0
    /\ creating = 0
    /\ link = [i \in ConnIdx |-> "down"]
    /\ setup = [i \in ConnIdx |-> "none"]

\* BLE_POWER_ON_IND: hand the work to the main thread through the mailbox.
PowerOnInd ==
    /\ boot = "enabling"
    /\ boot' = "posted"
    /\ UNCHANGED <<role, appVars, stackVars>>

\* main(): the mailbox message arrives, the roles part.
MainPowerOn ==
    /\ boot = "posted"
    /\ boot' = "on"
    /\ conn' = [s \in Slots |-> Free]
    /\ \/ /\ role = "RX"
          /\ UNCHANGED <<g_tx_connecting, g_tx_have_candidate, scan>>
       \/ /\ role = "TX"
          /\ range_test_scan_start
    /\ UNCHANGED <<role, conn_count, g_tx_target, g_tx_burst_retry, sender, g_led_state,
                   asserted, reports, stop_inds, creating, links>>

\* BLE_GAP_CREATE_CONNECTION_CNF with an error status.
CreateConnectionCnf ==
    /\ creating > 0
    /\ creating' = creating - 1
    /\ role = "TX"
    /\ g_led_state' = "SEARCHING"
    /\ range_test_scan_start
    /\ UNCHANGED <<role, boot, table, g_tx_target, g_tx_burst_retry, sender,
                   reports, stop_inds, links>>

\* BLE_GAP_EXT_ADV_REPORT_IND from a board that carries the name searched for.
ExtAdvReport(p) ==
    /\ p \in reports
    /\ reports' = reports \ {p}
    /\ \/ /\ role = "TX"
          /\ ~g_tx_connecting
          /\ ~g_tx_have_candidate
          /\ g_tx_target' = p
          /\ g_tx_have_candidate' = TRUE
          /\ scan' = FALSE
          /\ stop_inds' = stop_inds + 1
       \/ /\ g_tx_connecting \/ g_tx_have_candidate
          /\ UNCHANGED <<g_tx_target, g_tx_have_candidate, scan, stop_inds>>
    /\ UNCHANGED <<role, boot, table, g_tx_connecting, g_tx_burst_retry, sender,
                   g_led_state, creating, links>>

\* BLE_GAP_SCAN_STOPPED_IND.
ScanStopped ==
    /\ stop_inds > 0
    /\ stop_inds' = stop_inds - 1
    /\ role = "TX"
    /\ range_tx_scan_decide
    /\ UNCHANGED <<role, boot, table, g_tx_target, g_tx_burst_retry, sender, reports, links>>

\* ble_app_device_connected: take the first free slot, or fail the assertion.
ble_app_device_connected(idx) ==
    \/ /\ \E s \in Slots :
            /\ IsDev(s, Free)
            /\ conn' = [conn EXCEPT ![s] = idx]
       /\ conn_count' = conn_count + 1
       /\ UNCHANGED asserted
    \/ /\ ~HasDev(Free)
       /\ asserted' = TRUE
       /\ UNCHANGED <<conn, conn_count>>

Full == conn_count = MaxConn

\* CONNECTION_MANAGER_CONNCTED_IND for a link the stack has just set up: the
\* one requested by a TX, or one from any central that found an RX.
Connected(idx) ==
    /\ boot = "on"
    /\ link[idx] = "down"
    /\ \/ role = "RX" /\ creating' = creating
       \/ role = "TX" /\ creating > 0 /\ creating' = creating - 1
    /\ \/ /\ Full                        \* refused: ble_gap_disconnect
          /\ link' = [link EXCEPT ![idx] = "refused"]
          /\ UNCHANGED <<table, g_led_state, setup>>
       \/ /\ ~Full
          /\ ble_app_device_connected(idx)
          /\ g_led_state' = "CONNECTED"
          /\ link' = [link EXCEPT ![idx] = "up"]
          /\ setup' = [setup EXCEPT ![idx] = "mtu"]
    /\ UNCHANGED <<role, boot, g_tx_connecting, g_tx_have_candidate, g_tx_target,
                   g_tx_burst_retry, sender, scan, reports, stop_inds>>

\* SIBLES_MTU_EXCHANGE_IND.
MtuExchange(idx) ==
    /\ setup[idx] = "mtu"
    /\ HasDev(idx)
    /\ g_tx_burst_retry' = 0
    /\ setup' = [setup EXCEPT ![idx] = IF role = "TX" THEN "search" ELSE "none"]
    /\ UNCHANGED <<role, boot, table, g_tx_connecting, g_tx_have_candidate, g_tx_target,
                   sender, g_led_state, scan, reports, stop_inds, creating, link>>

\* SIBLES_SEARCH_SVC_RSP: the service was found and is registered, or the
\* answer is an error, another service, or lacks the characteristic.
SearchSvcRsp(idx) ==
    /\ setup[idx] = "search"
    /\ HasDev(idx)
    /\ \E next \in {"register", "none"} : setup' = [setup EXCEPT ![idx] = next]
    /\ UNCHANGED <<role, boot, appVars, scan, reports, stop_inds, creating, link>>

\* SIBLES_REGISTER_REMOTE_SVC_RSP: on success the send thread is let go.
RegisterRemoteSvcRsp(idx) ==
    /\ setup[idx] = "register"
    /\ \/ /\ g_tx_send_conn_idx' = idx
          /\ g_tx_sending' = TRUE
          /\ setup' = [setup EXCEPT ![idx] = "ready"]
       \/ /\ UNCHANGED sender
          /\ setup' = [setup EXCEPT ![idx] = "none"]
    /\ UNCHANGED <<role, boot, table, g_tx_connecting, g_tx_have_candidate, g_tx_target,
                   g_tx_burst_retry, g_led_state, scan, reports, stop_inds, creating, link>>

\* Broken variant: the retry is not counted.
RetryUncounted ==
    /\ g_tx_connecting' = TRUE
    /\ g_led_state' = "CONNECTING"
    /\ range_test_connect
    /\ UNCHANGED <<g_tx_burst_retry, g_tx_have_candidate, scan>>

\* The TX part of BLE_GAP_DISCONNECTED_IND: a link that never got established
\* (reason 62) is retried at once, any other loss goes back to scanning.
Retry ==
    /\ g_tx_burst_retry' = g_tx_burst_retry + 1
    /\ g_tx_connecting' = TRUE
    /\ g_led_state' = "CONNECTING"
    /\ range_test_connect
    /\ UNCHANGED <<g_tx_have_candidate, scan>>

\* Broken variant: the candidate is kept, so that no report is looked at any more.
RescanCandidateKept ==
    /\ g_tx_burst_retry' = 0
    /\ g_led_state' = "SEARCHING"
    /\ g_tx_connecting' = FALSE
    /\ scan' = TRUE
    /\ UNCHANGED <<g_tx_have_candidate, creating>>

Rescan ==
    /\ g_tx_burst_retry' = 0
    /\ g_led_state' = "SEARCHING"
    /\ range_test_scan_start
    /\ UNCHANGED creating

MayRetry(reason62) ==
    reason62 /\ g_tx_have_candidate /\ g_tx_burst_retry < BurstMax

AfterLoss(reason62) ==
    \/ /\ role = "TX" /\ MayRetry(reason62)
       /\ Retry
    \/ /\ role = "TX" /\ ~MayRetry(reason62)
       /\ Rescan
    \/ /\ role = "RX"
       /\ g_led_state' = "SEARCHING"
       /\ UNCHANGED <<g_tx_burst_retry, g_tx_connecting, g_tx_have_candidate, scan, creating>>

\* Broken variant: the link's slot is freed but still counted.
SlotFreedCountKept(idx) ==
    /\ \E s \in Slots : IsDev(s, idx) /\ conn' = [conn EXCEPT ![s] = Free]
    /\ UNCHANGED conn_count

ble_app_deivce_disconnected(idx) ==
    /\ \E s \in Slots : IsDev(s, idx) /\ conn' = [conn EXCEPT ![s] = Free]
    /\ conn_count' = conn_count - 1

LoseLink(idx, reason62) ==
    /\ ble_app_deivce_disconnected(idx)
    /\ g_tx_sending' = FALSE
    /\ AfterLoss(reason62)
    /\ UNCHANGED <<g_tx_target, g_tx_send_conn_idx, asserted>>

\* BLE_GAP_DISCONNECTED_IND.  A procedure of the link that is still under way ends
\* with it: no answer to its search or registration comes afterwards.  This is the
\* stack's promise; main.c:398-402 looks at neither the slot nor the link.
Disconnected(idx, reason62) ==
    /\ link[idx] # "down"
    /\ link' = [link EXCEPT ![idx] = "down"]
    /\ setup' = [setup EXCEPT ![idx] = "none"]
    /\ \/ /\ ~HasDev(idx)
          /\ UNCHANGED appVars
          /\ UNCHANGED <<scan, creating>>
       \/ LoseLink(idx, reason62)
    /\ UNCHANGED <<role, boot, reports, stop_inds>>

-----------------------------------------------------------------------------
(* The stack and the air.                                                  *)

\* A running scanner hears a peer.
StackReport(p) ==
    /\ scan
    /\ p \notin reports
    /\ reports' = reports \cup {p}
    /\ UNCHANGED <<role, boot, appVars, scan, stop_inds, creating, links>>

\* The stack ends a scan by itself; one such indication at a time is under way.
StackStopScan ==
    /\ scan
    /\ stop_inds = 0
    /\ scan' = FALSE
    /\ stop_inds' = 1
    /\ UNCHANGED <<role, boot, appVars, reports, creating, links>>

-----------------------------------------------------------------------------
Handlers ==
    \/ PowerOnInd
    \/ MainPowerOn
    \/ CreateConnectionCnf
    \/ \E p \in Peers : ExtAdvReport(p)
    \/ ScanStopped
    \/ \E idx \in ConnIdx :
         \/ Connected(idx)
         \/ MtuExchange(idx)
         \/ SearchSvcRsp(idx)
         \/ RegisterRemoteSvcRsp(idx)
         \/ \E reason62 \in BOOLEAN : Disconnected(idx, reason62)

Stack == StackStopScan \/ \E p \in Peers : StackReport(p)

Next == ~asserted /\ (Handlers \/ Stack)

Spec == Init /\ [][Next]_vars

FlagsOK ==
    /\ g_tx_connecting \in BOOLEAN
    /\ g_tx_have_candidate \in BOOLEAN
    /\ g_tx_sending \in BOOLEAN
    /\ asserted \in BOOLEAN
    /\ scan \in BOOLEAN

TypeOK ==
    /\ FlagsOK
    /\ role \in Roles
    /\ boot \in {"enabling", "posted", "on"}
    /\ conn \in [Slots -> ConnIdx \cup {0, Free}]
    /\ conn_count \in 0 .. MaxConn
    /\ g_tx_target \in Peers \cup {NoPeer}
    /\ g_tx_burst_retry \in 0 .. BurstMax
    /\ g_tx_send_conn_idx \in ConnIdx \cup {0}
    /\ g_led_state \in {"SEARCHING", "CONNECTING", "CONNECTED"}
    /\ reports \subseteq Peers
    /\ stop_inds \in Nat
    /\ creating \in Nat
    /\ link \in [ConnIdx -> {"down", "up", "refused"}]
    /\ setup \in [ConnIdx -> {"none", "mtu", "search", "register", "ready"}]

-----------------------------------------------------------------------------
(* What makes the link manager correct.                                    *)

Live == {i \in ConnIdx : link[i] # "down"}
Up   == {i \in ConnIdx : link[i] = "up"}

\* The table holds exactly the links the stack has up and the application has
\* accepted, each in one slot, and conn_count counts them: conn_count and
\* conn[] are updated by different lines of ble_app_device_connected and
\* ble_app_deivce_disconnected, and the refusal at main.c:593 tests only the count.
TableMatchesStack ==
    boot = "on" =>
        /\ conn_count = Cardinality(Used)
        /\ \A s, t \in Used : conn[s] = conn[t] => s = t
        /\ {conn[s] : s \in Used} = Up

\* RT_ASSERT(0) at main.c:296 is never reached: a connection that passes the
\* test of conn_count always finds a free slot.
NoAssert == ~asserted

\* A TX never has two connection requests or links at a time, and
\* g_tx_connecting is set exactly while it has one, whatever the order in which
\* stale reports, stop indications, refusals and losses arrive.
TxSingleLink ==
    role = "TX" =>
        /\ creating + Cardinality(Live) <= 1
        /\ g_tx_connecting <=> creating + Cardinality(Live) = 1

\* A TX always has something that will wake it again: a running scan, a stop
\* indication to come, a request to be answered or a link that can be lost.
TxNeverStuck ==
    role = "TX" /\ boot = "on" =>
        scan \/ stop_inds > 0 \/ creating > 0 \/ Live # {}

\* The LED tells the truth (README.md:36-41): a TX shows CONNECTED, CONNECTING
\* or SEARCHING as its link is up, requested or absent, and an RX without a
\* link never shows CONNECTED.
LedTruthful ==
    /\ role = "TX" => g_led_state = IF conn_count > 0 THEN "CONNECTED"
                                    ELSE IF g_tx_connecting THEN "CONNECTING"
                                    ELSE "SEARCHING"
    /\ role = "RX" /\ conn_count = 0 => g_led_state = "SEARCHING"

\* The send thread is let go only on a link whose service is registered, and
\* is stopped with it: g_tx_send_conn_idx never names a link that is gone.
SendingOnlyWhenReady ==
    g_tx_sending =>
        /\ role = "TX"
        /\ g_tx_send_conn_idx \in Up
        /\ setup[g_tx_send_conn_idx] = "ready"

-----------------------------------------------------------------------------
(* The inductive strengthening of the invariants above.                    *)

\* Nothing happens before the power-on message is handled.
Quiet ==
    boot # "on" =>
        /\ conn_count = 0
        /\ ~g_tx_connecting
        /\ ~scan /\ reports = {} /\ stop_inds = 0 /\ creating = 0
        /\ Live = {}

\* Only a link that is up waits for an answer, and only a TX goes past the MTU
\* exchange; a TX never refuses a link.
SetupInv ==
    \A i \in ConnIdx :
        /\ setup[i] # "none" => link[i] = "up"
        /\ setup[i] \in {"search", "register", "ready"} => role = "TX"
        /\ role = "TX" => link[i] # "refused"

\* TxSingleLink by cases: nothing, one request, or one link.
TxPhase ==
    role = "TX" =>
        \/ ~g_tx_connecting /\ creating = 0 /\ Live = {}
        \/ g_tx_connecting /\ creating = 1 /\ Live = {}
        \/ g_tx_connecting /\ creating = 0 /\ \E i \in ConnIdx : Live = {i}

\* An idle TX is scanning or about to be told that the scan has stopped.
ScanInv ==
    role = "TX" /\ boot = "on" /\ ~g_tx_connecting => scan \/ stop_inds > 0

RangeInv ==
    /\ TypeOK
    /\ Quiet
    /\ TableMatchesStack
    /\ NoAssert
    /\ SetupInv
    /\ TxPhase
    /\ ScanInv
    /\ SendingOnlyWhenReady
    /\ LedTruthful

-----------------------------------------------------------------------------
(* A TX within reach of an RX gets its link back (README.md:50).  The BLE  *)
(* task delivers what the stack reports (weak fairness of the handlers); a *)
(* scanner that keeps scanning hears the peer and a request repeated for   *)
(* ever succeeds some time (strong fairness: the peer is in reach).        *)

Fairness ==
    /\ WF_vars(PowerOnInd)
    /\ WF_vars(MainPowerOn)
    /\ WF_vars(ScanStopped)
    /\ \A p \in Peers : WF_vars(ExtAdvReport(p))
    /\ SF_vars(\E p \in Peers : StackReport(p))
    /\ SF_vars(\E idx \in ConnIdx : Connected(idx))

\* From any moment without a link a TX comes to have one.
Reconnects == role = "TX" /\ conn_count = 0 ~> conn_count > 0
=============================================================================
