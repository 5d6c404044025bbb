-------------------------- MODULE RangeTestProofs --------------------------
(***************************************************************************)
(* RangeInv is inductive, for every number of slots, every set of link     *)
(* numbers, every set of peers and every number of retries; the safety     *)
(* invariants of RangeTest follow from it.  RetriesInv and SendInv, about  *)
(* chains of retries and about the send thread, are inductive beside it.   *)
(***************************************************************************)
EXTENDS RangeSend, FiniteSetTheorems, TLAPS

USE RangeAssumption

-----------------------------------------------------------------------------
(* Facts about the table.                                                  *)

\* The slots are as many as MaxConn says.
LEMMA SlotsFinite == IsFiniteSet(Slots) /\ Cardinality(Slots) = MaxConn
<1>1. 0 \in Int /\ MaxConn - 1 \in Int
  OBVIOUS
<1>2. MaxConn - 1 >= 0 - 1
  OBVIOUS
<1> QED  BY <1>1, <1>2, FS_Interval DEF Slots

LEMMA UsedFinite == IsFiniteSet(Used) /\ Cardinality(Used) <= MaxConn
  BY SlotsFinite, FS_Subset DEF Used

\* A table that is not full has a free slot, which RT_ASSERT(0) relies on.
LEMMA FreeSlotExists ==
  ASSUME TypeOK, conn_count = Cardinality(Used), ~HasDev(Free)
  PROVE  conn_count = MaxConn
  BY SlotsFinite DEF Used, HasDev

\* A table that counts no link has none.
LEMMA EmptyTable ==
  ASSUME boot = "on", TableMatchesStack
  PROVE  conn_count = 0 <=> Up = {}
<1>1. Cardinality(Used) = 0 <=> Used = {}
  BY UsedFinite, FS_EmptySet
<1>2. Used = {} <=> Up = {}
  BY DEF TableMatchesStack
<1> QED  BY <1>1, <1>2 DEF TableMatchesStack

-----------------------------------------------------------------------------
(* The table through the two handlers that change it.                      *)

\* A link that is accepted gets one slot of its own, and is counted.
LEMMA AcceptKeepsTable ==
  ASSUME RangeInv, boot = "on", NEW idx \in ConnIdx, link[idx] = "down",
         conn_count # MaxConn, ble_app_device_connected(idx),
         link' = [link EXCEPT ![idx] = "up"], boot' = boot
  PROVE  TableMatchesStack' /\ NoAssert' /\ conn_count' = conn_count + 1
         /\ conn' \in [Slots -> ConnIdx \cup {0, Free}]
<1> USE DEF RangeInv, TypeOK
<1>1. conn_count = Cardinality(Used) /\ {conn[s] : s \in Used} = Up
  BY DEF TableMatchesStack
<1>2. PICK s \in Slots : IsDev(s, Free) /\ conn' = [conn EXCEPT ![s] = idx]
  BY <1>1, FreeSlotExists DEF ble_app_device_connected
<1>3. conn_count' = conn_count + 1 /\ asserted' = asserted
  BY <1>1, FreeSlotExists DEF ble_app_device_connected
<1>4. Used' = Used \cup {s} /\ s \notin Used
  BY <1>2 DEF Used, IsDev
<1>5. Cardinality(Used') = Cardinality(Used) + 1
  BY <1>4, UsedFinite, FS_AddElement
<1>6. idx \notin Up /\ Up' = Up \cup {idx}
  BY DEF Up
<1>7. \A t \in Used : conn'[t] = conn[t] /\ conn[t] \in Up
  BY <1>1, <1>2, <1>4 DEF Used
<1>8. conn'[s] = idx
  BY <1>2
<1>9. {conn'[t] : t \in Used'} = Up'
  BY <1>1, <1>4, <1>6, <1>7, <1>8
<1>10. \A t, u \in Used' : conn'[t] = conn'[u] => t = u
  BY <1>4, <1>6, <1>7, <1>8 DEF TableMatchesStack
<1> QED  BY <1>1, <1>2, <1>3, <1>5, <1>9, <1>10 DEF TableMatchesStack, NoAssert

\* A link that is lost gives its slot back, and is counted no more.
LEMMA LossKeepsTable ==
  ASSUME RangeInv, boot = "on", NEW idx \in ConnIdx,
         ble_app_deivce_disconnected(idx),
         link' = [link EXCEPT ![idx] = "down"], boot' = boot
  PROVE  TableMatchesStack' /\ conn_count' = conn_count - 1 /\ conn_count > 0
         /\ conn' \in [Slots -> ConnIdx \cup {0, Free}]
<1> USE DEF RangeInv, TypeOK
<1>1. conn_count = Cardinality(Used) /\ {conn[s] : s \in Used} = Up
  BY DEF TableMatchesStack
<1>2. PICK s \in Slots : IsDev(s, idx) /\ conn' = [conn EXCEPT ![s] = Free]
  BY DEF ble_app_deivce_disconnected
<1>3. conn_count' = conn_count - 1
  BY DEF ble_app_deivce_disconnected
<1>4. s \in Used /\ conn[s] = idx /\ Used' = Used \ {s}
  BY <1>2 DEF Used, IsDev
<1>5. Cardinality(Used') = Cardinality(Used) - 1
  BY <1>4, UsedFinite, FS_RemoveElement
<1>6. Cardinality(Used) # 0
  BY <1>4, UsedFinite, FS_EmptySet
<1>7. Up' = Up \ {idx}
  BY DEF Up
<1>8. \A t \in Used' : conn'[t] = conn[t] /\ conn[t] # idx
  BY <1>2, <1>4 DEF TableMatchesStack
<1>9. {conn'[t] : t \in Used'} = Up'
  BY <1>1, <1>4, <1>7, <1>8
<1>10. \A t, u \in Used' : conn'[t] = conn'[u] => t = u
  BY <1>4, <1>8 DEF TableMatchesStack
<1> QED  BY <1>1, <1>2, <1>3, <1>5, <1>6, <1>9, <1>10 DEF TableMatchesStack

\* The table invariant reads only boot, conn, conn_count and the links that are up.
LEMMA TableFrame ==
  ASSUME RangeInv, UNCHANGED <<boot, conn, conn_count, asserted>>, Up' = Up
  PROVE  TableMatchesStack' /\ NoAssert'
  BY DEF RangeInv, TableMatchesStack, NoAssert, Used

-----------------------------------------------------------------------------
(* The inductive invariant.                                                *)

LEMMA InitInv == Init => RangeInv
<1> SUFFICES ASSUME Init PROVE RangeInv
  OBVIOUS
<1>1. Live = {}
  BY DEF Init, range_test_io_init, Live
<1>2. conn \in [Slots -> ConnIdx \cup {0, Free}] /\ conn_count \in 0 .. MaxConn
  BY DEF Init, range_test_io_init
<1>3. FlagsOK
  BY DEF Init, range_test_io_init, FlagsOK
<1>4. TypeOK
  BY <1>2, <1>3 DEF Init, range_test_io_init, TypeOK
<1> QED
  BY <1>1, <1>4 DEF Init, range_test_io_init, RangeInv, Quiet, TableMatchesStack, NoAssert,
                    SetupInv, TxPhase, ScanInv, SendingOnlyWhenReady, LedTruthful

\* The handlers that leave the links alone: power-on, scanning, refused requests.
LEMMA ScanStepInv ==
  ASSUME RangeInv,
         \/ PowerOnInd
         \/ CreateConnectionCnf
         \/ \E p \in Peers : ExtAdvReport(p)
         \/ ScanStopped
         \/ Stack
  PROVE  RangeInv'
<1> USE DEF RangeInv
<1> DEFINE Frame == UNCHANGED <<role, conn, conn_count, asserted, sender, links>>
<1>1. Frame
  BY DEF PowerOnInd, CreateConnectionCnf, ExtAdvReport, ScanStopped, Stack, StackReport,
         StackStopScan, appVars, stackVars, table, links, sender
<1>2. boot' = boot \/ (boot' # "on" /\ boot # "on")
  BY DEF PowerOnInd, CreateConnectionCnf, ExtAdvReport, ScanStopped, Stack, StackReport,
         StackStopScan, appVars, stackVars
<1>3. Live' = Live /\ Up' = Up /\ Used' = Used
  BY <1>1 DEF Live, Up, Used, links
<1>4. TableMatchesStack' /\ NoAssert'
  BY <1>1, <1>2, <1>3 DEF TableMatchesStack, NoAssert
<1>5. SetupInv' /\ SendingOnlyWhenReady'
  BY <1>1, <1>3 DEF SetupInv, SendingOnlyWhenReady, links, sender
<1>6. boot = "on" => (conn_count = 0 <=> Up = {})
  BY EmptyTable
<1>7. role = "TX" => Up = Live
  BY DEF SetupInv, Up, Live, TypeOK
<1>8. FlagsOK'
  BY <1>1 DEF FlagsOK, TypeOK, PowerOnInd, CreateConnectionCnf, ExtAdvReport, ScanStopped, Stack,
              StackReport, StackStopScan, appVars, stackVars, sender, range_test_scan_start,
              range_tx_scan_decide
<1>9. TypeOK' /\ Quiet' /\ TxPhase' /\ ScanInv' /\ LedTruthful'
  <2>1. CASE PowerOnInd
    BY <2>1, <1>1, <1>3, <1>8 DEF PowerOnInd, TypeOK, Quiet, TxPhase, ScanInv, LedTruthful, appVars,
                            stackVars, links, sender
  <2>2. CASE CreateConnectionCnf
    <3>1. role = "TX" /\ boot = "on" /\ creating = 1 /\ Live = {} /\ creating' = 0
      BY <2>2 DEF CreateConnectionCnf, Quiet, TxPhase, TypeOK
    <3>2. conn_count = 0
      BY <3>1, <1>6, <1>7
    <3>3. ~g_tx_connecting' /\ ~g_tx_have_candidate' /\ scan' /\ g_led_state' = "SEARCHING"
          /\ UNCHANGED <<role, boot, g_tx_target, g_tx_burst_retry, reports, stop_inds>>
      BY <2>2 DEF CreateConnectionCnf, range_test_scan_start
    <3>4. TypeOK'
      BY <1>1, <1>8, <2>2, <3>1, <3>3 DEF TypeOK, links, sender, CreateConnectionCnf, range_test_scan_start
    <3> QED
      BY <1>1, <1>3, <3>1, <3>2, <3>3, <3>4 DEF Quiet, TxPhase, ScanInv, LedTruthful
  <2>3. ASSUME NEW p \in Peers, ExtAdvReport(p)
        PROVE  TypeOK' /\ Quiet' /\ TxPhase' /\ ScanInv' /\ LedTruthful'
    BY <2>3, <1>1, <1>3, <1>8 DEF ExtAdvReport, TypeOK, Quiet, TxPhase, ScanInv, LedTruthful, links, sender
  <2>4. CASE ScanStopped /\ g_tx_connecting
    BY <2>4, <1>1, <1>3, <1>8 DEF ScanStopped, range_tx_scan_decide, TypeOK, Quiet, TxPhase, ScanInv,
                            LedTruthful, links, sender
  <2>5. CASE ScanStopped /\ ~g_tx_connecting
    <3>1. role = "TX" /\ creating = 0 /\ Live = {} /\ boot = "on"
      BY <2>5 DEF ScanStopped, TxPhase, Quiet
    <3>2. conn_count = 0
      BY <3>1, <1>6, <1>7
    <3> QED
      BY <2>5, <3>1, <3>2, <1>1, <1>3, <1>8 DEF ScanStopped, range_tx_scan_decide, range_test_scan_start,
         range_test_connect, TypeOK, Quiet, TxPhase, ScanInv, LedTruthful, links, sender
  <2>6. CASE Stack
    BY <2>6, <1>1, <1>3, <1>8 DEF Stack, StackReport, StackStopScan, TypeOK, Quiet, TxPhase, ScanInv,
                            LedTruthful, appVars, links, sender
  <2> QED  BY <2>1, <2>2, <2>3, <2>4, <2>5, <2>6
<1> QED  BY <1>4, <1>5, <1>9

\* main() clears the table before any link can exist.
LEMMA MainPowerOnInv ==
  ASSUME RangeInv, MainPowerOn
  PROVE  RangeInv'
<1> USE DEF RangeInv
<1>1. /\ boot # "on" /\ boot' = "on" /\ Live = {} /\ conn_count = 0
      /\ ~g_tx_connecting /\ ~g_tx_connecting' /\ creating = 0
      /\ UNCHANGED <<role, conn_count, sender, g_led_state, asserted, creating, links>>
  BY DEF MainPowerOn, Quiet, range_test_scan_start
<1>2. Live' = {} /\ Up' = {} /\ Up = {} /\ Used' = {}
  BY <1>1 DEF MainPowerOn, Live, Up, Used, links
<1>3. Cardinality(Used') = 0
  BY <1>2, FS_EmptySet
<1>4. ~g_tx_sending /\ ~g_tx_sending'
  BY <1>1, <1>2 DEF SendingOnlyWhenReady, sender
<1>5. TableMatchesStack' /\ NoAssert'
  BY <1>1, <1>2, <1>3 DEF TableMatchesStack, NoAssert
<1>6. FlagsOK'
  BY DEF MainPowerOn, FlagsOK, TypeOK, sender, range_test_scan_start
<1>7. conn' \in [Slots -> ConnIdx \cup {0, Free}]
  BY DEF MainPowerOn
<1>8. TypeOK'
  BY <1>6, <1>7 DEF MainPowerOn, TypeOK, sender, links
<1>9. Quiet' /\ SetupInv' /\ TxPhase' /\ ScanInv'
  BY <1>1, <1>2 DEF Quiet, SetupInv, TxPhase, ScanInv, links, MainPowerOn, range_test_scan_start
<1>10. SendingOnlyWhenReady' /\ LedTruthful'
  BY <1>1, <1>4 DEF SendingOnlyWhenReady, LedTruthful
<1> QED  BY <1>5, <1>8, <1>9, <1>10

\* A TX that has asked for a link has none, and so is never full.
LEMMA TxNotFull ==
  ASSUME RangeInv, boot = "on", role = "TX", creating > 0
  PROVE  conn_count = 0 /\ ~Full /\ Live = {} /\ creating = 1 /\ g_tx_connecting
<1>1. creating = 1 /\ Live = {} /\ g_tx_connecting
  BY DEF RangeInv, TxPhase, TypeOK
<1>2. Up = {}
  BY <1>1 DEF Up, Live
<1> QED  BY <1>1, <1>2, EmptyTable DEF RangeInv, Full

LEMMA ConnectedInv ==
  ASSUME RangeInv, NEW idx \in ConnIdx, Connected(idx)
  PROVE  RangeInv'
<1> USE DEF RangeInv
<1>1. /\ boot = "on" /\ boot' = "on" /\ role' = role /\ link[idx] = "down"
      /\ UNCHANGED <<g_tx_connecting, g_tx_have_candidate, g_tx_target,
                     g_tx_burst_retry, g_tx_sending, g_tx_send_conn_idx, scan, reports, stop_inds>>
  BY DEF Connected, sender
<1>2. SendingOnlyWhenReady => (g_tx_sending => g_tx_send_conn_idx # idx)
  BY <1>1 DEF SendingOnlyWhenReady, Up
<1>3. FlagsOK'
  BY <1>1 DEF TypeOK, FlagsOK, Connected, table, ble_app_device_connected
<1>4. CASE Full
  <2>1. /\ link' = [link EXCEPT ![idx] = "refused"]
        /\ UNCHANGED <<conn, conn_count, asserted, g_led_state, setup>>
    BY <1>4 DEF Connected, table
  <2>2. Up' = Up /\ Used' = Used
    BY <1>1, <2>1 DEF Up, Used, TypeOK
  <2>3. role = "RX" /\ creating' = creating
    BY <1>1, <1>4, TxNotFull DEF Connected, TypeOK
  <2>4. TableMatchesStack' /\ NoAssert'
    BY <1>1, <2>1, <2>2 DEF TableMatchesStack, NoAssert
  <2>5. TypeOK'
    BY <1>1, <1>3, <2>1, <2>3 DEF TypeOK
  <2>6. Quiet' /\ SetupInv' /\ TxPhase' /\ ScanInv' /\ LedTruthful'
    BY <1>1, <2>1, <2>3 DEF Quiet, SetupInv, TxPhase, ScanInv, LedTruthful, TypeOK
  <2>7. SendingOnlyWhenReady'
    BY <1>1, <2>1, <2>2 DEF SendingOnlyWhenReady
  <2> QED  BY <2>4, <2>5, <2>6, <2>7
<1>5. CASE ~Full
  <2>1. /\ ble_app_device_connected(idx) /\ conn_count # MaxConn
        /\ g_led_state' = "CONNECTED"
        /\ link' = [link EXCEPT ![idx] = "up"]
        /\ setup' = [setup EXCEPT ![idx] = "mtu"]
    BY <1>5 DEF Connected, Full
  <2>2. TableMatchesStack' /\ NoAssert' /\ conn_count' = conn_count + 1
        /\ conn' \in [Slots -> ConnIdx \cup {0, Free}]
    BY <1>1, <2>1, AcceptKeepsTable
  <2>4. creating' \in Nat
    BY DEF Connected, TypeOK
  <2>5. TypeOK'
    BY <1>1, <1>3, <2>1, <2>2, <2>4 DEF TypeOK
  <2>6. SetupInv'
    BY <1>1, <2>1 DEF SetupInv, TypeOK
  <2>7. role = "TX" => /\ Live' = {idx} /\ creating' = 0 /\ g_tx_connecting'
                       /\ conn_count = 0
    BY <1>1, <2>1, TxNotFull DEF Connected, Live, TypeOK
  <2>8. Quiet' /\ TxPhase' /\ ScanInv'
    BY <1>1, <2>7 DEF Quiet, TxPhase, ScanInv
  <2>9. LedTruthful'
    BY <1>1, <2>1, <2>2 DEF LedTruthful, TypeOK
  <2>10. SendingOnlyWhenReady'
    BY <1>1, <1>2, <2>1 DEF SendingOnlyWhenReady, Up, TypeOK
  <2> QED  BY <2>2, <2>5, <2>6, <2>8, <2>9, <2>10
<1> QED  BY <1>4, <1>5

\* MTU exchange, service search and registration change only the link's setup,
\* the retry counter and the flags of the send thread.
LEMMA SetupStepInv ==
  ASSUME RangeInv, NEW idx \in ConnIdx,
         MtuExchange(idx) \/ SearchSvcRsp(idx) \/ RegisterRemoteSvcRsp(idx)
  PROVE  RangeInv'
<1> USE DEF RangeInv
<1>1. UNCHANGED <<role, boot, conn, conn_count, asserted, g_tx_connecting, g_tx_have_candidate,
                  g_tx_target, g_led_state, scan, reports, stop_inds, creating, link>>
  BY DEF MtuExchange, SearchSvcRsp, RegisterRemoteSvcRsp, table, appVars
<1>2. Live' = Live /\ Up' = Up /\ Used' = Used
  BY <1>1 DEF Live, Up, Used
<1>3. TableMatchesStack' /\ NoAssert' /\ Quiet' /\ TxPhase' /\ ScanInv' /\ LedTruthful'
  BY <1>1, <1>2 DEF TableMatchesStack, NoAssert, Quiet, TxPhase, ScanInv, LedTruthful
<1>4. FlagsOK'
  BY <1>1 DEF TypeOK, FlagsOK, MtuExchange, SearchSvcRsp, RegisterRemoteSvcRsp, sender, appVars
<1>5. link[idx] = "up" /\ (setup[idx] # "mtu" => role = "TX")
  BY DEF SetupInv, TypeOK, MtuExchange, SearchSvcRsp, RegisterRemoteSvcRsp
<1>6. PICK next \in {"none", "search", "register", "ready"} :
        /\ setup' = [setup EXCEPT ![idx] = next]
        /\ next # "none" => role = "TX"
  BY <1>5 DEF SetupInv, MtuExchange, SearchSvcRsp, RegisterRemoteSvcRsp
<1>7. TypeOK'
  BY <1>1, <1>4, <1>6 DEF TypeOK, MtuExchange, SearchSvcRsp, RegisterRemoteSvcRsp, sender, appVars
<1>8. SetupInv'
  BY <1>1, <1>5, <1>6 DEF SetupInv, TypeOK
<1>9. SendingOnlyWhenReady'
  <2>1. CASE RegisterRemoteSvcRsp(idx) /\ setup'[idx] = "ready"
    BY <1>1, <1>2, <1>5, <2>1 DEF SendingOnlyWhenReady, RegisterRemoteSvcRsp, Up, TypeOK
  <2>2. CASE ~(RegisterRemoteSvcRsp(idx) /\ setup'[idx] = "ready")
    <3>1. UNCHANGED sender /\ setup[idx] # "ready"
      BY <1>6, <2>2 DEF MtuExchange, SearchSvcRsp, RegisterRemoteSvcRsp, appVars, sender, TypeOK
    <3> QED
      BY <1>1, <1>2, <1>6, <3>1 DEF SendingOnlyWhenReady, sender, TypeOK, Up
  <2> QED  BY <2>1, <2>2
<1> QED  BY <1>3, <1>7, <1>8, <1>9

LEMMA DisconnectedInv ==
  ASSUME RangeInv, NEW idx \in ConnIdx, NEW reason62 \in BOOLEAN, Disconnected(idx, reason62)
  PROVE  RangeInv'
<1> USE DEF RangeInv
<1>1. /\ link[idx] # "down" /\ boot = "on"
      /\ link' = [link EXCEPT ![idx] = "down"]
      /\ setup' = [setup EXCEPT ![idx] = "none"]
      /\ UNCHANGED <<role, boot, reports, stop_inds>>
  BY DEF Disconnected, Quiet, Live
<1>2. Up' = Up \ {idx} /\ Live' = Live \ {idx} /\ idx \in Live
  BY <1>1 DEF Up, Live, TypeOK
<1>3. SetupInv'
  BY <1>1 DEF SetupInv, TypeOK
<1>4. CASE ~HasDev(idx)
  <2>1. UNCHANGED <<conn, conn_count, asserted, g_tx_connecting, g_tx_have_candidate, g_tx_target,
                    g_tx_burst_retry, g_tx_sending, g_tx_send_conn_idx, g_led_state,
                    scan, creating>>
    BY <1>4 DEF Disconnected, appVars, LoseLink, ble_app_deivce_disconnected, IsDev, HasDev
  <2>2. idx \notin Up
    BY <1>1, <1>4 DEF TableMatchesStack, HasDev, Used
  <2>3. role # "TX"
    BY <1>1, <2>2 DEF SetupInv, Up, TypeOK
  <2>4. Up' = Up /\ Used' = Used
    BY <1>2, <2>1, <2>2 DEF Used
  <2>5. TableMatchesStack' /\ NoAssert' /\ SendingOnlyWhenReady'
    BY <1>1, <2>1, <2>3, <2>4 DEF TableMatchesStack, NoAssert, SendingOnlyWhenReady
  <2>6. FlagsOK'
    BY <2>1 DEF TypeOK, FlagsOK
  <2>7. TypeOK'
    BY <1>1, <2>1, <2>6 DEF TypeOK
  <2>8. Quiet' /\ TxPhase' /\ ScanInv' /\ LedTruthful'
    BY <1>1, <2>1, <2>3 DEF Quiet, TxPhase, ScanInv, LedTruthful
  <2> QED  BY <1>3, <2>5, <2>7, <2>8
<1>5. CASE HasDev(idx)
  <2>1. /\ ble_app_deivce_disconnected(idx)
        /\ AfterLoss(reason62)
        /\ g_tx_sending' = FALSE
        /\ UNCHANGED <<g_tx_target, g_tx_send_conn_idx, asserted>>
    BY <1>5 DEF Disconnected, LoseLink
  <2>2. TableMatchesStack' /\ conn_count' = conn_count - 1 /\ conn_count > 0
        /\ conn' \in [Slots -> ConnIdx \cup {0, Free}]
    BY <1>1, <2>1, LossKeepsTable
  <2>3. NoAssert' /\ SendingOnlyWhenReady'
    BY <2>1 DEF NoAssert, SendingOnlyWhenReady
  <2>4. FlagsOK'
    BY <2>1 DEF TypeOK, FlagsOK, AfterLoss, Retry, Rescan, range_test_scan_start
  <2>5. TypeOK'
    BY <1>1, <2>1, <2>2, <2>4
       DEF TypeOK, AfterLoss, MayRetry, Retry, Rescan, range_test_connect, range_test_scan_start
  <2>6. CASE role = "TX"
    <3>1. Live = {idx} /\ creating = 0 /\ g_tx_connecting
      BY <1>2, <2>6 DEF TxPhase, TypeOK
    <3>2. Live' = {} /\ Up' = {}
      BY <1>2, <3>1 DEF Up, Live
    <3>3. Used' = {}
      BY <1>1, <2>2, <3>2 DEF TableMatchesStack
    <3>4. conn_count' = 0
      BY <1>1, <2>2, <3>3, FS_EmptySet DEF TableMatchesStack
    <3>5. TxPhase' /\ ScanInv' /\ LedTruthful'
      BY <1>1, <2>1, <2>6, <3>1, <3>2, <3>4
         DEF TxPhase, ScanInv, LedTruthful, AfterLoss, Retry, Rescan, range_test_connect,
             range_test_scan_start
    <3> QED  BY <1>1, <1>3, <2>2, <2>3, <2>5, <3>5 DEF Quiet
  <2>7. CASE role = "RX"
    <3>1. TxPhase' /\ ScanInv' /\ LedTruthful'
      BY <1>1, <2>1, <2>7 DEF TxPhase, ScanInv, LedTruthful, AfterLoss
    <3> QED  BY <1>1, <1>3, <2>2, <2>3, <2>5, <3>1 DEF Quiet
  <2>8. role \in {"TX", "RX"}
    BY DEF TypeOK
  <2> QED  BY <2>6, <2>7, <2>8
<1> QED  BY <1>4, <1>5

-----------------------------------------------------------------------------
(* The theorems.                                                           *)

\* Every handler of the tester and every step of the stack preserves RangeInv.
LEMMA StepInv == RangeInv /\ [Next]_vars => RangeInv'
<1> SUFFICES ASSUME RangeInv, [Next]_vars PROVE RangeInv'
  OBVIOUS
<1>1. CASE UNCHANGED vars
  <2>1. UNCHANGED <<role, boot, conn, conn_count, g_tx_connecting, g_tx_have_candidate,
          g_tx_target, g_tx_burst_retry, g_tx_sending, g_tx_send_conn_idx, g_led_state,
          asserted, scan, reports, stop_inds, creating, link, setup>>
    BY <1>1 DEF vars, appVars, stackVars
  <2>2. Used' = Used /\ Up' = Up /\ Live' = Live
    BY <2>1 DEF Used, Up, Live
  <2>3. TypeOK' /\ TableMatchesStack' /\ NoAssert' /\ SetupInv'
    BY <2>1, <2>2 DEF RangeInv, TypeOK, FlagsOK, TableMatchesStack, NoAssert, SetupInv
  <2>4. Quiet' /\ TxPhase' /\ ScanInv' /\ SendingOnlyWhenReady' /\ LedTruthful'
    BY <2>1, <2>2 DEF RangeInv, Quiet, TxPhase, ScanInv, SendingOnlyWhenReady, LedTruthful
  <2> QED  BY <2>3, <2>4 DEF RangeInv
<1>2. ASSUME NEW idx \in ConnIdx, Connected(idx)  PROVE RangeInv'
  BY <1>2, ConnectedInv
<1>3. ASSUME NEW idx \in ConnIdx,
             MtuExchange(idx) \/ SearchSvcRsp(idx) \/ RegisterRemoteSvcRsp(idx)
      PROVE  RangeInv'
  BY <1>3, SetupStepInv
<1>4. ASSUME NEW idx \in ConnIdx, NEW reason62 \in BOOLEAN, Disconnected(idx, reason62)
      PROVE  RangeInv'
  BY <1>4, DisconnectedInv
<1>5. CASE MainPowerOn
  BY <1>5, MainPowerOnInv
<1>6. CASE PowerOnInd \/ CreateConnectionCnf \/ (\E p \in Peers : ExtAdvReport(p)) \/ ScanStopped \/ Stack
  BY <1>6, ScanStepInv
<1> QED  BY <1>1, <1>2, <1>3, <1>4, <1>5, <1>6 DEF Next, Handlers

\* RangeInv holds in every reachable state.
THEOREM RangeInvariant == Spec => []RangeInv
<1>1. Init => RangeInv
  BY InitInv
<1>2. RangeInv /\ [Next]_vars => RangeInv'
  BY StepInv
<1> QED  BY <1>1, <1>2, PTL DEF Spec

\* Every variable keeps its type; in particular at most BurstMax retries are counted.
THEOREM TypeCorrect == Spec => []TypeOK
<1>1. RangeInv => TypeOK
  BY DEF RangeInv
<1> QED  BY <1>1, RangeInvariant, PTL

\* The connection table holds exactly the accepted links and conn_count counts
\* them, for any number of slots and links.
THEOREM TableCorrect == Spec => []TableMatchesStack
<1>1. RangeInv => TableMatchesStack
  BY DEF RangeInv
<1> QED  BY <1>1, RangeInvariant, PTL

\* The RT_ASSERT of ble_app_device_connected never fails.
THEOREM AssertNeverFails == Spec => []NoAssert
<1>1. RangeInv => NoAssert
  BY DEF RangeInv
<1> QED  BY <1>1, RangeInvariant, PTL

\* A TX has at most one connection request or link, and g_tx_connecting says so.
THEOREM SingleLink == Spec => []TxSingleLink
<1>1. RangeInv => TxSingleLink
  <2> SUFFICES ASSUME RangeInv, role = "TX"
               PROVE  /\ creating + Cardinality(Live) <= 1
                      /\ g_tx_connecting <=> creating + Cardinality(Live) = 1
    BY DEF TxSingleLink
  <2>1. CASE ~g_tx_connecting /\ creating = 0 /\ Live = {}
    BY <2>1, FS_EmptySet
  <2>2. CASE g_tx_connecting /\ creating = 1 /\ Live = {}
    BY <2>2, FS_EmptySet
  <2>3. CASE g_tx_connecting /\ creating = 0 /\ \E i \in ConnIdx : Live = {i}
    <3>1. PICK i \in ConnIdx : Live = {i}
      BY <2>3
    <3>2. Cardinality(Live) = 1
      BY <3>1, FS_Singleton
    <3> QED  BY <2>3, <3>2
  <2> QED  BY <2>1, <2>2, <2>3 DEF RangeInv, TxPhase
<1> QED  BY <1>1, RangeInvariant, PTL

\* A TX is never left without an event to come.
THEOREM NeverStuck == Spec => []TxNeverStuck
<1>1. RangeInv => TxNeverStuck
  BY DEF RangeInv, TxNeverStuck, TxPhase, ScanInv, TypeOK
<1> QED  BY <1>1, RangeInvariant, PTL

\* The LED shows the state of the link.
THEOREM LedCorrect == Spec => []LedTruthful
<1>1. RangeInv => LedTruthful
  BY DEF RangeInv
<1> QED  BY <1>1, RangeInvariant, PTL

\* The send thread is let go only on the registered service of a link that is up.
THEOREM SendingCorrect == Spec => []SendingOnlyWhenReady
<1>1. RangeInv => SendingOnlyWhenReady
  BY DEF RangeInv
<1> QED  BY <1>1, RangeInvariant, PTL

-----------------------------------------------------------------------------
(* Chains of retries.                                                      *)

LEMMA RetriesInit == HInit => RetriesInv
  BY DEF HInit, Init, RetriesInv

\* Only a retry makes the chain longer, and it is counted; whatever resets the
\* counter ends the chain.
LEMMA RetriesStep ==
  ASSUME RangeInv, RetriesInv, HNext
  PROVE  RetriesInv'
<1> USE DEF RangeInv
<1>1. /\ g_tx_burst_retry \in Nat /\ g_tx_burst_retry' \in Nat
      /\ creating \in Nat /\ creating' \in Nat /\ role' = role
      /\ g_tx_have_candidate' \in BOOLEAN /\ g_tx_have_candidate \in BOOLEAN
  <2>1. RangeInv'
    BY StepInv DEF HNext
  <2>2. role' = role
    BY DEF HNext, Next, Handlers, Stack, PowerOnInd, MainPowerOn, CreateConnectionCnf, ExtAdvReport,
           ScanStopped, Connected, MtuExchange, SearchSvcRsp, RegisterRemoteSvcRsp, Disconnected,
           StackStopScan, StackReport
  <2> QED  BY <2>1, <2>2, RangeAssumption DEF TypeOK, FlagsOK
<1>2. retries' = 0 \/ retries' = retries
      \/ (retries' = retries + 1 /\ creating' > creating /\ conn' # conn)
  BY DEF HNext, RetriesNext
<1>3. retries' \in Nat
  BY <1>1, <1>2 DEF RetriesInv
<1>4. SUFFICES ASSUME retries' > 0
               PROVE  /\ retries' <= g_tx_burst_retry'
                      /\ role = "TX" /\ g_tx_have_candidate'
  BY <1>1, <1>3 DEF RetriesInv
<1>5. CASE creating' > creating /\ conn' # conn
  <2>1. PICK idx \in ConnIdx, reason62 \in BOOLEAN : Disconnected(idx, reason62)
    BY <1>1, <1>5 DEF HNext, Next, Handlers, Stack, PowerOnInd, MainPowerOn, CreateConnectionCnf,
       ExtAdvReport, ScanStopped, Connected, MtuExchange, SearchSvcRsp, RegisterRemoteSvcRsp,
       StackStopScan, StackReport, appVars, stackVars, table
  <2>2. AfterLoss(reason62)
    BY <1>1, <1>5, <2>1 DEF Disconnected, LoseLink, appVars
  <2>3. role = "TX" /\ MayRetry(reason62) /\ Retry
    BY <1>1, <1>5, <2>2 DEF AfterLoss, Rescan
  <2> QED
    BY <1>1, <1>2, <2>3 DEF RetriesInv, MayRetry, Retry
<1>6. CASE ~(creating' > creating /\ conn' # conn)
  <2>1. retries' = retries /\ g_tx_have_candidate' = g_tx_have_candidate
        /\ ~\E i \in ConnIdx : setup[i] = "mtu" /\ setup'[i] = "search"
    BY <1>4, <1>6, <1>1 DEF HNext, RetriesNext
  <2>2. role = "TX" /\ g_tx_have_candidate /\ g_tx_have_candidate'
    BY <1>4, <2>1, <1>1 DEF RetriesInv
  <2>3. g_tx_burst_retry' >= g_tx_burst_retry
    <3>1. CASE \E idx \in ConnIdx : MtuExchange(idx)
      BY <3>1, <2>1, <2>2 DEF MtuExchange, TypeOK
    <3>2. CASE \E idx \in ConnIdx, reason62 \in BOOLEAN : Disconnected(idx, reason62)
      BY <1>1, <3>2, <2>2
         DEF Disconnected, LoseLink, AfterLoss, Retry, Rescan, range_test_scan_start, appVars
    <3>3. CASE UNCHANGED g_tx_burst_retry
      BY <1>1, <3>3
    <3> QED
      BY <3>1, <3>2, <3>3 DEF HNext, Next, Handlers, Stack, PowerOnInd, MainPowerOn,
         CreateConnectionCnf, ExtAdvReport, ScanStopped, Connected, SearchSvcRsp,
         RegisterRemoteSvcRsp, StackStopScan, StackReport, appVars
  <2> QED  BY <1>1, <2>1, <2>2, <2>3 DEF RetriesInv
<1> QED  BY <1>5, <1>6

-----------------------------------------------------------------------------
(* The send thread.                                                        *)

LEMMA SendInit == SInit => SendInv
<1> SUFFICES ASSUME SInit PROVE SendInv
  OBVIOUS
<1>1. \A i \in ConnIdx : setup[i] = "none"
  BY DEF SInit, HInit, Init
<1>2. SendTypeOK
  BY DEF SInit, Locals0, SendTypeOK
<1> QED
  BY <1>1, <1>2 DEF SInit, Locals0, SendInv, HandlesInv, ThreadInv, LateInv, OneLatePacket, Deciding

\* A link that is past its search came there by its own search, and nothing
\* else touches the table meanwhile.
LEMMA SearchedFrame ==
  ASSUME RangeInv, Next, NEW i \in ConnIdx, setup'[i] \in {"register", "ready"}
  PROVE  /\ conn' = conn
         /\ setup[i] \in {"register", "ready"}
            \/ (setup[i] # "register" /\ setup'[i] = "register")
<1> USE DEF RangeInv
<1>1. setup[i] # "none" => role = "TX" \/ setup[i] = "mtu"
  BY DEF SetupInv, TypeOK
<1>2. CASE MainPowerOn
  BY <1>2 DEF MainPowerOn, Quiet, SetupInv, Live, links
<1>3. ASSUME NEW j \in ConnIdx, Connected(j)  PROVE FALSE
  <2>1. setup'[i] = setup[i]
    BY <1>3 DEF Connected, TypeOK
  <2>2. role = "TX" /\ link[i] = "up"
    BY <2>1 DEF SetupInv
  <2>3. creating > 0 /\ boot = "on"
    BY <1>3, <2>2 DEF Connected
  <2> QED  BY <2>2, <2>3, TxNotFull DEF Live
<1>4. ASSUME NEW j \in ConnIdx, MtuExchange(j) \/ SearchSvcRsp(j) \/ RegisterRemoteSvcRsp(j)
      PROVE  /\ conn' = conn
             /\ setup[i] \in {"register", "ready"}
                \/ (setup[i] # "register" /\ setup'[i] = "register")
  BY <1>4 DEF MtuExchange, SearchSvcRsp, RegisterRemoteSvcRsp, table, appVars, TypeOK
<1>5. ASSUME NEW j \in ConnIdx, NEW reason62 \in BOOLEAN, Disconnected(j, reason62)  PROVE FALSE
  <2>1. j # i /\ setup'[i] = setup[i] /\ link[j] # "down"
    BY <1>5 DEF Disconnected, TypeOK
  <2>2. role = "TX" /\ i \in Live /\ j \in Live
    BY <2>1 DEF SetupInv, Live
  <2> QED  BY <2>1, <2>2 DEF TxPhase
<1>6. CASE PowerOnInd \/ CreateConnectionCnf \/ (\E p \in Peers : ExtAdvReport(p)) \/ ScanStopped \/ Stack
  BY <1>6 DEF PowerOnInd, CreateConnectionCnf, ExtAdvReport, ScanStopped, Stack, StackReport,
     StackStopScan, appVars, stackVars, table, links
<1> QED  BY <1>2, <1>3, <1>4, <1>5, <1>6 DEF Next, Handlers

\* While the flag stays set, neither the link number nor the table changes.
LEMMA SendingFrame ==
  ASSUME RangeInv, Next, g_tx_sending, g_tx_sending'
  PROVE  conn' = conn /\ g_tx_send_conn_idx' = g_tx_send_conn_idx
<1> USE DEF RangeInv
<1>1. role = "TX" /\ g_tx_send_conn_idx \in Up /\ setup[g_tx_send_conn_idx] = "ready"
  BY DEF SendingOnlyWhenReady
<1>2. Live = {g_tx_send_conn_idx} /\ creating = 0 /\ boot = "on"
  BY <1>1 DEF TxPhase, Quiet, Up, Live
<1>3. CASE MainPowerOn \/ PowerOnInd
  BY <1>2, <1>3 DEF MainPowerOn, PowerOnInd
<1>4. ASSUME NEW j \in ConnIdx, Connected(j)  PROVE FALSE
  BY <1>1, <1>2, <1>4 DEF Connected
<1>5. ASSUME NEW j \in ConnIdx, MtuExchange(j) \/ SearchSvcRsp(j) \/ RegisterRemoteSvcRsp(j)
      PROVE  FALSE
  <2>1. setup[j] \in {"mtu", "search", "register"}
    BY <1>5 DEF MtuExchange, SearchSvcRsp, RegisterRemoteSvcRsp
  <2>2. j \in Live
    BY <2>1 DEF SetupInv, Live
  <2> QED  BY <1>1, <1>2, <2>1, <2>2
<1>6. ASSUME NEW j \in ConnIdx, NEW reason62 \in BOOLEAN, Disconnected(j, reason62)
      PROVE  conn' = conn /\ g_tx_send_conn_idx' = g_tx_send_conn_idx
  BY <1>6 DEF Disconnected, LoseLink, appVars
<1>7. CASE CreateConnectionCnf \/ (\E p \in Peers : ExtAdvReport(p)) \/ ScanStopped \/ Stack
  BY <1>7 DEF CreateConnectionCnf, ExtAdvReport, ScanStopped, Stack, StackReport,
     StackStopScan, appVars, stackVars, table, sender
<1> QED  BY <1>3, <1>4, <1>5, <1>6, <1>7 DEF Next, Handlers

\* A handler or a step of the stack.
LEMMA LinkStepSend ==
  ASSUME RangeInv, RangeInv', SendInv, LinkStep
  PROVE  SendInv'
<1> USE DEF SendInv
<1>1. Next
  BY DEF LinkStep, HNext
<1>2. /\ value_hdl' = [s \in Slots |-> After(value_hdl[s], s)]
      /\ remote_handle' = [s \in Slots |-> After(remote_handle[s], s)]
      /\ tx_value' = CopyAfter(tx_value)
      /\ UNCHANGED <<tx_idx, tx_slot>>
      /\ tx_pc' = tx_pc \/ (tx_pc = "none" /\ tx_pc' = "rest")
  BY DEF LinkStep, HandlesNext, range_tx_start_send
<1>3. lost' = (lost \/ (g_tx_sending /\ ~g_tx_sending'))
      /\ late' = IF g_tx_sending' # g_tx_sending THEN 0 ELSE late
  BY DEF LinkStep
<1>4. SendTypeOK'
  <2>1. \A s \in Slots : /\ After(value_hdl[s], s) \in {"unset", "own", "old"}
                         /\ After(remote_handle[s], s) \in {"unset", "own", "old"}
    BY DEF After, SendTypeOK
  <2>2. tx_value' \in {"unset", "own", "old"}
    BY <1>2 DEF CopyAfter, SendTypeOK
  <2>3. lost' \in BOOLEAN /\ late' \in Nat
    BY <1>3 DEF SendTypeOK, RangeInv, TypeOK, FlagsOK
  <2> QED
    BY <1>2, <2>1, <2>2, <2>3 DEF SendTypeOK
<1>5. HandlesInv'
  <2> SUFFICES ASSUME NEW i \in ConnIdx, NEW s \in Slots,
                      setup'[i] \in {"register", "ready"}, IsDev(s, i)'
               PROVE  value_hdl'[s] = "own" /\ remote_handle'[s] = "own"
    BY DEF HandlesInv
  <2>1. conn' = conn /\ ~Leaves(s) /\ IsDev(s, i)
    BY <1>1, SearchedFrame DEF Leaves, IsDev
  <2>2. CASE setup[i] \in {"register", "ready"}
    BY <1>2, <2>1, <2>2 DEF HandlesInv, After
  <2>3. CASE setup[i] # "register" /\ setup'[i] = "register"
    BY <1>2, <2>1, <2>3 DEF After, Registers
  <2> QED  BY <1>1, <2>2, <2>3, SearchedFrame
<1>6. ThreadInv'
  <2> SUFFICES ASSUME Deciding', ~lost' PROVE ThreadInv'
    BY DEF ThreadInv
  <2>1. Deciding /\ tx_pc' = tx_pc /\ ~lost /\ g_tx_sending /\ g_tx_sending'
    BY <1>2, <1>3 DEF Deciding, ThreadInv, RangeInv, TypeOK, FlagsOK, SendTypeOK
  <2>2. conn' = conn /\ g_tx_send_conn_idx' = g_tx_send_conn_idx
    BY <1>1, <2>1, SendingFrame
  <2>3. tx_value' = tx_value
    BY <1>2, <2>2 DEF CopyAfter, Leaves
  <2> QED
    BY <1>2, <2>1, <2>2, <2>3 DEF ThreadInv, IsDev
<1>7. LateInv'
  BY <1>2, <1>3, <1>4 DEF LateInv, Deciding, OneLatePacket, RangeInv, TypeOK, FlagsOK
<1> QED  BY <1>4, <1>5, <1>6, <1>7

\* A step of the thread, one per read.
LEMMA ThreadStepSend ==
  ASSUME RangeInv, SendInv, SendThread
  PROVE  SendInv' /\ UNCHANGED linkVars
<1> USE DEF SendInv
<1>1. UNCHANGED <<vars, retries, value_hdl, remote_handle>>
  BY DEF SendThread, TestSending, ReadConnIdx, LookUp, ReadHandle, Write, linkVars, handles
<1>2. UNCHANGED <<conn, setup, g_tx_sending, g_tx_send_conn_idx>>
  BY <1>1 DEF vars, appVars, stackVars
<1>3. HandlesInv'
  BY <1>1, <1>2 DEF HandlesInv, IsDev
<1>4. CASE TestSending
  BY <1>1, <1>2, <1>3, <1>4 DEF TestSending, SendTypeOK, ThreadInv, LateInv, OneLatePacket, Deciding,
                                locals, linkVars
<1>5. CASE ReadConnIdx
  <2>1. tx_idx' \in ConnIdx \cup {0}
    BY <1>5 DEF ReadConnIdx, RangeInv, TypeOK
  <2> QED
    BY <1>1, <1>2, <1>3, <1>5, <2>1 DEF ReadConnIdx, SendTypeOK, ThreadInv, LateInv, OneLatePacket,
                                        Deciding, linkVars
<1>6. CASE LookUp
  <2>1. CASE HasDev(tx_idx)
    <3>1. /\ tx_pc' = "found" /\ tx_slot' \in Slots /\ IsDev(tx_slot', tx_idx)
          /\ UNCHANGED <<tx_idx, tx_value, lost, late>>
      BY <1>6, <2>1 DEF LookUp
    <3> QED
      BY <1>1, <1>2, <1>3, <1>6, <3>1 DEF LookUp, SendTypeOK, ThreadInv, LateInv, OneLatePacket,
                                          Deciding, linkVars, IsDev
  <2>2. CASE ~HasDev(tx_idx)
    <3>1. Rest /\ UNCHANGED <<lost, late>>
      BY <1>6, <2>2 DEF LookUp, HasDev, IsDev
    <3> QED
      BY <1>1, <1>2, <1>3, <3>1 DEF Rest, SendTypeOK, ThreadInv, LateInv, OneLatePacket, Deciding,
                                    linkVars
  <2> QED  BY <2>1, <2>2
<1>7. CASE ReadHandle
  <2>1. tx_slot \in Slots /\ tx_value' = value_hdl[tx_slot]
    BY <1>7 DEF ReadHandle, LateInv
  <2>2. tx_value' \in {"unset", "own", "old"}
    BY <2>1 DEF SendTypeOK
  <2>3. ~lost => tx_value' = "own"
    <3> SUFFICES ASSUME ~lost PROVE tx_value' = "own"
      OBVIOUS
    <3>1. g_tx_sending /\ tx_idx = g_tx_send_conn_idx /\ IsDev(tx_slot, tx_idx)
      BY <1>7 DEF ReadHandle, ThreadInv, Deciding
    <3>2. tx_idx \in ConnIdx /\ setup[tx_idx] = "ready"
      BY <3>1 DEF RangeInv, SendingOnlyWhenReady, Up
    <3> QED  BY <2>1, <3>1, <3>2 DEF HandlesInv
  <2> QED
    BY <1>1, <1>2, <1>3, <1>7, <2>1, <2>2, <2>3 DEF ReadHandle, SendTypeOK, ThreadInv, LateInv,
       OneLatePacket, Deciding, linkVars, IsDev
<1>8. CASE Write
  <2>1. late = 0
    BY <1>8 DEF Write, LateInv, Deciding
  <2> QED
    BY <1>1, <1>2, <1>3, <1>8, <2>1 DEF Write, Rest, SendTypeOK, ThreadInv, LateInv, OneLatePacket,
                                        Deciding, linkVars
<1> QED  BY <1>4, <1>5, <1>6, <1>7, <1>8 DEF SendThread

\* The link manager, the chain of retries and the send thread together.
THEOREM SendInvariant == SSpec => [](RangeInv /\ RetriesInv /\ SendInv)
<1> DEFINE All == RangeInv /\ RetriesInv /\ SendInv
<1>1. SInit => All
  BY InitInv, RetriesInit, SendInit DEF SInit, HInit
<1>2. All /\ [SNext]_sendVars => All'
  <2> SUFFICES ASSUME All, [SNext]_sendVars PROVE All'
    OBVIOUS
  <2>1. CASE LinkStep
    <3>1. RangeInv'
      BY <2>1, StepInv DEF LinkStep, HNext
    <3> QED
      BY <2>1, <3>1, RetriesStep, LinkStepSend DEF LinkStep
  <2>2. CASE SendThread
    <3>1. UNCHANGED <<vars, retries>> /\ SendInv'
      BY <2>2, ThreadStepSend DEF linkVars
    <3>2. RangeInv'
      BY <3>1, StepInv
    <3> QED
      BY <3>1, <3>2 DEF RetriesInv, vars, appVars
  <2>3. CASE UNCHANGED sendVars
    <3>1. UNCHANGED <<vars, retries, handles, tx_pc, locals, lost, late>>
      BY <2>3 DEF sendVars, linkVars
    <3>2. RangeInv'
      BY <3>1, StepInv
    <3>3. RetriesInv' /\ SendInv'
      BY <3>1 DEF RetriesInv, SendInv, SendTypeOK, HandlesInv, ThreadInv, LateInv, OneLatePacket,
         Deciding, IsDev, vars, appVars, stackVars, handles, locals
    <3> QED  BY <3>2, <3>3
  <2> QED  BY <2>1, <2>2, <2>3 DEF SNext
<1> QED  BY <1>1, <1>2, PTL DEF SSpec

\* However refusals, losses and MTU exchanges alternate, a candidate gets at
\* most BurstMax retries.
THEOREM RetriesCorrect == SSpec => []RetriesBounded
<1>1. RangeInv /\ RetriesInv /\ SendInv => RetriesBounded
  BY RangeAssumption DEF RangeInv, TypeOK, RetriesInv, RetriesBounded
<1> QED  BY <1>1, SendInvariant, PTL

\* The thread's reads, taken one by one without a lock, agree with each other
\* as long as the link is not lost.
THEOREM SentCorrect == SSpec => []SentOnOwnHandles
<1>1. RangeInv /\ RetriesInv /\ SendInv => SentOnOwnHandles
  <2> SUFFICES ASSUME RangeInv, SendInv, tx_pc = "read", ~lost PROVE SentOnOwnHandles
    BY DEF SentOnOwnHandles
  <2>1. /\ g_tx_sending /\ tx_idx = g_tx_send_conn_idx
        /\ IsDev(tx_slot, tx_idx) /\ tx_value = "own" /\ tx_slot \in Slots
    BY DEF SendInv, ThreadInv, LateInv, Deciding
  <2>2. tx_idx \in ConnIdx /\ setup[tx_idx] = "ready"
    BY <2>1 DEF RangeInv, SendingOnlyWhenReady, Up
  <2> QED  BY <2>1, <2>2 DEF SentOnOwnHandles, SendInv, HandlesInv
<1> QED  BY <1>1, SendInvariant, PTL

\* A lost link gets at most one packet more.
THEOREM OneLate == SSpec => []OneLatePacket
<1>1. RangeInv /\ RetriesInv /\ SendInv => OneLatePacket
  BY DEF SendInv, LateInv
<1> QED  BY <1>1, SendInvariant, PTL

-----------------------------------------------------------------------------
(* The parts together.                                                     *)

\* The send thread takes nothing from the link manager: beside it the manager does what
\* it does alone, so that all that is proved of RangeTest holds here as well.
THEOREM ManagerAlone == SSpec => Spec
<1>1. SInit => Init
  BY DEF SInit, HInit
<1>2. [SNext]_sendVars => [Next]_vars
  BY DEF SNext, LinkStep, HNext, SendThread, TestSending, ReadConnIdx, LookUp, ReadHandle, Write,
         linkVars, sendVars
<1> QED  BY <1>1, <1>2, PTL DEF SSpec, Spec

\* What a TX does, by its links and requests, and that its LED shows it.
TxIs ==
    /\ role # "TX" \/ boot # "on" => TxDoes = "off"
    /\ role = "TX" /\ boot = "on" =>
         /\ creating = 0 /\ Live = {} => TxDoes = "searching"
         /\ creating = 1 /\ Live = {} => TxDoes = "asking"
         /\ \A i \in ConnIdx : creating = 0 /\ Live = {i} =>
              TxDoes = IF setup[i] = "mtu" THEN "linked" ELSE "usable"
    /\ TxShows = Tx!Shown[TxDoes]

LEMMA TxIsNow == RangeInv => TxIs
<1> SUFFICES ASSUME RangeInv PROVE TxIs
  OBVIOUS
<1>1. (\A i : Cardinality({i}) = 1) /\ Cardinality({}) = 0
  BY FS_Singleton, FS_EmptySet
<1>2. role # "TX" \/ boot # "on" => TxDoes = "off"
  BY DEF TxDoes
<1>3. ASSUME role = "TX", boot = "on"
      PROVE  /\ creating = 0 /\ Live = {} => TxDoes = "searching"
             /\ creating = 1 /\ Live = {} => TxDoes = "asking"
  BY <1>1, <1>3 DEF TxDoes
<1>4. ASSUME role = "TX", boot = "on", NEW i \in ConnIdx, creating = 0, Live = {i}
      PROVE  TxDoes = IF setup[i] = "mtu" THEN "linked" ELSE "usable"
  <2>1. Cardinality(Live) = 1 /\ Live # {} /\ creating # 1
    <3>1. Cardinality({i}) = 1
      BY FS_Singleton
    <3>2. Live # {} /\ creating # 1
      BY <1>4
    <3> QED
      BY <1>4, <3>1, <3>2
  <2>2. TxDoes = IF \E k \in Live : setup[k] = "mtu" THEN "linked" ELSE "usable"
    BY <1>4, <2>1 DEF TxDoes
  <2>3. (\E k \in Live : setup[k] = "mtu") <=> setup[i] = "mtu"
    BY <1>4
  <2> QED
    BY <2>2, <2>3
<1>5. TxShows = Tx!Shown[TxDoes]
  <2>1. CASE role # "TX"
    BY <2>1, <1>2 DEF TxShows, Tx!Shown
  <2>2. CASE role = "TX" /\ boot # "on"
    BY <2>2, <1>2 DEF TxShows, Tx!Shown, RangeInv, Quiet, LedTruthful
  <2>3. CASE role = "TX" /\ boot = "on"
    <3>1. conn_count \in Nat /\ (conn_count = 0 <=> Live = {})
      <4>1. Up = Live
        BY <2>3 DEF RangeInv, SetupInv, Up, Live, TypeOK
      <4> QED
        BY <2>3, <4>1, EmptyTable DEF RangeInv, TypeOK
    <3>2. g_led_state = IF conn_count > 0 THEN "CONNECTED"
                        ELSE IF g_tx_connecting THEN "CONNECTING" ELSE "SEARCHING"
      BY <2>3 DEF RangeInv, LedTruthful
    <3>3. CASE Live = {}
      BY <2>3, <3>1, <3>2, <3>3, <1>3 DEF TxShows, Tx!Shown, RangeInv, TxPhase
    <3>4. CASE Live # {}
      <4>1. PICK i \in ConnIdx : creating = 0 /\ Live = {i}
        BY <2>3, <3>4 DEF RangeInv, TxPhase
      <4>2. TxDoes \in {"linked", "usable"}
        BY <2>3, <4>1, <1>4
      <4> QED
        BY <2>3, <3>1, <3>2, <3>4, <4>2 DEF TxShows, Tx!Shown
    <3> QED
      BY <3>3, <3>4
  <2> QED
    BY <2>1, <2>2, <2>3
<1> QED  BY <1>2, <1>3, <1>4, <1>5 DEF TxIs

LEMMA TxIsNext == RangeInv' => TxIs'
  BY TxIsNow, PTL

LEMMA TxStart == HInit => Tx!Init
  BY DEF HInit, Init, range_test_io_init, Tx!Init, TxDoes, TxShows

\* What becomes of the chain of retries when none is made.
LEMMA ChainStep ==
  ASSUME RetriesInv, RetriesNext, creating \in Nat, creating' \in Nat,
         creating' <= creating \/ conn' = conn
  PROVE  /\ ~g_tx_have_candidate' => retries' = 0
         /\ /\ g_tx_have_candidate' = g_tx_have_candidate \/ ~g_tx_have_candidate
            /\ ~\E i \in ConnIdx : setup[i] = "mtu" /\ setup'[i] = "search"
            => retries' = retries
  BY DEF RetriesInv, RetriesNext

\* The one link of a TX.
LEMMA TxOneLink ==
  ASSUME RangeInv, role = "TX", NEW idx \in ConnIdx, link[idx] # "down" \/ setup[idx] # "none"
  PROVE  boot = "on" /\ creating = 0 /\ Live = {idx} /\ link[idx] = "up" /\ HasDev(idx)
<1>1. link[idx] = "up" /\ idx \in Live
  BY DEF RangeInv, SetupInv, TypeOK, Live
<1>2. boot = "on" /\ creating = 0 /\ Live = {idx}
  BY <1>1 DEF RangeInv, Quiet, TxPhase
<1>3. idx \in {conn[s] : s \in Used}
  BY <1>1, <1>2 DEF RangeInv, TableMatchesStack, Up
<1> QED  BY <1>1, <1>2, <1>3 DEF Used, HasDev

\* The handlers that change no link and no request, or only by one request.
LEMMA TxScanStep ==
  ASSUME RangeInv, RetriesInv, RangeInv', RetriesNext, role = "TX",
         PowerOnInd \/ CreateConnectionCnf \/ (\E p \in Peers : ExtAdvReport(p))
           \/ ScanStopped \/ Stack
  PROVE  [Tx!Next]_(Tx!txVars)
<1>1. TxIs /\ TxIs'
  BY TxIsNow, TxIsNext
<1>2. /\ UNCHANGED <<role, link, setup, conn, g_tx_sending>> /\ Live' = Live
      /\ creating \in Nat /\ creating' \in Nat
  BY DEF PowerOnInd, CreateConnectionCnf, ExtAdvReport, ScanStopped, Stack, StackStopScan,
         StackReport, appVars, stackVars, table, sender, links, Live, RangeInv, TypeOK
<1>3. ~\E i \in ConnIdx : setup[i] = "mtu" /\ setup'[i] = "search"
  BY <1>2
<1>4. CASE CreateConnectionCnf
  <2>1. boot = "on" /\ boot' = "on" /\ creating = 1 /\ Live = {} /\ creating' = 0
        /\ g_tx_have_candidate' = FALSE
    BY <1>4 DEF CreateConnectionCnf, range_test_scan_start, RangeInv, Quiet, TxPhase, TypeOK
  <2>2. TxDoes = "asking" /\ TxDoes' = "searching"
    BY <1>1, <1>2, <2>1 DEF TxIs
  <2>3. retries' = 0
    BY <1>2, <2>1, ChainStep
  <2> QED
    BY <1>1, <1>2, <2>2, <2>3 DEF TxIs, Tx!Next, Tx!Refused, Tx!Enter
<1>5. CASE ScanStopped /\ creating' # creating
  <2>1. boot = "on" /\ boot' = "on" /\ creating = 0 /\ Live = {} /\ creating' = 1
        /\ UNCHANGED g_tx_have_candidate
    BY <1>5 DEF ScanStopped, range_tx_scan_decide, range_test_connect, RangeInv, Quiet, TxPhase,
                TypeOK
  <2>2. TxDoes = "searching" /\ TxDoes' = "asking"
    BY <1>1, <1>2, <2>1 DEF TxIs
  <2>3. retries' = retries
    BY <1>2, <1>3, <2>1, ChainStep
  <2> QED
    BY <1>1, <1>2, <2>2, <2>3 DEF TxIs, Tx!Next, Tx!Ask, Tx!Enter
<1>6. CASE ~CreateConnectionCnf /\ creating' = creating
  <2>1. g_tx_have_candidate' = g_tx_have_candidate \/ ~g_tx_have_candidate
    BY <1>6 DEF PowerOnInd, ExtAdvReport, ScanStopped, range_tx_scan_decide,
                range_test_scan_start, Stack, StackStopScan, StackReport, appVars, RangeInv,
                TypeOK, FlagsOK
  <2>2. retries' = retries
    BY <1>2, <1>3, <2>1, ChainStep
  <2>3. (boot = "on" <=> boot' = "on")
    BY <1>6 DEF PowerOnInd, ExtAdvReport, ScanStopped, Stack, StackStopScan, StackReport
  <2>4. TxDoes' = TxDoes
    BY <1>2, <1>6, <2>3 DEF TxDoes
  <2> QED
    BY <1>1, <1>2, <2>2, <2>4 DEF TxIs, Tx!txVars
<1>7. CreateConnectionCnf \/ ScanStopped \/ creating' = creating
  BY DEF PowerOnInd, ExtAdvReport, Stack, StackStopScan, StackReport, stackVars
<1> QED  BY <1>4, <1>5, <1>6, <1>7

\* The handlers of a link.
LEMMA TxLinkStep ==
  ASSUME RangeInv, RetriesInv, RangeInv', RetriesNext, role = "TX", NEW idx \in ConnIdx,
         Connected(idx) \/ MtuExchange(idx) \/ SearchSvcRsp(idx) \/ RegisterRemoteSvcRsp(idx)
  PROVE  [Tx!Next]_(Tx!txVars)
<1>1. TxIs /\ TxIs'
  BY TxIsNow, TxIsNext
<1>2. UNCHANGED <<role, boot, g_tx_have_candidate>> /\ creating \in Nat /\ creating' \in Nat
  BY DEF Connected, MtuExchange, SearchSvcRsp, RegisterRemoteSvcRsp, appVars, RangeInv, TypeOK
<1>3. CASE Connected(idx)
  <2>1. boot = "on" /\ creating = 1 /\ creating' = 0 /\ Live = {} /\ ~Full
        /\ UNCHANGED g_tx_sending
    BY <1>3, TxNotFull DEF Connected, sender
  <2>2. link' = [link EXCEPT ![idx] = "up"] /\ setup' = [setup EXCEPT ![idx] = "mtu"]
    BY <1>3, <2>1 DEF Connected
  <2>3. Live' = {idx} /\ setup'[idx] = "mtu"
        /\ ~\E i \in ConnIdx : setup[i] = "mtu" /\ setup'[i] = "search"
    BY <2>1, <2>2 DEF Live, RangeInv, TypeOK
  <2>4. TxDoes = "asking" /\ TxDoes' = "linked"
    BY <1>1, <1>2, <2>1, <2>3 DEF TxIs
  <2>5. retries' = retries
    BY <1>2, <2>1, <2>3, ChainStep
  <2> QED
    BY <1>1, <2>1, <2>4, <2>5 DEF TxIs, Tx!Next, Tx!Linked, Tx!Enter
<1>4. CASE ~Connected(idx)
  <2>1. setup[idx] # "none" /\ UNCHANGED <<link, conn, creating>> /\ Live' = Live
    BY <1>4 DEF MtuExchange, SearchSvcRsp, RegisterRemoteSvcRsp, table, appVars, Live
  <2>2. boot = "on" /\ creating = 0 /\ Live = {idx}
    BY <2>1, TxOneLink
  <2>3. TxDoes = (IF setup[idx] = "mtu" THEN "linked" ELSE "usable")
        /\ TxDoes' = (IF setup'[idx] = "mtu" THEN "linked" ELSE "usable")
    BY <1>1, <1>2, <2>1, <2>2 DEF TxIs
  <2>4. CASE MtuExchange(idx)
    <3>1. setup[idx] = "mtu" /\ setup'[idx] = "search" /\ UNCHANGED g_tx_sending
      BY <2>4 DEF MtuExchange, sender, RangeInv, TypeOK
    <3>2. retries' = 0
      BY <1>2, <2>1, <3>1 DEF RetriesNext, RetriesInv
    <3> QED
      BY <1>1, <2>3, <3>1, <3>2 DEF TxIs, Tx!Next, Tx!Usable, Tx!Enter
  <2>5. CASE SearchSvcRsp(idx) \/ RegisterRemoteSvcRsp(idx)
    <3>1. setup[idx] # "mtu" /\ setup'[idx] # "mtu"
          /\ ~\E i \in ConnIdx : setup[i] = "mtu" /\ setup'[i] = "search"
      BY <2>5 DEF SearchSvcRsp, RegisterRemoteSvcRsp, RangeInv, TypeOK
    <3>2. retries' = retries
      BY <1>2, <2>1, <3>1, ChainStep
    <3>3. g_tx_sending' = TRUE \/ UNCHANGED g_tx_sending
      BY <2>5 DEF SearchSvcRsp, RegisterRemoteSvcRsp, sender, appVars
    <3> QED
      BY <1>1, <2>3, <3>1, <3>2, <3>3 DEF TxIs, Tx!Next, Tx!Send, Tx!txVars
  <2> QED
    BY <1>4, <2>4, <2>5
<1> QED  BY <1>3, <1>4

\* The loss of the link.
LEMMA TxLossStep ==
  ASSUME RangeInv, RetriesInv, RangeInv', RetriesNext, role = "TX", NEW idx \in ConnIdx,
         NEW reason62 \in BOOLEAN, Disconnected(idx, reason62)
  PROVE  [Tx!Next]_(Tx!txVars)
<1>1. TxIs /\ TxIs'
  BY TxIsNow, TxIsNext
<1>2. boot = "on" /\ creating = 0 /\ Live = {idx} /\ HasDev(idx)
  BY TxOneLink DEF Disconnected
<1>3. UNCHANGED <<role, boot>> /\ link' = [link EXCEPT ![idx] = "down"] /\ LoseLink(idx, reason62)
  BY <1>2 DEF Disconnected
<1>4. Live' = {} /\ g_tx_sending' = FALSE
  BY <1>2, <1>3 DEF Live, RangeInv, TypeOK, LoseLink
<1>5. conn' # conn
  <2>1. PICK s \in Slots : IsDev(s, idx) /\ conn' = [conn EXCEPT ![s] = Free]
    BY <1>3 DEF LoseLink, ble_app_deivce_disconnected
  <2> QED
    BY <2>1, RangeAssumption DEF IsDev, RangeInv, TypeOK
<1>6. TxDoes \in {"linked", "usable"}
  BY <1>1, <1>2 DEF TxIs
<1>7. CASE MayRetry(reason62)
  <2>1. creating' = 1 /\ g_tx_burst_retry < BurstMax
    <3>1. Retry
      BY <1>3, <1>7 DEF LoseLink, AfterLoss
    <3> QED
      BY <1>2, <1>7, <3>1 DEF Retry, range_test_connect, MayRetry
  <2>2. TxDoes' = "asking"
    BY <1>1, <1>2, <1>3, <1>4, <2>1 DEF TxIs
  <2>3. retries' = retries + 1 /\ retries < BurstMax
    BY <1>2, <1>5, <2>1, RangeAssumption DEF RetriesNext, RetriesInv, RangeInv, TypeOK
  <2> QED
    BY <1>1, <1>4, <1>6, <2>2, <2>3 DEF TxIs, Tx!Next, Tx!Lost, Tx!Enter
<1>8. CASE ~MayRetry(reason62)
  <2>1. creating' = 0 /\ g_tx_have_candidate' = FALSE
    BY <1>2, <1>3, <1>8 DEF LoseLink, AfterLoss, Rescan, range_test_scan_start
  <2>2. TxDoes' = "searching"
    BY <1>1, <1>2, <1>3, <1>4, <2>1 DEF TxIs
  <2>3. retries' = 0
    BY <1>2, <2>1, ChainStep
  <2> QED
    BY <1>1, <1>4, <1>6, <2>2, <2>3 DEF TxIs, Tx!Next, Tx!Lost, Tx!Enter
<1> QED  BY <1>7, <1>8

\* Each step of the link manager, of the stack or of nobody is a step of TxLink or none.
LEMMA TxStep == RangeInv /\ RetriesInv /\ [HNext]_<<vars, retries>> => [Tx!Next]_(Tx!txVars)
<1> SUFFICES ASSUME RangeInv, RetriesInv, [HNext]_<<vars, retries>> PROVE [Tx!Next]_(Tx!txVars)
  OBVIOUS
<1>1. CASE UNCHANGED <<vars, retries>>
  BY <1>1 DEF vars, appVars, stackVars, Tx!txVars, TxDoes, TxShows, Live
<1>2. CASE HNext
  <2>1. Next /\ RetriesNext /\ RangeInv'
    BY <1>2, StepInv DEF HNext
  <2>2. RetriesInv'
    BY <1>2, RetriesStep
  <2>3. CASE role # "TX"
    <3>1. role' = role
      BY <2>1 DEF Next, Handlers, Stack, PowerOnInd, MainPowerOn, CreateConnectionCnf,
         ExtAdvReport, ScanStopped, Connected, MtuExchange, SearchSvcRsp, RegisterRemoteSvcRsp,
         Disconnected, StackStopScan, StackReport
    <3>2. retries = 0 /\ retries' = 0
      BY <2>2, <2>3, <3>1 DEF RetriesInv
    <3>3. g_tx_sending = FALSE /\ g_tx_sending' = FALSE
      BY <2>1, <2>3, <3>1 DEF RangeInv, SendingOnlyWhenReady, TypeOK, FlagsOK
    <3> QED
      BY <2>3, <3>1, <3>2, <3>3 DEF Tx!txVars, TxDoes, TxShows
  <2>4. CASE role = "TX" /\ MainPowerOn
    <3>1. boot # "on" /\ boot' = "on" /\ role' = "TX" /\ creating' = 0 /\ Live' = {}
          /\ g_tx_have_candidate' = FALSE /\ UNCHANGED g_tx_sending /\ creating = 0
      BY <2>4 DEF MainPowerOn, range_test_scan_start, RangeInv, Quiet, sender, links, Live
    <3>2. TxIs /\ TxIs'
      BY <2>1, TxIsNow, TxIsNext
    <3>3. TxDoes = "off" /\ TxDoes' = "searching"
      BY <3>1, <3>2 DEF TxIs
    <3>4. retries' = 0
      BY <2>1, <3>1, ChainStep
    <3> QED
      BY <3>1, <3>2, <3>3, <3>4 DEF TxIs, Tx!Next, Tx!Start, Tx!Enter
  <2>5. CASE role = "TX" /\ ~MainPowerOn
    BY <2>1, <2>5, TxScanStep, TxLinkStep, TxLossStep DEF Next, Handlers
  <2> QED
    BY <2>3, <2>4, <2>5
<1> QED  BY <1>1, <1>2

\* A TX board is what TxLink promises, beside its send thread and for every number of
\* slots, links, peers and retries.
THEOREM TxCorrect == SSpec => IsTxLink
<1>1. SInit => Tx!Init
  BY TxStart DEF SInit
<1>2. RangeInv /\ RetriesInv /\ [SNext]_sendVars => [Tx!Next]_(Tx!txVars)
  <2>1. [SNext]_sendVars => [HNext]_<<vars, retries>>
    BY DEF SNext, LinkStep, SendThread, TestSending, ReadConnIdx, LookUp, ReadHandle, Write,
           linkVars, sendVars
  <2> QED
    BY <2>1, TxStep
<1> QED  BY <1>1, <1>2, SendInvariant, PTL DEF SSpec, IsTxLink, Tx!Spec
=============================================================================
