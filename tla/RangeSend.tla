----------------------------- MODULE RangeSend -----------------------------
(***************************************************************************)
(* The send thread of the BLE range tester beside the link manager.        *)
(*                                                                         *)
(* The BLE task sets the flag, the link number and, per slot, the handles  *)
(* found by the service search; the thread, of low priority and without a  *)
(* lock, reads the flag, the number, the slot and its handles one after    *)
(* the other, and the BLE task may run between any two of these reads.     *)
(*                                                                         *)
(* A handle is named by the link it was obtained on: "own" is the link     *)
(* that has the slot now, "old" one that had it before, "unset" none.      *)
(***************************************************************************)
EXTENDS RangeTestHistory

VARIABLES
    value_hdl,      \* env->conn[].app_char.value_hdl
    remote_handle,  \* env->conn[].remote_handle
    tx_pc,          \* where the thread is; "none": g_tx_thread is RT_NULL
    tx_idx,         \* the thread's conn_idx
    tx_slot,        \* the thread's idx, the slot it found
    tx_value,       \* the thread's value.handle
    lost,           \* history: the flag was cleared since the thread tested it
    late            \* history: packets written since the flag was cleared

linkVars == <<vars, retries>>
handles  == <<value_hdl, remote_handle>>
locals   == <<tx_idx, tx_slot, tx_value>>
sendVars == <<linkVars, handles, tx_pc, locals, lost, late>>

NoSlot == MaxConn   \* tx_slot before ble_app_get_dev_by_idx has returned

Locals0 == tx_idx = 0 /\ tx_slot = NoSlot /\ tx_value = "unset"

SInit ==
    /\ HInit
    /\ value_hdl = [s \in Slots |-> "unset"]
    /\ remote_handle = [s \in Slots |-> "unset"]
    /\ tx_pc = "none"
    /\ Locals0
    /\ lost = FALSE
    /\ late = 0

-----------------------------------------------------------------------------
(* What the handlers of RangeTest do to the state the thread reads.        *)

\* SIBLES_SEARCH_SVC_RSP stores the handles of the link's slot and registers.
Registers(s) ==
    \E i \in ConnIdx : IsDev(s, i) /\ setup[i] # "register" /\ setup'[i] = "register"

Leaves(s) == conn[s] # Free /\ conn'[s] = Free

\* The handles stay in the slot when its link is gone.
After(h, s) ==
    IF Registers(s) THEN "own"
    ELSE IF Leaves(s) /\ h = "own" THEN "old"
    ELSE h

\* The thread's own copy of a handle ages with the link it was obtained on.
CopyAfter(h) ==
    IF h = "own" /\ tx_slot \in Slots /\ Leaves(tx_slot) THEN "old" ELSE h

\* Broken variant: the handle of the characteristic's value is not stored.
HandlesWithoutValue ==
    /\ remote_handle' = [s \in Slots |-> After(remote_handle[s], s)]
    /\ tx_value' = CopyAfter(tx_value)
    /\ UNCHANGED value_hdl

HandlesNext ==
    /\ value_hdl' = [s \in Slots |-> After(value_hdl[s], s)]
    /\ remote_handle' = [s \in Slots |-> After(remote_handle[s], s)]
    /\ tx_value' = CopyAfter(tx_value)

\* range_tx_start_send: the thread is created once; when there is no memory for
\* it, the next registration tries again.
range_tx_start_send ==
    \/ /\ tx_pc = "none"
       /\ \E i \in ConnIdx : setup[i] = "register" /\ setup'[i] = "ready"
       /\ tx_pc' \in {"none", "rest"}
    \/ /\ \/ tx_pc # "none"
          \/ ~\E i \in ConnIdx : setup[i] = "register" /\ setup'[i] = "ready"
       /\ UNCHANGED tx_pc

LinkStep ==
    /\ HNext
    /\ HandlesNext
    /\ range_tx_start_send
    /\ lost' = (lost \/ (g_tx_sending /\ ~g_tx_sending'))
    /\ late' = IF g_tx_sending' # g_tx_sending THEN 0 ELSE late
    /\ UNCHANGED <<tx_idx, tx_slot>>

-----------------------------------------------------------------------------
(* range_tx_send_entry and send_speed_test_packet.                         *)

\* The flag is seen set; while it is clear the thread only sleeps.
TestSending ==
    /\ tx_pc = "rest"
    /\ g_tx_sending
    /\ tx_pc' = "tested"
    /\ lost' = FALSE
    /\ UNCHANGED <<linkVars, handles, locals, late>>

\* The link number is read for the call.
ReadConnIdx ==
    /\ tx_pc = "tested"
    /\ tx_idx' = g_tx_send_conn_idx
    /\ tx_pc' = "called"
    /\ UNCHANGED <<linkVars, handles, tx_slot, tx_value, lost, late>>

Rest ==
    /\ tx_pc' = "rest"
    /\ tx_idx' = 0 /\ tx_slot' = NoSlot /\ tx_value' = "unset"

\* ble_app_get_dev_by_idx: no slot, no packet.
LookUp ==
    /\ tx_pc = "called"
    /\ \/ /\ \E s \in Slots : IsDev(s, tx_idx) /\ tx_slot' = s
          /\ tx_pc' = "found"
          /\ UNCHANGED <<tx_idx, tx_value>>
       \/ /\ ~HasDev(tx_idx)
          /\ Rest
    /\ UNCHANGED <<linkVars, handles, lost, late>>

ReadHandle ==
    /\ tx_pc = "found"
    /\ tx_value' = value_hdl[tx_slot]
    /\ tx_pc' = "read"
    /\ UNCHANGED <<linkVars, handles, tx_idx, tx_slot, lost, late>>

\* Broken variants: the loop does not come back to the flag; the thread ends
\* after a packet.
WriteOnAndOn ==
    /\ tx_pc = "read"
    /\ late' = IF g_tx_sending THEN 0 ELSE late + 1
    /\ tx_pc' = "found"
    /\ UNCHANGED <<linkVars, handles, locals, lost>>

ThreadOnce ==
    /\ tx_pc = "read"
    /\ late' = IF g_tx_sending THEN 0 ELSE late + 1
    /\ tx_pc' = "ended"
    /\ UNCHANGED <<linkVars, handles, locals, lost>>

\* sibles_write_remote_value, with the slot's remote_handle of that moment.
Write ==
    /\ tx_pc = "read"
    /\ late' = IF g_tx_sending THEN 0 ELSE late + 1
    /\ Rest
    /\ UNCHANGED <<linkVars, handles, lost>>

SendThread == TestSending \/ ReadConnIdx \/ LookUp \/ ReadHandle \/ Write

-----------------------------------------------------------------------------
SNext == LinkStep \/ SendThread

SSpec == SInit /\ [][SNext]_sendVars

-----------------------------------------------------------------------------
SendTypeOK ==
    /\ value_hdl \in [Slots -> {"unset", "own", "old"}]
    /\ remote_handle \in [Slots -> {"unset", "own", "old"}]
    /\ tx_pc \in {"none", "rest", "tested", "called", "found", "read"}
    /\ tx_idx \in ConnIdx \cup {0}
    /\ tx_slot \in Slots \cup {NoSlot}
    /\ tx_value \in {"unset", "own", "old"}
    /\ lost \in BOOLEAN
    /\ late \in Nat

\* As long as the link is not lost between the thread's test of the flag and its
\* write, the packet goes out on the link it was meant for, with the handles of
\* that link's own search and registration: five reads without a lock
\* (main.c:342-352, :367) amount to one.  Where the link is lost in between, the
\* slot may be free or another link's; OneLatePacket bounds what then goes out.
SentOnOwnHandles ==
    tx_pc = "read" /\ ~lost =>
        /\ setup[tx_idx] = "ready"
        /\ IsDev(tx_slot, tx_idx)
        /\ tx_value = "own"
        /\ remote_handle[tx_slot] = "own"

\* The loss of the link stops the thread within one packet: whatever was under
\* way when main.c:642 cleared the flag is the last one until it is set again.
OneLatePacket == late <= 1

-----------------------------------------------------------------------------
(* The inductive strengthening of the two.                                 *)

\* A link that has been searched has its handles in its slot.
HandlesInv ==
    \A i \in ConnIdx, s \in Slots :
        setup[i] \in {"register", "ready"} /\ IsDev(s, i) =>
            value_hdl[s] = "own" /\ remote_handle[s] = "own"

Deciding == tx_pc \in {"tested", "called", "found", "read"}

\* Until the link is lost, what the thread has read is what it would read again.
ThreadInv ==
    Deciding /\ ~lost =>
        /\ g_tx_sending
        /\ tx_pc # "tested" => tx_idx = g_tx_send_conn_idx
        /\ tx_pc \in {"found", "read"} => IsDev(tx_slot, tx_idx)
        /\ tx_pc = "read" => tx_value = "own"

\* A late packet leaves nothing behind it that could be late again.
LateInv ==
    /\ g_tx_sending => late = 0
    /\ Deciding => late = 0
    /\ OneLatePacket
    /\ tx_pc \in {"found", "read"} => tx_slot \in Slots

SendInv == SendTypeOK /\ HandlesInv /\ ThreadInv /\ LateInv

-----------------------------------------------------------------------------
(* The thread has a priority of its own and the BLE task waits for events  *)
(* most of the time: the thread gets its turns.                            *)

SFairness ==
    /\ WF_sendVars(PowerOnInd /\ LinkStep)
    /\ WF_sendVars(MainPowerOn /\ LinkStep)
    /\ WF_sendVars(ScanStopped /\ LinkStep)
    /\ \A p \in Peers : WF_sendVars(ExtAdvReport(p) /\ LinkStep)
    /\ SF_sendVars((\E p \in Peers : StackReport(p)) /\ LinkStep)
    /\ SF_sendVars((\E idx \in ConnIdx : Connected(idx)) /\ LinkStep)
    /\ WF_sendVars(SendThread)

SLiveSpec == SSpec /\ SFairness

\* A ready link that stays up is used without end, once the thread exists.
PacketsFlow ==
    <>[](g_tx_sending /\ tx_pc # "none") => []<>(tx_pc = "read")
=============================================================================
