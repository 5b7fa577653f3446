------------------------------- MODULE SdioTx -------------------------------
(* The transmit side of the SDIO and USB buses below the transmit queues:    *)
(* aml_tx_push gives a frame a host id and appends it to tx_desc_save;       *)
(* aml_tx_task sends batches of frames while transmit pages are free; the    *)
(* firmware confirms frames in a ring of SRAM_TXCFM_CNT slots that the       *)
(* interrupt task copies and aml_tx_cfm_task walks; a confirmation may also  *)
(* lend the pages of the receive ring, which the firmware takes back after   *)
(* the host has stopped transmission. The txq side is module Txq.            *)
EXTENDS DynBuf, Sequences, FiniteSets

CONSTANTS
    Frame,         \* the frames
    Sizes,         \* pages that a frame may take
    PagesOnce,     \* tx_page_once: pages of a batch
    Threshold,     \* txcfm_trigger_tx_thr
    NbIds,         \* IPC_HOSTID_CNT
    RingSize,      \* SRAM_TXCFM_CNT
    MaxPrefix,      \* 65535: values of hostid_prefix
    MaxPush,       \* bound: calls of aml_tx_push
    FaultSets,     \* "alloc": kzalloc fails; "bulk": a read of the ring fails or is
                   \* not tried; "torn": the task runs between the stores of the stop
    NoId

\* The pool of ids never runs dry: the credits of all queues are fewer. Nothing
\* is assumed of the ring: with more frames on their way than it has slots the
\* firmware writes over confirmations that the host has not walked.
ASSUME SdioAssumption ==
    /\ Sizes \subseteq Nat \ {0} /\ Sizes # {}
    /\ \A n \in Sizes : n < SmallPages
    /\ PagesOnce \in Nat /\ Threshold \in 1..SmallPages
    /\ NbIds \in 1..MaxPrefix /\ RingSize \in Nat \ {0} /\ MaxPrefix \in Nat \ {0}
    /\ IsFiniteSet(Frame) /\ Cardinality(Frame) <= NbIds
    /\ MaxPush \in Nat
    /\ NoId \notin [n : 1..NbIds, p : 1..MaxPrefix]

VARIABLES
    faults,     \* the faults of this behaviour
    pushes,     \* calls of aml_tx_push so far
    \* frames and host ids
    at,         \* where a frame is: "out" of this layer, in "desc" (tx_desc_save),
                \* in the "batch", in the firmware ("fw") or confirmed by it ("cfm")
    size,       \* its pages
    hostid,     \* the id under which it is pushed (tx_hostid_pushed)
    avail,      \* tx_hostid_available
    prefix,     \* hostid_prefix
    \* aml_tx_task
    tx,         \* "wait", "pick", "charge" or "send"
    sem,        \* aml_tx_sem
    desc,       \* tx_desc_save
    batch,      \* tot_page_num
    free,       \* tx_page_free_num
    tot,        \* tx_page_tot_num
    stop,       \* dynabuf_stop_tx
    sendStop,   \* send_tx_stop_to_fw
    leaked,     \* pages charged for frames that could not be copied
    \* aml_tx_cfm_task
    cfm,        \* "wait" or "run", holding tx_lock
    cfmSem,     \* aml_txcfm_sem
    drvIdx,     \* drv_txcfm_idx
    copy,       \* read_cfm
    \* interrupt task
    handling,   \* status bits not yet handled
    bufState,   \* rx_buf_state
    \* firmware
    irq,        \* status bits raised
    ext,        \* SDIO_USB_EXTEND_E2A_IRQ_STATUS
    status,     \* the buffer status it shows
    ring,       \* its confirmations
    fwIdx,      \* next slot
    phase,      \* of the exchange of pages
    fwPages     \* pages it reserves for transmission

frameVars == <<at, size, hostid, avail, prefix>>
txVars    == <<tx, sem, desc, batch, free, tot, stop, sendStop, leaked>>
cfmVars   == <<cfm, cfmSem, drvIdx, copy>>
irqVars   == <<handling, bufState>>
fwVars    == <<irq, ext, status, ring, fwIdx, phase, fwPages>>
vars      == <<faults, pushes, frameVars, txVars, cfmVars, irqVars, fwVars>>

-----------------------------------------------------------------------------
Id      == [n : 1..NbIds, p : 1..MaxPrefix]
NoCfm   == [id |-> NoId, dyna |-> FALSE]
Slots   == 0..(RingSize - 1)
NextSlot(i) == (i + 1) % RingSize

\* Bound of aml_txcfm_sem: more pending wake-ups than this only make the task
\* look once more at slots that it has left
SemBound == 2
Up(s)   == IF s < SemBound THEN s + 1 ELSE s

\* The pages of the frames at some places, one by one: a frame takes fewer than SmallPages
PagesOf(places) ==
    { p \in Frame \X (1..SmallPages) : at[p[1]] \in places /\ p[2] <= size[p[1]] }
PagesAt(places) == Cardinality(PagesOf(places))
Charged         == PagesAt({"batch", "fw", "cfm"})

Init ==
    /\ faults \in FaultSets
    /\ pushes = 0
    /\ at = [f \in Frame |-> "out"]
    /\ size = [f \in Frame |-> 0]
    /\ hostid = [f \in Frame |-> NoId]
    /\ avail = [n \in 1..NbIds |-> [n |-> n, p |-> n]]
    /\ prefix = NbIds
    /\ tx = "wait" /\ sem = 0 /\ desc = <<>> /\ batch = 0
    /\ free = SmallPages /\ tot = SmallPages
    /\ stop = FALSE /\ sendStop = FALSE /\ leaked = 0
    /\ cfm = "wait" /\ cfmSem = 0 /\ drvIdx = 0
    /\ copy = [i \in Slots |-> NoCfm]
    /\ handling = {} /\ bufState = InitBufState
    /\ irq = {} /\ ext = "START" /\ status = "FW_EXPAND"
    /\ ring = [i \in Slots |-> NoCfm] /\ fwIdx = 0
    /\ phase = "rx" /\ fwPages = SmallPages

-----------------------------------------------------------------------------
(* aml_tx_push, under tx_lock. A frame that the firmware postponed comes     *)
(* here again, with another id.                                              *)

\* ipc_host_tx_host_ptr_to_id
HostPtrToId(f) ==
    /\ avail # <<>>
    /\ hostid' = [hostid EXCEPT ![f] = Head(avail)]
    /\ avail' = Tail(avail)

\* aml_sdio_ipc_txdesc_push; tx_lock is the confirmations', tx_desc_lock the batch's
Push(f, n) ==
    /\ at[f] = "out" /\ cfm = "wait" /\ tx \notin {"pick", "charge"}
    /\ pushes < MaxPush
    /\ pushes' = pushes + 1
    /\ HostPtrToId(f)
    /\ at' = [at EXCEPT ![f] = "desc"]
    /\ size' = [size EXCEPT ![f] = n]
    /\ desc' = Append(desc, f)
    /\ sem' = sem + 1
    /\ UNCHANGED <<faults, prefix, tx, batch, free, tot, stop, sendStop, leaked,
                   cfmVars, irqVars, fwVars>>

-----------------------------------------------------------------------------
(* aml_update_tx_cfm: the copy of the confirmations *)

UpdateTxCfm_NoUp ==
    /\ copy' = ring
    /\ cfmSem' = cfmSem
\* A read that fails leaves the old copy; with bus_err set nobody is woken
UpdateTxCfm ==
    \/ copy' = ring /\ cfmSem' = Up(cfmSem)
    \/ "bulk" \in faults /\ copy' = copy /\ cfmSem' \in {cfmSem, Up(cfmSem)}

-----------------------------------------------------------------------------
(* aml_tx_task *)

AnswerStop_Early ==
    /\ sendStop' = FALSE
    /\ phase' = "stopped"
    /\ sem' = sem - 1
    /\ UNCHANGED <<cfmSem, copy>>
\* The stop is answered when all pages are back, and polled for until then
AnswerStop ==
    \/ /\ free = tot
       /\ sendStop' = FALSE
       /\ phase' = "stopped"
       /\ sem' = sem - 1
       /\ UNCHANGED <<cfmSem, copy>>
    \/ /\ free # tot
       /\ UpdateTxCfm
       /\ UNCHANGED <<sem, sendStop, phase>>

TxStopped ==
    /\ tx = "wait" /\ sem > 0 /\ stop
    /\ IF sendStop THEN AnswerStop
       ELSE sem' = sem - 1 /\ UNCHANGED <<sendStop, phase, cfmSem, copy>>
    /\ UNCHANGED <<faults, pushes, frameVars, tx, desc, batch, free, tot, stop, leaked,
                   cfm, drvIdx, irqVars, irq, ext, status, ring, fwIdx, fwPages>>

TxWake ==
    /\ tx = "wait" /\ sem > 0 /\ ~stop
    /\ sem' = sem - 1
    /\ tx' = IF desc = <<>> THEN "wait" ELSE "pick"
    /\ UNCHANGED <<faults, pushes, frameVars, desc, batch, free, tot, stop, sendStop, leaked,
                   cfmVars, irqVars, fwVars>>

Fits_Unpaid(f) == batch + size[f] <= PagesOnce \/ batch = 0
\* One page more than the frame takes must be free
Fits(f) ==
    /\ size[f] + 1 <= free
    /\ batch + size[f] <= PagesOnce \/ batch = 0

TxPick ==
    /\ tx = "pick"
    /\ tx' = IF desc # <<>> /\ Fits(Head(desc)) THEN "charge" ELSE "send"
    /\ UNCHANGED <<faults, pushes, frameVars, sem, desc, batch, free, tot, stop, sendStop,
                   leaked, cfmVars, irqVars, fwVars>>

\* The pages are charged before the frame is copied; when the copy cannot be
\* allocated the batch ends and the frame stays in the list
TxCharge ==
    /\ tx = "charge"
    /\ LET f == Head(desc) IN
       /\ batch' = batch + size[f]
       /\ free' = free - size[f]
       /\ \/ /\ at' = [at EXCEPT ![f] = "batch"]
             /\ desc' = Tail(desc)
             /\ tx' = "pick"
             /\ UNCHANGED leaked
          \/ /\ "alloc" \in faults
             /\ leaked' = leaked + size[f]
             /\ tx' = "send"
             /\ UNCHANGED <<at, desc>>
    /\ UNCHANGED <<faults, pushes, size, hostid, avail, prefix, sem, tot, stop, sendStop,
                   cfmVars, irqVars, fwVars>>

\* hi_send_frame
TxSend ==
    /\ tx = "send"
    /\ tx' = "wait"
    /\ at' = [f \in Frame |-> IF at[f] = "batch" THEN "fw" ELSE at[f]]
    /\ batch' = 0
    /\ UNCHANGED <<faults, pushes, size, hostid, avail, prefix, sem, desc, free, tot, stop,
                   sendStop, leaked, cfmVars, irqVars, fwVars>>

-----------------------------------------------------------------------------
(* aml_tx_cfm_task *)

CfmWake ==
    /\ cfm = "wait" /\ cfmSem > 0
    /\ cfmSem' = cfmSem - 1
    /\ cfm' = "run"
    /\ UNCHANGED <<faults, pushes, frameVars, txVars, drvIdx, copy, irqVars, fwVars>>

\* ipc_host_tx_host_id_to_ptr_for_sdio_usb: the frame that is pushed under an id
FramesOf(id) == { f \in Frame : id # NoId /\ hostid[f] = id }
NextPrefix == (prefix % MaxPrefix) + 1
IdToPtr_Same(f) ==
    /\ hostid' = [hostid EXCEPT ![f] = NoId]
    /\ prefix' = NextPrefix
    /\ avail' = Append(avail, hostid[f])
IdToPtr(f) ==
    /\ hostid' = [hostid EXCEPT ![f] = NoId]
    /\ prefix' = NextPrefix
    /\ avail' = Append(avail, [n |-> hostid[f].n, p |-> NextPrefix])

Returned_Lent(f) == IF copy[drvIdx].dyna THEN DynaPages ELSE size[f]
Restarts_Strict(n) == n > Threshold
\* Its pages, and those the firmware lends with it
Returned(f) == size[f] + (IF copy[drvIdx].dyna THEN DynaPages ELSE 0)
Restarts(n) == n >= Threshold

\* A turn of the ring ends the loop in any case: the ids of the slots that were
\* left are no longer pushed
CfmSlot(f) ==
    /\ cfm = "run" /\ f \in FramesOf(copy[drvIdx].id)
    /\ IdToPtr(f)
    /\ at' = [at EXCEPT ![f] = "out"]
    /\ size' = [size EXCEPT ![f] = 0]
    /\ free' = free + Returned(f)
    /\ bufState' = IF copy[drvIdx].dyna THEN bufState \cup {"TX_USED"} ELSE bufState
    /\ sem' = IF Restarts(free + Returned(f)) THEN sem + 1 ELSE sem
    /\ drvIdx' = NextSlot(drvIdx)
    /\ UNCHANGED <<faults, pushes, tx, desc, batch, tot, stop, sendStop, leaked,
                   cfm, cfmSem, copy, handling, fwVars>>

CfmSleep ==
    /\ cfm = "run" /\ FramesOf(copy[drvIdx].id) = {}
    /\ cfm' = "wait"
    /\ UNCHANGED <<faults, pushes, frameVars, txVars, cfmSem, drvIdx, copy, irqVars, fwVars>>

-----------------------------------------------------------------------------
(* The interrupt task: aml_pci_ack_irq, then ipc_host_irq in its order *)

IrqAck ==
    /\ handling = {} /\ irq # {}
    /\ handling' = irq
    /\ irq' = {}
    /\ bufState' = AckStatus(bufState, status)
    /\ UNCHANGED <<faults, pushes, frameVars, txVars, cfmVars, ext, status, ring, fwIdx,
                   phase, fwPages>>

\* What the firmware does when the host tells it where it stands
Heard(told) ==
    IF "REDUCE_FINSH" \in told THEN "reduced"
    ELSE IF "ENLARGE_FINSH" \in told THEN "grown" ELSE phase

\* aml_sdio_rxdataind with new data; the data itself is module RxBuf
IrqRx ==
    /\ "RX" \in handling
    /\ handling' = handling \ {"RX"}
    /\ LET st == CheckState(bufState) IN
       /\ bufState' = TriggerState(st)
       /\ free' = TriggerFree(st, free)
       /\ tot' = TriggerTot(st, tot)
       /\ phase' = Heard(Told(st))
    /\ UNCHANGED <<faults, pushes, frameVars, tx, sem, desc, batch, stop, sendStop, leaked,
                   cfmVars, irq, ext, status, ring, fwIdx, fwPages>>

IrqCfm ==
    /\ "CFM" \in handling /\ "RX" \notin handling
    /\ handling' = handling \ {"CFM"}
    /\ UpdateTxCfm
    /\ UNCHANGED <<faults, pushes, frameVars, txVars, cfm, drvIdx, bufState, fwVars>>

\* aml_sdio_usb_extend_irq_handle
IrqStop ==
    /\ handling = {"EXT"} /\ ext = "STOP"
    /\ stop' = TRUE
    /\ IF "torn" \in faults /\ ~stop
       THEN UNCHANGED <<sendStop, handling>>
       ELSE sendStop' = TRUE /\ handling' = {}
    /\ UNCHANGED <<faults, pushes, frameVars, tx, sem, desc, batch, free, tot, leaked,
                   cfmVars, bufState, fwVars>>

IrqStart ==
    /\ handling = {"EXT"} /\ ext = "START"
    /\ stop' = FALSE
    /\ sem' = sem + 1
    /\ handling' = {}
    /\ UNCHANGED <<faults, pushes, frameVars, tx, desc, batch, free, tot, sendStop, leaked,
                   cfmVars, bufState, fwVars>>
-----------------------------------------------------------------------------
(* The firmware *)

\* It writes a confirmation, into the next slot whether or not the host has
\* walked it, and once the host has left the upper part of the receive ring,
\* lends its pages with the next one
FwConfirm(f) ==
    /\ at[f] = "fw"
    /\ at' = [at EXCEPT ![f] = "cfm"]
    /\ ring' = [ring EXCEPT ![fwIdx] = [id |-> hostid[f], dyna |-> phase = "reduced"]]
    /\ fwIdx' = NextSlot(fwIdx)
    /\ irq' = irq \cup {"CFM"}
    /\ IF phase = "reduced" THEN phase' = "tx" /\ fwPages' = LargePages
       ELSE UNCHANGED <<phase, fwPages>>
    /\ UNCHANGED <<faults, pushes, size, hostid, avail, prefix, txVars, cfmVars, irqVars,
                   ext, status>>

FwRx ==
    /\ "RX" \notin irq
    /\ irq' = irq \cup {"RX"}
    /\ UNCHANGED <<faults, pushes, frameVars, txVars, cfmVars, irqVars, ext, status, ring,
                   fwIdx, phase, fwPages>>

FwNarrow ==
    /\ phase = "rx" /\ phase' = "shrink"
    /\ status' = "FW_NARROW"
    /\ irq' = irq \cup {"RX"}
    /\ UNCHANGED <<faults, pushes, frameVars, txVars, cfmVars, irqVars, ext, ring, fwIdx,
                   fwPages>>

FwStop ==
    /\ phase = "tx" /\ phase' = "stopping"
    /\ ext' = "STOP"
    /\ irq' = irq \cup {"EXT"}
    /\ UNCHANGED <<faults, pushes, frameVars, txVars, cfmVars, irqVars, status, ring, fwIdx,
                   fwPages>>

FwExpand ==
    /\ phase = "stopped" /\ phase' = "grow"
    /\ status' = "FW_EXPAND"
    /\ fwPages' = SmallPages
    /\ irq' = irq \cup {"RX"}
    /\ UNCHANGED <<faults, pushes, frameVars, txVars, cfmVars, irqVars, ext, ring, fwIdx>>

FwStart ==
    /\ phase = "grown" /\ phase' = "rx"
    /\ ext' = "START"
    /\ irq' = irq \cup {"EXT"}
    /\ UNCHANGED <<faults, pushes, frameVars, txVars, cfmVars, irqVars, status, ring, fwIdx,
                   fwPages>>

-----------------------------------------------------------------------------
TxTask  == TxStopped \/ TxWake \/ TxPick \/ TxCharge \/ TxSend
CfmTask == CfmWake \/ (\E f \in Frame : CfmSlot(f)) \/ CfmSleep
IrqTask == IrqAck \/ IrqRx \/ IrqCfm \/ IrqStop \/ IrqStart

Next ==
    \/ \E f \in Frame, n \in Sizes : Push(f, n)
    \/ TxTask \/ CfmTask \/ IrqTask
    \/ \E f \in Frame : FwConfirm(f)
    \/ FwRx \/ FwNarrow \/ FwStop \/ FwExpand \/ FwStart

Spec == Init /\ [][Next]_vars

\* The three tasks run. The firmware confirms what it is given and ends the
\* exchanges of pages that it began, with receive indications meanwhile; it
\* need not begin any, and nobody need push a frame.
FairSpec ==
    /\ Spec
    /\ WF_vars(TxTask) /\ WF_vars(CfmTask) /\ WF_vars(IrqTask)
    /\ \A f \in Frame : WF_vars(FwConfirm(f))
    /\ WF_vars(phase \notin {"rx", "tx"} /\ FwRx)
    /\ WF_vars(FwExpand) /\ WF_vars(FwStart)
-----------------------------------------------------------------------------
(* Properties *)

\* The state has its types; no page counter leaves 0..LargePages.
TypeOK ==
    /\ at \in [Frame -> {"out", "desc", "batch", "fw", "cfm"}]
    /\ hostid \in [Frame -> Id \cup {NoId}] /\ avail \in Seq(Id) /\ prefix \in 1..MaxPrefix
    /\ tx \in {"wait", "pick", "charge", "send"} /\ cfm \in {"wait", "run"}
    /\ sem \in Nat /\ cfmSem \in 0..SemBound /\ drvIdx \in Slots /\ fwIdx \in Slots
    /\ free \in 0..LargePages /\ tot \in {SmallPages, LargePages}
    /\ bufState \subseteq BufFlags /\ fwPages \in {SmallPages, LargePages}
    /\ phase \in {"rx", "shrink", "reduced", "tx", "stopping", "stopped", "grow", "grown"}

\* tx_page_free_num and tx_page_tot_num, written by three tasks, account for
\* every page that is charged to a frame; while the ring is narrow without
\* BUFFER_TX_USED_FLAG the lent pages are announced and not yet received.
PagesExact ==
    free + Charged + leaked =
        IF tot = LargePages /\ "TX_USED" \notin bufState THEN SmallPages ELSE tot

\* What the host has sent fits the pages that the firmware reserves for
\* transmission at that moment, also while it takes the lent part back.
NoOverrun == PagesAt({"fw"}) <= fwPages

\* After the host has answered a stop no frame is on its way until the
\* firmware starts transmission again (aml_tx_task, dynabuf_stop_tx).
StopIsHonoured ==
    phase \in {"stopped", "grow", "grown"} =>
        \A f \in Frame : at[f] \in {"out", "desc"}

\* A frame is released as confirmed only after the firmware confirmed this
\* transmission of it, although slots keep old confirmations and ids are
\* used again (hostid_prefix).
ConfirmedFirst ==
    [][\A f \in Frame : at'[f] = "out" => at[f] \in {"out", "cfm"}]_vars

\* No frame is left in tx_desc_save: whatever wake-up was used up while pages
\* were short or transmission stopped, another follows (TXCFM_TRIGGER_TX_THR).
QueuedIsSent ==
    \A f \in Frame : (faults = {} /\ at[f] = "desc") ~> at[f] = "fw"

\* A stop that the host learns of while frames are on their way or queued is
\* answered. With nothing to send nobody wakes the task, as the handler of
\* DYNAMIC_BUF_HOST_TX_STOP raises no aml_tx_sem.
StopIsAnswered ==
    (faults = {} /\ sendStop /\ \E f \in Frame : at[f] # "out") ~> ~sendStop
=============================================================================
