-------------------------------- MODULE Txq --------------------------------
(***************************************************************************)
(* The transmit queues of aml_txq.c with the code of fullmac/aml_tx.c that *)
(* drives them: one queue per station and TID, all linked to one hardware  *)
(* queue.  A frame enters a queue (aml_start_xmit), is pushed to the       *)
(* firmware while the queue and the hardware queue have credits            *)
(* (aml_hwq_process, aml_tx_push) and comes back in a confirmation, which  *)
(* returns the credits and may ask for the frame to be sent again.         *)
(*                                                                         *)
(* Everything but the end of the clean-up timer runs under tx_lock.  The   *)
(* loops that hold tx_lock over several queues or frames are taken one     *)
(* iteration at a time, and lock says which of them holds it.              *)
(*                                                                         *)
(* Left out: A-MSDU, MU-MIMO (not built), and the contents of frames.      *)
(*                                                                         *)
(* A definition D_Variant is the definition D with a plausible mistake in  *)
(* it; it is used only to confirm that the properties notice the mistake.  *)
(***************************************************************************)
EXTENDS Integers, Sequences, FiniteSets, SequencesExt, FiniteSetsExt

CONSTANTS
    Sta,            \* stations
    TxqSeq,         \* the queues, in the order of their indexes
    TxqPrio,        \* and in the order of nx_tid_prio
    StaOf,          \* StaOf[q] is the station queue q belongs to
    PsIdOf,         \* txq->ps_id, "LEGACY" or "UAPSD"
    Mcast,          \* the stations that stand for broadcast and multicast
    NbFrames,       \* frames are numbered in the order the network stack sends them
    Buses,          \* the buses to consider, among "SDIO" (which stands for USB too) and "PCIE"
    InitialCredits, \* NX_TXQ_INITIAL_CREDITS
    HwqSize,        \* hwq->size
    FlowStop,       \* AML_NDEV_FLOW_CTRL_STOP
    FlowRestart,    \* AML_NDEV_FLOW_CTRL_RESTART
    BaCredits,      \* the credits a block acknowledgement agreement may be worth
    MaxReq,         \* the largest traffic request of the firmware
    FeatureSets     \* the sets of features of the environment to consider

Txq     == ToSet(TxqSeq)
Frame   == 1..NbFrames
NoFrame == 0
PsId == {"LEGACY", "UAPSD"}

ASSUME TxqAssumption ==
    /\ TxqSeq \in Seq(Txq) /\ TxqSeq # <<>> /\ TxqPrio \in Seq(Txq)
    /\ IsInjective(TxqSeq) /\ IsInjective(TxqPrio) /\ ToSet(TxqPrio) = Txq
    /\ StaOf \in [Txq -> Sta]
    /\ PsIdOf \in [Txq -> PsId]
    /\ Mcast \subseteq Sta
    /\ \A q \in Txq : StaOf[q] \in Mcast => PsIdOf[q] = "LEGACY"
    /\ NbFrames \in Nat
    /\ Buses \subseteq {"SDIO", "PCIE"}
    /\ InitialCredits \in 1..HwqSize /\ HwqSize \in 1..124
    /\ FlowRestart \in Nat \ {0} /\ FlowStop \in Nat /\ FlowRestart <= FlowStop + 1
    /\ BaCredits \subseteq 1..127
    /\ MaxReq \in Nat
    /\ FeatureSets \subseteq
         SUBSET {"retry", "ba", "chan", "ps", "interrupt", "timer", "race", "delete"}

VARIABLES
    txq,        \* struct aml_txq of each queue
    hwList,     \* hwq->list
    hwqCredits, \* hwq->credits[0]
    needProcessing, \* hwq->need_processing
    ps,         \* sta->ps of each station
    valid,      \* sta->valid
    chanOn,     \* the channel of the interface is the active one
    ndevStopped,\* the queues whose netdev queue is stopped
    where,      \* where each frame is
    frameTxq,   \* sw_txhdr->txq
    lock,       \* who holds tx_lock: "free", "hwq" (aml_hwq_process), "cfm" (confirmations)
    scan,       \* the queues aml_hwq_process has still to visit
    irq,        \* "idle", "pending" or "process": the interrupt task
    cfms,       \* confirmations written by the firmware
    toConfirm,  \* confirmations the host has read
    ba,         \* the credits of each queue's block acknowledgement agreement, or 0 (firmware)
    owed,       \* the credits of each queue the firmware still has to return
    cleanup,    \* the unlocked end of aml_txq_drop_old_traffic
    retried,    \* history: the frames the firmware has postponed once
    pushed,     \* history: the frames pushed at least once
    bus,        \* aml_bus_type
    features    \* what the environment does in this behaviour

drvVars == <<txq, hwList, hwqCredits, needProcessing, ps, valid, ndevStopped>>
vars == <<drvVars, chanOn, ba, owed, where, frameTxq, lock, scan, irq, cfms, toConfirm,
          cleanup, retried, pushed>>
conf == <<bus, features>>

Pcie == bus = "PCIE"

StopReason == {"STOP_FULL", "STOP_STA_PS", "STOP_CHAN"}
Status     == StopReason \cup {"IN_HWQ_LIST", "NDEV_FLOW_CTRL"}
Place      == {"new", "queued", "fw", "done"}

-----------------------------------------------------------------------------
(* Helpers                                                                 *)

Lower(a, b)  == IF a <= b THEN a ELSE b
Higher(a, b) == IF a >= b THEN a ELSE b
U8(n)  == n % 256
U16(n) == n % 65536
S8(n) == ((n + 128) % 256) - 128

StaTxqs(s) == { q \in Txq : StaOf[q] = s }
IsStopped(t) == t.status \cap StopReason # {}
Linked(t) == "IN_HWQ_LIST" \in t.status
AsFrames(l) == { l[i] : i \in DOMAIN l }

\* aml_txq_add_to_hw_list and aml_txq_del_from_hw_list, on the queue's side
AddToHwList(t)   == [t EXCEPT !.status = @ \cup {"IN_HWQ_LIST"}]
DelFromHwList(t) == [t EXCEPT !.status = @ \ {"IN_HWQ_LIST"}]

\* A queue goes on hwq->list when its IN_HWQ_LIST bit is set anew, and off it when
\* the bit is lost
Joins_Unchecked(old, new) == Linked(new)
Joins(old, new)  == Linked(new) /\ ~Linked(old)
Leaves(old, new) == Linked(old) /\ ~Linked(new)

\* The elements of l that are in S, in their order
OnlyOf(l, S) ==
    LET at == { i \in DOMAIN l : l[i] \in S }
    IN [k \in 1..Cardinality(at) |-> l[CHOOSE i \in at : Cardinality({ j \in at : j <= i }) = k]]

Relink(l, q, old, new) ==
    IF Joins(old, new) THEN Append(l, q)
    ELSE IF Leaves(old, new) THEN OnlyOf(l, Txq \ {q})
    ELSE l

\* Every queue q becomes new[q], one after the other
SetTxqs(new, order) ==
    /\ txq' = new
    /\ hwList' = OnlyOf(hwList, { q \in Txq : ~Leaves(txq[q], new[q]) })
                  \o OnlyOf(order, { q \in Txq : Joins(txq[q], new[q]) })

NewlyLinked(new) == \E q \in Txq : Joins(txq[q], new[q])

SetTxq(q, t) ==
    /\ txq' = [txq EXCEPT ![q] = t]
    /\ hwList' = Relink(hwList, q, txq[q], t)

Start_NoSchedule(t, reason) == [t EXCEPT !.status = @ \ reason]

\* aml_txq_start and aml_txq_stop, for a set of reasons
Start(t, reason) ==
    IF t.active /\ t.status \cap reason # {}
    THEN LET s == [t EXCEPT !.status = @ \ reason]
         IN IF ~IsStopped(s) /\ s.list # <<>> THEN AddToHwList(s) ELSE s
    ELSE t

Stop(t, reason) ==
    IF t.active THEN DelFromHwList([t EXCEPT !.status = @ \cup reason]) ELSE t

\* What the number of credits says about AML_TXQ_STOP_FULL
StopIfFull(t) == IF t.credits <= 0 THEN Stop(t, {"STOP_FULL"}) ELSE Start(t, {"STOP_FULL"})

LimitAfter_Kept(t, n) == t.pushLimit

\* push_limit after n frames left the queue
LimitAfter(t, n) == Higher(t.pushLimit - n, 0)

\* Drop the first n frames, which are retry ones (aml_txq_drop_skb)
DropRetries(t, n) ==
    [t EXCEPT !.list = SubSeq(@, n + 1, Len(@)), !.nbRetry = @ - n,
              !.lastRetry = IF t.nbRetry = n THEN NoFrame ELSE @]

\* Start at the head of the hardware queue list (aml_hwq_process)
BeginScan(l) ==
    /\ scan' = l
    /\ lock' = IF l = <<>> THEN "free" ELSE "hwq"

\* The queue as aml_txq_init makes it
InitTxq(status) ==
    [active |-> TRUE, status |-> status, credits |-> InitialCredits, pktSent |-> 0,
     pktPushed |-> 0, list |-> <<>>, lastRetry |-> NoFrame, nbRetry |-> 0, pushLimit |-> 0]

-----------------------------------------------------------------------------
(* Queueing                                                                *)

Insert_AtHead(t, f, retry) ==
    IF ~retry THEN [t EXCEPT !.list = <<f>> \o @]
    ELSE [t EXCEPT !.list = InsertAt(@, t.nbRetry + 1, f), !.lastRetry = f, !.nbRetry = @ + 1]

\* aml_txq_queue_skb inserts a retry frame after the last retry one, another at the tail
Insert(t, f, retry) ==
    IF ~retry THEN [t EXCEPT !.list = Append(@, f)]
    ELSE [t EXCEPT !.list = InsertAt(@, (IF t.lastRetry # NoFrame THEN t.nbRetry ELSE 0) + 1, f),
                   !.lastRetry = f, !.nbRetry = @ + 1]

\* Too many frames wait: aml_txq_queue_skb stops the netdev queue
Congested(t) == Len(t.list) > FlowStop

QueueSkb(t, f, retry) ==
    LET i == Insert(t, f, retry)
        c == IF Congested(i) THEN [i EXCEPT !.status = @ \cup {"NDEV_FLOW_CTRL"}] ELSE i
    IN IF IsStopped(c) THEN c ELSE AddToHwList(c)

CountReady_None(q, n) == ps

\* One more frame is buffered for a sleeping station
CountReady(q, n) ==
    LET s == StaOf[q] IN
    IF ps[s].active
    THEN [ps EXCEPT ![s].pktReady[PsIdOf[q]] = U16(@ + n)]
    ELSE ps

\* aml_start_xmit for a frame of queue q
Xmit(q, f) ==
    /\ lock = "free"
    /\ where[f] = "new" /\ \A g \in 1..(f - 1) : where[g] # "new"
    /\ q \notin ndevStopped
    /\ frameTxq' = [frameTxq EXCEPT ![f] = q]
    /\ \/ /\ ~txq[q].active
          /\ where' = [where EXCEPT ![f] = "done"]
          /\ UNCHANGED <<txq, hwList, ps, ndevStopped, needProcessing, lock, scan>>
       \/ /\ txq[q].active
          /\ LET t == QueueSkb(txq[q], f, FALSE) IN
             /\ SetTxq(q, t)
             /\ ndevStopped' = IF Congested(t) THEN ndevStopped \cup {q} ELSE ndevStopped
             /\ IF IsStopped(t)
                THEN UNCHANGED <<needProcessing, lock, scan>>
                ELSE needProcessing' = FALSE /\ BeginScan(hwList')
          /\ ps' = CountReady(q, 1)
          /\ where' = [where EXCEPT ![f] = "queued"]
    /\ UNCHANGED <<hwqCredits, valid, chanOn, ba, owed, irq, cfms, toConfirm, cleanup, retried, pushed>>

-----------------------------------------------------------------------------
(* aml_hwq_process                                                         *)

\* aml_txq_get_credits
Credits(t) == IF t.pushLimit # 0 THEN Lower(t.credits, t.pushLimit) ELSE t.credits

\* How many frames aml_txq_get_skb_to_push takes, and whether the queue has no
\* more frame it may push afterwards
PushCount(t) == Lower(Len(t.list), Lower(Credits(t), hwqCredits))
PushedAll(t) ==
    \/ Lower(Credits(t), hwqCredits) >= Len(t.list)
    \/ t.pushLimit # 0 /\ Lower(Credits(t), hwqCredits) = t.pushLimit

\* aml_tx_push of the first n frames
AfterPush(t, n) ==
    LET r == Lower(n, t.nbRetry)
        u == [t EXCEPT !.list = SubSeq(@, n + 1, Len(@)),
                       !.nbRetry = @ - r,
                       !.lastRetry = IF r = t.nbRetry THEN NoFrame ELSE @,
                       !.pktSent = U8(@ + (n - r)),
                       !.credits = @ - n,
                       !.pktPushed = U8(@ + n),
                       !.pushLimit = LimitAfter(t, n)]
    IN IF u.credits <= 0 THEN Stop(u, {"STOP_FULL"}) ELSE u

\* The sanity check that aml_hwq_process prints "error" for
Pushable(t) == Linked(t) /\ t.active /\ t.credits > 0 /\ t.list # <<>>

\* A legacy service period the hardware queue cannot complete is given up
AbortsSp(q, t) == t.pushLimit # 0 /\ PsIdOf[q] = "LEGACY"

\* Few enough frames wait: the netdev queue is restarted
Wakes(t) == "NDEV_FLOW_CTRL" \in t.status /\ Len(t.list) < FlowRestart

\* The body of the loop for a queue whose frames can be pushed
PushTxq(q) ==
    LET old == txq[q]
        n   == PushCount(old)
        all == PushedAll(old)
        t1  == AfterPush(old, n)
        t2  == IF all THEN [DelFromHwList(t1) EXCEPT !.pktSent = 0] ELSE t1
        turn == ~all /\ hwqCredits = n /\ Linked(t2) /\ t2.pktSent > HwqSize
        t3  == IF turn THEN [t2 EXCEPT !.pktSent = 0] ELSE t2
        t4  == IF AbortsSp(q, t3) THEN [t3 EXCEPT !.pushLimit = 0] ELSE t3
        wake == Wakes(t4)
        t5  == IF wake THEN [t4 EXCEPT !.status = @ \ {"NDEV_FLOW_CTRL"}] ELSE t4
        s   == StaOf[q]
        id  == PsIdOf[q]
        active == ps[s].active
        aborted == IF AbortsSp(q, t3) THEN t3.pushLimit ELSE 0
    IN /\ txq' = [txq EXCEPT ![q] = t5]
       /\ hwList' = LET l == Relink(hwList, q, old, t5)
                    IN IF turn THEN Append(Tail(l), Head(l)) ELSE l
       /\ hwqCredits' = hwqCredits - n
       /\ ps' = [ps EXCEPT ![s].pktReady[id] = IF active THEN U16(@ - n) ELSE @,
                           ![s].spCnt[id] = U16((IF active THEN @ - n ELSE @) - aborted)]
       /\ ndevStopped' = IF wake THEN ndevStopped \ {q} ELSE ndevStopped
       /\ where' = [f \in Frame |->
                      IF f \in AsFrames(SubSeq(old.list, 1, n)) THEN "fw" ELSE where[f]]
       /\ pushed' = pushed \cup AsFrames(SubSeq(old.list, 1, n))

\* One iteration of aml_hwq_process
VisitTxq ==
    /\ lock = "hwq"
    /\ \E q \in Txq :
       /\ q = Head(scan)
       /\ IF Pushable(txq[q]) /\ hwqCredits > 0
          THEN PushTxq(q)
          ELSE UNCHANGED <<txq, hwList, hwqCredits, ps, ndevStopped, where, pushed>>
       /\ BeginScan(IF Pushable(txq[q]) /\ hwqCredits = 0 THEN <<>> ELSE Tail(scan))
    /\ UNCHANGED <<needProcessing, valid, chanOn, ba, owed, frameTxq, irq, cfms, toConfirm,
                   cleanup, retried>>

-----------------------------------------------------------------------------
(* Interrupts and confirmations                                            *)

Confirmed(f) ==
    \/ \E i \in DOMAIN cfms : cfms[i].frame = f
    \/ \E i \in DOMAIN toConfirm : toConfirm[i].frame = f

\* The firmware confirms a frame, or postpones it, once.  On SDIO and USB a
\* confirmation is worth one credit, on PCIe the firmware may keep the credits
\* back while it holds another frame of the queue.
FwConfirm(f) ==
    LET q == frameTxq[f]
        more == \E g \in Frame \ {f} : where[g] = "fw" /\ frameTxq[g] = q /\ ~Confirmed(g)
    IN /\ where[f] = "fw" /\ ~Confirmed(f)
       /\ \/ /\ "retry" \in features /\ f \notin retried
             /\ retried' = retried \cup {f}
             /\ cfms' = Append(cfms, [frame |-> f, retry |-> TRUE, credits |-> 0])
             /\ UNCHANGED owed
          \/ \E n \in {owed[q] + 1} \cup (IF Pcie /\ more THEN {0} ELSE {}) :
             /\ cfms' = Append(cfms, [frame |-> f, retry |-> FALSE, credits |-> n])
             /\ owed' = [owed EXCEPT ![q] = @ + 1 - n]
             /\ UNCHANGED retried
       /\ irq' = IF irq = "idle" THEN "pending" ELSE irq
       /\ UNCHANGED <<drvVars, chanOn, ba, where, frameTxq, lock, scan, toConfirm,
                      cleanup, pushed>>

\* The interrupt task reads the confirmations
Irq ==
    /\ irq = "pending" \/ (irq = "process" /\ cfms # <<>>)
    /\ toConfirm' = toConfirm \o cfms
    /\ cfms' = <<>>
    /\ irq' = "process"
    /\ UNCHANGED <<drvVars, chanOn, ba, owed, where, frameTxq, lock, scan, cleanup, retried, pushed>>

\* aml_hwq_process_all at the end of the interrupt task.  On PCIe the
\* confirmations are handled before it, on SDIO and USB by aml_tx_cfm_task.
IrqProcess ==
    /\ irq = "process" /\ lock = "free"
    /\ Pcie => toConfirm = <<>>
    /\ irq' = IF cfms = <<>> THEN "idle" ELSE "pending"
    /\ IF needProcessing
       THEN needProcessing' = FALSE /\ BeginScan(hwList)
       ELSE UNCHANGED <<needProcessing, lock, scan>>
    /\ UNCHANGED <<txq, hwList, hwqCredits, ps, valid, ndevStopped, chanOn, ba, owed, where, frameTxq,
                   cfms, toConfirm, cleanup, retried, pushed>>

\* aml_txq_confirm_any, for the queue and for the hardware queue
ConfirmAny(t) == [t EXCEPT !.pktPushed = Higher(@ - 1, 0)]

HwqConfirmed_OnlyActive(c, t) == IF t.active THEN c + 1 ELSE c

HwqConfirmed(c, t) == c + 1

\* aml_tx_retry
Retry(t, f) ==
    LET c == [t EXCEPT !.credits = @ + 1]
        u == IF c.credits > 0 THEN Start(c, {"STOP_FULL"}) ELSE c
    IN QueueSkb(u, f, TRUE)

\* The end of a confirmation: n credits come back, and a service period goes on
Credited(t, n) ==
    LET u == IF n # 0 THEN StopIfFull([t EXCEPT !.credits = @ + n]) ELSE t
    IN IF u.pushLimit # 0 /\ "STOP_FULL" \notin u.status THEN AddToHwList(u) ELSE u

\* aml_txdatacfm, and one iteration of aml_tx_cfm_task
Confirm ==
    /\ toConfirm # <<>> /\ lock \in {"free", "cfm"}
    /\ Pcie => irq = "process"
    /\ LET f == Head(toConfirm).frame
           q == frameTxq[f]
           t == ConfirmAny(txq[q])
           again == t.active /\ Head(toConfirm).retry
       IN /\ \/ /\ again
                /\ LET r == Retry(t, f) IN
                   /\ SetTxq(q, r)
                   /\ ndevStopped' = IF Congested(r) THEN ndevStopped \cup {q} ELSE ndevStopped
                /\ ps' = CountReady(q, 1)
                /\ where' = [where EXCEPT ![f] = "queued"]
             \/ /\ ~again
                /\ SetTxq(q, IF t.active THEN Credited(t, Head(toConfirm).credits) ELSE t)
                /\ where' = [where EXCEPT ![f] = "done"]
                /\ UNCHANGED <<ps, ndevStopped>>
          /\ hwqCredits' = HwqConfirmed(hwqCredits, t)
          /\ needProcessing' = TRUE
    /\ toConfirm' = Tail(toConfirm)
    /\ lock' = IF Tail(toConfirm) # <<>> THEN "cfm" ELSE "free"
    /\ UNCHANGED <<valid, chanOn, ba, owed, frameTxq, scan, irq, cfms, cleanup, retried, pushed>>

-----------------------------------------------------------------------------
(* Indications of the firmware, handled by the interrupt task              *)

Indication ==
    /\ lock = "free"
    /\ irq' = IF irq = "idle" THEN "pending" ELSE irq
    /\ UNCHANGED <<hwqCredits, valid, frameTxq, lock, scan, cfms, toConfirm, cleanup, retried, pushed>>

\* aml_txq_vif_stop and aml_txq_vif_start for AML_TXQ_STOP_CHAN
ChanSwitch ==
    /\ "chan" \in features
    /\ Indication
    /\ chanOn' = ~chanOn
    /\ LET new == [q \in Txq |-> IF chanOn THEN Stop(txq[q], {"STOP_CHAN"})
                                 ELSE Start(txq[q], {"STOP_CHAN"})]
       IN SetTxqs(new, TxqSeq) /\ needProcessing' = (needProcessing \/ NewlyLinked(new))
    /\ UNCHANGED <<ps, ndevStopped, ba, owed, where>>

\* The sum of g[q] for the queues q of Q, counted one by one
SumOf(g, Q) == Cardinality(UNION { {q} \X (1..g[q]) : q \in Q })

\* The frames buffered for a station, for each kind of power save
Buffered(s, id) == SumOf([q \in Txq |-> Len(txq[q].list)],
                         { q \in StaTxqs(s) : PsIdOf[q] = id })

\* aml_ps_bh_enable, when the station goes to sleep and when it wakes up
PsOn(s) ==
    /\ "ps" \in features /\ valid[s] /\ ~ps[s].active
    /\ Indication
    /\ LET new == [q \in Txq |-> IF StaOf[q] = s THEN Stop(txq[q], {"STOP_STA_PS"}) ELSE txq[q]]
       IN SetTxqs(new, TxqSeq)
    /\ ps' = [ps EXCEPT ![s] = [active   |-> TRUE,
                                pktReady |-> [id \in PsId |-> U16(Buffered(s, id))],
                                spCnt    |-> [id \in PsId |-> 0]]]
    /\ UNCHANGED <<needProcessing, ndevStopped, chanOn, ba, owed, where>>

PsOff(s) ==
    /\ "ps" \in features /\ valid[s] /\ ps[s].active
    /\ Indication
    /\ LET new == [q \in Txq |-> IF StaOf[q] = s
                                 THEN Start([txq[q] EXCEPT !.pushLimit = 0], {"STOP_STA_PS"})
                                 ELSE txq[q]]
       IN SetTxqs(new, TxqSeq) /\ needProcessing' = (needProcessing \/ NewlyLinked(new))
    /\ ps' = [ps EXCEPT ![s].active = FALSE]
    /\ UNCHANGED <<ndevStopped, chanOn, ba, owed, where>>

Offer_Credits(q) == Higher(txq[q].credits, 0)

\* How many frames queue q can offer to a service period (txq_len, a u16)
Offer(q) ==
    IF StaOf[q] \in Mcast THEN Higher(txq[q].credits, 0)
    ELSE U16(Lower(Len(txq[q].list), txq[q].credits))

\* Its share of a request for n frames: the queues of higher priority come first
Share(q, n) ==
    LET pos(r)  == CHOOSE i \in DOMAIN TxqPrio : TxqPrio[i] = r
        before  == { r \in StaTxqs(StaOf[q]) : PsIdOf[r] = PsIdOf[q] /\ pos(r) < pos(q) }
    IN Higher(0, Lower(Offer(q), n - SumOf([r \in Txq |-> Offer(r)], before)))

\* aml_ps_bh_traffic_req: a service period starts, unless one is in progress or
\* nothing is ready
TrafficReq(s, id, n) ==
    LET ready == ps[s].pktReady[id] - ps[s].spCnt[id]
        req   == IF n = 0 \/ n > ready THEN ready ELSE n
        chosen == { q \in StaTxqs(s) : PsIdOf[q] = id /\ Share(q, req) > 0 }
        new == [q \in Txq |->
                  IF q \in chosen
                  THEN AddToHwList([txq[q] EXCEPT !.pushLimit = U8(Share(q, req))])
                  ELSE txq[q]]
    IN /\ "ps" \in features /\ ps[s].active
       /\ Indication
       /\ ps[s].spCnt[id] = 0 /\ ready > 0
       /\ SetTxqs(new, TxqPrio)
       /\ needProcessing' = (needProcessing \/ NewlyLinked(new))
       /\ ps' = [ps EXCEPT ![s].spCnt[id] = U16(SumOf([q \in Txq |-> Share(q, req)], chosen))]
       /\ UNCHANGED <<ndevStopped, chanOn, ba, owed, where>>

\* The same function for a request of PS_SP_INTERRUPTED packets
SpInterrupted(s) ==
    /\ "interrupt" \in features /\ ps[s].active
    /\ Indication
    /\ txq' = [q \in Txq |-> IF StaOf[q] = s THEN [txq[q] EXCEPT !.pushLimit = 0] ELSE txq[q]]
    /\ ps' = [ps EXCEPT ![s].spCnt["UAPSD"] = 0]
    /\ UNCHANGED <<hwList, needProcessing, ndevStopped, chanOn, ba, owed, where>>

\* What an update of u credits makes of a queue
Updated(t, u) ==
    LET fits == /\ Pcie \/ t.credits + u > 0
                /\ t.credits + t.pktPushed + u < HwqSize
    IN StopIfFull([t EXCEPT !.credits = S8(IF fits THEN @ + u ELSE HwqSize - t.pktPushed)])

\* The loop that drops retry frames stops when its counter meets nb_retry,
\* which each drop decrements
NbDropped(t) == (t.nbRetry + 1) \div 2

\* aml_txq_credit_update, when an agreement worth n credits is made, or one is deleted
CreditUpdate(q, n) ==
    LET t == txq[q]
        u == IF ba[q] = 0 THEN n ELSE -ba[q]
        v == IF ~Pcie /\ u > InitialCredits /\ t.active THEN HwqSize - InitialCredits ELSE u
        drop == IF v < InitialCredits THEN NbDropped(t) ELSE 0
        t1 == IF t.active THEN Updated(t, v) ELSE t
        t2 == DropRetries(t1, drop)
    IN /\ "ba" \in features /\ valid[StaOf[q]]
       /\ Indication
       /\ ba' = [ba EXCEPT ![q] = IF @ = 0 THEN n ELSE 0]
       /\ SetTxq(q, t2)
       /\ needProcessing' = (needProcessing \/ (Linked(t2) /\ ~Linked(t)))
       /\ where' = [f \in Frame |-> IF f \in AsFrames(SubSeq(t.list, 1, drop)) THEN "done" ELSE where[f]]
       /\ UNCHANGED <<ps, ndevStopped, chanOn, owed>>

-----------------------------------------------------------------------------
(* The clean-up timer                                                      *)

\* aml_txq_drop_old_traffic drops the n oldest frames that are not retry ones
DropOld(t, n) ==
    [t EXCEPT !.list = SubSeq(@, 1, t.nbRetry) \o SubSeq(@, t.nbRetry + n + 1, Len(@))]

\* A drop during a service period shortens it
ShortenSp(t, n) == [t EXCEPT !.pushLimit = LimitAfter(t, n)]

Unschedule(t) == IF t.list = <<>> THEN [DelFromHwList(t) EXCEPT !.pktSent = 0] ELSE t

Drained_Never(t) == FALSE

Drained(t) == "NDEV_FLOW_CTRL" \in t.status /\ t.list = <<>>

\* The end of aml_txq_drop_old_traffic runs after tx_lock is released and
\* modifies status in two accesses; only with "race" others step in between
NoTail == [step |-> "none", of |-> TxqSeq[1], status |-> {}]

CleanupTimer(q, n) ==
    LET t  == txq[q]
        s  == StaOf[q]
        id == PsIdOf[q]
        inSp == IF ps[s].active THEN Lower(n, ps[s].spCnt[id]) ELSE 0
        t1 == Unschedule(ShortenSp(DropOld(t, n), inSp))
        wake == Drained(t1) /\ "race" \notin features
    IN /\ "timer" \in features /\ lock = "free" /\ cleanup.step = "none"
       /\ t.active /\ n <= Len(t.list) - t.nbRetry
       /\ SetTxq(q, IF wake THEN [t1 EXCEPT !.status = @ \ {"NDEV_FLOW_CTRL"}] ELSE t1)
       /\ ndevStopped' = IF wake THEN ndevStopped \ {q} ELSE ndevStopped
       /\ ps' = IF ps[s].active
                THEN [ps EXCEPT ![s].pktReady[id] = U16(@ - n), ![s].spCnt[id] = @ - inSp]
                ELSE ps
       /\ where' = [f \in Frame |->
                      IF f \in AsFrames(SubSeq(t.list, t.nbRetry + 1, t.nbRetry + n))
                      THEN "done" ELSE where[f]]
       /\ cleanup' = IF "race" \in features
                     THEN [step |-> "read", of |-> q, status |-> {}] ELSE NoTail
       /\ UNCHANGED <<hwqCredits, needProcessing, valid, chanOn, ba, owed, frameTxq, lock, scan, irq,
                      cfms, toConfirm, retried, pushed>>

TailRead ==
    /\ cleanup.step = "read"
    /\ LET t == txq[cleanup.of] IN
       cleanup' = IF Drained(t) THEN [cleanup EXCEPT !.step = "write", !.status = t.status]
                  ELSE NoTail
    /\ UNCHANGED <<drvVars, chanOn, ba, owed, where, frameTxq, lock, scan, irq, cfms, toConfirm,
                   retried, pushed>>

TailWrite ==
    /\ cleanup.step = "write"
    /\ txq' = [txq EXCEPT ![cleanup.of].status = cleanup.status \ {"NDEV_FLOW_CTRL"}]
    /\ ndevStopped' = ndevStopped \ {cleanup.of}
    /\ cleanup' = NoTail
    /\ UNCHANGED <<hwList, hwqCredits, needProcessing, ps, valid, chanOn, ba, owed, where, frameTxq,
                   lock, scan, irq, cfms, toConfirm, retried, pushed>>

-----------------------------------------------------------------------------
(* Stations come and go                                                    *)

\* aml_cfg80211_del_station
StaDel(s) ==
    /\ "delete" \in features /\ valid[s]
    /\ ps' = [ps EXCEPT ![s].active = FALSE]
    /\ valid' = [valid EXCEPT ![s] = FALSE]
    /\ UNCHANGED <<txq, hwList, hwqCredits, needProcessing, ndevStopped, chanOn, ba, owed, where,
                   frameTxq, lock, scan, irq, cfms, toConfirm, cleanup, retried, pushed>>

\* aml_txq_deinit and aml_txq_flush
TxqDeinit(q) ==
    /\ ~valid[StaOf[q]] /\ txq[q].active /\ lock = "free"
    /\ SetTxq(q, [DelFromHwList(txq[q]) EXCEPT
                    !.active = FALSE, !.list = <<>>, !.nbRetry = 0, !.lastRetry = NoFrame])
    /\ where' = [f \in Frame |-> IF f \in AsFrames(txq[q].list) THEN "done" ELSE where[f]]
    /\ UNCHANGED <<hwqCredits, needProcessing, ps, valid, ndevStopped, chanOn, ba, owed, frameTxq, lock,
                   scan, irq, cfms, toConfirm, cleanup, retried, pushed>>

\* aml_cfg80211_add_station, after the firmware has released the frames of the
\* station that had the same index
StaAdd(s) ==
    /\ ~valid[s] /\ \A q \in StaTxqs(s) : ~txq[q].active
    /\ ~\E f \in Frame : where[f] = "fw" /\ StaOf[frameTxq[f]] = s
    /\ \E asleep \in (IF "ps" \in features THEN BOOLEAN ELSE {FALSE}) :
         LET status == (IF chanOn THEN {} ELSE {"STOP_CHAN"})
                       \cup (IF asleep THEN {"STOP_STA_PS"} ELSE {})
         IN /\ txq' = [q \in Txq |-> IF StaOf[q] = s THEN InitTxq(status) ELSE txq[q]]
            /\ ps' = [ps EXCEPT ![s] =
                        IF asleep THEN [active |-> TRUE, pktReady |-> [id \in PsId |-> 0],
                                        spCnt |-> [id \in PsId |-> 0]]
                        ELSE @]
    /\ valid' = [valid EXCEPT ![s] = TRUE]
    /\ ba' = [q \in Txq |-> IF StaOf[q] = s THEN 0 ELSE ba[q]]
    /\ owed' = [q \in Txq |-> IF StaOf[q] = s THEN 0 ELSE owed[q]]
    /\ UNCHANGED <<hwList, hwqCredits, needProcessing, ndevStopped, chanOn, where, frameTxq,
                   lock, scan, irq, cfms, toConfirm, cleanup, retried, pushed>>

-----------------------------------------------------------------------------
Init ==
    /\ txq = [q \in Txq |-> InitTxq({})]
    /\ hwList = <<>> /\ hwqCredits = HwqSize /\ needProcessing = FALSE
    /\ ps = [s \in Sta |-> [active |-> FALSE, pktReady |-> [id \in PsId |-> 0],
                            spCnt |-> [id \in PsId |-> 0]]]
    /\ valid = [s \in Sta |-> TRUE]
    /\ chanOn = TRUE
    /\ ba = [q \in Txq |-> 0] /\ owed = [q \in Txq |-> 0]
    /\ ndevStopped = {}
    /\ where = [f \in Frame |-> "new"]
    /\ frameTxq = [f \in Frame |-> TxqSeq[1]]
    /\ lock = "free" /\ scan = <<>>
    /\ irq = "idle" /\ cfms = <<>> /\ toConfirm = <<>>
    /\ cleanup = NoTail
    /\ retried = {} /\ pushed = {}
    /\ bus \in Buses /\ features \in FeatureSets

Step ==
    \/ \E q \in Txq, f \in Frame : Xmit(q, f)
    \/ VisitTxq
    \/ \E f \in Frame : FwConfirm(f)
    \/ Irq
    \/ IrqProcess
    \/ Confirm
    \/ ChanSwitch
    \/ \E s \in Sta : PsOn(s) \/ PsOff(s) \/ SpInterrupted(s)
    \/ \E s \in Sta, id \in PsId, n \in 0..MaxReq : TrafficReq(s, id, n)
    \/ \E q \in Txq, n \in BaCredits : CreditUpdate(q, n)
    \/ \E q \in Txq, n \in 0..NbFrames : CleanupTimer(q, n)
    \/ TailRead
    \/ TailWrite
    \/ \E s \in Sta : StaDel(s) \/ StaAdd(s)
    \/ \E q \in Txq : TxqDeinit(q)

Next == Step /\ UNCHANGED conf

Spec == Init /\ [][Next]_<<vars, conf>>

\* Some thread with work to do runs (which one does not matter), and the firmware confirms what
\* it was given
Fairness ==
    /\ WF_vars(VisitTxq \/ Irq \/ IrqProcess \/ Confirm)
    /\ WF_vars(\E f \in Frame : FwConfirm(f))

LiveSpec == Spec /\ Fairness

-----------------------------------------------------------------------------
(* Properties                                                              *)

\* hwq->list holds each queue whose AML_TXQ_IN_HWQ_LIST bit is set, once, and no
\* other: aml_txq_add_to_hw_list and aml_txq_del_from_hw_list rely on the bit.
ListSound ==
    /\ IsInjective(hwList)
    /\ ToSet(hwList) = { q \in Txq : Linked(txq[q]) }
    /\ \A q \in Txq : Linked(txq[q]) => txq[q].active

\* A queue is scheduled if and only if it can send.  While nobody holds tx_lock, a
\* scheduled one has a frame and a credit ("TX queue have at least 1 buffer,
\* otherwise it wouldn't be in the list", aml_hwq_process), and one with both and no
\* other reason to wait is scheduled, whatever the confirmations, retries, updates
\* and channel switches; a stopped one is never scheduled, but for the queue of a
\* sleeping station with frames left in its service period.
ScheduledIffReady ==
    /\ lock = "free" => \A q \in Txq :
          /\ Linked(txq[q]) => Pushable(txq[q])
          /\ txq[q].active /\ ~IsStopped(txq[q]) /\ txq[q].list # <<>> => Linked(txq[q])
    /\ \A q \in ToSet(hwList) :
          /\ txq[q].status \cap StopReason \subseteq {"STOP_STA_PS"}
          /\ "STOP_STA_PS" \in txq[q].status => txq[q].pushLimit > 0

InFirmware == { f \in Frame : where[f] = "fw" }

\* Each frame in the firmware costs the hardware queue one credit, and each
\* confirmation gives it back, also when its station has gone meanwhile; pkt_pushed
\* counts the frames of the queue in the firmware.  On SDIO and USB, where the
\* firmware keeps no credits back, the queue with its credits never outgrows the
\* hardware queue, whatever the updates.
CreditsConserved ==
    /\ hwqCredits + Cardinality(InFirmware) = HwqSize
    /\ \A q \in Txq : txq[q].active =>
          /\ txq[q].pktPushed = Cardinality({ f \in InFirmware : frameTxq[f] = q })
          /\ ~Pcie => txq[q].credits + txq[q].pktPushed <= HwqSize

\* The retry frames are the first nb_retry ones and last_retry_skb is the last of
\* them (aml_txq_queue_skb, aml_tx_push, aml_txq_drop_old_traffic); the others reach
\* the firmware for the first time in the order the network stack sent them, the
\* clean-up timer only dropping older ones.
PushOrder ==
    /\ \A q \in Txq :
          LET t == txq[q] IN
          /\ t.nbRetry <= Len(t.list)
          /\ t.lastRetry = IF t.nbRetry = 0 THEN NoFrame ELSE t.list[t.nbRetry]
          /\ \A i \in DOMAIN t.list : t.list[i] \in pushed <=> i <= t.nbRetry
    /\ \A f, g \in Frame :
          f < g /\ frameTxq[f] = frameTxq[g] /\ g \in pushed
              => f \in pushed \/ where[f] \in {"new", "done"}

\* ps.pkt_ready counts the frames buffered for a sleeping station ("Number of
\* packets buffered for the sta in drv's txq"), as far as 16 bits can.
PktReadyExact ==
    \A s \in Sta, id \in PsId : ps[s].active => ps[s].pktReady[id] = U16(Buffered(s, id))

\* ps.sp_cnt counts the frames its queues may still push in the service period
\* ("Number of packets that remain to be pushed in the service period"), and no
\* push_limit promises more frames than its queue holds.  It may promise all of
\* them, although aml_txq.h:251 has "push_limit < skb_queue_len(sk_list)".
SpCountExact ==
    /\ \A q \in Txq : txq[q].pushLimit <= Len(txq[q].list)
    /\ \A s \in Sta, id \in PsId : ps[s].active =>
        ps[s].spCnt[id] = SumOf([q \in Txq |-> txq[q].pushLimit],
                                { q \in StaTxqs(s) : PsIdOf[q] = id })

\* The netdev queue is stopped exactly while AML_TXQ_NDEV_FLOW_CTRL says so, and
\* then there are frames whose departure will wake it; stations that leave are
\* the exception (aml_txq_deinit wakes nobody).
FlowControlExact ==
    ("delete" \notin features /\ lock = "free" /\ cleanup.step = "none") =>
    \A q \in Txq : txq[q].active =>
        /\ "NDEV_FLOW_CTRL" \in txq[q].status <=> q \in ndevStopped
        /\ q \in ndevStopped => txq[q].list # <<>>

\* If the channel stays and no station sleeps, the queues become empty again and again:
\* every queued frame reaches the firmware or is dropped, the postponed ones included.
QueuedIsPushed ==
    "ps" \notin features /\ <>[]chanOn => []<>(\A f \in Frame : where[f] # "queued")

\* If the channel stays, every service period comes to its end: again and again no
\* station that sleeps is in one, unless it wakes up or leaves.
SpFinishes ==
    <>[]chanOn => \A s \in Sta : []<>(ps[s].active => \A id \in PsId : ps[s].spCnt[id] = 0)
=============================================================================
