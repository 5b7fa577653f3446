------------------------------- MODULE RxBuf -------------------------------
(* The receive path of the SDIO bus, up to the frames that are forwarded: the *)
(* firmware writes packets into a ring of the shared memory; the interrupt    *)
(* task copies what is new into one of RXBUF_NUM buffers and tells the        *)
(* firmware how far it has read; aml_rx_task walks the buffers and puts       *)
(* frames into order. The ring changes its length while it is in use, by the  *)
(* exchange of module DynBuf (module SdioTx has the transmit pages of it).    *)
(* Memory is modelled by cells, of which a packet takes some and its          *)
(* descriptor RX_DESC_SIZE; RXBUF_START_ADDR is 0.                            *)
EXTENDS DynBuf, Reorder, FiniteSets

CONSTANTS
    SmallEnd, LargeEnd,  \* RXBUF_END_ADDR_SMALL and _LARGE
    Desc,                \* RX_DESC_SIZE
    Sizes,               \* lengths of packets
    NbBufs,              \* RXBUF_NUM
    PoolSize,            \* RX_DATA_MAX_CNT
    Window,              \* the firmware's reorder window
    MaxSent, MaxReorder, \* bounds: packets published, in order and out of order;
                         \* MaxReorder also keeps the message of a time-out from
                         \* being outrun by a whole turn of the ids
    FeatureSets          \* "switch": sizes vary and the ring changes its length;
                         \* "reorder": frames arrive out of order; "late": the
                         \* reorder time-out does not wait for the host

ASSUME RxBufAssumption ==
    /\ Desc \in Nat \ {0} /\ SmallEnd \in Nat /\ LargeEnd \in Nat
    /\ 2 * Desc <= SmallEnd /\ SmallEnd < LargeEnd
    /\ Sizes \subseteq Desc..(SmallEnd - Desc) /\ Desc \in Sizes
    /\ NbBufs \in Nat \ {0} /\ PoolSize \in Nat
    /\ MaxSent \in Nat /\ MaxReorder \in Nat
    /\ Window \in Nat \ {0} /\ 2 * Window <= MaxId

VARIABLES
    features,   \* of this behaviour
    \* firmware
    mem,        \* the cells: the packet that a cell belongs to, and its offset
    fwPos,      \* where the next packet goes, with the wrap bit
    fwEnd,      \* the end of the ring for it
    phase,      \* of the exchange of memory
    sent,       \* packets published
    reg,        \* FW2HST_IRQ_CFG: position and buffer status
    irq,        \* receive interrupt raised
    msgs,       \* PRIV_SDIO_USB_REORD_INFO_IND on their way
    win,        \* next sequence number to forward, of each tid
    fwHeld,     \* sequence numbers that wait for an earlier one
    flushed,    \* sequence numbers whose time-out came
    \* interrupt task
    pending,    \* a receive indication is to be handled
    newPos,     \* fw_new_pos
    bufPos,     \* fw_buf_pos, which the firmware is told
    bufState,   \* rx_buf_state
    rxEnd,      \* rx_buf_end
    table,      \* reorder_info
    \* buffers
    freeList, usedList,     \* rxbuf_free_list, rxbuf_used_list
    buf,                    \* the fields of struct rxbuf_list, and the data
    \* aml_rx_task
    sem,        \* aml_rx_sem
    rx,         \* "wait" or "run"
    cur,        \* the buffer it walks: its number, host_buf_start, last_fw_pos
    handled,    \* the packets handled, 0 for what was no packet
    held,       \* reorder_list
    dropped,    \* frames that found no free rxdata
    up          \* sequence numbers forwarded, of each tid

fwVars  == <<mem, fwPos, fwEnd, phase, sent, reg, irq, msgs, win, fwHeld, flushed>>
irqVars == <<pending, newPos, bufPos, bufState, rxEnd, table>>
bufVars == <<freeList, usedList, buf>>
rxVars  == <<sem, rx, cur, handled, held, dropped, up>>
vars    == <<features, fwVars, irqVars, bufVars, rxVars>>

-----------------------------------------------------------------------------
Start   == [a |-> 0, wrap |-> FALSE]
Empty   == [n |-> 0]
NoCell  == [pkt |-> Empty, k |-> 0]
NoBuf   == [b |-> 0, i |-> 0, last |-> 0]
SemBound == 2
Bufs    == 1..NbBufs

Cells(from, to) == [i \in 1..(to - from) |-> mem[from + i - 1]]

Init ==
    /\ features \in FeatureSets
    /\ mem = [a \in 0..(LargeEnd - 1) |-> NoCell]
    /\ fwPos = Start /\ fwEnd = LargeEnd /\ phase = "large" /\ sent = 0
    /\ reg = [pos |-> Start, status |-> "FW_EXPAND"] /\ irq = FALSE /\ msgs = <<>>
    /\ win = [t \in Tid |-> 1] /\ fwHeld = [t \in Tid |-> {}]
    /\ flushed = [t \in Tid |-> {}]
    /\ pending = FALSE /\ newPos = Start /\ bufPos = Start
    /\ bufState = InitBufState /\ rxEnd = LargeEnd
    /\ table = [t \in Tid |-> NoRange]
    /\ freeList = [b \in Bufs |-> b] /\ usedList = <<>>
    /\ buf = [b \in Bufs |-> [data |-> <<>>, first |-> 0, start |-> 0, end |-> 0]]
    /\ sem = 0 /\ rx = "wait" /\ cur = NoBuf /\ handled = <<>>
    /\ held = <<>> /\ dropped = {} /\ up = [t \in Tid |-> <<>>]

-----------------------------------------------------------------------------
(* The firmware *)

\* Cells it has published and the host has not said to have read
Unread ==
    IF fwPos = bufPos THEN {}
    ELSE IF bufPos.a < fwPos.a THEN bufPos.a..(fwPos.a - 1)
    ELSE (bufPos.a..(fwEnd - 1)) \cup (0..(fwPos.a - 1))

Advance(pos, a) == [a |-> a, wrap |-> IF a <= pos.a THEN ~pos.wrap ELSE pos.wrap]

\* The rest of the ring from a is too short for a descriptor
InTail(a) == fwEnd - a < Desc

\* A descriptor is not split; the packet after it may be. It does not fill the
\* ring from one tail to the next: aml_rx_task would walk that buffer for ever
Write(frame, size) ==
    LET from == IF InTail(fwPos.a) THEN 0 ELSE fwPos.a
        cell == [k \in 0..(size - 1) |-> IF from + k < fwEnd THEN from + k ELSE from + k - fwEnd]
        next == IF from + size <= fwEnd THEN from + size ELSE from + size - fwEnd
        pkt  == [n |-> sent + 1, size |-> size, next |-> next, tid |-> frame.tid,
                 sn |-> frame.sn, hold |-> frame.hold, range |-> frame.range]
    IN  /\ \A k \in DOMAIN cell : cell[k] \notin Unread
        /\ ~(InTail(bufPos.a) /\ InTail(next) /\ Advance(fwPos, next).wrap # bufPos.wrap)
        /\ mem' = [a \in DOMAIN mem |->
              IF \E k \in DOMAIN cell : cell[k] = a
              THEN [pkt |-> pkt, k |-> CHOOSE k \in DOMAIN cell : cell[k] = a]
              ELSE mem[a]]
        /\ fwPos' = Advance(fwPos, next)
        /\ sent' = sent + 1

IdOf(sn) == ((sn - 1) % MaxId) + 1

\* How many frames from sn on it holds without a gap
Run(t, sn) == CHOOSE k \in 0..Window :
    /\ \A i \in 0..(k - 1) : sn + i \in fwHeld[t]
    /\ sn + k \notin fwHeld[t]

\* A frame that is not the next one is held by the host; the next one is
\* forwarded and names those that follow it
Receive(t, sn, size) ==
    LET n == IF sn = win[t] THEN Run(t, sn + 1) ELSE 0 IN
    /\ Write([tid |-> t, sn |-> sn, hold |-> sn # win[t],
              range |-> IF n = 0 THEN NoRange ELSE [start |-> IdOf(sn + 1), len |-> n]],
             size)
    /\ IF sn = win[t]
       THEN /\ win' = [win EXCEPT ![t] = sn + 1 + n]
            /\ fwHeld' = [fwHeld EXCEPT ![t] = @ \ (sn..(sn + n))]
       ELSE /\ fwHeld' = [fwHeld EXCEPT ![t] = @ \cup {sn}]
            /\ UNCHANGED win

\* The status of the ring that the firmware shows until it changes it again
Shown == IF phase \in {"narrowing", "narrowed", "small"} THEN "FW_NARROW" ELSE "FW_EXPAND"

\* A change of the ring is shown with the last packet before it. It comes when
\* the host has used each buffer since the last one
Shows(status) ==
    \/ status = Shown /\ phase' = phase
    \/ /\ "switch" \in features
       /\ \A b \in Bufs : buf[b].end = fwEnd
       /\ \/ phase = "large" /\ phase' = "narrowing" /\ status = "FW_NARROW"
          \/ phase = "small" /\ phase' = "expanding" /\ status = "FW_EXPAND"

FwPublish(t, sn, size) ==
    /\ phase \notin {"narrowing", "expanding"}
    /\ sent < IF "reorder" \in features THEN MaxReorder ELSE MaxSent
    /\ sn \in win[t]..(win[t] + Window - 1) /\ sn \notin fwHeld[t]
    /\ "reorder" \notin features => sn = win[t]
    /\ "reorder" \notin features \/ sent = 0 => \A x \in Tid : t <= x   \* tids are alike
    /\ "switch" \notin features => size = Desc
    /\ Receive(t, sn, size)
    /\ \E status \in FwStatus :
           Shows(status) /\ reg' = [pos |-> fwPos', status |-> status]
    /\ irq' = TRUE
    /\ UNCHANGED <<features, fwEnd, msgs, flushed, irqVars, bufVars, rxVars>>

\* The frames that wait for sn are given up on
FwFlush(t) ==
    /\ fwHeld[t] # {}
    /\ msgs = <<>>
    /\ "late" \in features \/ (Len(handled) = sent /\ table[t] = NoRange)
    /\ LET h == CHOOSE s \in fwHeld[t] : \A x \in fwHeld[t] : s <= x
           n == Run(t, h)
       IN  /\ msgs' = Append(msgs, [tid |-> t, range |-> [start |-> IdOf(h), len |-> n]])
           /\ win' = [win EXCEPT ![t] = h + n]
           /\ fwHeld' = [fwHeld EXCEPT ![t] = @ \ (h..(h + n - 1))]
           /\ flushed' = [flushed EXCEPT ![t] = @ \cup (h..(h + n - 1))]
    /\ UNCHANGED <<features, mem, fwPos, fwEnd, phase, sent, reg, irq, irqVars, bufVars,
                   rxVars>>

\* What it does when the host tells it where it stands
Hear(told) ==
    /\ phase' = IF "REDUCE_READ" \in told THEN "narrowed"
                ELSE IF "REDUCE_FINSH" \in told THEN "small"
                ELSE IF "ENLARGE_READ" \in told THEN "expanded"
                ELSE IF "ENLARGE_FINSH" \in told THEN "large" ELSE phase
    /\ fwEnd' = IF "REDUCE_READ" \in told THEN SmallEnd
                ELSE IF "ENLARGE_READ" \in told THEN LargeEnd ELSE fwEnd
    /\ fwPos' = IF "REDUCE_READ" \in told /\ fwPos.a >= SmallEnd THEN Start ELSE fwPos

-----------------------------------------------------------------------------
(* The interrupt task *)

\* aml_pci_ack_irq
IrqAck ==
    /\ irq /\ ~pending
    /\ irq' = FALSE /\ pending' = TRUE
    /\ newPos' = reg.pos
    /\ bufState' = IF reg.status \in FwStatus THEN AckStatus(bufState, reg.status)
                   ELSE bufState
    /\ UNCHANGED <<features, mem, fwPos, fwEnd, phase, sent, reg, msgs, win, fwHeld, flushed,
                   bufPos, rxEnd, table, bufVars, rxVars>>

\* The wrap bit tells a full ring from an empty one
NewData_NoWrap == bufPos.a # newPos.a
NewData == bufPos # newPos

\* The ends of the ring and of the buffer after aml_sdio_dynamic_buffer_check:
\* on its early return the buffer keeps the end of its last use
RingEnd == IF NarrowDone(bufState) THEN SmallEnd
           ELSE IF ExpandDone(bufState) THEN LargeEnd ELSE rxEnd
EndOf(b) == IF FirstOfSwitch(bufState) THEN buf[b].end ELSE RingEnd

\* The bytes between fw_buf_pos and fw_new_pos, around the end of the ring and
\* without a rest that is too short for a descriptor
Filled(end) ==
    LET lo == bufPos.a  hi == newPos.a IN
    IF hi > lo
    THEN [data |-> Cells(lo, hi), first |-> hi - lo, start |-> lo, end |-> end]
    ELSE IF end - lo < Desc
    THEN [data |-> Cells(0, hi), first |-> 0,
          start |-> IF hi > 0 THEN 0 ELSE lo, end |-> end]
    ELSE [data |-> Cells(lo, end) \o Cells(0, hi), first |-> end - lo, start |-> lo,
          end |-> end]

\* aml_trigger_rst_rxd: what lies in the part that is lent is read already
Resets(st) == "NARROW" \in st /\ newPos.a >= SmallEnd

Read ==
    LET b  == Head(freeList)
        st == CheckState(bufState)
        pos == IF Resets(st) THEN Start ELSE newPos
    IN  /\ buf' = [buf EXCEPT ![b] = Filled(EndOf(b))]
        /\ freeList' = Tail(freeList)
        /\ usedList' = Append(usedList, b)
        /\ rxEnd' = RingEnd
        /\ bufState' = TriggerState(st)
        /\ newPos' = pos /\ bufPos' = pos
        /\ reg' = IF Resets(st) THEN [pos |-> Start, status |-> "NONE"] ELSE reg
        /\ Hear(Told(st))

\* aml_sdio_rxdataind waits for a free buffer
IrqRx ==
    /\ pending /\ freeList # <<>>
    /\ pending' = FALSE
    /\ sem' = IF sem < SemBound THEN sem + 1 ELSE sem
    /\ IF NewData THEN Read
       ELSE UNCHANGED <<bufVars, rxEnd, bufState, newPos, bufPos, reg, phase, fwEnd, fwPos>>
    /\ UNCHANGED <<features, mem, sent, irq, msgs, win, fwHeld, flushed, table,
                   rx, cur, handled, held, dropped, up>>

\* aml_sdio_usb_rx_reord_flush_ind, after the receive indications of its interrupt
IrqMsg ==
    /\ msgs # <<>> /\ ~pending
    /\ table' = [table EXCEPT ![Head(msgs).tid] = Head(msgs).range]
    /\ msgs' = Tail(msgs)
    /\ UNCHANGED <<features, mem, fwPos, fwEnd, phase, sent, reg, irq, win, fwHeld, flushed,
                   pending, newPos, bufPos, bufState, rxEnd, bufVars, rxVars>>

-----------------------------------------------------------------------------
(* aml_rx_task *)

RxWake ==
    /\ rx = "wait" /\ sem > 0
    /\ sem' = sem - 1 /\ rx' = "run"
    /\ UNCHANGED <<features, fwVars, irqVars, bufVars, cur, handled, held, dropped, up>>

RxTake ==
    /\ rx = "run" /\ cur = NoBuf /\ usedList # <<>>
    /\ cur' = [b |-> Head(usedList), i |-> 0, last |-> buf[Head(usedList)].start]
    /\ usedList' = Tail(usedList)
    /\ UNCHANGED <<features, fwVars, irqVars, freeList, buf, sem, rx, handled, held,
                   dropped, up>>

RxSleep ==
    /\ rx = "run" /\ cur = NoBuf /\ usedList = <<>>
    /\ rx' = "wait"
    /\ UNCHANGED <<features, fwVars, irqVars, bufVars, sem, cur, handled, held, dropped, up>>

Sns(fs) == [i \in DOMAIN fs |-> fs[i].sn]
Own(t, p) == IF t = p.tid /\ ~p.hold THEN <<p.sn>> ELSE <<>>
Named(t, p, list) == IF t = p.tid THEN Sns(Released(list, t, p.range)) ELSE <<>>

Forwarded_Late(t, p, list) ==
    Sns(Released(list, t, table[t])) \o Named(t, p, KeptByAll(list, table)) \o Own(t, p)

\* The frame itself first, then the frames whose time-out came, then those that
\* its descriptor names
Forwarded(t, p, list) ==
    Own(t, p) \o Sns(Released(list, t, table[t])) \o Named(t, p, KeptByAll(list, table))

\* rx_skb_handle and what aml_sdio_usb_host_reoder_handle does after each packet
Deliver(p) ==
    LET full == Len(held) >= PoolSize
        list == IF p.hold /\ ~full
                THEN Append(held, [tid |-> p.tid, sn |-> p.sn, id |-> IdOf(p.sn)]) ELSE held
    IN  /\ up' = [t \in Tid |-> up[t] \o Forwarded(t, p, list)]
        /\ held' = Kept(KeptByAll(list, table), p.tid, p.range)
        /\ dropped' = IF p.hold /\ full THEN dropped \cup {<<p.tid, p.sn>>} ELSE dropped
        /\ table' = [t \in Tid |-> NoRange]

\* Where the walk continues after a packet
NextPos_Raw(next, end) == next
NextPos(next, end) == IF end - next < Desc THEN 0 ELSE next
NextIdx(next, end) ==
    IF NextPos(next, end) > cur.last THEN cur.i + NextPos(next, end) - cur.last
    ELSE buf[cur.b].first + NextPos(next, end)

\* The bytes at host_buf_start are a packet as the firmware wrote it
IsPacket(data, i) ==
    /\ data[i + 1].pkt # Empty
    /\ i + data[i + 1].pkt.size <= Len(data)
    /\ \A k \in 0..(data[i + 1].pkt.size - 1) :
           data[i + 1 + k] = [pkt |-> data[i + 1].pkt, k |-> k]

RxPacket ==
    LET d == buf[cur.b].data  end == buf[cur.b].end  p == d[cur.i + 1].pkt IN
    /\ cur # NoBuf /\ cur.i < Len(d)
    /\ \/ /\ IsPacket(d, cur.i) /\ p.next <= end
          /\ handled' = Append(handled, p.n)
          /\ Deliver(p)
          /\ cur' = [cur EXCEPT !.i = NextIdx(p.next, end), !.last = NextPos(p.next, end)]
       \/ /\ IsPacket(d, cur.i) /\ p.next > end     \* "invalid address"
          /\ cur' = [cur EXCEPT !.i = Len(d)]
          /\ UNCHANGED <<handled, held, dropped, up, table>>
       \/ /\ ~IsPacket(d, cur.i)
          /\ handled' = Append(handled, 0)
          /\ cur' = [cur EXCEPT !.i = Len(d)]
          /\ UNCHANGED <<held, dropped, up, table>>
    /\ UNCHANGED <<features, fwVars, pending, newPos, bufPos, bufState, rxEnd, bufVars,
                   sem, rx>>

\* What is left in the buffer is not read again, but for its end
RxDone ==
    /\ cur # NoBuf /\ cur.i >= Len(buf[cur.b].data)
    /\ buf' = [buf EXCEPT ![cur.b].data = <<>>, ![cur.b].first = 0, ![cur.b].start = 0]
    /\ freeList' = Append(freeList, cur.b)
    /\ cur' = NoBuf
    /\ UNCHANGED <<features, fwVars, irqVars, usedList, sem, rx, handled, held, dropped,
                   up>>

-----------------------------------------------------------------------------
IrqTask == IrqAck \/ IrqRx \/ IrqMsg
RxTask  == RxWake \/ RxTake \/ RxSleep \/ RxPacket \/ RxDone

Next ==
    \/ \E t \in Tid : \E d \in 0..(Window - 1), size \in Sizes :
           FwPublish(t, win[t] + d, size)
    \/ \E t \in Tid : FwFlush(t)
    \/ IrqTask \/ RxTask

Spec == Init /\ [][Next]_vars

\* The two tasks of the host run; the firmware need do nothing.
FairSpec == Spec /\ WF_vars(IrqTask) /\ WF_vars(RxTask)

-----------------------------------------------------------------------------
(* Properties *)

\* Each published packet is eventually handled: a full ring is seen, a buffer
\* becomes free, and the interrupt task that waits for one and the rx task do
\* not wait for each other (aml_sdio_rxdataind, aml_rx_task).
PublishedIsHandled == []<>(Len(handled) = sent)

\* A frame that is forwarded after a later one of its tid was given up on by a
\* time-out of the firmware: that frame was late in any case. When the time-out
\* overtakes packets in the buffers, it may also be the later one that was
\* given up on (aml_sdio_usb_host_reoder_handle, aml_sdio_usb_rx_reord_flush_ind).
\* It needs that ids do not begin again while the message of a time-out waits,
\* which MaxReorder sees to.
OrderKept ==
    \A t \in Tid : \A i, j \in DOMAIN up[t] :
        i < j /\ up[t][i] > up[t][j] =>
            \/ up[t][j] \in flushed[t]
            \/ "late" \in features /\ up[t][i] \in flushed[t]

\* When no packet and no time-out is under way, the host holds the frames that
\* the firmware will name and no others: none is forgotten in reorder_list, and
\* none released without being named, also when ids begin again.
HeldAgrees ==
    (/\ "late" \notin features
     /\ Len(handled) = sent /\ msgs = <<>> /\ \A t \in Tid : table[t] = NoRange)
    => \A t \in Tid :
          { held[i].sn : i \in { j \in DOMAIN held : held[j].tid = t } }
              = { sn \in fwHeld[t] : <<t, sn>> \notin dropped }

Channel == INSTANCE RxChannel

\* Packets reach aml_rx_task in the order in which the firmware published them,
\* each once and as it was written, whatever the length of the ring, the place
\* where it is split and the buffers that are free (aml_sdio_rxdataind,
\* aml_sdio_dynamic_buffer_check, aml_trigger_rst_rxd).
ImplementsRxChannel == Channel!Spec

=============================================================================
