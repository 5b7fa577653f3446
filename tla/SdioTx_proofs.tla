---------------------------- MODULE SdioTx_proofs ----------------------------
(***************************************************************************)
(* Theorems about SdioTx, for any frames, sizes of the pools and faults.   *)
(***************************************************************************)
EXTENDS SdioTx, FiniteSetTheorems, TLAPS

Places == {"out", "desc", "batch", "fw", "cfm"}
Confirmation == [id : Id \cup {NoId}, dyna : BOOLEAN]
Bits == {"RX", "CFM", "EXT"}
Phases == {"rx", "shrink", "reduced", "tx", "stopping", "stopped", "grow", "grown"}

Shapes ==
    /\ at \in [Frame -> Places] /\ size \in [Frame -> Nat] /\ hostid \in [Frame -> Id \cup {NoId}]
    /\ avail \in Seq(Id) /\ prefix \in 1..MaxPrefix /\ pushes \in Nat
    /\ tx \in {"wait", "pick", "charge", "send"} /\ desc \in Seq(Frame)
    /\ sem \in Nat /\ cfmSem \in 0..SemBound /\ batch \in Nat /\ free \in Int /\ tot \in Nat /\ leaked \in Nat
    /\ stop \in BOOLEAN /\ sendStop \in BOOLEAN
    /\ cfm \in {"wait", "run"} /\ drvIdx \in Slots /\ fwIdx \in Slots
    /\ copy \in [Slots -> Confirmation] /\ ring \in [Slots -> Confirmation]
    /\ handling \subseteq Bits /\ irq \subseteq Bits /\ bufState \subseteq BufFlags
    /\ ext \in {"START", "STOP"} /\ status \in FwStatus /\ phase \in Phases /\ fwPages \in Nat

\* A frame is in tx_desc_save once, has pages from there on, and an id.
FramesOnce ==
    /\ \A k \in 1..Len(desc) : at[desc[k]] = "desc"
    /\ \A k, l \in 1..Len(desc) : desc[k] = desc[l] => k = l
    /\ \A f \in Frame : IF at[f] = "out" THEN size[f] = 0 ELSE size[f] \in Sizes
    /\ \A f \in Frame : at[f] = "out" <=> hostid[f] = NoId

\* An id is available once, or pushed once.
IdsOnce ==
    /\ \A f, g \in Frame : hostid[f] # NoId /\ hostid[g] # NoId /\ hostid[f].n = hostid[g].n => f = g
    /\ \A k, l \in 1..Len(avail) : avail[k].n = avail[l].n => k = l
    /\ \A f \in Frame, k \in 1..Len(avail) : hostid[f] # NoId => hostid[f].n # avail[k].n

\* The ids of the slots.
InSlots == {ring[i].id : i \in Slots} \cup {copy[i].id : i \in Slots}

\* No slot holds the id that is given out next, or any that is available.
FreshIds == avail # <<>> => avail[1] \notin InSlots
AllFresh == \A k \in 1..Len(avail) : avail[k] \notin InSlots

\* A slot with the id of a frame is the confirmation of that frame.
Genuine == \A f \in Frame : hostid[f] \in InSlots /\ hostid[f] # NoId => at[f] = "cfm"

\* The frames whose confirmation lends the pages of the ring.
Lenders == {f \in Frame : hostid[f] # NoId /\ \E i \in Slots : ring[i] = [id |-> hostid[f], dyna |-> TRUE]
                                                               \/ copy[i] = [id |-> hostid[f], dyna |-> TRUE]}

LentOnce ==
    /\ \A f, g \in Lenders : f = g
    /\ Lenders # {} => phase \in {"tx", "stopping"} /\ "TX_USED" \notin bufState

\* Nothing is on its way.
Quiesced ==
    /\ tx = "wait" /\ free = tot /\ leaked = 0
    /\ \A f \in Frame : at[f] \in {"out", "desc"}

TxSteps ==
    /\ tx = "wait" => \A f \in Frame : at[f] # "batch"
    /\ tx = "charge" => desc # <<>> /\ size[Head(desc)] < free
    /\ 0 <= free

EXT == "EXT" \in irq \/ "EXT" \in handling

\* The flags of rx_buf_state in one place.
Flags(narrow, expand, update, used) ==
    /\ narrow <=> "NARROW" \in bufState
    /\ expand <=> "EXPAND" \in bufState
    /\ update <=> "UPDATE" \in bufState
    /\ used <=> "TX_USED" \in bufState
    /\ "NOTIFY" \notin bufState /\ "EXPEND_FINSH" \notin bufState
    /\ "FW_NARROW" \in bufState <=> "FW_EXPAND" \notin bufState

Acked == status \in bufState

RxPhase ==
    /\ Flags(FALSE, FALSE, FALSE, FALSE) /\ status = "FW_EXPAND" /\ Acked
    /\ tot = SmallPages /\ fwPages = SmallPages
    /\ ext = "START" /\ ~sendStop /\ (stop => EXT)

ShrinkPhase ==
    /\ status = "FW_NARROW" /\ fwPages = SmallPages
    /\ ext = "START" /\ ~sendStop /\ (stop => EXT)
    /\ \/ ~Acked /\ Flags(FALSE, FALSE, FALSE, FALSE) /\ tot = SmallPages
       \/ Acked /\ Flags(TRUE, FALSE, FALSE, FALSE) /\ tot = SmallPages /\ "EXT" \notin irq
       \/ Acked /\ Flags(TRUE, FALSE, TRUE, FALSE) /\ tot = LargePages /\ "EXT" \notin irq
            /\ ("RX" \in handling => "EXT" \notin handling)

LentPhase ==
    /\ status = "FW_NARROW" /\ Acked /\ tot = LargePages
    /\ Flags(FALSE, FALSE, FALSE, "TX_USED" \in bufState)
    /\ CASE phase = "reduced" -> fwPages = SmallPages /\ "TX_USED" \notin bufState
         [] OTHER -> fwPages = LargePages
    /\ IF phase = "stopping"
       THEN ext = "STOP" /\ (sendStop => stop /\ ~EXT) /\ (EXT \/ sendStop)
       ELSE ~stop /\ ~sendStop /\ ~EXT

GrowPhase ==
    /\ Quiesced /\ stop /\ ~sendStop /\ ~EXT
    /\ CASE phase = "stopped" -> Flags(FALSE, FALSE, FALSE, TRUE) /\ status = "FW_NARROW" /\ Acked
                                 /\ fwPages = LargePages /\ tot = LargePages
         [] phase = "grow" ->
              /\ status = "FW_EXPAND" /\ fwPages = SmallPages
              /\ \/ ~Acked /\ Flags(FALSE, FALSE, FALSE, TRUE) /\ tot = LargePages
                 \/ Acked /\ Flags(FALSE, TRUE, FALSE, TRUE) /\ tot = LargePages
                 \/ Acked /\ Flags(FALSE, TRUE, TRUE, TRUE) /\ tot = SmallPages
         [] OTHER -> Flags(FALSE, FALSE, FALSE, FALSE) /\ status = "FW_EXPAND" /\ Acked
                     /\ fwPages = SmallPages /\ tot = SmallPages

PhaseInv ==
    /\ ~("EXT" \in irq /\ "EXT" \in handling)
    /\ phase = "rx" => RxPhase
    /\ phase = "shrink" => ShrinkPhase
    /\ phase \in {"reduced", "tx", "stopping"} => LentPhase
    /\ phase \in {"stopped", "grow", "grown"} => GrowPhase

TxInv == Shapes /\ FramesOnce /\ IdsOnce /\ Genuine /\ LentOnce /\ TxSteps /\ PhaseInv /\ PagesExact

-----------------------------------------------------------------------------
\* A slot has a successor, and a prefix one, also where they wrap.
LEMMA Successors ==
    /\ \A i \in Slots : NextSlot(i) \in Slots
    /\ prefix \in 1..MaxPrefix => NextPrefix \in 1..MaxPrefix
BY SdioAssumption DEF Slots, NextSlot, NextPrefix

\* What the host does to the flags of rx_buf_state leaves them flags.
LEMMA FlagsStay ==
    ASSUME NEW st \in SUBSET BufFlags, NEW s \in FwStatus
    PROVE  AckStatus(st, s) \subseteq BufFlags /\ TriggerState(CheckState(st)) \subseteq BufFlags
BY DEF AckStatus, CheckState, TriggerState, BufFlags, FwStatus

\* An id that is found is pushed.
LEMMA FoundIsPushed ==
    ASSUME Shapes, NEW i \in Slots, NEW f \in FramesOf(copy[i].id)
    PROVE  f \in Frame /\ hostid[f] \in Id /\ hostid[f] # NoId /\ hostid[f] = copy[i].id /\ hostid[f].n \in 1..NbIds
<1>1. f \in Frame /\ hostid[f] = copy[i].id /\ hostid[f] # NoId
  BY DEF FramesOf
<1>2. hostid[f] \in Id
  BY <1>1 DEF Shapes
<1> QED
  BY <1>1, <1>2 DEF Id

\* The receive indication: nothing changes, or one of the two steps of a switch is made.
RxSame   == UNCHANGED <<bufState, free, tot, phase>>
RxFlags  == /\ "FW_NARROW" \in bufState' <=> "FW_NARROW" \in bufState
            /\ "FW_EXPAND" \in bufState' <=> "FW_EXPAND" \in bufState
RxNarrow == /\ phase = "shrink" /\ Flags(TRUE, FALSE, FALSE, FALSE) /\ RxFlags
            /\ tot' = LargePages /\ UNCHANGED <<free, phase>> /\ Flags(TRUE, FALSE, TRUE, FALSE)'
RxNarrowed == /\ phase = "shrink" /\ Flags(TRUE, FALSE, TRUE, FALSE) /\ RxFlags
              /\ phase' = "reduced" /\ UNCHANGED <<free, tot>> /\ Flags(FALSE, FALSE, FALSE, FALSE)'
RxExpand == /\ phase = "grow" /\ Flags(FALSE, TRUE, FALSE, TRUE) /\ RxFlags
            /\ tot' = SmallPages /\ free' = free - DynaPages /\ UNCHANGED phase
            /\ Flags(FALSE, TRUE, TRUE, TRUE)'
RxExpanded == /\ phase = "grow" /\ Flags(FALSE, TRUE, TRUE, TRUE) /\ RxFlags
              /\ phase' = "grown" /\ UNCHANGED <<free, tot>> /\ Flags(FALSE, FALSE, FALSE, FALSE)'

\* Every indication is one of these.
LEMMA RxCases ==
    ASSUME Shapes, PhaseInv, IrqRx
    PROVE  RxSame \/ RxNarrow \/ RxNarrowed \/ RxExpand \/ RxExpanded
<1> DEFINE st == CheckState(bufState)
<1>0. /\ bufState' = TriggerState(st) /\ free' = TriggerFree(st, free)
      /\ tot' = TriggerTot(st, tot) /\ phase' = Heard(Told(st))
  BY DEF IrqRx
<1> USE DEF CheckState, TriggerState, TriggerFree, TriggerTot, Told, Heard, FirstOfSwitch, SecondOfSwitch, BufStatus,
            RxFlags
<1>1. ASSUME NEW used \in BOOLEAN, Flags(FALSE, FALSE, FALSE, used) PROVE RxSame
  <2>1. st = bufState
    BY <1>1 DEF Flags
  <2> QED
    BY <1>0, <1>1, <2>1 DEF RxSame, Flags
<1>2. CASE phase = "shrink" /\ Flags(TRUE, FALSE, FALSE, FALSE)
  <2>1. st = bufState \cup {"UPDATE"}
    BY <1>2 DEF Flags
  <2> QED
    BY <1>0, <1>2, <2>1 DEF RxNarrow, Flags
<1>3. CASE phase = "shrink" /\ Flags(TRUE, FALSE, TRUE, FALSE)
  <2>1. st = (bufState \ {"NARROW", "EXPAND", "UPDATE"}) \cup {"NOTIFY"}
    BY <1>3 DEF Flags
  <2> QED
    BY <1>0, <1>3, <2>1 DEF RxNarrowed, Flags
<1>4. CASE phase = "grow" /\ Flags(FALSE, TRUE, FALSE, TRUE)
  <2>1. st = bufState \cup {"UPDATE"}
    BY <1>4 DEF Flags
  <2> QED
    BY <1>0, <1>4, <2>1 DEF RxExpand, Flags
<1>5. CASE phase = "grow" /\ Flags(FALSE, TRUE, TRUE, TRUE)
  <2>1. st = (bufState \ {"NARROW", "EXPAND", "UPDATE"}) \cup {"EXPEND_FINSH"}
    BY <1>5 DEF Flags
  <2> QED
    BY <1>0, <1>5, <2>1 DEF RxExpanded, Flags
<1>6. \/ \E used \in BOOLEAN : Flags(FALSE, FALSE, FALSE, used)
      \/ phase = "shrink" /\ (Flags(TRUE, FALSE, FALSE, FALSE) \/ Flags(TRUE, FALSE, TRUE, FALSE))
      \/ phase = "grow" /\ (Flags(FALSE, TRUE, FALSE, TRUE) \/ Flags(FALSE, TRUE, TRUE, TRUE))
  <2>1. phase \in Phases
    BY DEF Shapes
  <2>2. CASE phase \in {"rx", "grown"}
    <3>1. Flags(FALSE, FALSE, FALSE, FALSE)
      BY <2>2 DEF PhaseInv, RxPhase, GrowPhase
    <3> QED
      BY <3>1
  <2>3. CASE phase = "stopped"
    <3>1. Flags(FALSE, FALSE, FALSE, TRUE)
      BY <2>3 DEF PhaseInv, GrowPhase
    <3> QED
      BY <3>1
  <2>4. CASE phase \in {"reduced", "tx", "stopping"}
    <3>1. Flags(FALSE, FALSE, FALSE, "TX_USED" \in bufState)
      BY <2>4 DEF PhaseInv, LentPhase
    <3>2. CASE "TX_USED" \in bufState
      BY <3>1, <3>2 DEF Flags
    <3>3. CASE "TX_USED" \notin bufState
      BY <3>1, <3>3 DEF Flags
    <3> QED
      BY <3>2, <3>3
  <2>5. CASE phase = "shrink"
    <3>1. Flags(FALSE, FALSE, FALSE, FALSE) \/ Flags(TRUE, FALSE, FALSE, FALSE)
             \/ Flags(TRUE, FALSE, TRUE, FALSE)
      BY <2>5, Zenon DEF PhaseInv, ShrinkPhase
    <3> QED
      BY <2>5, <3>1, Zenon
  <2>6. CASE phase = "grow"
    <3>1. Flags(FALSE, FALSE, FALSE, TRUE) \/ Flags(FALSE, TRUE, FALSE, TRUE)
             \/ Flags(FALSE, TRUE, TRUE, TRUE)
      BY <2>6 DEF PhaseInv, GrowPhase
    <3> QED
      BY <2>6, <3>1, Zenon
  <2> QED
    BY <2>1, <2>2, <2>3, <2>4, <2>5, <2>6 DEF Phases
<1> QED
  BY <1>1, <1>2, <1>3, <1>4, <1>5, <1>6

-----------------------------------------------------------------------------
\* Every step keeps the shapes.
LEMMA ShapesNext == ASSUME TxInv, [Next]_vars PROVE Shapes'
<1> USE DEF vars, frameVars, txVars, cfmVars, irqVars, fwVars
<1>0. Shapes
  BY DEF TxInv
<1>a. SmallPages \in Nat /\ DynaPages \in Nat /\ Sizes \subseteq Nat
  BY PagesAssumption, SdioAssumption
<1>1. ASSUME NEW f \in Frame, NEW n \in Sizes, Push(f, n) PROVE Shapes'
  <2>1. Head(avail) \in Id /\ avail' \in Seq(Id) /\ desc' \in Seq(Frame) /\ n \in Nat
    BY <1>0, <1>1, <1>a DEF Push, HostPtrToId, Shapes
  <2> QED
    BY <1>0, <1>1, <2>1 DEF Push, HostPtrToId, Shapes, Places
<1>2. CASE TxTask
  <2>1. CASE TxStopped
    <3>1. copy' = ring \/ copy' = copy
      BY <2>1 DEF TxStopped, AnswerStop, UpdateTxCfm
    <3>2. /\ sem > 0 /\ (sem' = sem \/ sem' = sem - 1)
          /\ cfmSem' = cfmSem \/ cfmSem' = Up(cfmSem)
          /\ sendStop' = sendStop \/ sendStop' = FALSE
          /\ phase' = phase \/ phase' = "stopped"
      BY <2>1 DEF TxStopped, AnswerStop, UpdateTxCfm
    <3>3. sem' \in Nat /\ cfmSem' \in 0..SemBound /\ phase' \in Phases
      BY <1>0, <3>2 DEF Shapes, Phases, Up, SemBound
    <3>4. sendStop' \in BOOLEAN
      BY <1>0, <3>2, Zenon DEF Shapes
    <3> QED
      BY <1>0, <2>1, <3>1, <3>3, <3>4 DEF TxStopped, Shapes
  <2>2. CASE TxWake
    <3>1. tx' \in {"wait", "pick"} /\ sem' \in Nat
      BY <1>0, <2>2 DEF TxWake, Shapes
    <3> QED
      BY <1>0, <2>2, <3>1 DEF TxWake, Shapes
  <2>5. CASE TxPick
    <3>1. tx' \in {"charge", "send"}
      BY <2>5 DEF TxPick
    <3> QED
      BY <1>0, <2>5, <3>1 DEF TxPick, Shapes
  <2>3. CASE TxCharge
    <3> DEFINE f == Head(desc)
    <3>1. f \in Frame /\ size[f] \in Nat /\ desc # <<>>
      BY <1>0, <2>3 DEF TxInv, TxCharge, TxSteps, Shapes
    <3>2. /\ batch' = batch + size[f] /\ free' = free - size[f]
          /\ leaked' = leaked \/ leaked' = leaked + size[f]
          /\ desc' = desc \/ desc' = Tail(desc)
          /\ tx' = "pick" \/ tx' = "send"
      BY <2>3 DEF TxCharge
    <3>5. batch' \in Nat /\ free' \in Int /\ leaked' \in Nat
      <4>1. batch \in Nat /\ free \in Int /\ leaked \in Nat
        BY <1>0 DEF Shapes
      <4> HIDE DEF f
      <4> QED
        BY <3>1, <3>2, <4>1
    <3>3. desc' \in Seq(Frame)
      <4>1. desc \in Seq(Frame)
        BY <1>0 DEF Shapes
      <4> QED
        BY <3>1, <3>2, <4>1
    <3>4. at' \in [Frame -> Places]
      BY <1>0, <2>3 DEF TxCharge, Shapes, Places
    <3> QED
      BY <1>0, <2>3, <3>2, <3>3, <3>4, <3>5 DEF TxCharge, Shapes
  <2>4. CASE TxSend
    BY <1>0, <2>4 DEF TxSend, Shapes, Places
  <2> QED
    BY <1>2, <2>1, <2>2, <2>3, <2>4, <2>5 DEF TxTask
<1>3. CASE CfmTask
  <2>1. CASE CfmWake \/ CfmSleep
    <3>1. cfmSem' \in 0..SemBound /\ cfm' \in {"wait", "run"}
      BY <1>0, <2>1 DEF CfmWake, CfmSleep, Shapes, SemBound
    <3> QED
      BY <1>0, <2>1, <3>1 DEF CfmWake, CfmSleep, Shapes
  <2>2. ASSUME NEW f \in Frame, CfmSlot(f) PROVE Shapes'
    <3>1. f \in FramesOf(copy[drvIdx].id) /\ drvIdx \in Slots
      BY <1>0, <2>2 DEF CfmSlot, Shapes
    <3>2. hostid[f].n \in 1..NbIds
      BY <1>0, <3>1, FoundIsPushed
    <3>3. NextPrefix \in 1..MaxPrefix /\ NextSlot(drvIdx) \in Slots
      BY <1>0, <3>1, Successors DEF Shapes
    <3>4. [n |-> hostid[f].n, p |-> NextPrefix] \in Id
      BY <3>2, <3>3 DEF Id
    <3>5. prefix' \in 1..MaxPrefix /\ avail' \in Seq(Id) /\ hostid' \in [Frame -> Id \cup {NoId}]
      BY <1>0, <2>2, <3>3, <3>4 DEF CfmSlot, IdToPtr, Shapes
    <3>6. size[f] \in Nat /\ Returned(f) \in Nat
      BY <1>0, <1>a DEF Returned, Shapes
    <3>7. free' \in Int /\ sem' \in Nat
      BY <1>0, <2>2, <3>6 DEF CfmSlot, Shapes
    <3>8. bufState' \subseteq BufFlags
      BY <1>0, <2>2 DEF CfmSlot, Shapes, BufFlags
    <3>9. at' \in [Frame -> Places] /\ size' \in [Frame -> Nat]
      BY <1>0, <2>2 DEF CfmSlot, Shapes, Places
    <3> QED
      BY <1>0, <2>2, <3>3, <3>5, <3>7, <3>8, <3>9 DEF CfmSlot, Shapes
  <2> QED
    BY <1>3, <2>1, <2>2 DEF CfmTask
<1>4. CASE IrqTask
  <2>1. CASE IrqAck
    <3>1. bufState' \subseteq BufFlags
      BY <1>0, <2>1, FlagsStay DEF IrqAck, Shapes
    <3> QED
      BY <1>0, <2>1, <3>1 DEF IrqAck, Shapes
  <2>2. CASE IrqRx
    <3>1. bufState' \subseteq BufFlags
      BY <1>0, <2>2, FlagsStay, Zenon DEF IrqRx, Shapes, FwStatus
    <3>2. free' \in Int /\ tot' \in Nat /\ phase' \in Phases
      BY <1>0, <1>a, <2>2 DEF IrqRx, Shapes, TriggerFree, TriggerTot, LargePages, Heard, Phases
    <3> QED
      BY <1>0, <2>2, <3>1, <3>2 DEF IrqRx, Shapes
  <2>3. CASE IrqCfm
    <3>1. (copy' = ring \/ copy' = copy) /\ cfmSem' \in {cfmSem, Up(cfmSem)}
      BY <2>3 DEF IrqCfm, UpdateTxCfm
    <3>2. cfmSem' \in 0..SemBound
      BY <1>0, <3>1 DEF Shapes, Up, SemBound
    <3> QED
      BY <1>0, <2>3, <3>1, <3>2 DEF IrqCfm, Shapes
  <2>4. CASE IrqStop
    <3>1. handling' \subseteq Bits /\ stop' \in BOOLEAN
      BY <1>0, <2>4 DEF IrqStop, Shapes
    <3>2. sendStop' = sendStop \/ sendStop' = TRUE
      BY <2>4 DEF IrqStop
    <3>3. sendStop' \in BOOLEAN
      BY <1>0, <3>2, Zenon DEF Shapes
    <3> QED
      BY <1>0, <2>4, <3>1, <3>3 DEF IrqStop, Shapes
  <2>5. CASE IrqStart
    <3>1. handling' \subseteq Bits /\ stop' = FALSE
      BY <2>5 DEF IrqStart
    <3>2. sem' \in Nat
      <4>1. sem \in Nat
        BY <1>0 DEF Shapes
      <4> QED
        BY <2>5, <4>1 DEF IrqStart
    <3> QED
      BY <1>0, <2>5, <3>1, <3>2 DEF IrqStart, Shapes
  <2> QED
    BY <1>4, <2>1, <2>2, <2>3, <2>4, <2>5 DEF IrqTask
<1>5. ASSUME NEW f \in Frame, FwConfirm(f) PROVE Shapes'
  <2>1. NextSlot(fwIdx) \in Slots
    BY <1>0, Successors DEF Shapes
  <2>2. ring' \in [Slots -> Confirmation]
    BY <1>0, <1>5 DEF FwConfirm, Shapes, Confirmation
  <2>3. fwPages' \in Nat /\ phase' \in Phases
    BY <1>0, <1>5, <1>a DEF FwConfirm, Shapes, Phases, LargePages
  <2>4. at' \in [Frame -> Places] /\ irq' \subseteq Bits
    BY <1>0, <1>5 DEF FwConfirm, Shapes, Places, Bits
  <2> QED
    BY <1>0, <1>5, <2>1, <2>2, <2>3, <2>4 DEF FwConfirm, Shapes
<1>6. CASE FwRx \/ FwNarrow \/ FwStop \/ FwExpand \/ FwStart
  <2>1. CASE FwRx
    BY <1>0, <2>1 DEF FwRx, Shapes, Bits
  <2>2. CASE FwNarrow
    BY <1>0, <2>2 DEF FwNarrow, Shapes, Bits, Phases, FwStatus
  <2>3. CASE FwStop
    BY <1>0, <2>3 DEF FwStop, Shapes, Bits, Phases
  <2>4. CASE FwExpand
    BY <1>0, <1>a, <2>4 DEF FwExpand, Shapes, Bits, Phases, FwStatus
  <2>5. CASE FwStart
    BY <1>0, <2>5 DEF FwStart, Shapes, Bits, Phases
  <2> QED
    BY <1>6, <2>1, <2>2, <2>3, <2>4, <2>5
<1>7. CASE UNCHANGED vars
  BY <1>0, <1>7 DEF Shapes
<1> QED
  BY <1>1, <1>2, <1>3, <1>4, <1>5, <1>6, <1>7 DEF Next

-----------------------------------------------------------------------------
\* Only these steps touch the frames and their ids; the others may copy the ring.
LEMMA StepsOfFrames ==
    ASSUME [Next]_vars
    PROVE  \/ \E f \in Frame, n \in Sizes : Push(f, n)
           \/ TxCharge \/ TxSend
           \/ \E f \in Frame : CfmSlot(f) \/ FwConfirm(f)
           \/ /\ UNCHANGED <<pushes, at, size, hostid, avail, prefix, desc, leaked, ring>>
              /\ copy' = copy \/ copy' = ring
<1> USE DEF vars, frameVars, txVars, cfmVars, fwVars
<1>1. CASE TxTask
  <2>1. CASE TxStopped
    BY <2>1 DEF TxStopped, AnswerStop, UpdateTxCfm
  <2> QED
    BY <1>1, <2>1 DEF TxTask, TxWake, TxPick
<1>2. CASE CfmTask
  BY <1>2 DEF CfmTask, CfmWake, CfmSleep
<1>3. CASE IrqTask
  BY <1>3 DEF IrqTask, IrqAck, IrqRx, IrqCfm, UpdateTxCfm, IrqStop, IrqStart
<1>4. CASE FwRx \/ FwNarrow \/ FwStop \/ FwExpand \/ FwStart
  BY <1>4 DEF FwRx, FwNarrow, FwStop, FwExpand, FwStart
<1> QED
  BY <1>1, <1>2, <1>3, <1>4 DEF Next

\* The id that a push takes is one, and is none of a frame.
LEMMA PushedId ==
    ASSUME Shapes, IdsOnce, NEW f \in Frame, NEW n \in Sizes, Push(f, n)
    PROVE  /\ 1 \in 1..Len(avail) /\ Head(avail) = avail[1] /\ avail[1] \in Id /\ avail[1] # NoId
           /\ avail[1].n \in 1..NbIds
           /\ hostid' = [hostid EXCEPT ![f] = avail[1]]
           /\ \A g \in Frame : hostid[g] # NoId => hostid[g].n # avail[1].n
<1>1. avail \in Seq(Id) /\ avail # <<>>
  BY DEF Push, HostPtrToId, Shapes
<1>2. 1 \in 1..Len(avail) /\ Head(avail) = avail[1] /\ avail[1] \in Id
  BY <1>1
<1>3. avail[1] # NoId /\ avail[1].n \in 1..NbIds
  BY <1>2, SdioAssumption DEF Id
<1> QED
  BY <1>2, <1>3 DEF Push, HostPtrToId, IdsOnce

\* A frame whose slot the task has found is confirmed and returns to its queue.
LEMMA ConfirmedFrame ==
    ASSUME Shapes, Genuine, NEW f \in Frame, CfmSlot(f)
    PROVE  /\ at[f] = "cfm" /\ hostid[f] \in Id /\ hostid[f] # NoId /\ drvIdx \in Slots
           /\ hostid[f] = copy[drvIdx].id /\ hostid[f].n \in 1..NbIds
           /\ at' = [at EXCEPT ![f] = "out"] /\ size' = [size EXCEPT ![f] = 0]
           /\ hostid' = [hostid EXCEPT ![f] = NoId]
<1>1. drvIdx \in Slots /\ f \in FramesOf(copy[drvIdx].id)
  BY DEF CfmSlot, Shapes
<1>2. /\ hostid[f] \in Id /\ hostid[f] # NoId /\ hostid[f] = copy[drvIdx].id
      /\ hostid[f].n \in 1..NbIds
  BY <1>1, FoundIsPushed
<1>3. hostid[f] \in InSlots
  BY <1>1, <1>2 DEF InSlots
<1> QED
  BY <1>1, <1>2, <1>3 DEF Genuine, CfmSlot, IdToPtr

\* Every step keeps the frames where they belong.
LEMMA FramesNext == ASSUME TxInv, [Next]_vars PROVE FramesOnce'
<1>0. Shapes /\ FramesOnce /\ IdsOnce /\ Genuine /\ TxSteps
  BY DEF TxInv
<1>a. at \in [Frame -> Places] /\ size \in [Frame -> Nat] /\ hostid \in [Frame -> Id \cup {NoId}]
      /\ desc \in Seq(Frame)
  BY <1>0 DEF Shapes
<1>1. ASSUME NEW f \in Frame, NEW n \in Sizes, Push(f, n) PROVE FramesOnce'
  <2>1. avail[1] # NoId /\ hostid' = [hostid EXCEPT ![f] = avail[1]]
    BY <1>0, <1>1, PushedId
  <2>2. /\ at[f] = "out" /\ at' = [at EXCEPT ![f] = "desc"] /\ size' = [size EXCEPT ![f] = n]
        /\ desc' = Append(desc, f)
    BY <1>1 DEF Push
  <2>3. Len(desc') = Len(desc) + 1 /\ desc'[Len(desc) + 1] = f
        /\ \A k \in 1..Len(desc) : desc'[k] = desc[k] /\ desc[k] \in Frame
    BY <1>a, <2>2
  <2>4. \A k \in 1..Len(desc) : desc[k] # f
    BY <1>0, <2>2 DEF FramesOnce
  <2>5. \A k \in 1..Len(desc') : k \in 1..Len(desc) \/ k = Len(desc) + 1
    BY <1>a, <2>3
  <2>6. \A k \in 1..Len(desc') : at'[desc'[k]] = "desc"
    BY <1>0, <1>a, <2>2, <2>3, <2>4, <2>5 DEF FramesOnce
  <2>7. \A k, l \in 1..Len(desc') : desc'[k] = desc'[l] => k = l
    BY <1>0, <2>3, <2>4, <2>5 DEF FramesOnce
  <2>8. \A g \in Frame : IF at'[g] = "out" THEN size'[g] = 0 ELSE size'[g] \in Sizes
    BY <1>0, <1>a, <2>2 DEF FramesOnce
  <2>9. \A g \in Frame : at'[g] = "out" <=> hostid'[g] = NoId
    BY <1>0, <1>a, <2>1, <2>2 DEF FramesOnce
  <2> QED
    BY <2>6, <2>7, <2>8, <2>9 DEF FramesOnce
<1>2. CASE TxCharge
  <2>1. CASE UNCHANGED <<at, desc>>
    BY <1>0, <1>2, <2>1 DEF TxCharge, FramesOnce
  <2>2. CASE at' = [at EXCEPT ![Head(desc)] = "batch"] /\ desc' = Tail(desc)
    <3>1. desc # <<>> /\ Head(desc) = desc[1] /\ 1 \in 1..Len(desc) /\ desc[1] \in Frame
      BY <1>0, <1>2, <1>a DEF TxCharge, TxSteps
    <3>2. at[desc[1]] = "desc" /\ at' = [at EXCEPT ![desc[1]] = "batch"]
      BY <1>0, <2>2, <3>1 DEF FramesOnce
    <3>3. \A k \in 1..Len(desc') : desc'[k] = desc[k + 1] /\ k + 1 \in 1..Len(desc) /\ desc[k + 1] \in Frame
      BY <1>a, <2>2, <3>1
    <3>4. \A k \in 1..Len(desc') : at'[desc'[k]] = "desc"
      <4>1. \A k \in 1..Len(desc') : k + 1 # 1
        OBVIOUS
      <4>2. \A k \in 1..Len(desc') : desc[k + 1] # desc[1]
        BY <1>0, <3>1, <3>3, <4>1 DEF FramesOnce
      <4>3. \A k \in 1..Len(desc') : at[desc[k + 1]] = "desc"
        BY <1>0, <3>3 DEF FramesOnce
      <4>4. \A k \in 1..Len(desc') : at'[desc[k + 1]] = at[desc[k + 1]]
        BY <1>a, <3>2, <3>3, <4>2
      <4> QED
        BY <3>3, <4>3, <4>4
    <3>5. \A k, l \in 1..Len(desc') : desc'[k] = desc'[l] => k = l
      <4> TAKE k, l \in 1..Len(desc')
      <4> HAVE desc'[k] = desc'[l]
      <4>1. k + 1 = l + 1
        BY <1>0, <3>3 DEF FramesOnce
      <4> QED
        BY <4>1
    <3>6. \A g \in Frame : (at'[g] = "out" <=> at[g] = "out")
      BY <1>a, <3>1, <3>2
    <3>7. UNCHANGED <<size, hostid>>
      BY <1>2 DEF TxCharge
    <3> QED
      BY <1>0, <3>4, <3>5, <3>6, <3>7 DEF FramesOnce
  <2> QED
    BY <1>2, <2>1, <2>2 DEF TxCharge
<1>3. CASE TxSend
  <2>1. UNCHANGED <<size, hostid, desc>>
        /\ \A g \in Frame : at'[g] = IF at[g] = "batch" THEN "fw" ELSE at[g]
    BY <1>3 DEF TxSend
  <2>2. \A k \in 1..Len(desc) : desc[k] \in Frame
    BY <1>a
  <2>3. \A g \in Frame : (at'[g] = "out" <=> at[g] = "out") /\ (at[g] = "desc" => at'[g] = "desc")
    BY <2>1
  <2> QED
    BY <1>0, <2>1, <2>2, <2>3 DEF FramesOnce
<1>4. ASSUME NEW f \in Frame, CfmSlot(f) PROVE FramesOnce'
  <2>1. /\ at[f] = "cfm" /\ hostid[f] # NoId
        /\ at' = [at EXCEPT ![f] = "out"] /\ size' = [size EXCEPT ![f] = 0]
        /\ hostid' = [hostid EXCEPT ![f] = NoId] /\ desc' = desc
    BY <1>0, <1>4, ConfirmedFrame DEF CfmSlot
  <2>2. \A k \in 1..Len(desc) : desc[k] \in Frame
    BY <1>a
  <2>3. \A k \in 1..Len(desc') : at'[desc'[k]] = "desc"
    BY <1>0, <1>a, <2>1, <2>2 DEF FramesOnce
  <2> QED
    BY <1>0, <1>a, <2>1, <2>3 DEF FramesOnce
<1>5. ASSUME NEW f \in Frame, FwConfirm(f) PROVE FramesOnce'
  <2>1. at[f] = "fw" /\ at' = [at EXCEPT ![f] = "cfm"] /\ UNCHANGED <<size, hostid, desc>>
    BY <1>5 DEF FwConfirm, txVars
  <2>2. \A k \in 1..Len(desc) : desc[k] \in Frame
    BY <1>a
  <2>3. \A g \in Frame : (at'[g] = "out" <=> at[g] = "out") /\ (at[g] = "desc" => at'[g] = "desc")
    BY <1>a, <2>1
  <2> QED
    BY <1>0, <2>1, <2>2, <2>3 DEF FramesOnce
<1>6. CASE UNCHANGED <<at, size, hostid, desc>>
  BY <1>0, <1>6 DEF FramesOnce
<1> QED
  BY <1>1, <1>2, <1>3, <1>4, <1>5, <1>6, StepsOfFrames

\* Every step keeps a prefix of an available or pushed id apart from the others.
LEMMA IdsNext == ASSUME TxInv, [Next]_vars PROVE IdsOnce'
<1>0. Shapes /\ FramesOnce /\ IdsOnce /\ Genuine
  BY DEF TxInv
<1>a. hostid \in [Frame -> Id \cup {NoId}] /\ avail \in Seq(Id)
  BY <1>0 DEF Shapes
<1>1. ASSUME NEW f \in Frame, NEW n \in Sizes, Push(f, n) PROVE IdsOnce'
  <2>1. /\ 1 \in 1..Len(avail) /\ hostid' = [hostid EXCEPT ![f] = avail[1]]
        /\ \A g \in Frame : hostid[g] # NoId => hostid[g].n # avail[1].n
    BY <1>0, <1>1, PushedId
  <2>2. avail' = Tail(avail) /\ avail # <<>>
    BY <1>1 DEF Push, HostPtrToId
  <2>3. \A k \in 1..Len(avail') : avail'[k] = avail[k + 1] /\ k + 1 \in 1..Len(avail) /\ k + 1 # 1
    BY <1>a, <2>2
  <2>4. \A k, l \in 1..Len(avail') : avail'[k].n = avail'[l].n => k = l
    <3> TAKE k, l \in 1..Len(avail')
    <3> HAVE avail'[k].n = avail'[l].n
    <3>0. /\ avail[k + 1].n = avail[l + 1].n
          /\ k + 1 \in 1..Len(avail) /\ l + 1 \in 1..Len(avail)
      BY <2>3
    <3>1. k + 1 = l + 1
      BY <1>0, <3>0 DEF IdsOnce
    <3> QED
      BY <3>1
  <2>5. \A g, h \in Frame : hostid'[g] # NoId /\ hostid'[h] # NoId /\ hostid'[g].n = hostid'[h].n => g = h
    BY <1>0, <1>a, <2>1 DEF IdsOnce
  <2>6. \A g \in Frame, k \in 1..Len(avail') : hostid'[g] # NoId => hostid'[g].n # avail'[k].n
    BY <1>0, <1>a, <2>1, <2>3 DEF IdsOnce
  <2> QED
    BY <2>4, <2>5, <2>6 DEF IdsOnce
<1>2. ASSUME NEW f \in Frame, CfmSlot(f) PROVE IdsOnce'
  <2>1. hostid[f] # NoId /\ hostid' = [hostid EXCEPT ![f] = NoId]
    BY <1>0, <1>2, ConfirmedFrame
  <2> DEFINE new == [n |-> hostid[f].n, p |-> NextPrefix]
  <2>2. avail' = Append(avail, new) /\ new.n = hostid[f].n
    BY <1>2 DEF CfmSlot, IdToPtr
  <2> HIDE DEF new
  <2>3. Len(avail') = Len(avail) + 1 /\ avail'[Len(avail) + 1] = new
        /\ \A k \in 1..Len(avail) : avail'[k] = avail[k]
    BY <1>a, <2>2
  <2>4. \A k \in 1..Len(avail') : k \in 1..Len(avail) \/ k = Len(avail) + 1
    BY <1>a, <2>3
  <2>5. \A k \in 1..Len(avail) : avail[k].n # new.n
    BY <1>0, <2>1, <2>2 DEF IdsOnce
  <2>6. \A k, l \in 1..Len(avail') : avail'[k].n = avail'[l].n => k = l
    BY <1>0, <2>3, <2>4, <2>5 DEF IdsOnce
  <2>7. \A g, h \in Frame : hostid'[g] # NoId /\ hostid'[h] # NoId /\ hostid'[g].n = hostid'[h].n => g = h
    BY <1>0, <1>a, <2>1 DEF IdsOnce
  <2>8. \A g \in Frame, k \in 1..Len(avail') : hostid'[g] # NoId => hostid'[g].n # avail'[k].n
    <3> TAKE g \in Frame, k \in 1..Len(avail')
    <3> HAVE hostid'[g] # NoId
    <3>1. g # f /\ hostid'[g] = hostid[g] /\ hostid[g] # NoId
      BY <1>a, <2>1
    <3>2. hostid[g].n # new.n
      BY <1>0, <2>1, <2>2, <3>1 DEF IdsOnce
    <3> QED
      BY <1>0, <2>3, <2>4, <3>1, <3>2 DEF IdsOnce
  <2> QED
    BY <2>6, <2>7, <2>8 DEF IdsOnce
<1>3. CASE UNCHANGED <<hostid, avail>>
  BY <1>0, <1>3 DEF IdsOnce
<1> QED
  BY <1>1, <1>2, <1>3, StepsOfFrames DEF TxCharge, TxSend, FwConfirm

-----------------------------------------------------------------------------
\* Every step keeps the slots genuine, as long as no id of a slot is given out.
LEMMA GenuineNext == ASSUME TxInv, FreshIds, [Next]_vars PROVE Genuine'
<1>0. Shapes /\ FramesOnce /\ IdsOnce /\ Genuine /\ TxSteps
  BY DEF TxInv
<1>a. at \in [Frame -> Places] /\ hostid \in [Frame -> Id \cup {NoId}] /\ desc \in Seq(Frame)
  BY <1>0 DEF Shapes
<1> USE DEF frameVars, cfmVars, fwVars
<1>1. ASSUME NEW f \in Frame, NEW n \in Sizes, Push(f, n) PROVE Genuine'
  <2>1. hostid' = [hostid EXCEPT ![f] = avail[1]] /\ avail[1] \notin InSlots
    BY <1>0, <1>1, PushedId DEF FreshIds, Push, HostPtrToId
  <2>2. at' = [at EXCEPT ![f] = "desc"] /\ InSlots' = InSlots
    BY <1>1 DEF Push, InSlots
  <2> QED
    BY <1>0, <1>a, <2>1, <2>2 DEF Genuine
<1>2. CASE TxCharge
  <2>1. UNCHANGED <<hostid, InSlots>>
    BY <1>2 DEF TxCharge, InSlots
  <2>2. desc # <<>> /\ Head(desc) = desc[1] /\ desc[1] \in Frame /\ at[desc[1]] = "desc"
    BY <1>0, <1>a, <1>2 DEF TxCharge, TxSteps, FramesOnce
  <2>3. at' = at \/ at' = [at EXCEPT ![desc[1]] = "batch"]
    BY <1>2, <2>2 DEF TxCharge
  <2> QED
    BY <1>0, <1>a, <2>1, <2>2, <2>3 DEF Genuine
<1>3. CASE TxSend
  <2>1. UNCHANGED <<hostid, InSlots>> /\ \A g \in Frame : at[g] = "cfm" => at'[g] = "cfm"
    BY <1>3 DEF TxSend, InSlots
  <2> QED
    BY <1>0, <2>1 DEF Genuine
<1>4. ASSUME NEW f \in Frame, CfmSlot(f) PROVE Genuine'
  <2>1. at' = [at EXCEPT ![f] = "out"] /\ hostid' = [hostid EXCEPT ![f] = NoId]
    BY <1>0, <1>4, ConfirmedFrame
  <2>2. InSlots' = InSlots
    BY <1>4 DEF CfmSlot, InSlots
  <2> QED
    BY <1>0, <1>a, <2>1, <2>2 DEF Genuine
<1>5. ASSUME NEW f \in Frame, FwConfirm(f) PROVE Genuine'
  <2>1. at' = [at EXCEPT ![f] = "cfm"] /\ UNCHANGED <<hostid, copy>>
    BY <1>5 DEF FwConfirm
  <2>2. ASSUME NEW i \in Slots PROVE ring'[i].id \in {ring[i].id, hostid[f]}
    BY <1>0, <1>5 DEF FwConfirm, Shapes
  <2>3. ASSUME NEW x \in InSlots' PROVE x \in InSlots \/ x = hostid[f]
    BY <2>1, <2>2 DEF InSlots
  <2>4. \A g \in Frame : hostid[g] # NoId /\ hostid[g] = hostid[f] => g = f
    BY <1>0 DEF IdsOnce
  <2> QED
    BY <1>0, <1>a, <2>1, <2>3, <2>4 DEF Genuine
<1>6. CASE UNCHANGED <<at, hostid, ring>> /\ (copy' = copy \/ copy' = ring)
  <2>1. \A x \in InSlots' : x \in InSlots
    BY <1>6 DEF InSlots
  <2> QED
    BY <1>0, <1>6, <2>1 DEF Genuine
<1> QED
  BY <1>1, <1>2, <1>3, <1>4, <1>5, <1>6, StepsOfFrames

-----------------------------------------------------------------------------
\* The pages of some places, as a function of where the frames are and how large.
PagesIn(a, s, places) ==
    { p \in Frame \X (1..SmallPages) : a[p[1]] \in places /\ p[2] <= s[p[1]] }

\* They are finitely many.
LEMMA PagesAreFinite ==
    ASSUME NEW a, NEW s, NEW places
    PROVE  IsFiniteSet(PagesIn(a, s, places)) /\ Cardinality(PagesIn(a, s, places)) \in Nat
<1>1. IsFiniteSet(Frame) /\ IsFiniteSet(1..SmallPages)
  BY SdioAssumption, PagesAssumption, FS_Interval
<1>2. IsFiniteSet(Frame \X (1..SmallPages))
  BY <1>1, FS_Product
<1>3. PagesIn(a, s, places) \subseteq Frame \X (1..SmallPages)
  BY DEF PagesIn
<1>4. IsFiniteSet(PagesIn(a, s, places))
  BY <1>2, <1>3, FS_Subset
<1> QED
  BY <1>4, FS_CardinalityType

\* The places where the pages of a frame are charged, and the frame f as the only one
\* that comes there, seen from one state of the frames to another.
ChargedPlaces == {"batch", "fw", "cfm"}
Arrives(a, s, b, t, f) ==
    /\ a[f] \notin ChargedPlaces /\ b[f] \in ChargedPlaces /\ t[f] \in 0..SmallPages
    /\ \A g \in Frame : g # f => (a[g] \in ChargedPlaces <=> b[g] \in ChargedPlaces) /\ s[g] = t[g]

\* A frame that comes to a place where it is charged brings its pages.
LEMMA PagesArrive ==
    ASSUME NEW a, NEW s, NEW b, NEW t, NEW f \in Frame, Arrives(a, s, b, t, f)
    PROVE  Cardinality(PagesIn(b, t, ChargedPlaces)) = Cardinality(PagesIn(a, s, ChargedPlaces)) + t[f]
<1> USE DEF Arrives
<1> DEFINE A == PagesIn(a, s, ChargedPlaces)  B == PagesIn(b, t, ChargedPlaces)  F == {f} \X (1..t[f])
<1>1. IsFiniteSet(A) /\ Cardinality(A) \in Nat
  BY PagesAreFinite
<1>2. IsFiniteSet({f}) /\ Cardinality({f}) = 1
  BY FS_Singleton
<1>3. IsFiniteSet(1..t[f]) /\ Cardinality(1..t[f]) = t[f]
  BY SMTT(40), FS_Interval
<1>4. IsFiniteSet(F) /\ Cardinality(F) = t[f]
  <2>1. IsFiniteSet(F) /\ Cardinality(F) = 1 * t[f]
    BY <1>2, <1>3, FS_Product
  <2> QED
    BY <2>1
<1>5. A \cap F = {}
  BY DEF PagesIn
<1>6. B = A \cup F
  <2>1. ASSUME NEW p \in F PROVE p \in B
    <3>1. p[1] = f /\ p[2] \in 1..t[f] /\ p = <<p[1], p[2]>>
      OBVIOUS
    <3>2. p[2] \in 1..SmallPages
      BY <3>1, PagesAssumption
    <3>3. p \in Frame \X (1..SmallPages)
      BY <3>1, <3>2
    <3> QED
      BY <3>1, <3>3 DEF PagesIn
  <2>2. ASSUME NEW p \in A PROVE p \in B
    <3>1. p[1] \in Frame /\ p[1] # f
      BY DEF PagesIn
    <3> QED
      BY <3>1 DEF PagesIn
  <2>3. ASSUME NEW p \in B PROVE p \in A \/ p \in F
    <3>1. p \in Frame \X (1..SmallPages) /\ b[p[1]] \in ChargedPlaces /\ p[2] <= t[p[1]]
      BY DEF PagesIn
    <3>2. CASE p[1] = f
      BY <3>1, <3>2
    <3>3. CASE p[1] # f
      BY <3>1, <3>3 DEF PagesIn
    <3> QED
      BY <3>2, <3>3
  <2> QED
    BY <2>1, <2>2, <2>3
<1>7. Cardinality(A \cup F) = Cardinality(A) + Cardinality(F) - Cardinality(A \cap F)
  BY <1>1, <1>4, FS_Union
<1>8. Cardinality(A \cap F) = 0
  BY <1>5, FS_EmptySet
<1> HIDE DEF A, B, F
<1>9. Cardinality(B) = Cardinality(A) + t[f]
  BY <1>1, <1>4, <1>6, <1>7, <1>8
<1> QED
  BY <1>9 DEF A, B

\* The pages of fewer places are fewer.
LEMMA PagesOfFewer ==
    ASSUME NEW a, NEW s, NEW few, NEW many, few \subseteq many
    PROVE  Cardinality(PagesIn(a, s, few)) <= Cardinality(PagesIn(a, s, many))
<1>1. PagesIn(a, s, few) \subseteq PagesIn(a, s, many)
  BY DEF PagesIn
<1> QED
  BY <1>1, PagesAreFinite, FS_Subset

\* Where no frame is, there are no pages.
LEMMA NoPages ==
    ASSUME NEW a, NEW s, NEW places, \A f \in Frame : a[f] \notin places
    PROVE  Cardinality(PagesIn(a, s, places)) = 0
<1>1. PagesIn(a, s, places) = {}
  BY DEF PagesIn
<1> QED
  BY <1>1, FS_EmptySet

-----------------------------------------------------------------------------
\* A step that leaves the exchange of pages alone keeps its phase as it is.
LEMMA PhaseKept ==
    ASSUME Shapes, PhaseInv,
           UNCHANGED <<bufState, status, tot, fwPages, ext, sendStop, stop, phase>>,
           "EXT" \in irq' <=> "EXT" \in irq, "EXT" \in handling' <=> "EXT" \in handling,
           "RX" \in handling' => "RX" \in handling,
           phase \in {"stopped", "grow", "grown"} /\ Quiesced => Quiesced'
    PROVE  PhaseInv'
<1>1. Acked' <=> Acked
  BY DEF Acked
<1>2. EXT' <=> EXT
  BY DEF EXT
<1>3. phase = "rx" => RxPhase'
  BY <1>1, <1>2 DEF PhaseInv, RxPhase, Flags
<1>4. phase = "shrink" => ShrinkPhase'
  BY <1>1, <1>2 DEF PhaseInv, ShrinkPhase, Flags
<1>5. phase \in {"reduced", "tx", "stopping"} => LentPhase'
  BY <1>1, <1>2 DEF PhaseInv, LentPhase, Flags
<1>6. phase \in {"stopped", "grow", "grown"} => GrowPhase'
  BY <1>1, <1>2 DEF PhaseInv, GrowPhase, Flags
<1>7. ~("EXT" \in irq' /\ "EXT" \in handling')
  BY DEF PhaseInv
<1> QED
  BY <1>3, <1>4, <1>5, <1>6, <1>7 DEF PhaseInv

\* Nothing is on its way when all pages are free.
LEMMA AllFree ==
    ASSUME TxInv, tx = "wait", free = tot, tot = LargePages
    PROVE  Quiesced /\ "TX_USED" \in bufState
<1>0. Shapes /\ FramesOnce /\ PagesExact
  BY DEF TxInv
<1>1. Charged = Cardinality(PagesIn(at, size, {"batch", "fw", "cfm"}))
  BY DEF Charged, PagesAt, PagesOf, PagesIn
<1>2. Charged \in Nat /\ leaked \in Nat /\ free \in Int
  BY <1>0, <1>1, PagesAreFinite DEF Shapes
<1>3. SmallPages < LargePages /\ LargePages \in Nat
  BY PagesAssumption DEF LargePages
<1>4. leaked = 0 /\ Charged = 0 /\ "TX_USED" \in bufState
  BY <1>0, <1>2, <1>3 DEF PagesExact
<1>5. PagesIn(at, size, {"batch", "fw", "cfm"}) = {}
  BY <1>1, <1>4, PagesAreFinite, FS_EmptySet
<1>6. ASSUME NEW f \in Frame PROVE at[f] \in {"out", "desc"}
  <2>1. SUFFICES ASSUME at[f] \notin {"out", "desc"} PROVE FALSE
    OBVIOUS
  <2>2. at[f] \in {"batch", "fw", "cfm"}
    BY <1>0, <2>1 DEF Shapes, Places
  <2>3. size[f] \in Sizes
    BY <1>0, <2>1 DEF FramesOnce
  <2>4. 1 <= size[f] /\ 1 \in 1..SmallPages
    <3>1. Sizes \subseteq Nat \ {0}
      BY SdioAssumption
    <3>2. size[f] \in Nat \ {0}
      BY <2>3, <3>1
    <3> QED
      BY <3>2, PagesAssumption
  <2>5. <<f, 1>> \in PagesIn(at, size, {"batch", "fw", "cfm"})
    BY <2>2, <2>4 DEF PagesIn
  <2> QED
    BY <1>5, <2>5
<1> QED
  BY <1>4, <1>6 DEF Quiesced

\* A lent confirmation is on its way only while the lent part is.
LEMMA LendingSlot ==
    ASSUME TxInv, NEW f \in Frame, CfmSlot(f), copy[drvIdx].dyna
    PROVE  f \in Lenders /\ phase \in {"tx", "stopping"} /\ "TX_USED" \notin bufState
<1>0. Shapes /\ Genuine /\ LentOnce
  BY DEF TxInv
<1>1. hostid[f] # NoId /\ hostid[f] = copy[drvIdx].id /\ drvIdx \in Slots
  BY <1>0, ConfirmedFrame
<1>2. copy[drvIdx] \in Confirmation
  BY <1>0, <1>1 DEF Shapes
<1>3. copy[drvIdx].dyna = TRUE
  BY <1>2, Zenon DEF Confirmation
<1>4. copy[drvIdx] = [id |-> hostid[f], dyna |-> TRUE]
  BY <1>1, <1>2, <1>3 DEF Confirmation
<1>5. f \in Lenders
  BY <1>1, <1>4 DEF Lenders
<1> QED
  BY <1>0, <1>5 DEF LentOnce

-----------------------------------------------------------------------------
\* Every step of the tasks of transmission keeps the exchange of pages.
LEMMA PhaseOfTasks ==
    ASSUME TxInv, \/ \E f \in Frame, n \in Sizes : Push(f, n)
                  \/ TxTask \/ CfmTask
    PROVE  PhaseInv'
<1> USE DEF frameVars, txVars, cfmVars, irqVars, fwVars
<1>0. Shapes /\ PhaseInv
  BY DEF TxInv
<1>1. ASSUME NEW f \in Frame, NEW n \in Sizes, Push(f, n) PROVE PhaseInv'
  <2>1. Quiesced => Quiesced'
    BY <1>0, <1>1 DEF Push, Quiesced, Shapes
  <2>2. UNCHANGED <<bufState, status, tot, fwPages, ext, sendStop, stop, phase, irq, handling>>
    BY <1>1 DEF Push
  <2> QED
    BY <1>0, <2>1, <2>2, PhaseKept
<1>2. CASE TxStopped
  <2>1. CASE sendStop /\ free = tot /\ sendStop' = FALSE /\ phase' = "stopped"
    <3>1. phase = "stopping"
      <4>1. phase \in Phases
        BY <1>0 DEF Shapes
      <4> QED
        BY <1>0, <2>1, <4>1 DEF PhaseInv, RxPhase, ShrinkPhase, LentPhase, GrowPhase, Phases
    <3>2. LentPhase
      BY <1>0, <3>1 DEF PhaseInv
    <3>3. Quiesced /\ "TX_USED" \in bufState
      BY <1>2, <2>1, <3>2, AllFree DEF LentPhase, TxStopped
    <3>4. Quiesced'
      BY <1>2, <3>3 DEF TxStopped, Quiesced
    <3>5. UNCHANGED <<bufState, status, tot, fwPages, ext, stop, irq, handling>>
      BY <1>2 DEF TxStopped
    <3>6. stop /\ ~EXT /\ fwPages = LargePages
      BY <2>1, <3>1, <3>2 DEF LentPhase
    <3>7. GrowPhase'
      BY <2>1, <3>2, <3>3, <3>4, <3>5, <3>6 DEF LentPhase, GrowPhase, Flags, Acked, EXT
    <3> QED
      BY <2>1, <3>5, <3>6, <3>7 DEF PhaseInv, EXT
  <2>2. CASE UNCHANGED <<sendStop, phase>>
    <3>1. Quiesced => Quiesced'
      BY <1>2 DEF TxStopped, Quiesced
    <3>2. UNCHANGED <<bufState, status, tot, fwPages, ext, stop, irq, handling>>
      BY <1>2 DEF TxStopped
    <3> QED
      BY <1>0, <2>2, <3>1, <3>2, PhaseKept
  <2> QED
    BY <1>2, <2>1, <2>2 DEF TxStopped, AnswerStop
<1>3. CASE TxWake
  <2>1. ~(phase \in {"stopped", "grow", "grown"})
    BY <1>0, <1>3 DEF TxWake, PhaseInv, GrowPhase
  <2>2. UNCHANGED <<bufState, status, tot, fwPages, ext, sendStop, stop, phase, irq, handling>>
    BY <1>3 DEF TxWake
  <2> QED
    BY <1>0, <2>1, <2>2, PhaseKept
<1>4. CASE TxPick \/ TxCharge \/ TxSend
  <2>1. tx # "wait"
    BY <1>4 DEF TxPick, TxCharge, TxSend
  <2>2. ~(phase \in {"stopped", "grow", "grown"})
    BY <1>0, <2>1 DEF PhaseInv, GrowPhase, Quiesced
  <2>3. UNCHANGED <<bufState, status, tot, fwPages, ext, sendStop, stop, phase, irq, handling>>
    BY <1>4 DEF TxPick, TxCharge, TxSend
  <2> QED
    BY <1>0, <2>2, <2>3, PhaseKept
<1>5. CASE CfmWake \/ CfmSleep
  <2>1. Quiesced => Quiesced'
    BY <1>5 DEF CfmWake, CfmSleep, Quiesced
  <2>2. UNCHANGED <<bufState, status, tot, fwPages, ext, sendStop, stop, phase, irq, handling>>
    BY <1>5 DEF CfmWake, CfmSleep
  <2> QED
    BY <1>0, <2>1, <2>2, PhaseKept
<1>6. ASSUME NEW f \in Frame, CfmSlot(f) PROVE PhaseInv'
  <2>1. at[f] = "cfm"
    BY <1>6, ConfirmedFrame DEF TxInv
  <2>2. ~(phase \in {"stopped", "grow", "grown"})
    BY <1>0, <2>1 DEF PhaseInv, GrowPhase, Quiesced
  <2>3. UNCHANGED <<status, tot, fwPages, ext, sendStop, stop, phase, irq, handling>>
    BY <1>6 DEF CfmSlot
  <2>4. CASE copy[drvIdx].dyna
    <3>1. phase \in {"tx", "stopping"} /\ "TX_USED" \notin bufState
      BY <1>6, <2>4, LendingSlot
    <3>2. bufState' = bufState \cup {"TX_USED"}
      BY <1>6, <2>4 DEF CfmSlot
    <3>3. LentPhase
      BY <1>0, <3>1 DEF PhaseInv
    <3>4. LentPhase'
      <4>1. (Acked' <=> Acked) /\ (EXT' <=> EXT)
        BY <1>0, <2>3, <3>2 DEF Acked, EXT, Shapes, FwStatus
      <4>2. Flags(FALSE, FALSE, FALSE, "TX_USED" \in bufState)'
        BY <3>2, <3>3 DEF LentPhase, Flags
      <4> QED
        BY <2>3, <3>1, <3>3, <4>1, <4>2 DEF LentPhase
    <3> QED
      BY <1>0, <2>3, <3>1, <3>4 DEF PhaseInv
  <2>5. CASE ~copy[drvIdx].dyna
    <3>1. UNCHANGED bufState
      BY <1>6, <2>5 DEF CfmSlot
    <3> QED
      BY <1>0, <2>2, <2>3, <3>1, PhaseKept
  <2> QED
    BY <2>4, <2>5
<1> QED
  BY <1>1, <1>2, <1>3, <1>4, <1>5, <1>6 DEF TxTask, CfmTask

\* An indication that takes a switch further leaves the rest of the exchange as it is.
LEMMA PhaseOfRx == ASSUME TxInv, IrqRx PROVE PhaseInv'
<1>0. Shapes /\ PhaseInv
  BY DEF TxInv
<1>a. /\ UNCHANGED <<at, tx, leaked, stop, sendStop, irq, ext, status, fwPages>>
      /\ handling' = handling \ {"RX"} /\ "RX" \in handling
  BY DEF IrqRx, frameVars
<1>b. ("EXT" \in handling' <=> "EXT" \in handling) /\ (EXT' <=> EXT) /\ "RX" \notin handling'
  BY <1>a DEF EXT
<1>c. ~("EXT" \in irq' /\ "EXT" \in handling')
  BY <1>0, <1>a DEF PhaseInv
<1>1. CASE RxSame
  <2>1. Quiesced => Quiesced'
    BY <1>1, <1>a DEF RxSame, Quiesced
  <2> QED
    BY <1>0, <1>1, <1>a, <1>b, <2>1, PhaseKept DEF RxSame
<1>d. RxFlags => (Acked' <=> Acked)
  BY <1>0, <1>a DEF RxFlags, Acked, Shapes, FwStatus
<1>e. RxFlags /\ ("FW_NARROW" \in bufState <=> "FW_EXPAND" \notin bufState)
        => ("FW_NARROW" \in bufState' <=> "FW_EXPAND" \notin bufState')
  BY DEF RxFlags
<1>2. CASE RxNarrow
  <2>1. ShrinkPhase /\ phase = "shrink" /\ phase' = "shrink"
    BY <1>0, <1>2 DEF RxNarrow, PhaseInv
  <2>2. Acked /\ "EXT" \notin irq /\ tot = SmallPages
    BY <1>2, <2>1 DEF RxNarrow, ShrinkPhase, Flags
  <2>3. Acked' /\ tot' = LargePages /\ Flags(TRUE, FALSE, TRUE, FALSE)'
    BY <1>2, <1>d, <2>2 DEF RxNarrow
  <2>4. ShrinkPhase'
    BY <1>a, <1>b, <2>1, <2>2, <2>3 DEF ShrinkPhase
  <2> QED
    BY <1>c, <2>1, <2>4 DEF PhaseInv
<1>3. CASE RxNarrowed
  <2>1. ShrinkPhase /\ phase = "shrink" /\ phase' = "reduced"
    BY <1>0, <1>3 DEF RxNarrowed, PhaseInv
  <2>2. Acked /\ "EXT" \notin irq /\ tot = LargePages /\ "EXT" \notin handling
    BY <1>3, <1>a, <2>1 DEF RxNarrowed, ShrinkPhase, Flags
  <2>3. ~EXT /\ ~stop /\ ~sendStop /\ status = "FW_NARROW" /\ fwPages = SmallPages
    BY <2>1, <2>2 DEF ShrinkPhase, EXT
  <2>4. Acked' /\ tot' = LargePages /\ Flags(FALSE, FALSE, FALSE, FALSE)'
    BY <1>3, <1>d, <2>2 DEF RxNarrowed
  <2>5. "TX_USED" \notin bufState' /\ Flags(FALSE, FALSE, FALSE, "TX_USED" \in bufState)'
    BY <2>4 DEF Flags
  <2>6. LentPhase'
    BY <1>a, <1>b, <2>1, <2>3, <2>4, <2>5 DEF LentPhase
  <2> QED
    BY <1>c, <2>1, <2>6 DEF PhaseInv
<1>4. CASE RxExpand
  <2>1. GrowPhase /\ phase = "grow" /\ phase' = "grow"
    BY <1>0, <1>4 DEF RxExpand, PhaseInv
  <2>2. Acked /\ tot = LargePages /\ status = "FW_EXPAND" /\ fwPages = SmallPages
    BY <1>4, <2>1 DEF RxExpand, GrowPhase, Flags
  <2>3. Acked' /\ tot' = SmallPages /\ Flags(FALSE, TRUE, TRUE, TRUE)' /\ free' = free - DynaPages
    BY <1>4, <1>d, <2>2 DEF RxExpand
  <2>4. Quiesced'
    <3>1. free = LargePages
      BY <2>1, <2>2 DEF GrowPhase, Quiesced
    <3>2. free' = tot'
      BY <2>3, <3>1, PagesAssumption DEF LargePages
    <3> QED
      BY <1>a, <2>1, <3>2 DEF GrowPhase, Quiesced
  <2>5. stop /\ ~sendStop /\ ~EXT
    BY <2>1 DEF GrowPhase
  <2>6. GrowPhase'
    BY <1>a, <1>b, <2>1, <2>2, <2>3, <2>4, <2>5 DEF GrowPhase
  <2> QED
    BY <1>c, <2>1, <2>6 DEF PhaseInv
<1>5. CASE RxExpanded
  <2>1. GrowPhase /\ phase = "grow" /\ phase' = "grown"
    BY <1>0, <1>5 DEF RxExpanded, PhaseInv
  <2>2. Acked /\ tot = SmallPages /\ status = "FW_EXPAND" /\ fwPages = SmallPages
    BY <1>5, <2>1 DEF RxExpanded, GrowPhase, Flags
  <2>3. Acked' /\ tot' = SmallPages /\ Flags(FALSE, FALSE, FALSE, FALSE)' /\ free' = free
    BY <1>5, <1>d, <2>2 DEF RxExpanded
  <2>4. Quiesced'
    BY <1>a, <2>1, <2>2, <2>3 DEF GrowPhase, Quiesced
  <2>5. stop /\ ~sendStop /\ ~EXT
    BY <2>1 DEF GrowPhase
  <2>6. GrowPhase'
    BY <1>a, <1>b, <2>1, <2>2, <2>3, <2>4, <2>5 DEF GrowPhase
  <2> QED
    BY <1>c, <2>1, <2>6 DEF PhaseInv
<1> QED
  BY <1>0, <1>1, <1>2, <1>3, <1>4, <1>5, RxCases

\* The interrupt task keeps the exchange of pages.
LEMMA PhaseOfIrq == ASSUME TxInv, IrqTask PROVE PhaseInv'
<1> USE DEF frameVars, txVars, cfmVars, irqVars, fwVars
<1>0. Shapes /\ PhaseInv
  BY DEF TxInv
<1>p. phase \in Phases /\ status \in FwStatus /\ bufState \subseteq BufFlags
  BY <1>0 DEF Shapes
<1>1. CASE IrqAck
  <2>1. /\ UNCHANGED <<at, tx, free, tot, leaked, stop, sendStop, ext, status, phase, fwPages>>
        /\ handling = {} /\ handling' = irq /\ irq' = {} /\ bufState' = AckStatus(bufState, status)
    BY <1>1 DEF IrqAck
  <2>2. (EXT' <=> EXT) /\ Acked' /\ "EXT" \notin irq'
    BY <2>1 DEF EXT, Acked, AckStatus
  <2>3. Acked => bufState' = bufState
    BY <2>1 DEF Acked, AckStatus
  <2>4. Quiesced => Quiesced'
    BY <2>1 DEF Quiesced
  <2>5. phase = "rx" => RxPhase'
    BY <1>0, <2>1, <2>2, <2>3 DEF PhaseInv, RxPhase, Flags
  <2>6. phase = "shrink" => ShrinkPhase'
    <3>1. SUFFICES ASSUME phase = "shrink" PROVE ShrinkPhase'
      OBVIOUS
    <3>2. ShrinkPhase
      BY <1>0, <3>1 DEF PhaseInv
    <3>3. CASE ~Acked
      <4>1. Flags(FALSE, FALSE, FALSE, FALSE) /\ status = "FW_NARROW" /\ tot = SmallPages
        BY <3>2, <3>3 DEF ShrinkPhase
      <4>2. bufState' = (bufState \ FwStatus) \cup {"FW_NARROW", "NARROW"}
        BY <2>1, <3>3, <4>1 DEF Acked, AckStatus
      <4>3. Flags(TRUE, FALSE, FALSE, FALSE)'
        BY <4>1, <4>2 DEF Flags, FwStatus
      <4> QED
        BY <2>1, <2>2, <3>2, <4>1, <4>3 DEF ShrinkPhase
    <3>4. CASE Acked
      <4>1. bufState' = bufState
        BY <2>3, <3>4
      <4>2. CASE Flags(TRUE, FALSE, FALSE, FALSE) /\ tot = SmallPages
        <5>1. Flags(TRUE, FALSE, FALSE, FALSE)'
          BY <4>1, <4>2 DEF Flags
        <5> QED
          BY <2>1, <2>2, <3>2, <4>2, <5>1 DEF ShrinkPhase
      <4>3. CASE Flags(TRUE, FALSE, TRUE, FALSE) /\ tot = LargePages /\ "EXT" \notin irq
        <5>1. Flags(TRUE, FALSE, TRUE, FALSE)'
          BY <4>1, <4>3 DEF Flags
        <5> QED
          BY <2>1, <2>2, <3>2, <4>3, <5>1 DEF ShrinkPhase
      <4> QED
        BY <3>2, <3>4, <4>2, <4>3 DEF ShrinkPhase
    <3> QED
      BY <3>3, <3>4
  <2>7. phase \in {"reduced", "tx", "stopping"} => LentPhase'
    BY <1>0, <2>1, <2>2, <2>3 DEF PhaseInv, LentPhase, Flags
  <2>8. phase \in {"stopped", "grow", "grown"} => GrowPhase'
    <3>1. SUFFICES ASSUME phase \in {"stopped", "grow", "grown"} PROVE GrowPhase'
      OBVIOUS
    <3>2. GrowPhase
      BY <1>0, <3>1 DEF PhaseInv
    <3>3. CASE Acked
      BY <2>1, <2>2, <2>3, <2>4, <3>2, <3>3 DEF GrowPhase, Flags, Acked
    <3>4. CASE ~Acked
      <4>1. phase = "grow" /\ Flags(FALSE, FALSE, FALSE, TRUE) /\ status = "FW_EXPAND" /\ tot = LargePages
        BY <3>1, <3>2, <3>4 DEF GrowPhase
      <4>2. bufState' = (bufState \ FwStatus) \cup {"FW_EXPAND", "EXPAND"}
        BY <2>1, <3>4, <4>1 DEF Acked, AckStatus
      <4>3. Flags(FALSE, TRUE, FALSE, TRUE)'
        BY <4>1, <4>2 DEF Flags, FwStatus
      <4> QED
        BY <2>1, <2>2, <2>4, <3>2, <4>1, <4>3 DEF GrowPhase
    <3> QED
      BY <3>3, <3>4
  <2> QED
    BY <2>1, <2>2, <2>5, <2>6, <2>7, <2>8 DEF PhaseInv
<1>2. CASE IrqRx
  BY <1>2, PhaseOfRx
<1>3. CASE IrqCfm
  <2>1. UNCHANGED <<bufState, status, tot, fwPages, ext, sendStop, stop, phase, irq, tx, free, leaked, at>>
        /\ handling' = handling \ {"CFM"}
    BY <1>3 DEF IrqCfm
  <2>2. Quiesced => Quiesced'
    BY <2>1 DEF Quiesced
  <2> QED
    BY <1>0, <2>1, <2>2, PhaseKept
<1>4. CASE IrqStop
  <2>1. /\ handling = {"EXT"} /\ ext = "STOP" /\ stop'
        /\ (sendStop' = sendStop /\ handling' = handling) \/ (sendStop' /\ handling' = {})
        /\ UNCHANGED <<bufState, status, tot, fwPages, ext, phase, irq>>
    BY <1>4 DEF IrqStop
  <2>2. EXT
    BY <2>1 DEF EXT
  <2>3. phase = "stopping"
    BY <1>0, <1>p, <2>1, <2>2 DEF PhaseInv, RxPhase, ShrinkPhase, LentPhase, GrowPhase, Phases
  <2>4. LentPhase /\ "EXT" \notin irq
    BY <1>0, <2>1, <2>3 DEF PhaseInv
  <2>5. ~sendStop
    BY <2>2, <2>3, <2>4 DEF LentPhase
  <2>6. EXT' \/ sendStop'
    BY <2>1 DEF EXT
  <2>7. sendStop' => ~EXT'
    BY <2>1, <2>4, <2>5 DEF EXT
  <2>8. (Acked' <=> Acked) /\ Flags(FALSE, FALSE, FALSE, "TX_USED" \in bufState)'
    BY <2>1, <2>4 DEF Acked, Flags, LentPhase
  <2>9. LentPhase'
    BY <2>1, <2>3, <2>4, <2>6, <2>7, <2>8 DEF LentPhase
  <2> QED
    BY <2>1, <2>3, <2>4, <2>9 DEF PhaseInv
<1>5. CASE IrqStart
  <2>1. /\ handling = {"EXT"} /\ ext = "START" /\ ~stop' /\ handling' = {}
        /\ UNCHANGED <<bufState, status, tot, fwPages, ext, phase, irq, sendStop>>
    BY <1>5 DEF IrqStart
  <2>2. EXT
    BY <2>1 DEF EXT
  <2>3. phase \in {"rx", "shrink"}
    BY <1>0, <1>p, <2>1, <2>2 DEF PhaseInv, LentPhase, GrowPhase, Phases
  <2>4. Acked' <=> Acked
    BY <2>1 DEF Acked
  <2>5. phase = "rx" => RxPhase'
    BY <1>0, <2>1, <2>4 DEF PhaseInv, RxPhase, Flags
  <2>6. phase = "shrink" => ShrinkPhase'
    BY <1>0, <2>1, <2>4 DEF PhaseInv, ShrinkPhase, Flags
  <2> QED
    BY <2>1, <2>3, <2>5, <2>6 DEF PhaseInv
<1> QED
  BY <1>1, <1>2, <1>3, <1>4, <1>5 DEF IrqTask

\* The firmware keeps the exchange of pages, or begins its next part.
LEMMA PhaseOfFw ==
    ASSUME TxInv, (\E f \in Frame : FwConfirm(f)) \/ FwRx \/ FwNarrow \/ FwStop \/ FwExpand \/ FwStart
    PROVE  PhaseInv'
<1> USE DEF frameVars, txVars, cfmVars, irqVars, fwVars
<1>0. Shapes /\ PhaseInv
  BY DEF TxInv
<1>1. ASSUME NEW f \in Frame, FwConfirm(f) PROVE PhaseInv'
  <2>1. ~(phase \in {"stopped", "grow", "grown"})
    BY <1>0, <1>1 DEF PhaseInv, GrowPhase, Quiesced, FwConfirm
  <2>2. UNCHANGED <<bufState, status, tot, ext, sendStop, stop, handling>> /\ irq' = irq \cup {"CFM"}
    BY <1>1 DEF FwConfirm
  <2>3. CASE phase = "reduced"
    <3>1. phase' = "tx" /\ fwPages' = LargePages
      BY <1>1, <2>3 DEF FwConfirm
    <3>2. LentPhase
      BY <1>0, <2>3 DEF PhaseInv
    <3>3. (Acked' <=> Acked) /\ (EXT' <=> EXT) /\ Flags(FALSE, FALSE, FALSE, "TX_USED" \in bufState)'
      BY <2>2, <3>2 DEF Acked, EXT, Flags, LentPhase
    <3>4. LentPhase'
      BY <2>2, <2>3, <3>1, <3>2, <3>3 DEF LentPhase
    <3> QED
      BY <1>0, <2>2, <3>1, <3>4 DEF PhaseInv
  <2>4. CASE phase # "reduced"
    <3>1. UNCHANGED <<phase, fwPages>>
      BY <1>1, <2>4 DEF FwConfirm
    <3> QED
      BY <1>0, <2>1, <2>2, <3>1, PhaseKept
  <2> QED
    BY <2>3, <2>4
<1>2. CASE FwRx
  <2>1. UNCHANGED <<bufState, status, tot, fwPages, ext, sendStop, stop, phase, handling>>
        /\ irq' = irq \cup {"RX"}
    BY <1>2 DEF FwRx
  <2>2. Quiesced => Quiesced'
    BY <1>2 DEF FwRx, Quiesced
  <2> QED
    BY <1>0, <2>1, <2>2, PhaseKept
<1>3. CASE FwNarrow
  <2>1. phase = "rx" /\ phase' = "shrink" /\ status' = "FW_NARROW" /\ irq' = irq \cup {"RX"}
        /\ UNCHANGED <<bufState, tot, fwPages, ext, sendStop, stop, handling>>
    BY <1>3 DEF FwNarrow
  <2>2. RxPhase
    BY <1>0, <2>1 DEF PhaseInv
  <2>3. ~Acked' /\ (EXT' <=> EXT) /\ Flags(FALSE, FALSE, FALSE, FALSE)'
    BY <2>1, <2>2 DEF RxPhase, Acked, EXT, Flags
  <2>4. ShrinkPhase'
    BY <2>1, <2>2, <2>3 DEF RxPhase, ShrinkPhase
  <2> QED
    BY <1>0, <2>1, <2>4 DEF PhaseInv
<1>4. CASE FwStop
  <2>1. phase = "tx" /\ phase' = "stopping" /\ ext' = "STOP" /\ irq' = irq \cup {"EXT"}
        /\ UNCHANGED <<bufState, status, tot, fwPages, sendStop, stop, handling>>
    BY <1>4 DEF FwStop
  <2>2. LentPhase
    BY <1>0, <2>1 DEF PhaseInv
  <2>3. (Acked' <=> Acked) /\ EXT' /\ Flags(FALSE, FALSE, FALSE, "TX_USED" \in bufState)'
    BY <2>1, <2>2 DEF LentPhase, Acked, EXT, Flags
  <2>4. LentPhase' /\ "EXT" \notin handling
    BY <2>1, <2>2, <2>3 DEF LentPhase, EXT
  <2> QED
    BY <2>1, <2>4 DEF PhaseInv
<1>5. CASE FwExpand
  <2>1. phase = "stopped" /\ phase' = "grow" /\ status' = "FW_EXPAND" /\ irq' = irq \cup {"RX"}
        /\ fwPages' = SmallPages /\ UNCHANGED <<bufState, tot, ext, sendStop, stop, handling>>
    BY <1>5 DEF FwExpand
  <2>2. GrowPhase
    BY <1>0, <2>1 DEF PhaseInv
  <2>3. ~Acked' /\ (EXT' <=> EXT) /\ Flags(FALSE, FALSE, FALSE, TRUE)' /\ tot' = LargePages
    BY <2>1, <2>2 DEF GrowPhase, Acked, EXT, Flags
  <2>4. Quiesced'
    BY <1>5, <2>2 DEF GrowPhase, Quiesced, FwExpand
  <2>5. GrowPhase'
    BY <2>1, <2>2, <2>3, <2>4 DEF GrowPhase
  <2> QED
    BY <1>0, <2>1, <2>5 DEF PhaseInv
<1>6. CASE FwStart
  <2>1. phase = "grown" /\ phase' = "rx" /\ ext' = "START" /\ irq' = irq \cup {"EXT"}
        /\ UNCHANGED <<bufState, tot, status, fwPages, sendStop, stop, handling>>
    BY <1>6 DEF FwStart
  <2>2. GrowPhase
    BY <1>0, <2>1 DEF PhaseInv
  <2>3. (Acked' <=> Acked) /\ EXT' /\ Flags(FALSE, FALSE, FALSE, FALSE)' /\ "EXT" \notin handling
    BY <2>1, <2>2 DEF GrowPhase, Acked, EXT, Flags
  <2>4. RxPhase'
    BY <2>1, <2>2, <2>3 DEF GrowPhase, RxPhase
  <2> QED
    BY <2>1, <2>3, <2>4 DEF PhaseInv
<1> QED
  BY <1>1, <1>2, <1>3, <1>4, <1>5, <1>6

\* Every step keeps the exchange of pages.
LEMMA PhaseNext == ASSUME TxInv, [Next]_vars PROVE PhaseInv'
<1>1. CASE UNCHANGED vars
  <2>1. Quiesced => Quiesced'
    BY <1>1 DEF Quiesced, vars, frameVars, txVars
  <2> QED
    BY <1>1, <2>1, PhaseKept DEF TxInv, vars, txVars, irqVars, fwVars
<1> QED
  BY <1>1, PhaseOfTasks, PhaseOfIrq, PhaseOfFw DEF Next

-----------------------------------------------------------------------------
\* Every step keeps what the task has found out about the next frame, and pages to spare.
LEMMA TxStepsNext == ASSUME TxInv, [Next]_vars PROVE TxSteps'
<1> USE DEF frameVars, txVars, cfmVars, irqVars, fwVars
<1>0. Shapes /\ FramesOnce /\ IdsOnce /\ Genuine /\ TxSteps /\ PhaseInv
  BY DEF TxInv
<1>a. at \in [Frame -> Places] /\ size \in [Frame -> Nat] /\ desc \in Seq(Frame) /\ free \in Int
      /\ tx \in {"wait", "pick", "charge", "send"}
  BY <1>0 DEF Shapes
<1>1. ASSUME NEW f \in Frame, NEW n \in Sizes, Push(f, n) PROVE TxSteps'
  <2>1. at' = [at EXCEPT ![f] = "desc"] /\ UNCHANGED <<tx, free>> /\ tx # "charge"
    BY <1>1 DEF Push
  <2> QED
    BY <1>0, <1>a, <2>1 DEF TxSteps
<1>2. CASE TxPick
  <2>1. UNCHANGED <<at, size, desc, free>> /\ tx' # "wait"
        /\ (tx' = "charge" => desc # <<>> /\ Fits(Head(desc)))
    BY <1>2 DEF TxPick
  <2>2. tx' = "charge" => desc # <<>> /\ size[Head(desc)] < free
    <3>1. SUFFICES ASSUME tx' = "charge" PROVE desc # <<>> /\ size[Head(desc)] < free
      OBVIOUS
    <3>2. desc # <<>> /\ Head(desc) \in Frame /\ size[Head(desc)] + 1 <= free
      BY <1>a, <2>1, <3>1 DEF Fits
    <3>3. PICK m \in Nat : m = size[Head(desc)]
      BY <1>a, <3>2
    <3> QED
      BY <1>a, <3>2, <3>3
  <2> QED
    BY <1>0, <2>1, <2>2 DEF TxSteps
<1>3. CASE TxCharge
  <2>1. desc # <<>> /\ Head(desc) \in Frame /\ size[Head(desc)] < free
    BY <1>0, <1>3, <1>a DEF TxCharge, TxSteps
  <2>2. PICK m \in Nat : m = size[Head(desc)]
    BY <1>a, <2>1
  <2>3. free' = free - m /\ tx' \in {"pick", "send"}
    BY <1>3, <2>2 DEF TxCharge
  <2> QED
    BY <1>a, <2>1, <2>2, <2>3 DEF TxSteps
<1>4. CASE TxSend
  <2>1. tx' = "wait" /\ UNCHANGED free /\ \A f \in Frame : at'[f] # "batch"
    BY <1>4 DEF TxSend
  <2> QED
    BY <1>0, <2>1 DEF TxSteps
<1>5. ASSUME NEW f \in Frame, CfmSlot(f) PROVE TxSteps'
  <2>1. at[f] = "cfm" /\ at' = [at EXCEPT ![f] = "out"] /\ size' = [size EXCEPT ![f] = 0]
    BY <1>0, <1>5, ConfirmedFrame
  <2>2. UNCHANGED <<tx, desc>> /\ free' = free + Returned(f)
    BY <1>5 DEF CfmSlot
  <2>3. Returned(f) \in Nat
    BY <1>a, PagesAssumption DEF Returned
  <2>4. tx = "charge" => desc # <<>> /\ Head(desc) \in Frame /\ Head(desc) # f /\ size[Head(desc)] < free
    BY <1>0, <1>a, <2>1 DEF TxSteps, FramesOnce
  <2>5. free <= free' /\ free' \in Int
    BY <1>a, <2>2, <2>3
  <2>6. tx' = "charge" => desc' # <<>> /\ size'[Head(desc')] < free'
    <3>1. SUFFICES ASSUME tx = "charge" PROVE desc # <<>> /\ size'[Head(desc)] < free'
      BY <2>2
    <3>2. size'[Head(desc)] = size[Head(desc)] /\ size[Head(desc)] \in Nat
      BY <1>a, <2>1, <2>4, <3>1
    <3>3. PICK m \in Nat : m = size[Head(desc)]
      BY <3>2
    <3> QED
      BY <1>a, <2>4, <2>5, <3>1, <3>2, <3>3
  <2> QED
    BY <1>0, <1>a, <2>1, <2>2, <2>5, <2>6 DEF TxSteps
<1>6. ASSUME NEW f \in Frame, FwConfirm(f) PROVE TxSteps'
  <2>1. at' = [at EXCEPT ![f] = "cfm"] /\ UNCHANGED <<tx, desc, size, free>>
    BY <1>6 DEF FwConfirm
  <2> QED
    BY <1>0, <1>a, <2>1 DEF TxSteps
<1>7. CASE IrqRx
  <2>1. UNCHANGED <<at, tx, desc, size>>
    BY <1>7 DEF IrqRx
  <2>2. CASE RxSame \/ RxNarrow \/ RxNarrowed \/ RxExpanded
    BY <1>0, <2>1, <2>2 DEF TxSteps, RxSame, RxNarrow, RxNarrowed, RxExpanded
  <2>3. CASE RxExpand
    <3>1. GrowPhase /\ phase = "grow" /\ "EXPAND" \in bufState /\ "UPDATE" \notin bufState
      BY <1>0, <2>3 DEF RxExpand, PhaseInv, Flags
    <3>2. tx = "wait" /\ free = LargePages
      BY <3>1 DEF GrowPhase, Quiesced, Flags
    <3>3. free' = SmallPages
      BY <2>3, <3>2, PagesAssumption DEF RxExpand, LargePages
    <3> QED
      BY <1>0, <2>1, <3>2, <3>3, PagesAssumption DEF TxSteps
  <2> QED
    BY <1>0, <1>7, <2>2, <2>3, RxCases
<1>8. CASE UNCHANGED <<at, size, desc, free, tx>>
  BY <1>0, <1>8 DEF TxSteps
<1>9. CASE TxTask
  <2>1. CASE TxStopped
    BY <1>8, <2>1 DEF TxStopped
  <2>2. CASE TxWake
    <3>1. UNCHANGED <<at, free>> /\ tx = "wait" /\ tx' # "charge"
      BY <2>2 DEF TxWake
    <3> QED
      BY <1>0, <3>1 DEF TxSteps
  <2> QED
    BY <1>2, <1>3, <1>4, <1>9, <2>1, <2>2 DEF TxTask
<1>10. CASE CfmTask
  BY <1>5, <1>8, <1>10 DEF CfmTask, CfmWake, CfmSleep
<1>11. CASE IrqTask
  BY <1>7, <1>8, <1>11 DEF IrqTask, IrqAck, IrqCfm, IrqStop, IrqStart
<1>12. CASE FwRx \/ FwNarrow \/ FwStop \/ FwExpand \/ FwStart \/ UNCHANGED vars
  BY <1>8, <1>12 DEF FwRx, FwNarrow, FwStop, FwExpand, FwStart, vars
<1> QED
  BY <1>1, <1>6, <1>9, <1>10, <1>11, <1>12 DEF Next

-----------------------------------------------------------------------------
\* A slot that lends the pages names its frame.
Lends(g) == \E i \in Slots : ring[i] = [id |-> hostid[g], dyna |-> TRUE]
                             \/ copy[i] = [id |-> hostid[g], dyna |-> TRUE]

\* The phase leaves the loan only when no slot lends any more.
LEMMA LoanEnds ==
    ASSUME TxInv, [Next]_vars, phase \in {"tx", "stopping"}, "TX_USED" \notin bufState
    PROVE  /\ phase' \in {"tx", "stopping"}
           /\ "TX_USED" \notin bufState' \/ \E f \in Frame : CfmSlot(f) /\ copy[drvIdx].dyna
<1> USE DEF frameVars, txVars, cfmVars, irqVars, fwVars
<1>0. Shapes /\ PhaseInv /\ LentPhase
  BY DEF TxInv, PhaseInv
<1>1. CASE UNCHANGED <<phase, bufState>>
  BY <1>1
<1>2. CASE TxTask
  <2>1. CASE TxStopped
    <3>1. UNCHANGED bufState /\ tx = "wait"
      BY <2>1 DEF TxStopped
    <3>2. CASE free = tot
      <4>1. "TX_USED" \in bufState
        BY <1>0, <3>1, <3>2, AllFree DEF LentPhase
      <4> QED
        BY <4>1
    <3>3. CASE free # tot
      BY <2>1, <3>1, <3>3 DEF TxStopped, AnswerStop
    <3> QED
      BY <3>2, <3>3
  <2> QED
    BY <1>1, <1>2, <2>1 DEF TxTask, TxWake, TxPick, TxCharge, TxSend
<1>3. ASSUME NEW f \in Frame, CfmSlot(f)
      PROVE  UNCHANGED phase /\ ("TX_USED" \in bufState' => copy[drvIdx].dyna)
  BY <1>3 DEF CfmSlot
<1>4. CASE IrqAck
  BY <1>0, <1>4 DEF IrqAck, AckStatus, LentPhase, Acked
<1>5. CASE IrqRx
  <2>1. RxSame
    BY <1>0, <1>5, RxCases DEF RxNarrow, RxNarrowed, RxExpand, RxExpanded
  <2> QED
    BY <2>1 DEF RxSame
<1>6. CASE IrqTask
  BY <1>1, <1>4, <1>5, <1>6 DEF IrqTask, IrqCfm, IrqStop, IrqStart
<1>7. ASSUME NEW f \in Frame, FwConfirm(f) PROVE UNCHANGED bufState /\ phase' \in {"tx", "stopping"}
  BY <1>7 DEF FwConfirm
<1>8. CASE FwRx \/ FwNarrow \/ FwStop \/ FwExpand \/ FwStart
  BY <1>8 DEF FwRx, FwNarrow, FwStop, FwExpand, FwStart
<1>9. ASSUME NEW f \in Frame, NEW n \in Sizes, Push(f, n) PROVE UNCHANGED <<phase, bufState>>
  BY <1>9 DEF Push
<1>10. CASE CfmWake \/ CfmSleep \/ UNCHANGED vars
  BY <1>1, <1>10 DEF CfmWake, CfmSleep, vars
<1> QED
  BY <1>1, <1>2, <1>3, <1>6, <1>7, <1>8, <1>9, <1>10 DEF Next, CfmTask

\* Every step keeps the lent pages with one confirmation at most.
LEMMA LentNext == ASSUME TxInv, FreshIds, [Next]_vars PROVE LentOnce'
<1> USE DEF frameVars, cfmVars, fwVars
<1>0. Shapes /\ FramesOnce /\ IdsOnce /\ Genuine /\ LentOnce /\ PhaseInv
  BY DEF TxInv
<1>a. hostid \in [Frame -> Id \cup {NoId}]
  BY <1>0 DEF Shapes
<1>b. \A g \in Frame : g \in Lenders <=> hostid[g] # NoId /\ Lends(g)
  BY DEF Lenders, Lends
<1>c. \A g \in Lenders' : g \in Frame /\ hostid'[g] # NoId /\ Lends(g)'
  BY DEF Lenders, Lends
<1>1. CASE phase = "reduced" /\ \E f \in Frame : FwConfirm(f)
  <2>1. PICK f \in Frame : FwConfirm(f)
    BY <1>1
  <2>2. Lenders = {} /\ "TX_USED" \notin bufState
    BY <1>0, <1>1 DEF LentOnce, PhaseInv, LentPhase
  <2>3. phase' = "tx" /\ UNCHANGED <<bufState, hostid, copy>>
    BY <1>1, <2>1 DEF FwConfirm, irqVars
  <2>4. ASSUME NEW i \in Slots PROVE ring'[i] = ring[i] \/ ring'[i].id = hostid[f]
    BY <1>0, <2>1 DEF FwConfirm, Shapes
  <2>5. ASSUME NEW g \in Lenders' PROVE g = f
    <3>1. g \in Frame /\ hostid[g] # NoId /\ Lends(g)' /\ ~Lends(g)
      BY <1>b, <1>c, <2>2, <2>3
    <3>2. PICK i \in Slots : ring'[i] = [id |-> hostid[g], dyna |-> TRUE] /\ ring'[i] # ring[i]
      BY <2>3, <3>1 DEF Lends
    <3>3. hostid[g] = hostid[f]
      BY <2>4, <3>2
    <3> QED
      BY <1>0, <3>1, <3>3 DEF IdsOnce
  <2> QED
    BY <2>2, <2>3, <2>5 DEF LentOnce
<1>2. CASE ~(phase = "reduced" /\ \E f \in Frame : FwConfirm(f))
  <2>1. ASSUME NEW g \in Lenders' PROVE g \in Lenders /\ hostid'[g] = hostid[g]
    <3>0. g \in Frame /\ hostid'[g] # NoId /\ Lends(g)'
      BY <1>c
    <3>1. ASSUME NEW f \in Frame, NEW n \in Sizes, Push(f, n) PROVE hostid'[g] = hostid[g] /\ Lends(g)
      <4>1. hostid' = [hostid EXCEPT ![f] = avail[1]] /\ avail[1] \notin InSlots
        BY <1>0, <3>1, PushedId DEF FreshIds, Push, HostPtrToId
      <4>2. UNCHANGED <<ring, copy>>
        BY <3>1 DEF Push
      <4>3. hostid'[g] \in InSlots
        BY <3>0, <4>2 DEF Lends, InSlots
      <4>4. hostid'[g] = hostid[g]
        BY <1>a, <3>0, <4>1, <4>3
      <4> QED
        BY <3>0, <4>2, <4>4 DEF Lends
    <3>2. ASSUME NEW f \in Frame, CfmSlot(f) PROVE hostid'[g] = hostid[g] /\ Lends(g)
      <4>1. hostid' = [hostid EXCEPT ![f] = NoId]
        BY <1>0, <3>2, ConfirmedFrame
      <4>2. UNCHANGED <<ring, copy>>
        BY <3>2 DEF CfmSlot
      <4>3. hostid'[g] = hostid[g]
        BY <1>a, <3>0, <4>1
      <4> QED
        BY <3>0, <4>2, <4>3 DEF Lends
    <3>3. ASSUME NEW f \in Frame, FwConfirm(f) PROVE hostid'[g] = hostid[g] /\ Lends(g)
      <4>1. UNCHANGED <<hostid, copy>> /\ phase # "reduced"
        BY <1>2, <3>3 DEF FwConfirm
      <4>2. ASSUME NEW i \in Slots PROVE ring'[i] = ring[i] \/ ring'[i] = [id |-> hostid[f], dyna |-> FALSE]
        BY <1>0, <3>3, <4>1 DEF FwConfirm, Shapes
      <4>3. ASSUME NEW i \in Slots, ring'[i] = [id |-> hostid[g], dyna |-> TRUE] PROVE ring[i] = ring'[i]
        <5>1. ring'[i].dyna = TRUE
          BY <4>3
        <5> QED
          BY <4>2, <5>1
      <4> QED
        BY <3>0, <4>1, <4>3 DEF Lends
    <3>4. ASSUME UNCHANGED <<hostid, ring>>, copy' = copy \/ copy' = ring
          PROVE  hostid'[g] = hostid[g] /\ Lends(g)
      BY <3>0, <3>4 DEF Lends
    <3>5. ASSUME TxCharge \/ TxSend PROVE hostid'[g] = hostid[g] /\ Lends(g)
      BY <3>4, <3>5 DEF TxCharge, TxSend
    <3>6. hostid'[g] = hostid[g] /\ Lends(g)
      BY <3>1, <3>2, <3>3, <3>4, <3>5, StepsOfFrames
    <3> QED
      BY <1>b, <3>0, <3>6
  <2>2. \A f, g \in Lenders' : f = g
    BY <1>0, <2>1 DEF LentOnce
  <2>3. ASSUME NEW g \in Lenders' PROVE phase' \in {"tx", "stopping"} /\ "TX_USED" \notin bufState'
    <3>1. g \in Lenders /\ hostid'[g] = hostid[g] /\ hostid'[g] # NoId
      BY <1>c, <2>1
    <3>2. phase \in {"tx", "stopping"} /\ "TX_USED" \notin bufState
      BY <1>0, <3>1 DEF LentOnce
    <3>3. ASSUME NEW f \in Frame, CfmSlot(f), copy[drvIdx].dyna PROVE FALSE
      <4>1. f = g
        BY <1>0, <3>1, <3>3, LendingSlot DEF LentOnce
      <4>2. hostid' = [hostid EXCEPT ![f] = NoId]
        BY <1>0, <3>3, ConfirmedFrame
      <4> QED
        BY <1>a, <3>1, <4>1, <4>2
    <3> QED
      BY <3>2, <3>3, LoanEnds
  <2> QED
    BY <2>2, <2>3 DEF LentOnce
<1> QED
  BY <1>1, <1>2

-----------------------------------------------------------------------------
\* The sizes of frames are in the range that PagesOf counts.
LEMMA SizesFit ==
    ASSUME TxInv, NEW f \in Frame
    PROVE  size[f] \in 0..SmallPages
<1>1. size[f] = 0 \/ size[f] \in Sizes
  BY DEF TxInv, FramesOnce
<1>2. \A n \in Sizes : n \in Nat /\ n < SmallPages
  BY SdioAssumption
<1> QED
  BY <1>1, <1>2, PagesAssumption

\* PagesAt is what PagesIn counts.
LEMMA PagesAreCounted ==
    /\ \A places : PagesAt(places) = Cardinality(PagesIn(at, size, places)) /\ PagesAt(places) \in Nat
    /\ Charged = Cardinality(PagesIn(at, size, {"batch", "fw", "cfm"})) /\ Charged \in Nat
    /\ Charged' = Cardinality(PagesIn(at', size', {"batch", "fw", "cfm"})) /\ Charged' \in Nat
<1>1. \A places : PagesOf(places) = PagesIn(at, size, places)
  BY DEF PagesOf, PagesIn
<1>2. \A places : Cardinality(PagesIn(at, size, places)) \in Nat
  BY PagesAreFinite
<1>3. PagesOf({"batch", "fw", "cfm"})' = PagesIn(at', size', {"batch", "fw", "cfm"})
  BY DEF PagesOf, PagesIn
<1>4. Cardinality(PagesIn(at', size', {"batch", "fw", "cfm"})) \in Nat
  BY PagesAreFinite
<1> QED
  BY <1>1, <1>2, <1>3, <1>4 DEF PagesAt, Charged

\* A frame that is charged adds its pages to the sum, one that is confirmed takes them off.
LEMMA ChargeOfOne ==
    ASSUME NEW f \in Frame,
           \A g \in Frame : g # f => (at[g] \in ChargedPlaces <=> at'[g] \in ChargedPlaces)
                                     /\ size[g] = size'[g]
    PROVE  /\ at[f] \notin ChargedPlaces /\ at'[f] \in ChargedPlaces /\ size'[f] \in 0..SmallPages
                => Charged' = Charged + size'[f]
           /\ at[f] \in ChargedPlaces /\ at'[f] \notin ChargedPlaces /\ size[f] \in 0..SmallPages
                => Charged = Charged' + size[f]
<1>1. ASSUME at[f] \notin ChargedPlaces, at'[f] \in ChargedPlaces, size'[f] \in 0..SmallPages
      PROVE  Cardinality(PagesIn(at', size', ChargedPlaces))
               = Cardinality(PagesIn(at, size, ChargedPlaces)) + size'[f]
  <2>1. Arrives(at, size, at', size', f)
    BY <1>1 DEF Arrives
  <2> QED
    BY <2>1, PagesArrive
<1>2. ASSUME at[f] \in ChargedPlaces, at'[f] \notin ChargedPlaces, size[f] \in 0..SmallPages
      PROVE  Cardinality(PagesIn(at, size, ChargedPlaces))
               = Cardinality(PagesIn(at', size', ChargedPlaces)) + size[f]
  <2>1. Arrives(at', size', at, size, f)
    BY <1>2 DEF Arrives
  <2> QED
    BY <2>1, PagesArrive
<1>3. /\ Charged = Cardinality(PagesIn(at, size, ChargedPlaces))
      /\ Charged' = Cardinality(PagesIn(at', size', ChargedPlaces))
  BY PagesAreCounted DEF ChargedPlaces
<1> QED
  BY <1>1, <1>2, <1>3

\* Frames that stay where they are charged, or not charged, leave the sum.
LEMMA SameCharge ==
    ASSUME \A g \in Frame : (at[g] \in {"batch", "fw", "cfm"} <=> at'[g] \in {"batch", "fw", "cfm"})
                            /\ (at[g] \in {"batch", "fw", "cfm"} => size'[g] = size[g])
    PROVE  Charged' = Charged
<1>1. PagesIn(at, size, {"batch", "fw", "cfm"}) = PagesIn(at', size', {"batch", "fw", "cfm"})
  BY DEF PagesIn
<1> QED
  BY <1>1, PagesAreCounted

\* A step that moves no page keeps the account.
LEMMA PagesKept ==
    ASSUME PagesExact, Charged' = Charged, UNCHANGED <<free, tot, leaked>>,
           "TX_USED" \in bufState' <=> "TX_USED" \in bufState
    PROVE  PagesExact'
BY DEF PagesExact

\* Every step keeps the account of the pages.
LEMMA PagesNext == ASSUME TxInv, [Next]_vars PROVE PagesExact'
<1> USE DEF frameVars, txVars, cfmVars, irqVars, fwVars
<1>0. Shapes /\ FramesOnce /\ Genuine /\ LentOnce /\ TxSteps /\ PhaseInv /\ PagesExact
  BY DEF TxInv
<1>a. at \in [Frame -> Places] /\ size \in [Frame -> Nat] /\ desc \in Seq(Frame)
      /\ free \in Int /\ leaked \in Nat /\ tot \in Nat
  BY <1>0 DEF Shapes
<1>b. SmallPages \in Nat \ {0} /\ DynaPages \in Nat \ {0} /\ LargePages = SmallPages + DynaPages
  BY PagesAssumption DEF LargePages
<1>c. Charged \in Nat /\ Charged' \in Nat
  BY PagesAreCounted
<1>1. ASSUME NEW f \in Frame, NEW n \in Sizes, Push(f, n) PROVE PagesExact'
  <2>1. at[f] = "out" /\ at' = [at EXCEPT ![f] = "desc"] /\ size' = [size EXCEPT ![f] = n]
        /\ UNCHANGED <<free, tot, leaked, bufState>>
    BY <1>1 DEF Push
  <2>2. Charged' = Charged
    BY <1>a, <2>1, SameCharge
  <2> QED
    BY <1>0, <2>1, <2>2, PagesKept
<1>2. CASE TxCharge
  <2>1. desc # <<>> /\ Head(desc) = desc[1] /\ desc[1] \in Frame /\ at[desc[1]] = "desc"
    BY <1>0, <1>a, <1>2 DEF TxCharge, TxSteps, FramesOnce
  <2>2. PICK f \in Frame : f = Head(desc) /\ at[f] = "desc"
    BY <2>1
  <2>3. PICK m \in Nat : m = size[f] /\ m \in 0..SmallPages
    BY SizesFit
  <2>4. free' = free - m /\ UNCHANGED <<size, tot, bufState>>
    BY <1>2, <2>2, <2>3 DEF TxCharge
  <2>5. CASE at' = [at EXCEPT ![f] = "batch"] /\ UNCHANGED leaked
    <3>1. Charged' = Charged + m
      <4>1. \A g \in Frame : g # f => (at[g] \in ChargedPlaces <=> at'[g] \in ChargedPlaces)
                                       /\ size[g] = size'[g]
        BY <1>a, <2>4, <2>5
      <4>2. at[f] \notin ChargedPlaces /\ at'[f] \in ChargedPlaces /\ size'[f] = m
        BY <1>a, <2>2, <2>3, <2>4, <2>5 DEF ChargedPlaces
      <4> QED
        BY <2>3, <4>1, <4>2, ChargeOfOne
    <3> QED
      BY <1>0, <1>a, <1>b, <1>c, <2>4, <2>5, <3>1 DEF PagesExact
  <2>6. CASE UNCHANGED at /\ leaked' = leaked + m
    <3>1. Charged' = Charged
      BY <2>4, <2>6, SameCharge
    <3> QED
      BY <1>0, <1>a, <1>b, <1>c, <2>4, <2>6, <3>1 DEF PagesExact
  <2> QED
    BY <1>2, <2>2, <2>3, <2>5, <2>6 DEF TxCharge
<1>3. CASE TxSend
  <2>1. UNCHANGED <<free, tot, leaked, bufState, size>>
        /\ \A g \in Frame : at'[g] = IF at[g] = "batch" THEN "fw" ELSE at[g]
    BY <1>3 DEF TxSend
  <2>2. Charged' = Charged
    BY <2>1, SameCharge
  <2> QED
    BY <1>0, <2>1, <2>2, PagesKept
<1>4. ASSUME NEW f \in Frame, CfmSlot(f) PROVE PagesExact'
  <2>1. at[f] = "cfm" /\ at' = [at EXCEPT ![f] = "out"] /\ size' = [size EXCEPT ![f] = 0]
    BY <1>0, <1>4, ConfirmedFrame
  <2>2. PICK m \in Nat : m = size[f] /\ m \in 0..SmallPages
    BY SizesFit
  <2>3. Charged = Charged' + m
    <3>1. \A g \in Frame : g # f => (at[g] \in ChargedPlaces <=> at'[g] \in ChargedPlaces)
                                     /\ size[g] = size'[g]
      BY <1>a, <2>1
    <3>2. at[f] \in ChargedPlaces /\ at'[f] \notin ChargedPlaces
      BY <1>a, <2>1 DEF ChargedPlaces
    <3> QED
      BY <2>2, <3>1, <3>2, ChargeOfOne
  <2>4. UNCHANGED <<tot, leaked>> /\ free' = free + Returned(f)
    BY <1>4 DEF CfmSlot
  <2>5. CASE copy[drvIdx].dyna
    <3>1. phase \in {"tx", "stopping"} /\ "TX_USED" \notin bufState /\ "TX_USED" \in bufState'
      BY <1>4, <2>5, LendingSlot DEF CfmSlot
    <3>2. tot = LargePages
      BY <1>0, <3>1 DEF PhaseInv, LentPhase
    <3>3. free' = free + (m + DynaPages)
      BY <2>2, <2>4, <2>5 DEF Returned
    <3>4. free + Charged + leaked = SmallPages
      BY <1>0, <3>1, <3>2 DEF PagesExact
    <3>5. free' + Charged' + leaked' = LargePages
      <4>1. PICK c \in Nat, d \in Nat : c = Charged /\ d = Charged'
        BY <1>c
      <4>2. (free + (m + DynaPages)) + d + leaked = LargePages
        <5>1. free \in Int /\ leaked \in Nat /\ m \in Nat /\ SmallPages \in Nat /\ DynaPages \in Nat
              /\ c \in Nat /\ d \in Nat /\ LargePages = SmallPages + DynaPages
          BY <1>a, <1>b, <4>1
        <5>2. free + c + leaked = SmallPages
          BY <3>4, <4>1
        <5>3. c = d + m
          BY <2>3, <4>1
        <5> QED
          BY <5>1, <5>2, <5>3
      <4> QED
        BY <2>4, <3>3, <4>1, <4>2
    <3> QED
      BY <2>4, <3>1, <3>2, <3>5 DEF PagesExact
  <2>6. CASE ~copy[drvIdx].dyna
    <3>1. free' = free + m /\ UNCHANGED bufState
      BY <1>4, <2>2, <2>4, <2>6 DEF Returned, CfmSlot
    <3> QED
      BY <1>0, <1>a, <1>b, <1>c, <2>2, <2>3, <2>4, <3>1 DEF PagesExact
  <2> QED
    BY <2>5, <2>6
<1>5. ASSUME NEW f \in Frame, FwConfirm(f) PROVE PagesExact'
  <2>1. at[f] = "fw" /\ at' = [at EXCEPT ![f] = "cfm"] /\ UNCHANGED <<free, tot, leaked, bufState, size>>
    BY <1>5 DEF FwConfirm
  <2>2. Charged' = Charged
    BY <1>a, <2>1, SameCharge
  <2> QED
    BY <1>0, <2>1, <2>2, PagesKept
<1>6. CASE IrqRx
  <2>1. UNCHANGED <<at, size, leaked>>
    BY <1>6 DEF IrqRx
  <2>2. Charged' = Charged
    BY <2>1, SameCharge
  <2>3. CASE RxSame
    BY <1>0, <2>1, <2>2, <2>3, PagesKept DEF RxSame
  <2>4. CASE RxNarrow
    <3>1. tot = SmallPages /\ "TX_USED" \notin bufState /\ "TX_USED" \notin bufState'
      BY <1>0, <2>4 DEF RxNarrow, PhaseInv, ShrinkPhase, Flags
    <3> QED
      BY <1>0, <2>1, <2>2, <2>4, <3>1 DEF RxNarrow, PagesExact
  <2>5. CASE RxNarrowed
    <3>1. "TX_USED" \notin bufState /\ "TX_USED" \notin bufState'
      BY <2>5 DEF RxNarrowed, Flags
    <3> QED
      BY <1>0, <2>1, <2>2, <2>5, <3>1 DEF RxNarrowed, PagesExact
  <2>6. CASE RxExpand
    <3>1. tot = LargePages /\ "TX_USED" \in bufState /\ "TX_USED" \in bufState'
      BY <1>0, <2>6 DEF RxExpand, PhaseInv, GrowPhase, Flags
    <3>2. tot' = SmallPages /\ free' = free - DynaPages
      BY <2>6 DEF RxExpand
    <3> QED
      BY <1>0, <1>a, <1>b, <1>c, <2>1, <2>2, <3>1, <3>2 DEF PagesExact
  <2>7. CASE RxExpanded
    <3>1. tot = SmallPages /\ UNCHANGED <<free, tot>>
      BY <1>0, <2>7 DEF RxExpanded, PhaseInv, GrowPhase, Flags
    <3>2. tot # LargePages
      BY <1>b, <3>1
    <3> QED
      BY <1>0, <2>1, <2>2, <3>1, <3>2 DEF PagesExact
  <2> QED
    BY <1>0, <1>6, <2>3, <2>4, <2>5, <2>6, <2>7, RxCases
<1>7. ASSUME UNCHANGED <<at, size, free, tot, leaked>>, "TX_USED" \in bufState' <=> "TX_USED" \in bufState
      PROVE  PagesExact'
  <2>1. Charged' = Charged
    BY <1>7, SameCharge
  <2> QED
    BY <1>0, <1>7, <2>1, PagesKept
<1>8. CASE TxTask
  <2>1. CASE TxStopped \/ TxWake \/ TxPick
    BY <1>7, <2>1 DEF TxStopped, TxWake, TxPick
  <2> QED
    BY <1>2, <1>3, <1>8, <2>1 DEF TxTask
<1>9. CASE CfmWake \/ CfmSleep
  BY <1>7, <1>9 DEF CfmWake, CfmSleep
<1>10. CASE IrqTask
  <2>1. CASE IrqAck
    <3>1. status \in FwStatus
      BY <1>0 DEF Shapes
    <3>2. "TX_USED" \in bufState' <=> "TX_USED" \in bufState
      BY <2>1, <3>1 DEF IrqAck, AckStatus, FwStatus
    <3> QED
      BY <1>7, <2>1, <3>2 DEF IrqAck
  <2>2. CASE IrqCfm \/ IrqStop \/ IrqStart
    BY <1>7, <2>2 DEF IrqCfm, IrqStop, IrqStart
  <2> QED
    BY <1>6, <1>10, <2>1, <2>2 DEF IrqTask
<1>11. CASE FwRx \/ FwNarrow \/ FwStop \/ FwExpand \/ FwStart \/ UNCHANGED vars
  BY <1>7, <1>11 DEF FwRx, FwNarrow, FwStop, FwExpand, FwStart, vars
<1> QED
  BY <1>1, <1>4, <1>5, <1>8, <1>9, <1>10, <1>11 DEF Next, CfmTask

-----------------------------------------------------------------------------
\* The first state satisfies the invariant, and no slot holds an id.
LEMMA FirstState == Init => TxInv /\ AllFresh /\ \A x \in InSlots : x = NoId
<1> SUFFICES ASSUME Init PROVE TxInv /\ AllFresh /\ \A x \in InSlots : x = NoId
  OBVIOUS
<1>a. /\ SmallPages \in Nat \ {0} /\ DynaPages \in Nat \ {0} /\ LargePages = SmallPages + DynaPages
      /\ NbIds \in 1..MaxPrefix /\ MaxPrefix \in Nat \ {0} /\ RingSize \in Nat \ {0}
  BY PagesAssumption, SdioAssumption DEF LargePages
<1>1. ASSUME NEW i \in Slots PROVE ring[i] = NoCfm /\ copy[i] = NoCfm
  BY DEF Init
<1>2. NoCfm \in Confirmation /\ NoCfm.id = NoId
  BY DEF NoCfm, Confirmation
<1>3. \A x \in InSlots : x = NoId
  BY <1>1, <1>2 DEF InSlots
<1>4. avail \in Seq(Id) /\ Len(avail) = NbIds /\ \A k \in 1..NbIds : avail[k] \in Id /\ avail[k].n = k
  <2>1. avail = [n \in 1..NbIds |-> [n |-> n, p |-> n]] /\ NbIds \in Nat
    BY <1>a DEF Init
  <2>2. \A n \in 1..NbIds : [n |-> n, p |-> n] \in Id
    BY <1>a DEF Id
  <2> QED
    BY <2>1, <2>2
<1>5. AllFresh
  <2>1. NoId \notin Id
    BY SdioAssumption DEF Id
  <2> QED
    BY <1>3, <1>4, <2>1 DEF AllFresh
<1>6. Shapes
  <2>1. 0 \in Slots
    BY <1>a DEF Slots
  <2>2. copy \in [Slots -> Confirmation] /\ ring \in [Slots -> Confirmation]
    BY <1>2 DEF Init
  <2>3. /\ at \in [Frame -> Places] /\ size \in [Frame -> Nat] /\ hostid \in [Frame -> Id \cup {NoId}]
        /\ pushes \in Nat /\ tx \in {"wait", "pick", "charge", "send"} /\ desc \in Seq(Frame)
    BY DEF Init, Places
  <2>4. sem \in Nat /\ cfmSem \in 0..SemBound /\ batch \in Nat /\ free \in Int /\ tot \in Nat /\ leaked \in Nat
    BY <1>a DEF Init, SemBound
  <2>5. /\ stop \in BOOLEAN /\ sendStop \in BOOLEAN /\ cfm \in {"wait", "run"} /\ prefix \in 1..MaxPrefix
        /\ drvIdx \in Slots /\ fwIdx \in Slots
    BY <1>a, <2>1 DEF Init
  <2>6. /\ handling \subseteq Bits /\ irq \subseteq Bits /\ bufState \subseteq BufFlags
        /\ ext \in {"START", "STOP"} /\ status \in FwStatus /\ phase \in Phases /\ fwPages \in Nat
    BY <1>a DEF Init, Bits, InitBufState, BufFlags, FwStatus, Phases
  <2> QED
    BY <1>4, <2>2, <2>3, <2>4, <2>5, <2>6 DEF Shapes
<1>7. FramesOnce /\ TxSteps
  BY <1>a DEF Init, FramesOnce, TxSteps
<1>8. IdsOnce /\ Genuine /\ LentOnce
  BY <1>4 DEF Init, IdsOnce, Genuine, LentOnce, Lenders
<1>9. PhaseInv
  BY <1>a DEF Init, PhaseInv, RxPhase, Flags, Acked, EXT, InitBufState
<1>10. PagesExact
  <2>1. Charged = 0
    <3>1. \A f \in Frame : at[f] \notin {"batch", "fw", "cfm"}
      BY DEF Init
    <3> QED
      BY <3>1, NoPages, PagesAreCounted
  <2>2. free = SmallPages /\ tot = SmallPages /\ leaked = 0 /\ tot # LargePages
    BY <1>a DEF Init
  <2> QED
    BY <1>a, <2>1, <2>2 DEF PagesExact
<1> QED
  BY <1>3, <1>5, <1>6, <1>7, <1>8, <1>9, <1>10 DEF TxInv

\* Every step keeps the invariant, as long as no id of a slot is given out.
LEMMA TxInvNext == ASSUME TxInv, FreshIds, [Next]_vars PROVE TxInv'
BY ShapesNext, FramesNext, IdsNext, GenuineNext, LentNext, TxStepsNext, PhaseNext, PagesNext DEF TxInv

-----------------------------------------------------------------------------
(* Why no slot holds an id that is given out: the pool is a queue, a slot is *)
(* written again after RingSize confirmations, and the pool holds more ids   *)
(* than that, whatever their prefixes.                                       *)

\* IPC_HOSTID_CNT, at least 520, against the 192 slots of SRAM_TXCFM_CNT and the frames.
LargePool == RingSize + Cardinality(Frame) < NbIds

\* The frames that have an id, and those that are confirmed.
Under   == {f \in Frame : at[f] # "out"}
Waiting == {f \in Frame : at[f] = "cfm"}

\* Slot i of the firmware's ring, or of the host's copy, confirms the frame.
Confirms(i, f) == ring[i].id = hostid[f]
Copied(i, f)   == copy[i].id = hostid[f]

\* A frame is confirmed in one slot at most, the same in the ring and in its copy. A slot of
\* the copy that confirms a frame is one in which the ring confirms a frame: the same one, or
\* that whose confirmation was written over it.
OneSlot ==
    \A f \in Waiting : \A i, l \in Slots :
        (Confirms(i, f) \/ Copied(i, f)) /\ (Confirms(l, f) \/ Copied(l, f)) => i = l
Covered ==
    \A f \in Waiting : \A i \in Slots : Copied(i, f) => \E g \in Waiting : Confirms(i, g)
RingKeeps == OneSlot /\ Covered

\* How many slots aml_tx_cfm_task has left since it looked at this one.
Age(i) == IF i < drvIdx THEN drvIdx - i ELSE drvIdx - i + RingSize

\* The id of a slot is in the pool at most as long as the slot has been left.
Aged ==
    /\ \A i \in Slots, k \in 1..Len(avail) : ring[i].id # NoId /\ avail[k].n = ring[i].id.n => k + Age(i) > Len(avail)
    /\ \A i \in Slots, k \in 1..Len(avail) : copy[i].id # NoId /\ avail[k].n = copy[i].id.n => k + Age(i) > Len(avail)

PoolFull == Len(avail) + Cardinality(Under) = NbIds

\* Sets of frames are finite; one frame more or less counts as one.
LEMMA FramesCount ==
    ASSUME NEW S \in SUBSET Frame
    PROVE  /\ IsFiniteSet(S) /\ Cardinality(S) \in Nat /\ Cardinality(S) <= Cardinality(Frame)
           /\ \A f \in Frame : f \notin S => /\ Cardinality(S \cup {f}) = Cardinality(S) + 1
                                             /\ Cardinality(S) < Cardinality(Frame)
           /\ \A f \in Frame : f \in S => Cardinality(S \ {f}) = Cardinality(S) - 1 /\ Cardinality(S) > 0
<1>1. IsFiniteSet(S) /\ Cardinality(S) <= Cardinality(Frame) /\ Cardinality(S) \in Nat /\ Cardinality(Frame) \in Nat
  BY FS_Subset, FS_CardinalityType, SdioAssumption
<1>4. ASSUME NEW f \in Frame, f \notin S
      PROVE  Cardinality(S \cup {f}) = Cardinality(S) + 1 /\ Cardinality(S) < Cardinality(Frame)
  <2>1. Cardinality(S \cup {f}) = Cardinality(S) + 1
    BY <1>1, <1>4, FS_AddElement
  <2>2. S \cup {f} \subseteq Frame
    OBVIOUS
  <2>3. Cardinality(S \cup {f}) <= Cardinality(Frame)
    BY <2>2, FS_Subset, SdioAssumption
  <2> QED
    BY <1>1, <2>1, <2>3
<1>5. ASSUME NEW f \in Frame, f \in S
      PROVE  Cardinality(S \ {f}) = Cardinality(S) - 1 /\ Cardinality(S) > 0
  <2>1. Cardinality(S \ {f}) = Cardinality(S) - 1 /\ IsFiniteSet(S \ {f})
    BY <1>1, <1>5, FS_RemoveElement
  <2>2. Cardinality(S \ {f}) \in Nat
    BY <2>1, FS_CardinalityType
  <2> QED
    BY <1>1, <2>1, <2>2
<1> QED
  BY <1>1, <1>4, <1>5

\* The slot after one, with the wrap written out.
LEMMA SuccessorIs == \A i \in Slots : NextSlot(i) = IF i + 1 = RingSize THEN 0 ELSE i + 1
BY SdioAssumption DEF Slots, NextSlot

\* A slot that the task has found confirms a frame, and no other slot that frame; in the
\* ring it may by now confirm another.
LEMMA FirstWaiting ==
    ASSUME TxInv, RingKeeps, NEW f \in Frame, CfmSlot(f)
    PROVE  /\ f \in Waiting /\ hostid[f] # NoId /\ Copied(drvIdx, f)
           /\ \A i \in Slots : Confirms(i, f) \/ Copied(i, f) => i = drvIdx
           /\ \E g \in Waiting : Confirms(drvIdx, g) /\ hostid[g] # NoId
<1>0. Shapes /\ Genuine /\ IdsOnce /\ FramesOnce
  BY DEF TxInv
<1>1. at[f] = "cfm" /\ hostid[f] # NoId /\ drvIdx \in Slots /\ hostid[f] = copy[drvIdx].id
  BY <1>0, ConfirmedFrame
<1>2. f \in Waiting /\ Copied(drvIdx, f)
  BY <1>1 DEF Waiting, Copied
<1>3. \A i \in Slots : Confirms(i, f) \/ Copied(i, f) => i = drvIdx
  BY <1>1, <1>2 DEF RingKeeps, OneSlot
<1>4. PICK g \in Waiting : Confirms(drvIdx, g)
  BY <1>1, <1>2 DEF RingKeeps, Covered
<1>5. hostid[g] # NoId
  BY <1>0 DEF Waiting, FramesOnce
<1> QED
  BY <1>1, <1>2, <1>3, <1>4, <1>5

\* The frames that are confirmed: of which steps.
LEMMA WaitingSteps ==
    ASSUME TxInv, [Next]_vars
    PROVE  \/ \E f \in Frame : CfmSlot(f) \/ FwConfirm(f)
           \/ /\ UNCHANGED <<drvIdx, fwIdx, ring>> /\ (copy' = copy \/ copy' = ring)
              /\ Waiting' = Waiting /\ \A f \in Waiting : hostid'[f] = hostid[f]
<1> USE DEF vars, frameVars, txVars, cfmVars, fwVars
<1>0. Shapes /\ TxSteps /\ FramesOnce
  BY DEF TxInv
<1>a. at \in [Frame -> Places] /\ hostid \in [Frame -> Id \cup {NoId}] /\ desc \in Seq(Frame)
  BY <1>0 DEF Shapes
<1>b. (\E f \in Frame : CfmSlot(f) \/ FwConfirm(f)) \/ UNCHANGED <<drvIdx, fwIdx, ring>>
  <2>1. CASE TxTask
    BY <2>1 DEF TxTask, TxStopped, TxWake, TxPick, TxCharge, TxSend
  <2>2. CASE CfmTask
    BY <2>2 DEF CfmTask, CfmWake, CfmSleep
  <2>3. CASE IrqTask
    BY <2>3 DEF IrqTask, IrqAck, IrqRx, IrqCfm, IrqStop, IrqStart
  <2>4. CASE FwRx \/ FwNarrow \/ FwStop \/ FwExpand \/ FwStart
    BY <2>4 DEF FwRx, FwNarrow, FwStop, FwExpand, FwStart
  <2>5. CASE \E f \in Frame, n \in Sizes : Push(f, n)
    BY <2>5 DEF Push
  <2> QED
    BY <2>1, <2>2, <2>3, <2>4, <2>5 DEF Next
<1>1. ASSUME NEW f \in Frame, NEW n \in Sizes, Push(f, n)
      PROVE  copy' = copy /\ Waiting' = Waiting /\ \A g \in Waiting : hostid'[g] = hostid[g]
  <2>1. at[f] = "out" /\ at' = [at EXCEPT ![f] = "desc"] /\ copy' = copy
        /\ hostid' = [hostid EXCEPT ![f] = Head(avail)]
    BY <1>1 DEF Push, HostPtrToId
  <2> QED
    BY <1>a, <2>1 DEF Waiting
<1>2. CASE TxCharge
  <2>1. Head(desc) \in Frame /\ at[Head(desc)] = "desc"
    BY <1>0, <1>2 DEF TxCharge, TxSteps, FramesOnce, Shapes
  <2>2. at' = at \/ at' = [at EXCEPT ![Head(desc)] = "batch"]
    BY <1>2 DEF TxCharge
  <2>3. Waiting' = Waiting
    BY <1>a, <2>1, <2>2 DEF Waiting
  <2> QED
    BY <1>2, <1>b, <2>3 DEF TxCharge
<1>3. CASE TxSend
  <2>1. Waiting' = Waiting
    BY <1>3 DEF TxSend, Waiting
  <2> QED
    BY <1>3, <1>b, <2>1 DEF TxSend
<1>4. CASE UNCHANGED <<at, hostid>> /\ (copy' = copy \/ copy' = ring)
  BY <1>4, <1>b DEF Waiting
<1> QED
  BY <1>1, <1>2, <1>3, <1>4, <1>b, StepsOfFrames

\* Every step keeps the confirmations of the waiting frames apart, also one that writes over
\* another.
LEMMA RingNext == ASSUME TxInv, RingKeeps, [Next]_vars PROVE RingKeeps'
<1>0. Shapes /\ Genuine /\ IdsOnce /\ FramesOnce /\ OneSlot /\ Covered
  BY DEF TxInv, RingKeeps
<1>a. /\ at \in [Frame -> Places] /\ hostid \in [Frame -> Id \cup {NoId}] /\ drvIdx \in Slots
      /\ fwIdx \in Slots /\ ring \in [Slots -> Confirmation]
  BY <1>0 DEF Shapes
<1>1. ASSUME NEW f \in Frame, CfmSlot(f) PROVE RingKeeps'
  <2>1. /\ f \in Waiting /\ hostid[f] # NoId /\ Copied(drvIdx, f)
        /\ \A i \in Slots : Confirms(i, f) \/ Copied(i, f) => i = drvIdx
    BY <1>1, FirstWaiting
  <2>2. /\ at' = [at EXCEPT ![f] = "out"] /\ hostid' = [hostid EXCEPT ![f] = NoId]
        /\ UNCHANGED <<ring, copy>>
    BY <1>0, <1>1, ConfirmedFrame DEF CfmSlot, fwVars
  <2>3. \A g \in Waiting' : g \in Waiting /\ g \in Frame /\ g # f /\ hostid'[g] = hostid[g]
    BY <1>a, <2>2 DEF Waiting
  <2>4. \A g \in Waiting : g # f => g \in Waiting' /\ hostid'[g] = hostid[g]
    BY <1>a, <2>2 DEF Waiting
  <2>5. \A g \in Waiting, i \in Slots : g # f =>
            (Confirms(i, g)' <=> Confirms(i, g)) /\ (Copied(i, g)' <=> Copied(i, g))
    BY <2>2, <2>4 DEF Confirms, Copied
  <2>6. OneSlot'
    BY <1>0, <2>3, <2>5 DEF OneSlot
  <2>7. ASSUME NEW g \in Waiting', NEW i \in Slots, Copied(i, g)'
        PROVE  \E h \in Waiting' : Confirms(i, h)'
    <3>1. g \in Waiting /\ g # f /\ Copied(i, g)
      BY <2>3, <2>5, <2>7
    <3>2. i # drvIdx
      <4>1. hostid[g] # hostid[f]
        BY <1>0, <2>1, <3>1 DEF IdsOnce, Waiting
      <4> QED
        BY <2>1, <3>1, <4>1 DEF Copied
    <3>3. PICK h \in Waiting : Confirms(i, h)
      BY <1>0, <3>1 DEF Covered
    <3>4. h # f
      BY <2>1, <3>2, <3>3
    <3> QED
      BY <2>4, <2>5, <3>3, <3>4
  <2> QED
    BY <2>6, <2>7 DEF RingKeeps, Covered
<1>2. ASSUME NEW f \in Frame, FwConfirm(f) PROVE RingKeeps'
  <2>1. /\ at[f] = "fw" /\ at' = [at EXCEPT ![f] = "cfm"] /\ UNCHANGED <<hostid, copy>>
        /\ ring' = [ring EXCEPT ![fwIdx] = [id |-> hostid[f], dyna |-> phase = "reduced"]]
    BY <1>2 DEF FwConfirm, frameVars, cfmVars
  <2>2. Waiting' = Waiting \cup {f} /\ f \notin Waiting
    BY <1>a, <2>1 DEF Waiting
  <2>3. ring'[fwIdx].id = hostid[f] /\ \A i \in Slots : i # fwIdx => ring'[i] = ring[i]
    BY <1>a, <2>1
  <2>4. hostid[f] # NoId
    BY <1>0, <2>1 DEF FramesOnce
  <2>5. \A i \in Slots : ~Confirms(i, f) /\ ~Copied(i, f)
    <3>1. hostid[f] \notin InSlots
      BY <1>0, <2>1, <2>4 DEF Genuine
    <3> QED
      BY <3>1 DEF InSlots, Confirms, Copied
  <2>6. \A g \in Waiting : g # f /\ hostid[g] # hostid[f]
    BY <1>0, <2>2, <2>4 DEF IdsOnce, Waiting
  <2>7. \A i \in Slots : (Confirms(i, f)' <=> i = fwIdx) /\ ~Copied(i, f)'
    BY <2>1, <2>3, <2>5 DEF Confirms, Copied
  <2>8. \A g \in Waiting, i \in Slots :
            /\ Confirms(i, g)' <=> i # fwIdx /\ Confirms(i, g)
            /\ Copied(i, g)' <=> Copied(i, g)
    BY <2>1, <2>3, <2>6 DEF Confirms, Copied
  <2>9. ASSUME NEW g \in Waiting', NEW i \in Slots, NEW l \in Slots,
               Confirms(i, g)' \/ Copied(i, g)', Confirms(l, g)' \/ Copied(l, g)'
        PROVE  i = l
    <3>1. CASE g = f
      BY <2>7, <2>9, <3>1
    <3>2. CASE g # f
      <4>1. g \in Waiting
        BY <2>2, <3>2
      <4>2. (Confirms(i, g) \/ Copied(i, g)) /\ (Confirms(l, g) \/ Copied(l, g))
        BY <2>8, <2>9, <4>1
      <4> QED
        BY <1>0, <4>1, <4>2 DEF OneSlot
    <3> QED
      BY <3>1, <3>2
  <2>10. ASSUME NEW g \in Waiting', NEW i \in Slots, Copied(i, g)'
         PROVE  \E h \in Waiting' : Confirms(i, h)'
    <3>1. CASE i = fwIdx
      BY <2>2, <2>7, <3>1
    <3>2. CASE i # fwIdx
      <4>1. g \in Waiting /\ Copied(i, g)
        BY <2>2, <2>7, <2>8, <2>10
      <4>2. PICK h \in Waiting : Confirms(i, h)
        BY <1>0, <4>1 DEF Covered
      <4> QED
        BY <2>2, <2>8, <3>2, <4>2
    <3> QED
      BY <3>1, <3>2
  <2> QED
    BY <2>9, <2>10 DEF RingKeeps, OneSlot, Covered
<1>3. CASE /\ UNCHANGED <<drvIdx, fwIdx, ring>> /\ (copy' = copy \/ copy' = ring)
           /\ Waiting' = Waiting /\ \A f \in Waiting : hostid'[f] = hostid[f]
  <2>1. ASSUME NEW g \in Waiting, NEW i \in Slots
        PROVE  /\ Confirms(i, g)' <=> Confirms(i, g)
               /\ Copied(i, g)' => Copied(i, g) \/ Confirms(i, g)
    BY <1>3 DEF Confirms, Copied
  <2> QED
    BY <1>0, <1>3, <2>1 DEF RingKeeps, OneSlot, Covered
<1> QED
  BY <1>1, <1>2, <1>3, WaitingSteps

\* Every step keeps the pool full but for the ids of the frames that have one.
LEMMA PoolNext == ASSUME TxInv, PoolFull, [Next]_vars PROVE PoolFull'
<1>0. Shapes /\ Genuine /\ TxSteps /\ FramesOnce
  BY DEF TxInv
<1>a. at \in [Frame -> Places] /\ avail \in Seq(Id) /\ desc \in Seq(Frame)
  BY <1>0 DEF Shapes
<1>b. Under \subseteq Frame
  BY DEF Under
<1>c. PICK u \in Nat : u = Cardinality(Under)
  BY <1>b, FramesCount
<1>d. NbIds \in Nat /\ Len(avail) \in Nat /\ Len(avail) + u = NbIds
  BY <1>a, <1>c, SdioAssumption DEF PoolFull
<1>1. ASSUME NEW f \in Frame, NEW n \in Sizes, Push(f, n) PROVE PoolFull'
  <2>1. at[f] = "out" /\ at' = [at EXCEPT ![f] = "desc"] /\ avail' = Tail(avail) /\ avail # <<>>
    BY <1>1 DEF Push, HostPtrToId
  <2>2. Under' = Under \cup {f} /\ f \notin Under
    BY <1>a, <2>1 DEF Under
  <2>3. Cardinality(Under') = u + 1 /\ Len(avail') = Len(avail) - 1
    BY <1>a, <1>b, <1>c, <2>1, <2>2, FramesCount
  <2> QED
    BY <1>d, <2>3 DEF PoolFull
<1>2. ASSUME NEW f \in Frame, CfmSlot(f) PROVE PoolFull'
  <2>1. at[f] = "cfm" /\ at' = [at EXCEPT ![f] = "out"]
    BY <1>0, <1>2, ConfirmedFrame
  <2>2. Len(avail') = Len(avail) + 1
    BY <1>a, <1>2 DEF CfmSlot, IdToPtr
  <2>3. Under' = Under \ {f} /\ f \in Under
    BY <1>a, <2>1 DEF Under
  <2>4. Cardinality(Under') = u - 1
    BY <1>b, <1>c, <2>3, FramesCount
  <2> QED
    BY <1>d, <2>2, <2>4 DEF PoolFull
<1>3. ASSUME NEW f \in Frame, FwConfirm(f) PROVE PoolFull'
  <2>1. at[f] = "fw" /\ at' = [at EXCEPT ![f] = "cfm"] /\ avail' = avail
    BY <1>3 DEF FwConfirm
  <2>2. Under' = Under
    BY <1>a, <2>1 DEF Under
  <2> QED
    BY <2>1, <2>2 DEF PoolFull
<1>4. CASE TxCharge
  <2>1. Head(desc) \in Frame /\ at[Head(desc)] = "desc"
    BY <1>0, <1>4 DEF TxCharge, TxSteps, FramesOnce, Shapes
  <2>2. (at' = at \/ at' = [at EXCEPT ![Head(desc)] = "batch"]) /\ avail' = avail
    BY <1>4 DEF TxCharge
  <2>3. Under' = Under
    BY <1>a, <2>1, <2>2 DEF Under
  <2> QED
    BY <2>2, <2>3 DEF PoolFull
<1>5. CASE TxSend
  <2>1. Under' = Under /\ avail' = avail
    BY <1>5 DEF TxSend, Under
  <2> QED
    BY <2>1 DEF PoolFull
<1>6. CASE UNCHANGED <<at, avail>>
  BY <1>6 DEF PoolFull, Under
<1> QED
  BY <1>1, <1>2, <1>3, <1>4, <1>5, <1>6, StepsOfFrames

\* Every step lets the ids of the slots move up in the pool no faster than the slots age.
LEMMA AgedNext == ASSUME TxInv, RingKeeps, Aged, [Next]_vars PROVE Aged'
<1>0. Shapes /\ Genuine /\ IdsOnce /\ FramesOnce
  BY DEF TxInv
<1>a. /\ hostid \in [Frame -> Id \cup {NoId}] /\ drvIdx \in Slots /\ avail \in Seq(Id)
      /\ ring \in [Slots -> Confirmation] /\ RingSize \in Nat \ {0} /\ Len(avail) \in Nat
  BY <1>0, SdioAssumption DEF Shapes
<1>b. \A i \in Slots : i \in Int /\ Age(i) \in Int /\ Age(i) >= 1
  BY <1>a DEF Age, Slots
<1>1. ASSUME NEW f \in Frame, NEW n \in Sizes, Push(f, n) PROVE Aged'
  <2>1. avail' = Tail(avail) /\ avail # <<>> /\ UNCHANGED <<drvIdx, ring, copy>>
    BY <1>1 DEF Push, HostPtrToId, cfmVars, fwVars
  <2>2. Len(avail') = Len(avail) - 1
        /\ \A k \in 1..Len(avail') : avail'[k] = avail[k + 1] /\ k + 1 \in 1..Len(avail)
    BY <1>a, <2>1
  <2>3. \A i : Age(i)' = Age(i)
    BY <2>1 DEF Age
  <2>4. ASSUME NEW i \in Slots, NEW k \in 1..Len(avail'), k + 1 + Age(i) > Len(avail)
        PROVE  k + Age(i)' > Len(avail')
    BY <1>a, <1>b, <2>2, <2>3, <2>4
  <2> QED
    BY <2>1, <2>2, <2>4 DEF Aged
<1>2. ASSUME NEW f \in Frame, CfmSlot(f) PROVE Aged'
  <2>1. copy[drvIdx].id = hostid[f] /\ hostid[f] # NoId
    BY <1>0, <1>2, ConfirmedFrame
  <2>a. PICK g \in Frame : ring[drvIdx].id = hostid[g] /\ hostid[g] # NoId
    BY <1>2, FirstWaiting DEF Waiting, Confirms
  <2> DEFINE new == [n |-> hostid[f].n, p |-> NextPrefix]
  <2>2. avail' = Append(avail, new) /\ drvIdx' = NextSlot(drvIdx) /\ UNCHANGED <<ring, copy>>
    BY <1>2 DEF CfmSlot, IdToPtr, fwVars
  <2> HIDE DEF new
  <2>3. Len(avail') = Len(avail) + 1 /\ \A k \in 1..Len(avail) : avail'[k] = avail[k]
    BY <1>a, <2>2
  <2>4. ASSUME NEW i \in Slots PROVE Age(i)' = IF i = drvIdx THEN 1 ELSE Age(i) + 1
    <3>1. drvIdx' = IF drvIdx + 1 = RingSize THEN 0 ELSE drvIdx + 1
      BY <1>a, <2>2, SuccessorIs
    <3> QED
      BY <1>a, <3>1 DEF Age, Slots
  <2>5. ASSUME NEW k \in 1..Len(avail'), NEW i \in Slots, k \notin 1..Len(avail)
        PROVE  k + Age(i)' > Len(avail')
    <3>1. k = Len(avail) + 1 /\ Age(i)' >= 1 /\ Age(i)' \in Int
      BY <1>a, <1>b, <2>3, <2>4, <2>5
    <3> QED
      BY <1>a, <2>3, <3>1
  <2>6. ASSUME NEW k \in 1..Len(avail), NEW i \in Slots, i # drvIdx, k + Age(i) > Len(avail)
        PROVE  k + Age(i)' > Len(avail')
    BY <1>a, <1>b, <2>3, <2>4, <2>6
  <2>7. \A k \in 1..Len(avail) : avail'[k].n # hostid[f].n /\ avail'[k].n # hostid[g].n
    BY <1>0, <2>1, <2>a, <2>3 DEF IdsOnce
  <2>8. ASSUME NEW i \in Slots, NEW k \in 1..Len(avail'), ring[i].id # NoId, avail'[k].n = ring[i].id.n
        PROVE  k + Age(i)' > Len(avail')
    <3>1. CASE k \notin 1..Len(avail)
      BY <2>5, <3>1
    <3>2. CASE k \in 1..Len(avail)
      <4>1. i # drvIdx /\ avail[k].n = ring[i].id.n
        BY <2>a, <2>3, <2>7, <2>8, <3>2
      <4>2. k + Age(i) > Len(avail)
        BY <2>8, <3>2, <4>1 DEF Aged
      <4> QED
        BY <2>6, <3>2, <4>1, <4>2
    <3> QED
      BY <3>1, <3>2
  <2>9. ASSUME NEW i \in Slots, NEW k \in 1..Len(avail'), copy[i].id # NoId, avail'[k].n = copy[i].id.n
        PROVE  k + Age(i)' > Len(avail')
    <3>1. CASE k \notin 1..Len(avail)
      BY <2>5, <3>1
    <3>2. CASE k \in 1..Len(avail)
      <4>1. i # drvIdx /\ avail[k].n = copy[i].id.n
        BY <2>1, <2>3, <2>7, <2>9, <3>2
      <4>2. k + Age(i) > Len(avail)
        BY <2>9, <3>2, <4>1 DEF Aged
      <4> QED
        BY <2>6, <3>2, <4>1, <4>2
    <3> QED
      BY <3>1, <3>2
  <2> QED
    BY <2>2, <2>8, <2>9 DEF Aged
<1>3. ASSUME NEW f \in Frame, FwConfirm(f) PROVE Aged'
  <2>1. /\ at[f] = "fw" /\ UNCHANGED <<copy, drvIdx, avail>>
        /\ ring' = [ring EXCEPT ![fwIdx] = [id |-> hostid[f], dyna |-> phase = "reduced"]]
    BY <1>3 DEF FwConfirm, cfmVars
  <2>2. \A k \in 1..Len(avail) : avail[k].n # hostid[f].n
    BY <1>0, <2>1 DEF FramesOnce, IdsOnce
  <2>3. \A i \in Slots : ring'[i].id = ring[i].id \/ ring'[i].id = hostid[f]
    BY <1>a, <2>1
  <2>4. \A i : Age(i)' = Age(i)
    BY <2>1 DEF Age
  <2> QED
    BY <2>1, <2>2, <2>3, <2>4 DEF Aged
<1>4. CASE UNCHANGED <<drvIdx, ring, avail>> /\ (copy' = copy \/ copy' = ring)
  <2>1. \A i : Age(i)' = Age(i)
    BY <1>4 DEF Age
  <2> QED
    BY <1>4, <2>1 DEF Aged
<1>5. CASE TxCharge \/ TxSend
  <2>1. UNCHANGED <<drvIdx, ring, copy, avail>>
    BY <1>5 DEF TxCharge, TxSend, cfmVars, fwVars
  <2> QED
    BY <1>4, <2>1
<1> QED
  BY <1>1, <1>2, <1>3, <1>4, <1>5, StepsOfFrames, WaitingSteps

\* In a large pool the next id has waited for longer than any slot holds one.
LEMMA LargeIsFresh ==
    ASSUME LargePool, TxInv, Aged, PoolFull
    PROVE  FreshIds
<1>0. Shapes
  BY DEF TxInv
<1>1. SUFFICES ASSUME avail # <<>>, avail[1] \in InSlots PROVE FALSE
  BY DEF FreshIds
<1>2. 1 \in 1..Len(avail) /\ avail[1] \in Id /\ Len(avail) \in Nat
  BY <1>0, <1>1 DEF Shapes
<1>3. avail[1] # NoId
  BY <1>2, SdioAssumption DEF Id
<1>4. PICK i \in Slots : avail[1] = ring[i].id \/ avail[1] = copy[i].id
  BY <1>1 DEF InSlots
<1>5. 1 + Age(i) > Len(avail)
  BY <1>2, <1>3, <1>4 DEF Aged
<1>6. Age(i) \in Int /\ Age(i) <= RingSize
  BY <1>0, <1>4, SdioAssumption DEF Age, Slots, Shapes
<1>7. Under \subseteq Frame
  BY DEF Under
<1>8. PICK u \in Nat, c \in Nat : u = Cardinality(Under) /\ c = Cardinality(Frame) /\ u <= c
  BY <1>7, FramesCount, SdioAssumption, FS_CardinalityType
<1>9. Len(avail) + u = NbIds /\ RingSize + c < NbIds /\ RingSize \in Nat /\ NbIds \in Nat
  BY <1>8, SdioAssumption DEF PoolFull, LargePool
<1> QED
  BY <1>2, <1>5, <1>6, <1>8, <1>9

\* The rings start empty and the pool full.
LEMMA FirstRing == Init => RingKeeps /\ Aged /\ PoolFull
<1> SUFFICES ASSUME Init PROVE RingKeeps /\ Aged /\ PoolFull
  OBVIOUS
<1>0. Shapes /\ (\A x \in InSlots : x = NoId) /\ RingSize \in Nat \ {0} /\ NbIds \in Nat
  BY FirstState, SdioAssumption DEF TxInv
<1>1. Waiting = {} /\ Under = {} /\ Cardinality({}) = 0
  BY FS_EmptySet DEF Init, Waiting, Under
<1>2. RingKeeps
  BY <1>1 DEF RingKeeps, OneSlot, Covered
<1>3. Aged
  BY <1>0 DEF Aged, InSlots
<1>4. Len(avail) = NbIds
  BY <1>0 DEF Init
<1> QED
  BY <1>0, <1>1, <1>2, <1>3, <1>4 DEF PoolFull

\* With more ids than slots and frames together, no slot ever releases a frame that it does not
\* confirm, and the invariant holds throughout.
THEOREM TxInvHolds == ASSUME LargePool PROVE Spec => []TxInv
<1> DEFINE IInv == TxInv /\ RingKeeps /\ Aged /\ PoolFull
<1>1. Init => IInv
  BY FirstState, FirstRing
<1>2. IInv /\ [Next]_vars => IInv'
  <2> SUFFICES ASSUME IInv, [Next]_vars PROVE IInv'
    OBVIOUS
  <2>1. FreshIds
    BY LargeIsFresh
  <2> QED
    BY <2>1, TxInvNext, RingNext, AgedNext, PoolNext
<1> QED
  BY <1>1, <1>2, PTL DEF Spec

-----------------------------------------------------------------------------
\* tx_page_free_num and tx_page_tot_num, which three tasks write, account for every
\* page that is charged to a frame, in every phase of the loan of the receive ring,
\* for any sizes of the pools and any frames.
THEOREM PagesAddUp == ASSUME LargePool PROVE Spec => []PagesExact
<1>1. TxInv => PagesExact
  BY DEF TxInv
<1> QED
  BY <1>1, TxInvHolds, PTL

\* What the host has sent and the firmware has not confirmed fits the pages that
\* the firmware reserves at that moment, also while it takes the lent part back.
THEOREM SentFits == ASSUME LargePool PROVE Spec => []NoOverrun
<1>1. ASSUME TxInv PROVE NoOverrun
  <2>0. Shapes /\ PhaseInv /\ PagesExact /\ TxSteps
    BY <1>1 DEF TxInv
  <2>a. free \in Int /\ 0 <= free /\ leaked \in Nat /\ phase \in Phases /\ Charged \in Nat
        /\ PagesAt({"fw"}) \in Nat
    BY <2>0, PagesAreCounted DEF Shapes, TxSteps
  <2>b. SmallPages \in Nat /\ DynaPages \in Nat /\ LargePages = SmallPages + DynaPages
    BY PagesAssumption DEF LargePages
  <2>1. PagesAt({"fw"}) <= Charged
    <3>1. {"fw"} \subseteq {"batch", "fw", "cfm"}
      OBVIOUS
    <3> QED
      BY <3>1, PagesOfFewer, PagesAreCounted
  <2>2. CASE phase \in {"rx", "shrink"}
    <3>1. fwPages = SmallPages /\ (tot = SmallPages \/ (tot = LargePages /\ "TX_USED" \notin bufState))
      BY <2>0, <2>2 DEF PhaseInv, RxPhase, ShrinkPhase, Flags
    <3>2. free + Charged + leaked = SmallPages
      BY <2>0, <2>b, <3>1 DEF PagesExact
    <3>3. PICK c \in Nat, n \in Nat : c = Charged /\ n = PagesAt({"fw"})
      BY <2>a
    <3>4. n <= c /\ free + c + leaked = SmallPages
      BY <2>1, <3>2, <3>3
    <3>5. n <= fwPages
      BY <2>a, <2>b, <3>1, <3>4
    <3> QED
      BY <3>3, <3>5 DEF NoOverrun
  <2>3. CASE phase \in {"reduced", "tx", "stopping"}
    <3>1. tot = LargePages /\ (fwPages = LargePages \/ (fwPages = SmallPages /\ "TX_USED" \notin bufState))
      BY <2>0, <2>3 DEF PhaseInv, LentPhase
    <3>2. free + Charged + leaked <= fwPages /\ fwPages \in Nat
      <4>1. CASE fwPages = LargePages
        <5>1. free + Charged + leaked \in {SmallPages, LargePages}
          BY <2>0, <3>1 DEF PagesExact
        <5> QED
          BY <2>b, <4>1, <5>1
      <4>2. CASE fwPages = SmallPages /\ "TX_USED" \notin bufState
        <5>1. free + Charged + leaked = SmallPages
          BY <2>0, <3>1, <4>2 DEF PagesExact
        <5> QED
          BY <2>b, <4>2, <5>1
      <4> QED
        BY <3>1, <4>1, <4>2
    <3>3. PICK c \in Nat, n \in Nat : c = Charged /\ n = PagesAt({"fw"})
      BY <2>a
    <3>4. n <= c /\ free + c + leaked <= fwPages
      BY <2>1, <3>2, <3>3
    <3>5. n <= fwPages
      BY <2>a, <3>2, <3>4
    <3> QED
      BY <3>3, <3>5 DEF NoOverrun
  <2>4. CASE phase \in {"stopped", "grow", "grown"}
    <3>1. (\A f \in Frame : at[f] \notin {"fw"}) /\ (fwPages = SmallPages \/ fwPages = LargePages)
      BY <2>0, <2>4 DEF PhaseInv, GrowPhase, Quiesced
    <3>2. PagesAt({"fw"}) = 0
      BY <3>1, NoPages, PagesAreCounted
    <3> QED
      BY <2>b, <3>1, <3>2 DEF NoOverrun
  <2> QED
    BY <2>2, <2>3, <2>4, <2>a DEF Phases
<1> QED
  BY <1>1, TxInvHolds, PTL

\* From the answer to a stop until the firmware starts transmission again no
\* frame is on its way.
THEOREM StopsAreHonoured == ASSUME LargePool PROVE Spec => []StopIsHonoured
<1>1. TxInv => StopIsHonoured
  BY DEF TxInv, PhaseInv, GrowPhase, Quiesced, StopIsHonoured
<1> QED
  BY <1>1, TxInvHolds, PTL

\* A frame is released as confirmed only after the firmware confirmed this
\* transmission of it.
THEOREM OnlyConfirmedReturn == ASSUME LargePool PROVE Spec => ConfirmedFirst
<1>1. ASSUME TxInv, [Next]_vars
      PROVE  [\A f \in Frame : at'[f] = "out" => at[f] \in {"out", "cfm"}]_vars
  <2>0. Shapes /\ Genuine /\ TxSteps
    BY <1>1 DEF TxInv
  <2>a. at \in [Frame -> Places] /\ desc \in Seq(Frame)
    BY <2>0 DEF Shapes
  <2>1. ASSUME NEW g \in Frame, at'[g] = "out" PROVE at[g] \in {"out", "cfm"}
    <3>1. ASSUME NEW f \in Frame, NEW n \in Sizes, Push(f, n) PROVE at[g] = "out"
      BY <2>1, <2>a, <3>1 DEF Push
    <3>2. CASE TxCharge
      <4>1. Head(desc) \in Frame
        BY <2>0, <2>a, <3>2 DEF TxCharge, TxSteps
      <4> QED
        BY <2>1, <2>a, <3>2, <4>1 DEF TxCharge
    <3>3. CASE TxSend
      BY <2>1, <3>3 DEF TxSend
    <3>4. ASSUME NEW f \in Frame, CfmSlot(f) PROVE at[g] \in {"out", "cfm"}
      BY <2>0, <2>1, <2>a, <3>4, ConfirmedFrame
    <3>5. ASSUME NEW f \in Frame, FwConfirm(f) PROVE at[g] = "out"
      BY <2>1, <2>a, <3>5 DEF FwConfirm
    <3>6. CASE UNCHANGED at
      BY <2>1, <3>6
    <3> QED
      BY <1>1, <3>1, <3>2, <3>3, <3>4, <3>5, <3>6, StepsOfFrames
  <2> QED
    BY <2>1
<1> QED
  BY <1>1, TxInvHolds, PTL DEF Spec, ConfirmedFirst

\* The state has its types, and no page counter leaves 0..LargePages.
THEOREM TypesHold == ASSUME LargePool PROVE Spec => []TypeOK
<1>1. ASSUME TxInv PROVE TypeOK
  <2>0. Shapes /\ PhaseInv /\ PagesExact /\ TxSteps
    BY <1>1 DEF TxInv
  <2>1. tot \in {SmallPages, LargePages} /\ fwPages \in {SmallPages, LargePages}
    BY <2>0 DEF Shapes, Phases, PhaseInv, RxPhase, ShrinkPhase, LentPhase, GrowPhase
  <2>2. free \in Int /\ leaked \in Nat /\ Charged \in Nat /\ 0 <= free
    BY <2>0, PagesAreCounted DEF Shapes, TxSteps
  <2>3. free \in 0..LargePages
    BY <2>0, <2>1, <2>2, PagesAssumption DEF PagesExact, LargePages
  <2> QED
    BY <2>0, <2>1, <2>3 DEF TypeOK, Shapes, Places, Phases
<1> QED
  BY <1>1, TxInvHolds, PTL

-----------------------------------------------------------------------------
(* That no slot holds an available id is true of the first ids: the prefix   *)
(* that ipc_host.c appends to a number wraps after MaxPrefix confirmations,  *)
(* and until then each id that returns to the pool has a new one.            *)

FreshInv ==
    /\ prefix + Cardinality(Under) <= NbIds + pushes
    /\ \A k \in 1..Len(avail) : avail[k].p <= prefix
    /\ \A f \in Frame : hostid[f] # NoId => hostid[f].p <= prefix
    /\ \A x \in InSlots : x # NoId => x.p <= prefix
    /\ AllFresh

\* What no slot holds of all ids, no slot holds of the next.
LEMMA AreFresh == ASSUME Shapes, AllFresh PROVE FreshIds
<1>1. avail # <<>> => 1 \in 1..Len(avail)
  BY DEF Shapes
<1> QED
  BY <1>1 DEF AllFresh, FreshIds

\* A step gives out no id that a slot holds, before the prefix wraps.
LEMMA FreshNext ==
    ASSUME TxInv, FreshInv, pushes + NbIds <= MaxPrefix, [Next]_vars
    PROVE  FreshInv'
<1> USE DEF frameVars, txVars, cfmVars, irqVars, fwVars
<1>0. Shapes /\ FramesOnce /\ IdsOnce /\ Genuine /\ TxSteps
  BY DEF TxInv
<1>a. /\ at \in [Frame -> Places] /\ hostid \in [Frame -> Id \cup {NoId}] /\ avail \in Seq(Id)
      /\ prefix \in 1..MaxPrefix /\ pushes \in Nat /\ NbIds \in Nat /\ MaxPrefix \in Nat \ {0}
  BY <1>0, SdioAssumption DEF Shapes
<1>b. Under \in SUBSET Frame /\ Cardinality(Under) \in Nat
  BY FramesCount DEF Under
<1>1. ASSUME NEW f \in Frame, NEW n \in Sizes, Push(f, n) PROVE FreshInv'
  <2>1. /\ 1 \in 1..Len(avail) /\ avail[1] \in Id /\ hostid' = [hostid EXCEPT ![f] = avail[1]]
    BY <1>0, <1>1, PushedId
  <2>2. /\ at[f] = "out" /\ at' = [at EXCEPT ![f] = "desc"] /\ avail' = Tail(avail) /\ avail # <<>>
        /\ UNCHANGED <<prefix, ring, copy>> /\ pushes' = pushes + 1
    BY <1>1 DEF Push, HostPtrToId
  <2>3. InSlots' = InSlots
    BY <2>2 DEF InSlots
  <2>4. \A k \in 1..Len(avail') : k + 1 \in 1..Len(avail) /\ avail'[k] = avail[k + 1]
    BY <1>a, <2>2
  <2>5. AllFresh'
    BY <2>3, <2>4 DEF FreshInv, AllFresh
  <2>6. \A k \in 1..Len(avail') : avail'[k].p <= prefix
    BY <2>4 DEF FreshInv
  <2>7. \A g \in Frame : hostid'[g] # NoId => hostid'[g].p <= prefix
    BY <1>a, <2>1 DEF FreshInv
  <2>8. Under' = Under \cup {f} /\ f \notin Under
    BY <1>a, <2>2 DEF Under
  <2>9. Cardinality(Under') = Cardinality(Under) + 1
    BY <1>b, <2>8, FramesCount
  <2>10. prefix + Cardinality(Under') <= NbIds + pushes'
    BY <1>a, <1>b, <2>2, <2>9 DEF FreshInv
  <2> QED
    BY <2>2, <2>3, <2>5, <2>6, <2>7, <2>10 DEF FreshInv
<1>2. ASSUME NEW f \in Frame, CfmSlot(f) PROVE FreshInv'
  <2>1. /\ at[f] = "cfm" /\ hostid[f] \in Id /\ hostid[f] # NoId
        /\ at' = [at EXCEPT ![f] = "out"] /\ hostid' = [hostid EXCEPT ![f] = NoId]
    BY <1>0, <1>2, ConfirmedFrame
  <2>2. Under' = Under \ {f} /\ f \in Under
    BY <1>a, <2>1 DEF Under
  <2>3. Cardinality(Under') = Cardinality(Under) - 1 /\ Cardinality(Under) > 0
    BY <1>b, <2>2, FramesCount
  <2>4. prefix < MaxPrefix
    BY <1>a, <1>b, <2>3 DEF FreshInv
  <2>5. NextPrefix = prefix + 1
    <3>1. prefix % MaxPrefix = prefix
      BY <1>a, <2>4
    <3> QED
      BY <3>1 DEF NextPrefix
  <2> DEFINE new == [n |-> hostid[f].n, p |-> prefix + 1]
  <2>6. prefix' = prefix + 1 /\ avail' = Append(avail, new) /\ UNCHANGED <<ring, copy, pushes>>
    BY <1>2, <2>5 DEF CfmSlot, IdToPtr
  <2>7. new.p = prefix + 1
    OBVIOUS
  <2> HIDE DEF new
  <2>8. Len(avail') = Len(avail) + 1 /\ avail'[Len(avail) + 1] = new
        /\ \A k \in 1..Len(avail) : avail'[k] = avail[k] /\ avail[k].p \in Int
    <3>1. \A k \in 1..Len(avail) : avail[k] \in Id
      BY <1>a
    <3>2. \A x \in Id : x.p \in Int
      BY DEF Id
    <3>3. Len(avail') = Len(avail) + 1 /\ avail'[Len(avail) + 1] = new
          /\ \A k \in 1..Len(avail) : avail'[k] = avail[k]
      BY <1>a, <2>6
    <3> QED
      BY <3>1, <3>2, <3>3
  <2>9. \A k \in 1..Len(avail') : k \in 1..Len(avail) \/ k = Len(avail) + 1
    BY <1>a, <2>8
  <2>10. InSlots' = InSlots
    BY <2>6 DEF InSlots
  <2>11. ASSUME NEW x \in InSlots PROVE x = NoId \/ (x \in Id /\ x.p <= prefix /\ x # new)
    <3>1. x \in Id \cup {NoId}
      BY <1>0 DEF InSlots, Shapes, Confirmation
    <3>2. x # NoId => x.p <= prefix
      BY DEF FreshInv
    <3>3. x = new => x.p = prefix + 1
      BY <2>7
    <3> QED
      BY <1>a, <3>1, <3>2, <3>3
  <2>12. new # NoId
    <3>1. new \in Id
      <4>1. hostid[f].n \in 1..NbIds /\ prefix + 1 \in 1..MaxPrefix
        BY <1>a, <2>1, <2>4 DEF Id
      <4> QED
        BY <4>1 DEF new, Id
    <3> QED
      BY <3>1, SdioAssumption DEF Id
  <2>13. AllFresh'
    BY <2>8, <2>9, <2>10, <2>11, <2>12 DEF FreshInv, AllFresh
  <2>14. \A k \in 1..Len(avail') : avail'[k].p <= prefix'
    BY <1>a, <2>6, <2>7, <2>8, <2>9 DEF FreshInv
  <2>15. \A g \in Frame : hostid'[g] # NoId => hostid'[g].p <= prefix'
    <3> TAKE g \in Frame
    <3> HAVE hostid'[g] # NoId
    <3>1. hostid'[g] = hostid[g] /\ hostid[g] \in Id /\ hostid[g].p <= prefix
      BY <1>a, <2>1 DEF FreshInv
    <3>2. hostid[g].p \in Int
      BY <3>1 DEF Id
    <3> QED
      BY <1>a, <2>6, <3>1, <3>2
  <2>16. \A x \in InSlots' : x # NoId => x.p <= prefix'
    <3> TAKE x \in InSlots'
    <3> HAVE x # NoId
    <3>1. x \in Id /\ x.p <= prefix
      BY <2>10, <2>11
    <3>2. x.p \in Int
      BY <3>1 DEF Id
    <3> QED
      BY <1>a, <2>6, <3>1, <3>2
  <2>17. prefix' + Cardinality(Under') <= NbIds + pushes'
    BY <1>a, <1>b, <2>3, <2>6 DEF FreshInv
  <2> QED
    BY <2>13, <2>14, <2>15, <2>16, <2>17 DEF FreshInv
<1>3. ASSUME NEW f \in Frame, FwConfirm(f) PROVE FreshInv'
  <2>1. /\ at[f] = "fw" /\ at' = [at EXCEPT ![f] = "cfm"]
        /\ UNCHANGED <<hostid, copy, avail, prefix, pushes>>
    BY <1>3 DEF FwConfirm
  <2>2. ASSUME NEW i \in Slots PROVE ring'[i].id \in {ring[i].id, hostid[f]}
    BY <1>0, <1>3 DEF FwConfirm, Shapes
  <2>3. ASSUME NEW x \in InSlots' PROVE x \in InSlots \/ x = hostid[f]
    BY <2>1, <2>2 DEF InSlots
  <2>4. hostid[f] # NoId
    BY <1>0, <2>1 DEF FramesOnce
  <2>5. \A k \in 1..Len(avail) : avail[k] # hostid[f]
    BY <1>0, <2>4 DEF IdsOnce
  <2>6. Under' = Under
    BY <1>a, <2>1 DEF Under
  <2>7. AllFresh'
    BY <2>1, <2>3, <2>5 DEF FreshInv, AllFresh
  <2>8. \A x \in InSlots' : x # NoId => x.p <= prefix
    BY <2>3 DEF FreshInv
  <2> QED
    BY <2>1, <2>6, <2>7, <2>8 DEF FreshInv
<1>4. CASE /\ UNCHANGED <<pushes, at, size, hostid, avail, prefix, desc, leaked, ring>>
           /\ copy' = copy \/ copy' = ring
  <2>1. \A x \in InSlots' : x \in InSlots
    BY <1>4 DEF InSlots
  <2>2. Under' = Under
    BY <1>4 DEF Under
  <2> QED
    BY <1>4, <2>1, <2>2 DEF FreshInv, AllFresh
<1>5. CASE TxCharge \/ TxSend
  <2>1. UNCHANGED <<hostid, avail, prefix, pushes, ring, copy>>
    BY <1>5 DEF TxCharge, TxSend
  <2>2. InSlots' = InSlots
    BY <2>1 DEF InSlots
  <2>3. \A f \in Frame : at'[f] = "out" <=> at[f] = "out"
    <3>1. CASE TxCharge
      <4>1. Head(desc) \in Frame /\ at[Head(desc)] = "desc"
        BY <1>0, <3>1 DEF TxCharge, TxSteps, FramesOnce, Shapes
      <4> QED
        BY <1>a, <3>1, <4>1 DEF TxCharge
    <3>2. CASE TxSend
      BY <3>2 DEF TxSend
    <3> QED
      BY <1>5, <3>1, <3>2
  <2>4. Under' = Under
    BY <2>3 DEF Under
  <2> QED
    BY <2>1, <2>2, <2>4 DEF FreshInv, AllFresh
<1> QED
  BY <1>1, <1>2, <1>3, <1>4, <1>5, StepsOfFrames

\* With no more pushes than hostid_prefix has values above the first ids, no id is
\* available that a slot still holds, so the theorems above hold of these transmissions.
THEOREM IdsAreFresh == Spec => [](pushes + NbIds <= MaxPrefix => TxInv)
<1> DEFINE Before == pushes + NbIds <= MaxPrefix  IInv == pushes \in Nat /\ (Before => TxInv /\ FreshInv)
<1>1. Init => IInv
  <2> SUFFICES ASSUME Init PROVE IInv
    OBVIOUS
  <2>1. TxInv /\ AllFresh /\ \A x \in InSlots : x = NoId
    BY FirstState
  <2>2. Cardinality(Under) = 0
    <3>1. Under = {}
      BY DEF Init, Under
    <3> QED
      BY <3>1, FS_EmptySet
  <2>3. prefix = NbIds /\ pushes = 0 /\ NbIds \in Nat
    BY SdioAssumption DEF Init
  <2>4. \A k \in 1..Len(avail) : avail[k].p <= prefix
    <3>1. avail = [n \in 1..NbIds |-> [n |-> n, p |-> n]] /\ Len(avail) = NbIds
      BY <2>3 DEF Init
    <3> QED
      BY <2>3, <3>1
  <2>5. \A f \in Frame : hostid[f] = NoId
    BY DEF Init
  <2> QED
    BY <2>1, <2>2, <2>3, <2>4, <2>5 DEF FreshInv
<1>2. IInv /\ [Next]_vars => IInv'
  <2> SUFFICES ASSUME IInv, [Next]_vars PROVE IInv'
    OBVIOUS
  <2>1. pushes' = pushes \/ pushes' = pushes + 1
    BY StepsOfFrames DEF Push, TxCharge, TxSend, CfmSlot, FwConfirm
  <2>2. Before' => Before
    BY <2>1, SdioAssumption
  <2>3. Before => TxInv' /\ FreshInv'
    BY FreshNext, TxInvNext, AreFresh DEF FreshInv, TxInv
  <2> QED
    BY <2>1, <2>2, <2>3
<1>3. IInv => (pushes + NbIds <= MaxPrefix => TxInv)
  OBVIOUS
<1> QED
  BY <1>1, <1>2, <1>3, PTL DEF Spec
=============================================================================
