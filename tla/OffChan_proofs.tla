--------------------------- MODULE OffChan_proofs ---------------------------
(***************************************************************************)
(* Theorems about OffChan, for any interfaces, channels, size of tx_cookie *)
(* and bounds: a frame never leaves on the channel of another RoC, tx_cnt  *)
(* is the number of the waits that are not cancelled, and the ends of the  *)
(* RoCs that are reported are those of the beginnings that were.           *)
(***************************************************************************)
EXTENDS OffChan, FiniteSetTheorems, TLAPS

\* The records of the operation under way and of struct aml_roc.
Pc == {"idle", "scan_roc", "scan", "cancel_scan", "join", "joining", "remove", "removed", "roc",
       "roc_cancel", "roc_wait", "roc_sent", "stop", "mark", "xmit", "count"}
Kind == {"none", "scan", "other", "connect", "close", "roc", "stop", "tx"}
QueueStatus == {"inactive", "stopped", "started"}
OpShape == [pc : Pc, kind : Kind, vif : Vif \cup {None}, chan : Chan \cup {None}, frame : Nat]
RocShape == [id : Nat, vif : Vif \cup {None}, chan : Chan \cup {None}, internal : BOOLEAN,
             on_chan : BOOLEAN, tx_cnt : Nat, tx_cookie : [1..RocTx -> Nat]]

Shapes ==
    /\ op \in OpShape
    /\ roc \in RocShape \cup {None}
    /\ frames \in Seq(Chan \cup {None})
    /\ offq \in [status : QueueStatus, frames : SUBSET (1..Len(frames))]

\* Where an operation holds on to the RoC that it began or found.
Holding == {"roc_sent", "mark", "xmit"}

\* While an operation is about to send, the RoC, if it lasts, is on its channel.
RocIsForOp == op.pc \in Holding /\ roc # None => roc.chan = op.chan

FrameInv == Shapes /\ RocIsForOp /\ FramesOnTheirChannel

\* A RoC that user space may hear of and that is on its channel was reported to have begun.
OnIsReady == roc # None /\ roc.on_chan /\ ~roc.internal => roc.id \in ready

PairInv == FrameInv /\ OnIsReady /\ expired \subseteq ready

-----------------------------------------------------------------------------
\* An operation that only moves on, to a place where it holds no RoC, keeps the invariant.
LEMMA MovesOn ==
    ASSUME FrameInv, UNCHANGED <<roc, frames, offq>>, op' \in OpShape, op' = op \/ op'.pc \notin Holding
    PROVE  FrameInv'
BY DEF FrameInv, Shapes, RocIsForOp, FramesOnTheirChannel, Holding

\* So does a RoC that goes away, if its queue loses frames only.
LEMMA Gone ==
    ASSUME FrameInv, op' \in OpShape, roc' = None, frames' = frames,
           offq' \in [status : QueueStatus, frames : SUBSET (1..Len(frames))]
    PROVE  FrameInv'
BY DEF FrameInv, Shapes, RocIsForOp, FramesOnTheirChannel, Holding

\* An operation that is continued, begun or ended stays a record.
LEMMA Continues == ASSUME op \in OpShape, NEW pc \in Pc, Goto(pc) PROVE op' \in OpShape /\ op'.pc = pc
BY DEF Goto, OpShape, Pc

\* It is a record at the place it begins at, too,
LEMMA Begins ==
    ASSUME NEW kind \in Kind, NEW v \in Vif \cup {None}, NEW c \in Chan \cup {None}, NEW pc \in Pc,
           Starts(kind, v, c, pc)
    PROVE  op' \in OpShape /\ op'.pc = pc /\ op'.chan = c
BY DEF Starts, Idle, OpShape, Pc, Kind

\* and where it ends;
LEMMA Ends == ASSUME Return PROVE op' \in OpShape /\ op'.pc = "idle"
BY DEF Return, Idle, OpShape, Pc, Kind

\* one that may have to cancel a scan first begins there or at its own first step.
LEMMA OperationBegins ==
    ASSUME NEW kind \in Kind, NEW v \in Vif \cup {None}, NEW c \in Chan \cup {None}, NEW rest \in Pc,
           Operation(kind, v, c, rest)
    PROVE  op' \in OpShape /\ op'.pc \in {"cancel_scan", rest}
BY Begins DEF Operation, Pc

-----------------------------------------------------------------------------
\* Nothing is queued and no operation is under way at first.
LEMMA FrameInit == Init => FrameInv
BY DEF Init, FrameInv, Shapes, RocIsForOp, FramesOnTheirChannel, Idle, Queue0, OpShape, Pc, Kind,
       QueueStatus, Holding

\* The new RoC has the channel of the operation and an empty queue.
LEMMA StartRocKeeps ==
    ASSUME FrameInv, StartRoc, UNCHANGED frames
    PROVE  FrameInv'
<1>1. op' \in OpShape /\ op'.pc = "roc_sent" /\ op'.chan = op.chan
  BY DEF StartRoc, Goto, FrameInv, Shapes, OpShape, Pc
<1>2. roc' \in RocShape /\ roc'.chan = op.chan
  BY OffChanAssumption DEF StartRoc, NewRoc, NoCookie, FrameInv, Shapes, OpShape, RocShape
<1>3. offq' = [status |-> "stopped", frames |-> {}]
  BY DEF StartRoc, Queue0
<1> QED
  BY <1>1, <1>2, <1>3 DEF QueueStatus, FrameInv, Shapes, RocIsForOp, FramesOnTheirChannel, Holding

\* A field of the RoC other than its channel may change.
LEMMA RocChanges ==
    ASSUME FrameInv, op' \in OpShape,
           \/ op' = op
           \/ op'.pc \notin Holding
           \/ op.pc = "mark" /\ op'.pc = "xmit" /\ op'.chan = op.chan,
           roc # None, roc' \in RocShape, roc'.chan = roc.chan, UNCHANGED <<frames, offq>>
    PROVE  FrameInv'
BY DEF FrameInv, Shapes, RocIsForOp, FramesOnTheirChannel, Holding

\* Only the frames of a RoC have changed.
SameRoc(r, s) == /\ r.id = s.id /\ r.vif = s.vif /\ r.chan = s.chan
                 /\ r.internal = s.internal /\ r.on_chan = s.on_chan

\* Counting a frame (tx_cnt, tx_cookie) changes nothing else of the RoC;
LEMMA CountedKeeps ==
    ASSUME NEW r \in RocShape, NEW f \in Nat
    PROVE  Counted(r, f) \in RocShape /\ SameRoc(Counted(r, f), r)
<1> DEFINE t == IF r.tx_cnt < RocTx THEN [r.tx_cookie EXCEPT ![r.tx_cnt + 1] = f] ELSE r.tx_cookie
<1>1. t \in [1..RocTx -> Nat]
  BY DEF RocShape
<1>2. Counted(r, f) = [[r EXCEPT !.tx_cookie = t] EXCEPT !.tx_cnt = r.tx_cnt + 1]
  BY DEF Counted, RocShape
<1> DEFINE u == [r EXCEPT !.tx_cookie = t]
<1>3. u \in RocShape /\ SameRoc(u, r)
  BY <1>1 DEF RocShape, SameRoc
<1> HIDE DEF u
<1>4. [u EXCEPT !.tx_cnt = r.tx_cnt + 1] \in RocShape /\ SameRoc([u EXCEPT !.tx_cnt = r.tx_cnt + 1], u)
  BY <1>3 DEF RocShape, SameRoc
<1> QED
  BY <1>2, <1>3, <1>4 DEF u, SameRoc

\* nor does striking one out.
LEMMA StruckKeeps ==
    ASSUME NEW r \in RocShape, r.tx_cnt > 0, NEW f \in Nat
    PROVE  Struck(r, f) \in RocShape /\ SameRoc(Struck(r, f), r)
<1> DEFINE t == [i \in 1..RocTx |-> IF r.tx_cookie[i] = f THEN NoCookie ELSE r.tx_cookie[i]]
<1>1. t \in [1..RocTx -> Nat]
  BY DEF RocShape, NoCookie
<1>2. \/ Struck(r, f) = [[r EXCEPT !.tx_cnt = r.tx_cnt - 1] EXCEPT !.tx_cookie = t]
      \/ Struck(r, f) = [r EXCEPT !.tx_cnt = r.tx_cnt - 1]
      \/ Struck(r, f) = r
  BY DEF Struck, RocShape
<1> DEFINE u == [r EXCEPT !.tx_cnt = r.tx_cnt - 1]
<1>3. u \in RocShape /\ SameRoc(u, r)
  BY DEF RocShape, SameRoc
<1> HIDE DEF u, t
<1>4. [u EXCEPT !.tx_cookie = t] \in RocShape /\ SameRoc([u EXCEPT !.tx_cookie = t], u)
  BY <1>1, <1>3 DEF RocShape, SameRoc
<1> QED
  BY <1>2, <1>3, <1>4 DEF u, SameRoc

\* The operations that neither hold a RoC afterwards nor change one.
LEMMA OthersKeep ==
    ASSUME FrameInv,
           \/ \E v \in Vif : Scan(v) \/ Interrupt(v) \/ Connect(v) \/ Close(v)
           \/ \E v \in Vif, c \in Chan : RemainOnChannel(v, c)
           \/ ScanAfterRoc \/ ScanAccepted \/ Cancelled \/ Join \/ Joined \/ RemoveIf \/ RocCancel
           \/ Stopped \/ CancelRemainOnChannel
    PROVE  FrameInv'
<1> USE DEF drvVars, opVars, histVars
<1>0. op \in OpShape
  BY DEF FrameInv, Shapes
<1>1. UNCHANGED <<roc, frames, offq>>
  BY DEF Scan, ScanAfterRoc, ScanAccepted, Interrupt, Connect, Close, Cancelled, Join, Joined, RemoveIf,
         RemainOnChannel, RocCancel, Stopped, CancelRemainOnChannel
<1>2. op' \in OpShape /\ (op' = op \/ op'.pc \notin Holding)
  <2> USE DEF Holding, Pc, Kind
  <2>1. CASE \E v \in Vif : Scan(v)
    BY <2>1, Begins DEF Scan
  <2>2. CASE ScanAfterRoc
    BY <1>0, <2>2, Ends, Continues DEF ScanAfterRoc, ScanRefused
  <2>3. CASE ScanAccepted
    BY <2>3, Ends DEF ScanAccepted, ScanRefused
  <2>4. CASE \E v \in Vif : Interrupt(v)
    BY <2>4, OperationBegins DEF Interrupt
  <2>5. CASE \E v \in Vif : Connect(v)
    BY <2>5, OperationBegins DEF Connect
  <2>6. CASE \E v \in Vif : Close(v)
    BY <2>6, OperationBegins DEF Close
  <2>7. CASE Cancelled
    BY <1>0, <2>7, Ends, Continues DEF Cancelled
  <2>8. CASE Join
    BY <1>0, <2>8, Continues DEF Join
  <2>9. CASE Joined
    BY <2>9, Ends DEF Joined
  <2>10. CASE RemoveIf
    BY <1>0, <2>10, Continues DEF RemoveIf
  <2>11. CASE \E v \in Vif, c \in Chan : RemainOnChannel(v, c)
    BY <2>11, OperationBegins DEF RemainOnChannel
  <2>12. CASE RocCancel
    BY <1>0, <2>12, Ends, Continues DEF RocCancel
  <2>13. CASE Stopped
    BY <2>13, Ends DEF Stopped
  <2>14. CASE CancelRemainOnChannel
    <3>1. roc.vif \in Vif \cup {None}
      BY <2>14 DEF CancelRemainOnChannel, FrameInv, Shapes, RocShape
    <3> QED
      BY <1>0, <2>14, <3>1, Begins DEF CancelRemainOnChannel, Stop
  <2> QED
    BY <2>1, <2>2, <2>3, <2>4, <2>5, <2>6, <2>7, <2>8, <2>9, <2>10, <2>11, <2>12, <2>13, <2>14
<1> QED
  BY <1>1, <1>2, MovesOn

\* The steps of a RoC, from its beginning to its end.
LEMMA RocKeeps ==
    ASSUME FrameInv, \/ RocBegin \/ RocWait \/ RocSent \/ Removed \/ Mark \/ OnChannel \/ Expired
    PROVE  FrameInv'
<1> USE DEF opVars, fwVars, kernVars
<1>0. /\ op \in OpShape /\ roc \in RocShape \cup {None}
      /\ offq \in [status : QueueStatus, frames : SUBSET (1..Len(frames))]
  BY DEF FrameInv, Shapes
<1>q. Queue0 \in [status : QueueStatus, frames : SUBSET (1..Len(frames))]
  BY DEF Queue0, QueueStatus
<1>1. CASE RocBegin
  <2>1. CASE StartRoc /\ UNCHANGED frames
    BY <2>1, StartRocKeeps
  <2>2. CASE Goto("roc_cancel") /\ UNCHANGED <<roc, frames, offq>>
    BY <1>0, <2>2, Continues, MovesOn DEF Pc, Holding
  <2> QED
    BY <1>1, <2>1, <2>2 DEF RocBegin
<1>2. CASE RocWait
  BY <1>2, StartRocKeeps DEF RocWait
<1>3. CASE RocSent
  <2>1. UNCHANGED frames
    BY <1>3 DEF RocSent
  <2>2. CASE answer = "error"
    BY <1>3, <1>q, <2>1, <2>2, Ends, Gone DEF RocSent
  <2>3. CASE answer # "error" /\ op.kind = "tx"
    <3>1. op' \in OpShape /\ op'.pc = "mark" /\ op'.chan = op.chan
      BY <1>0, <1>3, <2>3 DEF RocSent, Goto, OpShape, Pc
    <3>2. UNCHANGED <<roc, offq>> /\ op.pc = "roc_sent"
      BY <1>3, <2>3 DEF RocSent, Woken
    <3> QED
      BY <2>1, <3>1, <3>2 DEF FrameInv, Shapes, RocIsForOp, FramesOnTheirChannel, Holding
  <2>4. CASE answer # "error" /\ op.kind # "tx"
    BY <1>3, <2>1, <2>4, Ends, MovesOn DEF RocSent, Holding
  <2> QED
    BY <2>2, <2>3, <2>4
<1>4. CASE Removed
  <2>1. UNCHANGED <<frames, offq>> /\ op' \in OpShape /\ op'.pc = "idle"
    BY <1>4, Ends DEF Removed
  <2>2. roc' = None \/ roc' = roc
    BY <1>4 DEF Removed
  <2> QED
    BY <1>0, <2>1, <2>2, Gone, MovesOn DEF Holding
<1>5. CASE Mark
  <2>1. op' \in OpShape /\ op'.pc = "xmit" /\ op'.chan = op.chan /\ op.pc = "mark" /\ UNCHANGED <<frames, offq>>
    BY <1>0, <1>5 DEF Mark, Goto, OpShape, Pc, histVars
  <2>2. CASE roc = None
    BY <1>0, <1>5, <2>1, <2>2, Gone DEF Mark
  <2>3. CASE roc # None
    <3>1. roc' = [roc EXCEPT !.internal = TRUE]
      BY <1>5, <2>3 DEF Mark
    <3>2. roc' \in RocShape /\ roc'.chan = roc.chan
      BY <1>0, <2>3, <3>1 DEF RocShape
    <3> QED
      BY <2>1, <2>3, <3>2, RocChanges
  <2> QED
    BY <2>2, <2>3
<1>6. CASE OnChannel
  <2>1. UNCHANGED <<op, frames>>
    BY <1>6 DEF OnChannel, histVars
  <2>2. CASE roc = None
    BY <1>0, <1>6, <2>1, <2>2, MovesOn DEF OnChannel
  <2>3. CASE roc # None
    <3>1. roc' = [roc EXCEPT !.on_chan = TRUE]
      BY <1>6, <2>3 DEF OnChannel
    <3>2. roc' \in RocShape /\ roc'.chan = roc.chan
      BY <1>0, <2>3, <3>1 DEF RocShape
    <3>3. offq' \in [status : QueueStatus, frames : SUBSET (1..Len(frames))] /\ offq'.frames = offq.frames
      BY <1>0, <1>6, <2>3 DEF OnChannel, QueueStatus
    <3> QED
      BY <2>1, <2>3, <3>2, <3>3 DEF FrameInv, Shapes, RocIsForOp, FramesOnTheirChannel
  <2> QED
    BY <2>2, <2>3
<1>7. CASE Expired
  <2>1. UNCHANGED <<op, frames>>
    BY <1>7 DEF Expired
  <2>2. CASE roc = None
    BY <1>0, <1>7, <2>1, <2>2, MovesOn DEF Expired
  <2>3. CASE roc # None
    BY <1>0, <1>7, <1>q, <2>1, <2>3, Gone DEF Expired
  <2> QED
    BY <2>2, <2>3
<1> QED
  BY <1>1, <1>2, <1>3, <1>4, <1>5, <1>6, <1>7

\* The steps of a frame: begun, queued, counted, given up and sent.
LEMMA TxKeeps ==
    ASSUME FrameInv,
           \/ \E v \in Vif, c \in Chan : MgmtTx(v, c)
           \/ \E known \in BOOLEAN : Xmit(known)
           \/ CountTx
           \/ \E f \in Nat : CancelWait(f) \/ Push(f)
    PROVE  FrameInv'
<1> USE DEF opVars, histVars
<1>0. /\ op \in OpShape /\ roc \in RocShape \cup {None}
      /\ offq \in [status : QueueStatus, frames : SUBSET (1..Len(frames))]
  BY DEF FrameInv, Shapes
<1>1. ASSUME NEW v \in Vif, NEW c \in Chan, MgmtTx(v, c) PROVE FrameInv'
  <2>1. UNCHANGED <<roc, frames, offq>>
    BY <1>1 DEF MgmtTx
  <2>2. CASE roc # None /\ Reusable(v, c) /\ Starts("tx", v, c, "xmit")
    <3>1. op' \in OpShape /\ op'.pc = "xmit" /\ op'.chan = c
      BY <2>2, Begins DEF Pc, Kind
    <3> QED
      BY <2>1, <2>2, <3>1 DEF FrameInv, Shapes, RocIsForOp, FramesOnTheirChannel, Reusable
  <2>3. CASE roc = None /\ Operation("tx", v, c, "roc")
    BY <2>1, <2>3, OperationBegins, MovesOn DEF Pc, Kind, Holding
  <2> QED
    BY <1>1, <2>2, <2>3 DEF MgmtTx
<1>2. ASSUME NEW known \in BOOLEAN, Xmit(known) PROVE FrameInv'
  <2> DEFINE n == Len(frames) + 1
  <2>1. op.chan \in Chan \cup {None} /\ frames \in Seq(Chan \cup {None}) /\ op.pc = "xmit"
    BY <1>0, <1>2 DEF Xmit, OpShape, FrameInv, Shapes
  <2>2. /\ frames' \in Seq(Chan \cup {None}) /\ Len(frames') = n
        /\ n \in Nat /\ frames'[n] = op.chan
        /\ \A i \in 1..Len(frames) : frames'[i] = frames[i]
    BY <1>2, <2>1 DEF Xmit
  <2>3. op' \in OpShape /\ op'.pc = "count"
    BY <1>0, <1>2, <2>2 DEF Xmit, OpShape, Pc
  <2>4. offq' \in [status : QueueStatus, frames : SUBSET (1..n)] /\ offq'.frames \subseteq offq.frames \cup {n}
    BY <1>0, <1>2, <2>2 DEF Xmit
  <2>5. roc' = roc
    BY <1>2 DEF Xmit
  <2>6. FramesOnTheirChannel'
    BY <1>0, <2>1, <2>2, <2>4, <2>5 DEF FrameInv, FramesOnTheirChannel, RocIsForOp, Holding
  <2> QED
    BY <2>2, <2>3, <2>4, <2>5, <2>6 DEF FrameInv, Shapes, RocIsForOp, Holding
<1>3. CASE CountTx
  <2>1. UNCHANGED <<frames, offq>> /\ op' \in OpShape /\ op'.pc = "idle"
    BY <1>3, Ends DEF CountTx
  <2>2. CASE roc = None
    BY <1>3, <2>1, <2>2, MovesOn DEF CountTx, Holding
  <2>3. CASE roc # None
    <3>1. roc' = Counted(roc, op.frame) /\ op.frame \in Nat
      BY <1>0, <1>3, <2>3 DEF CountTx, OpShape
    <3>2. roc' \in RocShape /\ roc'.chan = roc.chan
      BY <1>0, <2>3, <3>1, CountedKeeps DEF SameRoc
    <3> QED
      BY <2>1, <2>3, <3>2, RocChanges DEF Holding
  <2> QED
    BY <2>2, <2>3
<1>4. ASSUME NEW f \in Nat, CancelWait(f) PROVE FrameInv'
  <2>1. roc # None /\ roc.tx_cnt > 0 /\ UNCHANGED <<frames, offq>> /\ roc' = Struck(roc, f)
    BY <1>4 DEF CancelWait
  <2>2. roc' \in RocShape /\ roc'.chan = roc.chan
    BY <1>0, <2>1, StruckKeeps DEF SameRoc
  <2>3. op' \in OpShape /\ (op' = op \/ op'.pc = "stop")
    <3>1. CASE Stop(roc.vif)
      <4>1. roc.vif \in Vif \cup {None}
        BY <1>0, <2>1 DEF RocShape
      <4> QED
        BY <1>0, <3>1, <4>1, Begins DEF Stop, Pc, Kind
    <3>2. CASE UNCHANGED opVars
      BY <1>0, <3>2
    <3> QED
      BY <1>4, <3>1, <3>2 DEF CancelWait
  <2> QED
    BY <2>1, <2>2, <2>3, RocChanges DEF Holding
<1>5. ASSUME NEW f \in Nat, Push(f) PROVE FrameInv'
  <2>1. UNCHANGED <<op, roc, frames>>
    BY <1>5 DEF Push
  <2>2. offq' = [offq EXCEPT !.frames = offq.frames \ {f}]
    BY <1>5 DEF Push
  <2>3. offq' \in [status : QueueStatus, frames : SUBSET (1..Len(frames))] /\ offq'.frames \subseteq offq.frames
    BY <1>0, <2>2
  <2> QED
    BY <2>1, <2>3 DEF FrameInv, Shapes, RocIsForOp, FramesOnTheirChannel
<1> QED
  BY <1>1, <1>2, <1>3, <1>4, <1>5

\* Every step keeps the queued frames on the channel of their RoC.
LEMMA FrameNext == FrameInv /\ [Next]_vars => FrameInv'
<1> SUFFICES ASSUME FrameInv, [Next]_vars PROVE FrameInv'
  OBVIOUS
<1> USE DEF vars, drvVars, opVars, histVars
<1>0. op \in OpShape
  BY DEF FrameInv, Shapes
<1>1. CASE Continue
  BY <1>1, OthersKeep, RocKeeps, TxKeeps DEF Continue
<1>2. CASE Ask
  BY <1>2, OthersKeep, TxKeeps DEF Ask
<1>3. CASE Handle \/ CommandFails \/ Firmware
  BY <1>0, <1>3, RocKeeps, MovesOn DEF Handle, CommandFails, Firmware, ScanDone, Confirmed, Connected,
     FwTake, FwScanDone, FwSwitch, FwExpire, FwJoin
<1>4. CASE \E f \in offq.frames : Push(f)
  BY <1>4, TxKeeps DEF FrameInv, Shapes
<1>5. CASE UNCHANGED vars
  BY <1>0, <1>5, MovesOn
<1> QED
  BY <1>1, <1>2, <1>3, <1>4, <1>5 DEF Next

-----------------------------------------------------------------------------
\* A frame of the off-channel queue never waits for another RoC than one on its own
\* channel, whatever ends or replaces the RoC between the test of aml_cfg80211_mgmt_tx
\* and the queueing of the frame.
THEOREM FramesKeepTheirChannel == Spec => []FramesOnTheirChannel
<1>1. FrameInv => FramesOnTheirChannel
  BY DEF FrameInv
<1> QED
  BY <1>1, FrameInit, FrameNext, PTL DEF Spec

-----------------------------------------------------------------------------
\* Nothing is reported, and the RoC is gone or has changed in nothing that is reported.
LEMMA Unreported ==
    ASSUME PairInv, UNCHANGED <<ready, expired>>,
           roc' = None \/ roc' = roc \/ ~roc'.on_chan \/ roc'.internal \/ (roc # None /\ SameRoc(roc', roc))
    PROVE  OnIsReady' /\ (expired \subseteq ready)'
BY DEF PairInv, OnIsReady, SameRoc

\* Every step keeps what has ended among what had begun.
LEMMA PairNext == PairInv /\ [Next]_vars => PairInv'
<1> SUFFICES ASSUME PairInv, [Next]_vars PROVE OnIsReady' /\ (expired \subseteq ready)'
  BY FrameNext DEF PairInv
<1> USE DEF vars, drvVars, opVars, kernVars, fwVars, histVars
<1>0. op \in OpShape /\ roc \in RocShape \cup {None}
  BY DEF PairInv, FrameInv, Shapes
<1>1. CASE Continue
  <2>1. CASE RocBegin \/ RocWait \/ RocSent \/ Removed
    <3>1. UNCHANGED <<ready, expired>>
      BY <2>1 DEF RocBegin, RocWait, RocSent, Removed
    <3>2. roc' = None \/ roc' = roc \/ ~roc'.on_chan
      BY <2>1 DEF RocBegin, RocWait, RocSent, Removed, StartRoc, NewRoc
    <3> QED
      BY <3>1, <3>2, Unreported
  <2>2. CASE Mark
    <3>1. UNCHANGED <<ready, expired>> /\ (roc' = None \/ roc'.internal)
      BY <1>0, <2>2 DEF Mark, RocShape
    <3> QED
      BY <3>1, Unreported
  <2>3. CASE CountTx
    <3>1. UNCHANGED <<ready, expired>>
      BY <2>3 DEF CountTx
    <3>2. roc' = roc \/ (roc # None /\ SameRoc(roc', roc))
      BY <1>0, <2>3, CountedKeeps DEF CountTx, OpShape
    <3> QED
      BY <3>1, <3>2, Unreported
  <2>4. ASSUME UNCHANGED <<roc, ready, expired>> PROVE OnIsReady' /\ (expired \subseteq ready)'
    BY <2>4, Unreported
  <2> QED
    BY <1>1, <2>1, <2>2, <2>3, <2>4 DEF Continue, ScanAfterRoc, ScanAccepted, Cancelled, Join, Joined, RemoveIf,
       RocCancel, Stopped, Xmit
<1>2. CASE Ask
  <2>1. ASSUME NEW f \in Nat, CancelWait(f) PROVE OnIsReady' /\ (expired \subseteq ready)'
    <3>1. UNCHANGED <<ready, expired>> /\ roc # None /\ roc.tx_cnt > 0 /\ roc' = Struck(roc, f)
      BY <2>1 DEF CancelWait
    <3>2. SameRoc(roc', roc)
      BY <1>0, <2>1, <3>1, StruckKeeps
    <3> QED
      BY <3>1, <3>2, Unreported
  <2>2. ASSUME UNCHANGED <<roc, ready, expired>> PROVE OnIsReady' /\ (expired \subseteq ready)'
    BY <2>2, Unreported
  <2> QED
    BY <1>2, <2>1, <2>2 DEF Ask, Scan, Interrupt, Connect, Close, RemainOnChannel, MgmtTx, CancelRemainOnChannel
<1>3. CASE Handle
  <2>1. CASE OnChannel
    <3>1. CASE roc = None
      BY <2>1, <3>1, Unreported DEF OnChannel
    <3>2. CASE roc # None
      <4>1. roc' = [roc EXCEPT !.on_chan = TRUE] /\ UNCHANGED expired
        BY <2>1, <3>2 DEF OnChannel
      <4>2. roc'.internal = roc.internal /\ roc'.id = roc.id
        BY <1>0, <3>2, <4>1 DEF RocShape
      <4>3. ready \subseteq ready' /\ (~roc.internal => roc.id \in ready')
        BY <2>1, <3>2 DEF OnChannel
      <4> QED
        BY <4>1, <4>2, <4>3 DEF PairInv, OnIsReady
    <3> QED
      BY <3>1, <3>2
  <2>2. CASE Expired
    <3>1. CASE roc = None
      BY <2>2, <3>1, Unreported DEF Expired
    <3>2. CASE roc # None
      <4>1. roc' = None /\ UNCHANGED ready /\ expired' = IF Expires(roc) THEN expired \cup {roc.id} ELSE expired
        BY <2>2, <3>2 DEF Expired
      <4> QED
        BY <3>2, <4>1 DEF PairInv, OnIsReady, Expires
    <3> QED
      BY <3>1, <3>2
  <2>3. ASSUME UNCHANGED <<roc, ready, expired>> PROVE OnIsReady' /\ (expired \subseteq ready)'
    BY <2>3, Unreported
  <2> QED
    BY <1>3, <2>1, <2>2, <2>3 DEF Handle, ScanDone, Confirmed, Connected
<1>4. CASE CommandFails \/ Firmware \/ UNCHANGED vars \/ \E f \in offq.frames : Push(f)
  BY <1>4, Unreported DEF CommandFails, Firmware, FwTake, FwScanDone, FwSwitch, FwExpire, FwJoin, Push
<1> QED
  BY <1>1, <1>2, <1>3, <1>4 DEF Next

\* cfg80211_remain_on_channel_expired is called only for a RoC that
\* cfg80211_ready_on_channel was called for, also when waits time out and late
\* indications meet another RoC than theirs: the first half of EventsPaired.
THEOREM EndsHadBeginnings == Spec => [](expired \subseteq ready)
<1>1. Init => PairInv
  BY FrameInit DEF Init, PairInv, OnIsReady
<1>2. PairInv => expired \subseteq ready
  BY DEF PairInv
<1> QED
  BY <1>1, <1>2, PairNext, PTL DEF Spec

-----------------------------------------------------------------------------
\* A frame that is about to be counted is the last one, and nobody waits for it yet.
CountedOnce ==
    /\ waiting \subseteq 1..Len(frames)
    /\ op.pc = "count" => op.frame = Len(frames) /\ op.frame \in Nat \ {0} /\ op.frame \notin waiting

\* tx_cookie holds frames that are waited for, each in one place.  It need not hold all of them:
\* a cookie may also be lost to a later one, which is written at tx_cnt, struck out or not.
TableOf(r, w) ==
    /\ \A i \in Cookies(r) : r.tx_cookie[i] \in w
    /\ \A i, j \in Cookies(r) : r.tx_cookie[i] = r.tx_cookie[j] => i = j

CountInv ==
    /\ FrameInv /\ CountedOnce
    /\ roc # None /\ ~bound.stale => TableOf(roc, waiting) /\ roc.tx_cnt = Cardinality(waiting)

\* A set of frames is finite.
LEMMA WaitingIsFinite == ASSUME CountInv PROVE IsFiniteSet(waiting) /\ Cardinality(waiting) \in Nat
<1>1. Len(frames) \in Nat
  BY DEF CountInv, FrameInv, Shapes
<1>2. IsFiniteSet(1..Len(frames))
  BY <1>1, FS_Interval
<1>3. IsFiniteSet(waiting)
  BY <1>2, FS_Subset DEF CountInv, CountedOnce
<1> QED
  BY <1>3, FS_CardinalityType

\* A new RoC, or one that is gone, counts nothing.
LEMMA NothingCounted ==
    ASSUME CountInv, FrameInv', UNCHANGED <<bound, frames>>, waiting' = {}, op'.pc # "count",
           roc' = None \/ (roc'.tx_cnt = 0 /\ roc'.tx_cookie = [i \in 1..RocTx |-> NoCookie])
    PROVE  CountInv'
BY FS_EmptySet DEF CountInv, CountedOnce, TableOf, Cookies

\* Nothing of the count changes.
LEMMA CountStays ==
    ASSUME CountInv, FrameInv', UNCHANGED <<bound, waiting, frames>>, op' = op \/ op'.pc # "count",
           \/ roc' = None
           \/ roc # None /\ roc'.tx_cnt = roc.tx_cnt /\ roc'.tx_cookie = roc.tx_cookie
    PROVE  CountInv'
BY DEF CountInv, CountedOnce, TableOf, Cookies

\* A frame that nobody waited for is counted: the table holds it as well, or it is full.
LEMMA CountedCounts ==
    ASSUME NEW r \in RocShape, NEW w, NEW f \in Nat \ {0}, f \notin w, TableOf(r, w)
    PROVE  TableOf(Counted(r, f), w \cup {f}) /\ Counted(r, f).tx_cnt = r.tx_cnt + 1
<1> DEFINE t == IF r.tx_cnt < RocTx THEN [r.tx_cookie EXCEPT ![r.tx_cnt + 1] = f] ELSE r.tx_cookie
           s == Counted(r, f)
<1>1. s.tx_cookie = t /\ s.tx_cnt = r.tx_cnt + 1
  BY DEF Counted, RocShape
<1>2. \A i \in 1..RocTx : t[i] = r.tx_cookie[i] \/ (t[i] = f /\ i = r.tx_cnt + 1)
  BY DEF RocShape
<1> HIDE DEF t, s
<1>3. TableOf(s, w \cup {f})
  BY <1>1, <1>2 DEF TableOf, Cookies
<1> QED
  BY <1>1, <1>3 DEF s

\* A table without the cookie of a frame that is waited for holds fewer than are waited for.
LEMMA TableLacks ==
    ASSUME NEW r \in RocShape, NEW w, IsFiniteSet(w), TableOf(r, w), NEW f \in w,
           \A i \in Cookies(r) : r.tx_cookie[i] # f
    PROVE  Cardinality(Cookies(r)) # Cardinality(w)
<1> DEFINE g == [i \in Cookies(r) |-> r.tx_cookie[i]]
           v == w \ {f}
<1>1. g \in Injection(Cookies(r), v)
  BY DEF TableOf, Injection, IsInjective
<1>2. IsFiniteSet(v) /\ Cardinality(v) = Cardinality(w) - 1
  BY FS_RemoveElement
<1>3. Cardinality(w) \in Nat /\ Cardinality(v) \in Nat
  BY <1>2, FS_CardinalityType
<1> HIDE DEF g, v
<1>4. IsFiniteSet(Cookies(r)) /\ Cardinality(Cookies(r)) <= Cardinality(v)
  BY <1>1, <1>2, FS_Injection
<1>5. Cardinality(Cookies(r)) \in Nat
  BY <1>4, FS_CardinalityType
<1> QED
  BY <1>2, <1>3, <1>4, <1>5

\* The wait for a frame is given up: in the table or beyond it, the count follows.
LEMMA StruckCounts ==
    ASSUME NEW r \in RocShape, NEW w, IsFiniteSet(w), NEW f \in w, f \in Nat, TableOf(r, w),
           r.tx_cnt = Cardinality(w)
    PROVE  TableOf(Struck(r, f), w \ {f}) /\ Struck(r, f).tx_cnt = r.tx_cnt - 1
<1> DEFINE t == [i \in 1..RocTx |-> IF r.tx_cookie[i] = f THEN NoCookie ELSE r.tx_cookie[i]]
<1>1. CASE \E i \in Cookies(r) : r.tx_cookie[i] = f
  <2> DEFINE s == Struck(r, f)
  <2>1. s.tx_cookie = t /\ s.tx_cnt = r.tx_cnt - 1
    BY <1>1 DEF Struck, RocShape
  <2>2. \A i \in 1..RocTx : (t[i] = r.tx_cookie[i] /\ t[i] # f) \/ t[i] = NoCookie
    BY DEF RocShape, Cookies
  <2>3. \A i \in Cookies(s) : i \in Cookies(r) /\ s.tx_cookie[i] = r.tx_cookie[i] /\ s.tx_cookie[i] # f
    BY <2>1, <2>2 DEF Cookies
  <2> HIDE DEF s, t
  <2>4. TableOf(s, w \ {f})
    BY <2>3 DEF TableOf
  <2> QED
    BY <2>1, <2>4 DEF s
<1>2. CASE \A i \in Cookies(r) : r.tx_cookie[i] # f
  <2> DEFINE s == [r EXCEPT !.tx_cnt = r.tx_cnt - 1]
  <2>1. Struck(r, f) = s
    BY <1>2, TableLacks DEF Struck
  <2>2. s.tx_cnt = r.tx_cnt - 1 /\ s.tx_cookie = r.tx_cookie
    BY DEF RocShape
  <2> HIDE DEF s
  <2>3. TableOf(s, w \ {f})
    BY <1>2, <2>2 DEF TableOf, Cookies
  <2> QED
    BY <2>1, <2>2, <2>3
<1> QED
  BY <1>1, <1>2

\* Every step keeps the count.
LEMMA CountNext == CountInv /\ [Next]_vars => CountInv'
<1> SUFFICES ASSUME CountInv, [Next]_vars PROVE CountInv'
  OBVIOUS
<1> USE DEF vars, drvVars, opVars, kernVars, fwVars, histVars
<1>f. FrameInv /\ FrameInv'
  BY FrameNext DEF CountInv
<1>0. op \in OpShape /\ roc \in RocShape \cup {None} /\ Len(frames) \in Nat
  BY <1>f DEF FrameInv, Shapes
<1>w. IsFiniteSet(waiting) /\ Cardinality(waiting) \in Nat
  BY WaitingIsFinite
<1>1. ASSUME UNCHANGED <<bound, waiting, frames, roc>>, op' = op \/ op'.pc # "count" PROVE CountInv'
  BY <1>f, <1>1, CountStays
<1>2. ASSUME StartRoc, UNCHANGED <<bound, frames>> PROVE CountInv'
  <2>1. op'.pc = "roc_sent" /\ waiting' = {}
    BY <1>0, <1>2 DEF StartRoc, Goto, OpShape
  <2>2. roc'.tx_cnt = 0 /\ roc'.tx_cookie = [i \in 1..RocTx |-> NoCookie]
    BY <1>2 DEF StartRoc, NewRoc
  <2> QED
    BY <1>f, <1>2, <2>1, <2>2, NothingCounted
<1>3. CASE RocBegin \/ RocWait
  BY <1>0, <1>1, <1>2, <1>3 DEF RocBegin, RocWait, Goto, OpShape
<1>4. CASE RocSent
  <2>1. op'.pc # "count" /\ UNCHANGED <<bound, frames>>
    BY <1>0, <1>4 DEF RocSent, Goto, Return, Idle, OpShape
  <2> QED
    BY <1>f, <1>1, <1>4, <2>1, NothingCounted DEF RocSent
<1>5. CASE Removed
  <2>1. op'.pc # "count" /\ UNCHANGED <<bound, frames>>
    BY <1>5 DEF Removed, Return, Idle
  <2> QED
    BY <1>f, <1>1, <1>5, <2>1, NothingCounted DEF Removed
<1>6. CASE Mark
  <2>1. op'.pc # "count" /\ UNCHANGED <<bound, frames, waiting>>
    BY <1>0, <1>6 DEF Mark, Goto, OpShape
  <2>2. roc' = None \/ (roc # None /\ roc'.tx_cnt = roc.tx_cnt /\ roc'.tx_cookie = roc.tx_cookie)
    BY <1>0, <1>6 DEF Mark, RocShape
  <2> QED
    BY <1>f, <2>1, <2>2, CountStays
<1>7. CASE OnChannel
  <2>1. UNCHANGED <<op, bound, frames, waiting>>
    BY <1>7 DEF OnChannel
  <2>2. roc' = None \/ (roc # None /\ roc'.tx_cnt = roc.tx_cnt /\ roc'.tx_cookie = roc.tx_cookie)
    BY <1>0, <1>7 DEF OnChannel, RocShape
  <2> QED
    BY <1>f, <2>1, <2>2, CountStays
<1>8. CASE Expired
  <2>1. UNCHANGED <<op, bound, frames>>
    BY <1>8 DEF Expired
  <2>2. CASE roc = None
    BY <1>1, <1>8, <2>1, <2>2 DEF Expired
  <2>3. CASE roc # None
    <3>1. roc' = None /\ waiting' = {}
      BY <1>8, <2>3 DEF Expired
    <3>2. CountedOnce'
      BY <2>1, <3>1 DEF CountInv, CountedOnce
    <3> QED
      BY <1>f, <3>1, <3>2 DEF CountInv
  <2> QED
    BY <2>2, <2>3
<1>9. ASSUME NEW known \in BOOLEAN, Xmit(known) PROVE CountInv'
  <2>1. frames \in Seq(Chan \cup {None}) /\ op.chan \in Chan \cup {None}
    BY <1>0, <1>f DEF FrameInv, Shapes, OpShape
  <2>2. Len(frames') = Len(frames) + 1
    BY <1>9, <2>1 DEF Xmit
  <2>3. op'.frame = Len(frames) + 1 /\ UNCHANGED <<bound, roc, waiting>>
    BY <1>0, <1>9 DEF Xmit, OpShape
  <2>4. CountedOnce'
    BY <1>0, <2>2, <2>3 DEF CountInv, CountedOnce
  <2> QED
    BY <1>f, <2>3, <2>4 DEF CountInv
<1>10. CASE CountTx
  <2>1. op'.pc # "count" /\ UNCHANGED <<bound, frames>>
    BY <1>10 DEF CountTx, Return, Idle
  <2>2. CASE roc = None
    BY <1>1, <1>10, <2>1, <2>2 DEF CountTx
  <2>3. CASE roc # None
    <3>1. roc' = Counted(roc, op.frame) /\ waiting' = waiting \cup {op.frame}
      BY <1>10, <2>3 DEF CountTx
    <3>2. op.frame \in Nat \ {0} /\ op.frame \notin waiting /\ op.frame \in 1..Len(frames)
      BY <1>0, <1>10 DEF CountTx, CountInv, CountedOnce
    <3>3. CountedOnce'
      BY <2>1, <3>1, <3>2 DEF CountInv, CountedOnce
    <3>4. Cardinality(waiting') = Cardinality(waiting) + 1
      BY <1>w, <3>1, <3>2, FS_AddElement
    <3>5. ASSUME ~bound.stale PROVE TableOf(roc', waiting') /\ roc'.tx_cnt = roc.tx_cnt + 1
      BY <1>0, <2>3, <3>1, <3>2, <3>5, CountedCounts DEF CountInv
    <3> QED
      BY <1>f, <2>1, <2>3, <3>3, <3>4, <3>5 DEF CountInv
  <2> QED
    BY <2>2, <2>3
<1>11. ASSUME NEW f \in 1..Len(frames), CancelWait(f) PROVE CountInv'
  <2>1. /\ roc # None /\ roc' = Struck(roc, f) /\ waiting' = waiting \ {f}
        /\ f \in waiting \/ bound.stale
        /\ UNCHANGED <<bound, frames>>
    BY <1>11 DEF CancelWait
  <2>2. op' = op \/ op'.pc # "count"
    BY <1>11 DEF CancelWait, Stop, Starts, Idle
  <2>3. CountedOnce'
    BY <2>1, <2>2 DEF CountInv, CountedOnce
  <2>4. ASSUME ~bound.stale PROVE TableOf(roc', waiting') /\ roc'.tx_cnt = Cardinality(waiting')
    <3>1. TableOf(roc', waiting') /\ roc'.tx_cnt = roc.tx_cnt - 1
      <4>1. f \in waiting /\ f \in Nat /\ roc \in RocShape
        BY <1>0, <2>1, <2>4
      <4>2. TableOf(roc, waiting) /\ roc.tx_cnt = Cardinality(waiting)
        BY <2>1, <2>4 DEF CountInv
      <4> QED
        BY <1>w, <2>1, <4>1, <4>2, StruckCounts
    <3>2. Cardinality(waiting') = Cardinality(waiting) - 1
      BY <1>w, <2>1, <2>4, FS_RemoveElement
    <3> QED
      BY <2>1, <2>4, <3>1, <3>2 DEF CountInv
  <2> QED
    BY <1>f, <2>1, <2>3, <2>4 DEF CountInv
<1>12. CASE \/ \E v \in Vif : Scan(v) \/ Interrupt(v) \/ Connect(v) \/ Close(v)
            \/ \E v \in Vif, c \in Chan : RemainOnChannel(v, c) \/ MgmtTx(v, c)
            \/ ScanAfterRoc \/ ScanAccepted \/ Cancelled \/ Join \/ Joined \/ RemoveIf \/ RocCancel
            \/ Stopped \/ CancelRemainOnChannel
  <2>1. UNCHANGED <<bound, waiting, frames, roc>>
    BY <1>12 DEF Scan, ScanAfterRoc, ScanAccepted, Interrupt, Connect, Close, Cancelled, Join, Joined, RemoveIf,
       RemainOnChannel, MgmtTx, RocCancel, Stopped, CancelRemainOnChannel
  <2>2. op' = op \/ op'.pc # "count"
    <3>1. CASE \/ \E v \in Vif : Scan(v) \/ Interrupt(v) \/ Connect(v) \/ Close(v)
               \/ \E v \in Vif, c \in Chan : RemainOnChannel(v, c) \/ MgmtTx(v, c)
               \/ CancelRemainOnChannel
      <4> USE DEF Starts, Idle
      <4>1. \A kind \in Kind, v \in Vif, c \in Chan \cup {None}, pc \in {"idle", "join", "remove", "roc"} :
               Operation(kind, v, c, pc) => op'.pc # "count"
        BY DEF Operation
      <4> QED
        BY <3>1, <4>1 DEF Scan, Interrupt, Connect, Close, RemainOnChannel, MgmtTx, CancelRemainOnChannel, Stop, Kind
    <3>2. CASE ScanAfterRoc \/ ScanAccepted \/ Joined \/ Stopped \/ RocCancel
      BY <1>0, <3>2 DEF ScanAfterRoc, ScanAccepted, ScanRefused, Joined, Stopped, RocCancel, Goto, Return,
         Idle, OpShape
    <3>3. CASE Cancelled \/ Join \/ RemoveIf
      BY <1>0, <3>3 DEF Cancelled, Join, RemoveIf, Goto, Return, Idle, OpShape
    <3> QED
      BY <1>12, <3>1, <3>2, <3>3
  <2> QED
    BY <1>1, <2>1, <2>2
<1>13. CASE \/ ScanDone \/ Confirmed \/ Connected \/ CommandFails \/ Firmware \/ UNCHANGED vars
            \/ \E f \in offq.frames : Push(f)
  BY <1>1, <1>13 DEF ScanDone, Confirmed, Connected, CommandFails, Firmware, FwTake, FwScanDone, FwSwitch,
     FwExpire, FwJoin, Push
<1> QED
  BY <1>3, <1>4, <1>5, <1>6, <1>7, <1>8, <1>9, <1>10, <1>11, <1>12, <1>13 DEF Next, Ask, Continue, Handle

\* tx_cnt is the number of the frames whose wait nobody has cancelled, for any size of
\* tx_cookie: the frames that found no room in it, or lost theirs, are counted as well
\* and struck out when their turn comes, so that the RoC that aml_cfg80211_mgmt_tx began
\* is given up with the last of them.
THEOREM WaitsAreCounted == Spec => []WaitCountExact
<1>1. Init => CountInv
  BY FrameInit DEF Init, CountInv, CountedOnce, Idle
<1>2. CountInv => WaitCountExact
  BY DEF CountInv, WaitCountExact
<1> QED
  BY <1>1, <1>2, CountNext, PTL DEF Spec

-----------------------------------------------------------------------------
\* What the firmware, the requests and the history look like.
MsgType == {"cfm", "cancel_cfm", "start_cfm", "join_ind", "switch_ind", "exp_ind"}
MsgShape == [type : MsgType, vif : Vif \cup {None}]

FwShapes ==
    /\ fw \in [scan : BOOLEAN, roc : {"none", "asked", "on"}, rvif : Vif \cup {None},
               joining : SUBSET (Vif \cup {None})]
    /\ toHost \in Seq(MsgShape) /\ kvif \in Vif \cup {None}
    /\ req \in [type : ReqType, vif : Vif \cup {None}] \cup {None}
    /\ answer \in {"none", "ok", "error"}
    /\ rocs \in Seq({"tx", "user"})

\* An operation that sleeps on an answer waits for one: its request, or its confirmation, or the
\* answer itself is there, and none of them is there for another.
Waits == {"scan_roc", "scan", "cancel_scan", "joining", "removed", "roc_cancel", "roc_sent", "stop"}
Acks == {i \in 1..Len(toHost) : toHost[i].type \in {"cfm", "cancel_cfm"}}

OneAnswer ==
    /\ req # None \/ answer # "none" \/ Acks # {} => op.pc \in Waits
    /\ req # None => answer = "none"
    /\ req # None \/ answer # "none" => Acks = {}
    /\ \A i, j \in Acks : i = j

\* The request is that of the place where the operation sleeps.
ReqOfOp ==
    /\ req # None => /\ req.type = "roc" <=> op.pc = "roc_sent"
                     /\ req.type = "remove_if" <=> op.pc = "removed"
                     /\ op.pc \in {"roc_sent", "removed"} => req.vif = op.vif
    /\ op.pc = "removed" => answer # "error"

\* While it is begun the RoC is that of the operation, and only the driver's own is marked internal.
OwnRoc ==
    roc # None =>
        /\ roc.id = Len(rocs) /\ roc.id > 0
        /\ op.pc = "roc_sent" => roc.vif = op.vif
        /\ (op.pc = "roc_sent" /\ op.kind = "tx") \/ op.pc = "mark" \/ roc.internal => rocs[roc.id] = "tx"

\* What was reported to have begun was on its channel.
ReadyIsOn == ready \subseteq 1..Len(rocs) /\ (roc # None /\ roc.id \in ready => roc.on_chan)

\* The firmware's side of a RoC.
Inds == {i \in 1..Len(toHost) : toHost[i].type \in {"switch_ind", "exp_ind"}}
Quiet == fw.roc = "none" /\ Inds = {}
NotTaken == op.pc = "roc_sent" /\ (req # None \/ answer = "error")

\* The firmware has nothing to do with a RoC that the driver does not have, or that it was not
\* told of; the last it says of a RoC is that it has expired, or that its interface is removed.
InStep ==
    /\ roc = None \/ NotTaken => Quiet
    /\ fw.roc # "none" => roc # None /\ fw.rvif = roc.vif
    /\ \A i \in Inds : toHost[i].type = "exp_ind" => fw.roc = "none" /\ \A j \in Inds : j <= i
    /\ op.pc = "removed" /\ req = None /\ roc # None /\ roc.vif = op.vif =>
          fw.roc = "none" /\ \A i \in Inds : \E j \in Acks : i < j
    /\ NotTaken => roc # None /\ roc.id \notin ready

EventInv ==
    /\ PairInv /\ FwShapes /\ OneAnswer /\ ReqOfOp /\ OwnRoc /\ ReadyIsOn
    /\ ~late => InStep /\ EventsPaired

\* A message that the firmware sends is the last one of the queue.
LEMMA Posted ==
    ASSUME toHost \in Seq(MsgShape), NEW type \in MsgType, NEW v \in Vif \cup {None}, Post(type, v)
    PROVE  /\ toHost' \in Seq(MsgShape)
           /\ Len(toHost) \in Nat /\ Len(toHost') = Len(toHost) + 1
           /\ \A i \in 1..Len(toHost) : toHost'[i] = toHost[i]
           /\ toHost'[Len(toHost) + 1].type = type
           /\ Acks' = Acks \cup (IF type \in {"cfm", "cancel_cfm"} THEN {Len(toHost) + 1} ELSE {})
           /\ Inds' = Inds \cup (IF type \in {"switch_ind", "exp_ind"} THEN {Len(toHost) + 1} ELSE {})
<1> DEFINE m == [type |-> type, vif |-> v]
           n == Len(toHost) + 1
<1>1. m \in MsgShape /\ toHost' = Append(toHost, m) /\ m.type = type
  BY DEF Post, MsgShape
<1> HIDE DEF m
<1>2. /\ toHost' \in Seq(MsgShape) /\ Len(toHost) \in Nat /\ Len(toHost') = n
      /\ \A i \in 1..Len(toHost) : toHost'[i] = toHost[i]
      /\ toHost'[n] = m
  BY <1>1
<1>3. 1..n = (1..Len(toHost)) \cup {n} /\ n \in Nat
  BY <1>2
<1>4. Acks' = {i \in 1..n : toHost'[i].type \in {"cfm", "cancel_cfm"}}
  BY <1>2 DEF Acks
<1>5. Inds' = {i \in 1..n : toHost'[i].type \in {"switch_ind", "exp_ind"}}
  BY <1>2 DEF Inds
<1> HIDE DEF n
<1>6. Acks' = Acks \cup (IF type \in {"cfm", "cancel_cfm"} THEN {n} ELSE {})
  BY <1>1, <1>2, <1>3, <1>4 DEF Acks
<1>7. Inds' = Inds \cup (IF type \in {"switch_ind", "exp_ind"} THEN {n} ELSE {})
  BY <1>1, <1>2, <1>3, <1>5 DEF Inds
<1> QED
  BY <1>1, <1>2, <1>6, <1>7 DEF n

\* A message that is handled was the first one.
LEMMA Popped ==
    ASSUME toHost \in Seq(MsgShape), toHost # <<>>, toHost' = Tail(toHost)
    PROVE  /\ toHost' \in Seq(MsgShape)
           /\ Head(toHost) = toHost[1] /\ 1 \in 1..Len(toHost)
           /\ \A i \in 1..Len(toHost') : toHost'[i] = toHost[i + 1]
           /\ \A i \in Acks' : i \in Nat \ {0} /\ i + 1 \in Acks
           /\ \A i \in Acks : i = 1 \/ i - 1 \in Acks'
           /\ \A i \in Inds' : i \in Nat \ {0} /\ i + 1 \in Inds
<1>1. /\ toHost' \in Seq(MsgShape) /\ Len(toHost) \in Nat \ {0} /\ Len(toHost') = Len(toHost) - 1
      /\ Head(toHost) = toHost[1]
      /\ \A i \in 1..Len(toHost') : toHost'[i] = toHost[i + 1]
  OBVIOUS
<1> QED
  BY <1>1 DEF Acks, Inds

-----------------------------------------------------------------------------
\* The firmware, its messages and the requests keep their shapes.
LEMMA FwShapesNext == ASSUME EventInv, [Next]_vars PROVE FwShapes'
<1> USE DEF vars, drvVars, opVars, kernVars, fwVars, histVars
<1>0. FwShapes /\ op \in OpShape /\ roc \in RocShape \cup {None}
  BY DEF EventInv, PairInv, FrameInv, Shapes
<1>1. ASSUME NEW type \in ReqType, NEW v \in Vif \cup {None}, Send(type, v)
      PROVE  req' \in [type : ReqType, vif : Vif \cup {None}] \cup {None} /\ answer' \in {"none", "ok", "error"}
  BY <1>1 DEF Send
<1>2. ASSUME NEW kind, NEW v \in Vif, NEW c, NEW pc, Operation(kind, v, c, pc)
      PROVE  req' \in [type : ReqType, vif : Vif \cup {None}] \cup {None} /\ answer' \in {"none", "ok", "error"}
  BY <1>0, <1>1, <1>2 DEF Operation, CancelVif, ReqType, FwShapes
<1>3. CASE Ask
  <2>1. ASSUME NEW v \in Vif, Scan(v) PROVE FwShapes'
    BY <1>0, <1>1, <2>1 DEF FwShapes, Scan, ReqType
  <2>2. ASSUME NEW v \in Vif,
               \/ Interrupt(v) \/ Connect(v) \/ Close(v)
               \/ \E c \in Chan : RemainOnChannel(v, c) \/ MgmtTx(v, c)
        PROVE  FwShapes'
    <3>1. UNCHANGED <<fw, toHost, kvif, rocs>>
      BY <2>2 DEF Interrupt, Connect, Close, RemainOnChannel, MgmtTx
    <3>2. req' \in [type : ReqType, vif : Vif \cup {None}] \cup {None} /\ answer' \in {"none", "ok", "error"}
      BY <1>0, <1>2, <2>2 DEF Interrupt, Connect, Close, RemainOnChannel, MgmtTx, FwShapes
    <3> QED
      BY <1>0, <3>1, <3>2 DEF FwShapes
  <2>3. ASSUME CancelRemainOnChannel \/ \E f \in 1..Len(frames) : CancelWait(f) PROVE FwShapes'
    <3>1. UNCHANGED <<fw, toHost, kvif, rocs>> /\ roc # None
      BY <2>3 DEF CancelRemainOnChannel, CancelWait
    <3>2. roc.vif \in Vif \cup {None}
      BY <1>0, <3>1 DEF RocShape
    <3>3. req' \in [type : ReqType, vif : Vif \cup {None}] \cup {None} /\ answer' \in {"none", "ok", "error"}
      BY <1>0, <1>1, <2>3, <3>2 DEF CancelRemainOnChannel, CancelWait, Stop, FwShapes, ReqType
    <3> QED
      BY <1>0, <3>1, <3>3 DEF FwShapes
  <2> QED
    BY <1>3, <2>1, <2>2, <2>3 DEF Ask
<1>4. CASE Continue
  <2>0. op.vif \in Vif \cup {None}
    BY <1>0 DEF OpShape
  <2>1. UNCHANGED <<fw, toHost, kvif>>
    BY <1>4 DEF Continue, ScanAfterRoc, ScanAccepted, Cancelled, Join, Joined, RemoveIf, Removed, RocBegin,
       RocCancel, RocWait, RocSent, Stopped, Mark, CountTx, Xmit
  <2>2. req' \in [type : ReqType, vif : Vif \cup {None}] \cup {None} /\ answer' \in {"none", "ok", "error"}
    BY <1>0, <1>1, <1>4, <2>0 DEF Continue, ScanAfterRoc, ScanAccepted, ScanRefused, Cancelled, Join, Joined,
       RemoveIf, Removed, RocBegin, RocCancel, RocWait, RocSent, StartRoc, Stopped, Mark, CountTx, Xmit, NoSend,
       ReqType, FwShapes
  <2>3. rocs' \in Seq({"tx", "user"})
    <3>1. CASE StartRoc
      BY <1>0, <3>1 DEF StartRoc, FwShapes
    <3>2. CASE UNCHANGED rocs
      BY <1>0, <3>2 DEF FwShapes
    <3> QED
      BY <1>4, <3>1, <3>2 DEF Continue, ScanAfterRoc, ScanAccepted, Cancelled, Join, Joined, RemoveIf, Removed,
         RocBegin, RocCancel, RocWait, RocSent, Stopped, Mark, CountTx, Xmit
  <2> QED
    BY <1>0, <2>1, <2>2, <2>3 DEF FwShapes
<1>5. CASE Firmware
  <2>1. UNCHANGED <<kvif, rocs>>
    BY <1>5 DEF Firmware, FwTake, FwScanDone, FwSwitch, FwExpire, FwJoin
  <2>2. req' = req \/ req' = None
    BY <1>5 DEF Firmware, FwTake, FwScanDone, FwSwitch, FwExpire, FwJoin
  <2>3. answer' = answer \/ answer' = "ok"
    BY <1>5 DEF Firmware, FwTake, FwScanDone, FwSwitch, FwExpire, FwJoin
  <2>4. fw' \in [scan : BOOLEAN, roc : {"none", "asked", "on"}, rvif : Vif \cup {None},
                 joining : SUBSET (Vif \cup {None})]
    <3>1. CASE FwTake
      <4>1. req.vif \in Vif \cup {None} /\ req.type \in ReqType
        BY <1>0, <3>1 DEF FwTake, FwShapes
      <4>2. CASE req.type \in {"scan", "cancel_scan", "roc", "cancel_roc"}
        BY ZenonT(40), <1>0, <3>1, <4>1, <4>2 DEF FwTake, FwShapes
      <4>3. CASE req.type = "join"
        <5>1. fw' = [fw EXCEPT !.joining = fw.joining \cup {req.vif}]
          BY <3>1, <4>3 DEF FwTake
        <5> QED
          BY <1>0, <4>1, <5>1 DEF FwShapes
      <4>4. CASE req.type = "remove_if"
        <5>1. fw' = [fw EXCEPT !.joining = fw.joining \ {req.vif},
                               !.roc = IF fw.rvif = req.vif THEN "none" ELSE fw.roc,
                               !.rvif = IF fw.rvif = req.vif THEN None ELSE fw.rvif]
          BY <3>1, <4>4 DEF FwTake
        <5> QED
          BY <1>0, <4>1, <5>1 DEF FwShapes
      <4> QED
        BY <4>1, <4>2, <4>3, <4>4 DEF ReqType
    <3>2. CASE FwSwitch \/ FwExpire \/ FwScanDone
      BY <1>0, <3>2 DEF FwSwitch, FwExpire, FwScanDone, FwShapes
    <3>3. ASSUME NEW v \in Vif, FwJoin(v)
          PROVE  fw' \in [scan : BOOLEAN, roc : {"none", "asked", "on"}, rvif : Vif \cup {None},
                          joining : SUBSET (Vif \cup {None})]
      <4>1. fw' = [fw EXCEPT !.joining = fw.joining \ {v}]
        BY <3>3 DEF FwJoin
      <4> QED
        BY <1>0, <4>1 DEF FwShapes
    <3> QED
      BY <1>5, <3>1, <3>2, <3>3 DEF Firmware
  <2>5. toHost' \in Seq(MsgShape)
    <3>1. ASSUME NEW type \in MsgType, NEW v \in Vif \cup {None}, Post(type, v) PROVE toHost' \in Seq(MsgShape)
      BY <1>0, <3>1, Posted DEF FwShapes
    <3>2. fw.rvif \in Vif \cup {None} /\ (req # None => req.vif \in Vif \cup {None})
      BY <1>0 DEF FwShapes
    <3> QED
      BY <1>0, <1>5, <3>1, <3>2 DEF Firmware, FwTake, FwSwitch, FwExpire, FwScanDone, FwJoin, MsgType, FwShapes
  <2> QED
    BY <1>0, <2>1, <2>2, <2>3, <2>4, <2>5 DEF FwShapes
<1>6. CASE Handle
  <2>1. UNCHANGED <<fw, kvif, rocs, req>>
    BY <1>6 DEF Handle, ScanDone, Confirmed, Connected, OnChannel, Expired
  <2>2. answer' = answer \/ answer' = "ok"
    BY <1>6 DEF Handle, ScanDone, Confirmed, Connected, OnChannel, Expired
  <2>3. toHost # <<>> /\ toHost' = Tail(toHost)
    BY <1>6 DEF Handle, ScanDone, Confirmed, Connected, OnChannel, Expired, Msg
  <2>4. toHost' \in Seq(MsgShape)
    BY <1>0, <2>3, Popped DEF FwShapes
  <2> QED
    BY <1>0, <2>1, <2>2, <2>4 DEF FwShapes
<1>7. CASE CommandFails \/ UNCHANGED vars \/ \E f \in offq.frames : Push(f)
  BY <1>0, <1>7 DEF CommandFails, Push, FwShapes
<1> QED
  BY <1>3, <1>4, <1>5, <1>6, <1>7 DEF Next

-----------------------------------------------------------------------------
\* A request for the place where the operation then sleeps, when nothing else is awaited;
LEMMA Sent ==
    ASSUME Acks = {}, UNCHANGED toHost, NEW type, NEW v, Send(type, v),
           op'.pc \in Waits, type = "roc" <=> op'.pc = "roc_sent", type = "remove_if" <=> op'.pc = "removed",
           op'.pc \in {"roc_sent", "removed"} => v = op'.vif
    PROVE  OneAnswer' /\ ReqOfOp'
BY DEF Send, OneAnswer, ReqOfOp, Acks

\* no request and no answer at all.
LEMMA NoneSent ==
    ASSUME Acks = {}, UNCHANGED toHost, NoSend
    PROVE  OneAnswer' /\ ReqOfOp'
BY DEF NoSend, OneAnswer, ReqOfOp, Acks

\* Between two operations, and where one does not sleep on an answer, nothing is awaited.
LEMMA NothingAwaited ==
    ASSUME EventInv, op.pc \notin Waits \/ answer # "none"
    PROVE  Acks = {} /\ req = None /\ (op.pc \notin Waits => answer = "none")
BY DEF EventInv, OneAnswer

\* Every step leaves at most one answer on its way, to the request of the operation.
LEMMA AnswerNext == ASSUME EventInv, [Next]_vars PROVE OneAnswer' /\ ReqOfOp'
<1> USE DEF vars, drvVars, opVars, kernVars, fwVars, histVars
<1>0. FwShapes /\ op \in OpShape /\ OneAnswer /\ ReqOfOp
  BY DEF EventInv, PairInv, FrameInv, Shapes
<1>1. ASSUME op.pc = "idle", UNCHANGED toHost, NEW kind, NEW v, NEW c, NEW pc, Operation(kind, v, c, pc),
             pc \notin Waits
      PROVE  OneAnswer' /\ ReqOfOp'
  <2>0. Acks = {} /\ req = None /\ answer = "none"
    BY <1>1, NothingAwaited DEF Waits
  <2>1. CASE Cancels(kind, v)
    <3>1. op'.pc = "cancel_scan" /\ Send("cancel_scan", CancelVif(kind, v))
      BY <1>1, <2>1 DEF Operation, Starts, Idle
    <3> QED
      BY <1>1, <2>0, <3>1, Sent DEF Waits
  <2>2. CASE ~Cancels(kind, v)
    <3>1. NoSend
      BY <1>1, <2>0, <2>2 DEF Operation, NoSend
    <3> QED
      BY <1>1, <2>0, <3>1, NoneSent
  <2> QED
    BY <2>1, <2>2
<1>2. CASE Ask
  <2>0. op.pc = "idle" /\ UNCHANGED toHost
    BY <1>2 DEF Ask, Scan, Interrupt, Connect, Close, RemainOnChannel, MgmtTx, CancelRemainOnChannel, CancelWait,
       May
  <2>1. Acks = {} /\ req = None /\ answer = "none"
    BY <2>0, NothingAwaited DEF Waits
  <2>2. ASSUME NEW v \in Vif, Scan(v) PROVE OneAnswer' /\ ReqOfOp'
    <3> DEFINE pc == IF roc = None THEN "scan" ELSE "scan_roc"
               type == IF roc = None THEN "scan" ELSE "cancel_roc"
    <3>1. op'.pc = pc /\ Send(type, v)
      BY <2>2 DEF Scan, Starts, Idle
    <3> QED
      BY <2>0, <2>1, <3>1, Sent DEF Waits
  <2>3. ASSUME NEW v \in Vif, Interrupt(v) \/ Connect(v) \/ Close(v) PROVE OneAnswer' /\ ReqOfOp'
    BY <1>1, <2>0, <2>3 DEF Interrupt, Connect, Close, Waits
  <2>4. ASSUME NEW v \in Vif, NEW c \in Chan, RemainOnChannel(v, c) \/ MgmtTx(v, c) PROVE OneAnswer' /\ ReqOfOp'
    <3>1. CASE Operation("roc", v, c, "roc") \/ Operation("tx", v, c, "roc")
      BY <1>1, <2>0, <3>1 DEF Waits
    <3>2. CASE UNCHANGED <<req, answer>>
      BY <2>0, <2>1, <3>2, NoneSent DEF NoSend
    <3> QED
      BY <2>4, <3>1, <3>2 DEF RemainOnChannel, MgmtTx
  <2>5. ASSUME CancelRemainOnChannel \/ \E f \in 1..Len(frames) : CancelWait(f) PROVE OneAnswer' /\ ReqOfOp'
    <3>1. CASE UNCHANGED opVars
      BY <2>0, <2>1, <3>1, NoneSent DEF NoSend
    <3>2. CASE Stop(roc.vif)
      <4>1. CASE Starts("stop", roc.vif, None, "stop") /\ Send("cancel_roc", roc.vif)
        <5>1. op'.pc = "stop"
          BY <4>1 DEF Starts, Idle
        <5> QED
          BY <2>0, <2>1, <4>1, <5>1, Sent DEF Waits
      <4> QED
        BY <3>1, <3>2, <4>1 DEF Stop
    <3> QED
      BY <2>5, <3>1, <3>2 DEF CancelRemainOnChannel, CancelWait
  <2> QED
    BY <1>2, <2>2, <2>3, <2>4, <2>5 DEF Ask
<1>3. CASE Continue
  <2>0. UNCHANGED toHost /\ (op.pc \notin Waits \/ answer # "none")
    BY <1>3 DEF Continue, ScanAfterRoc, ScanAccepted, Cancelled, Join, Joined, RemoveIf, Removed, RocBegin,
       RocCancel, RocWait, RocSent, Stopped, Mark, CountTx, Xmit, Woken, Waits
  <2>1. Acks = {} /\ req = None /\ (op.pc \notin Waits => answer = "none")
    BY <2>0, NothingAwaited
  <2>2. CASE NoSend
    BY <2>0, <2>1, <2>2, NoneSent
  <2>3. ASSUME NEW pc, NEW type, Goto(pc), Send(type, op.vif),
               <<pc, type>> \in {<<"scan", "scan">>, <<"joining", "join">>, <<"removed", "remove_if">>,
                                 <<"roc_cancel", "cancel_roc">>, <<"roc_sent", "roc">>}
        PROVE  OneAnswer' /\ ReqOfOp'
    <3>1. op'.pc = pc /\ op'.vif = op.vif
      BY <1>0, <2>3 DEF Goto, OpShape
    <3> QED
      BY <2>0, <2>1, <2>3, <3>1, Sent DEF Waits
  <2>4. CASE StartRoc
    BY <2>3, <2>4 DEF StartRoc
  <2>5. CASE ScanAfterRoc
    BY <2>2, <2>3, <2>5 DEF ScanAfterRoc, ScanRefused
  <2>6. CASE Cancelled
    BY <2>1, <2>2, <2>6 DEF Cancelled, NoSend
  <2>7. CASE Join \/ RemoveIf
    BY <2>3, <2>7 DEF Join, RemoveIf
  <2>8. CASE RocBegin \/ RocWait
    BY <2>3, <2>4, <2>8 DEF RocBegin, RocWait
  <2>9. CASE ScanAccepted \/ Joined \/ Removed \/ RocCancel \/ RocSent \/ Stopped
    BY <2>2, <2>9 DEF ScanAccepted, ScanRefused, Joined, Removed, RocCancel, RocSent, Stopped
  <2>10. CASE Mark \/ CountTx \/ \E known \in BOOLEAN : Xmit(known)
    <3>1. op.pc \notin Waits /\ UNCHANGED <<req, answer>>
      BY <2>10 DEF Mark, CountTx, Xmit, Waits
    <3> QED
      BY <2>1, <2>2, <3>1 DEF NoSend
  <2> QED
    BY <1>3, <2>5, <2>6, <2>7, <2>8, <2>9, <2>10 DEF Continue
<1>4. CASE CommandFails
  BY <1>0, <1>4 DEF CommandFails, OneAnswer, ReqOfOp, Acks
<1>5. CASE FwTake
  <2>0. req # None /\ req' = None /\ op' = op /\ Acks = {} /\ answer = "none" /\ op.pc \in Waits
    BY <1>0, <1>5 DEF FwTake, OneAnswer
  <2>1. req.type \in ReqType /\ req.vif \in Vif \cup {None} /\ fw.rvif \in Vif \cup {None}
    BY <1>0, <2>0 DEF FwShapes
  <2>2. CASE answer' = "ok" /\ (UNCHANGED toHost \/ Post("exp_ind", fw.rvif))
    <3>1. Acks' = {}
      <4>1. CASE UNCHANGED toHost
        BY <2>0, <4>1 DEF Acks
      <4>2. CASE Post("exp_ind", fw.rvif)
        BY <1>0, <2>0, <2>1, <4>2, Posted DEF FwShapes, MsgType
      <4> QED
        BY <2>2, <4>1, <4>2
    <3> QED
      BY <2>0, <2>2, <3>1 DEF OneAnswer, ReqOfOp
  <2>3. ASSUME UNCHANGED answer, Post("cancel_cfm", req.vif) \/ Post("cfm", req.vif)
        PROVE  OneAnswer' /\ ReqOfOp'
    <3>1. Acks' = {Len(toHost) + 1}
      BY <1>0, <2>0, <2>1, <2>3, Posted DEF FwShapes, MsgType
    <3> QED
      BY <2>0, <2>3, <3>1 DEF OneAnswer, ReqOfOp
  <2> QED
    BY <1>5, <2>2, <2>3 DEF FwTake
<1>6. CASE FwSwitch \/ FwExpire \/ FwScanDone \/ \E v \in Vif : FwJoin(v)
  <2>1. UNCHANGED <<op, req, answer>>
    BY <1>6 DEF FwSwitch, FwExpire, FwScanDone, FwJoin
  <2>2. PICK type \in {"switch_ind", "exp_ind", "start_cfm", "join_ind"}, v \in Vif \cup {None} : Post(type, v)
    BY <1>0, <1>6 DEF FwSwitch, FwExpire, FwScanDone, FwJoin, FwShapes
  <2>3. Acks' = Acks
    BY ZenonT(40), <1>0, <2>2, Posted DEF FwShapes, MsgType
  <2> QED
    BY <1>0, <2>1, <2>3 DEF OneAnswer, ReqOfOp
<1>7. CASE Handle
  <2>0. UNCHANGED <<op, req>> /\ toHost # <<>> /\ toHost' = Tail(toHost)
    BY <1>7 DEF Handle, ScanDone, Confirmed, Connected, OnChannel, Expired, Msg
  <2>1. /\ Head(toHost) = toHost[1] /\ 1 \in 1..Len(toHost)
        /\ \A i \in Acks' : i \in Nat \ {0} /\ i + 1 \in Acks
    BY <1>0, <2>0, Popped DEF FwShapes
  <2>2. ASSUME 1 \in Acks, answer' = "ok" PROVE OneAnswer' /\ ReqOfOp'
    <3>1. Acks' = {} /\ req = None /\ op.pc \in Waits
      BY <1>0, <2>1, <2>2 DEF OneAnswer
    <3> QED
      BY <1>0, <2>0, <2>2, <3>1 DEF OneAnswer, ReqOfOp
  <2>3. ASSUME UNCHANGED answer PROVE OneAnswer' /\ ReqOfOp'
    <3>1. Acks = {} => Acks' = {}
      BY <2>1
    <3>2. \A i, j \in Acks' : i = j
      BY <1>0, <2>1 DEF OneAnswer
    <3> QED
      BY <1>0, <2>0, <2>3, <3>1, <3>2 DEF OneAnswer, ReqOfOp
  <2>4. CASE Msg("cancel_cfm") \/ Msg("cfm")
    <3>1. 1 \in Acks
      BY <2>1, <2>4 DEF Msg, Acks
    <3> QED
      BY <1>7, <2>2, <2>3, <2>4, <3>1 DEF Handle, ScanDone, Confirmed, Connected, OnChannel, Expired
  <2> QED
    BY <1>7, <2>3, <2>4 DEF Handle, ScanDone, Confirmed, Connected, OnChannel, Expired
<1>8. CASE UNCHANGED vars \/ \E f \in offq.frames : Push(f)
  BY <1>0, <1>8 DEF Push, OneAnswer, ReqOfOp, Acks
<1> QED
  BY <1>2, <1>3, <1>4, <1>5, <1>6, <1>7, <1>8 DEF Next, Firmware

-----------------------------------------------------------------------------
\* A step that neither begins or ends a RoC, nor changes what is reported of it.
Stays ==
    /\ UNCHANGED <<rocs, ready, expired, closed, late>>
    /\ roc' = roc \/ (roc # None /\ roc' # None /\ SameRoc(roc', roc))
    /\ op' = op \/ op'.pc \notin {"roc_sent", "mark"}

\* A step that begins one; the predecessor is gone, or the wait for it has timed out.
StartsRoc ==
    /\ StartRoc /\ op.pc \in {"roc", "roc_wait"} /\ (roc = None \/ late')
    /\ late => late'
    /\ UNCHANGED <<ready, expired, closed, fw, toHost>>

\* Every step is one of these, or one of five others.
LEMMA StepsOfRoc ==
    ASSUME EventInv, [Next]_vars
    PROVE  Stays \/ StartsRoc \/ RocSent \/ Removed \/ Mark \/ OnChannel \/ Expired
<1> USE DEF vars, drvVars, opVars, kernVars, fwVars, histVars
<1>0. op \in OpShape /\ roc \in RocShape \cup {None} /\ None \notin RocShape
  BY OffChanAssumption DEF EventInv, PairInv, FrameInv, Shapes, RocShape
<1>1. ASSUME UNCHANGED <<rocs, ready, expired, closed, late, roc>>, op' = op \/ op'.pc \notin {"roc_sent", "mark"}
      PROVE  Stays
  BY <1>1 DEF Stays
<1>2. CASE RocBegin
  <2>1. CASE StartRoc /\ roc = None
    BY <1>2, <2>1 DEF RocBegin, StartsRoc
  <2>2. CASE Goto("roc_cancel") /\ UNCHANGED <<roc, rocs>>
    BY <1>0, <1>1, <1>2, <2>2 DEF RocBegin, Goto, OpShape
  <2> QED
    BY <1>2, <2>1, <2>2 DEF RocBegin
<1>3. CASE RocWait
  BY <1>3 DEF RocWait, StartsRoc
<1>4. CASE CountTx
  <2>1. UNCHANGED <<rocs, ready, expired, closed, late>> /\ op'.pc = "idle"
    BY <1>4 DEF CountTx, Return, Idle
  <2>2. CASE roc # None
    <3>1. roc' = Counted(roc, op.frame) /\ op.frame \in Nat
      BY <1>0, <1>4, <2>2 DEF CountTx, OpShape
    <3>2. roc' \in RocShape /\ SameRoc(roc', roc)
      BY <1>0, <2>2, <3>1, CountedKeeps
    <3> QED
      BY <1>0, <2>1, <2>2, <3>2 DEF Stays
  <2>3. CASE roc = None
    BY <1>1, <1>4, <2>1, <2>3 DEF CountTx
  <2> QED
    BY <2>2, <2>3
<1>5. ASSUME NEW f \in Nat, CancelWait(f) PROVE Stays
  <2>1. UNCHANGED <<rocs, ready, expired, closed, late>> /\ roc # None /\ roc.tx_cnt > 0 /\ roc' = Struck(roc, f)
    BY <1>5 DEF CancelWait
  <2>2. roc' \in RocShape /\ SameRoc(roc', roc)
    BY <1>0, <2>1, StruckKeeps
  <2>3. op' = op \/ op'.pc = "stop"
    BY <1>5 DEF CancelWait, Stop, Starts, Idle
  <2> QED
    BY <1>0, <2>1, <2>2, <2>3 DEF Stays
<1>6. CASE \/ \E v \in Vif : Scan(v) \/ Interrupt(v) \/ Connect(v) \/ Close(v)
           \/ \E v \in Vif, c \in Chan : RemainOnChannel(v, c) \/ MgmtTx(v, c)
           \/ CancelRemainOnChannel
  <2>1. UNCHANGED <<rocs, ready, expired, closed, late, roc>>
    BY <1>6 DEF Scan, Interrupt, Connect, Close, RemainOnChannel, MgmtTx, CancelRemainOnChannel
  <2>2. op' = op \/ op'.pc \notin {"roc_sent", "mark"}
    <3> USE DEF Starts, Idle
    <3>1. \A kind \in Kind, v \in Vif, c \in Chan \cup {None}, pc \in {"idle", "join", "remove", "roc"} :
             Operation(kind, v, c, pc) => op'.pc \notin {"roc_sent", "mark"}
      BY ZenonT(40) DEF Operation
    <3> QED
      BY ZenonT(40), <1>6, <3>1 DEF Scan, Interrupt, Connect, Close, RemainOnChannel, MgmtTx, CancelRemainOnChannel, Stop, Kind
  <2> QED
    BY <1>1, <2>1, <2>2
<1>7. CASE \/ ScanAfterRoc \/ ScanAccepted \/ Cancelled \/ Join \/ Joined \/ RemoveIf \/ RocCancel \/ Stopped
           \/ \E known \in BOOLEAN : Xmit(known)
  <2>1. UNCHANGED <<rocs, ready, expired, closed, late, roc>>
    BY <1>7 DEF ScanAfterRoc, ScanAccepted, Cancelled, Join, Joined, RemoveIf, RocCancel, Stopped, Xmit
  <2>2. op'.pc \notin {"roc_sent", "mark"}
    <3>1. CASE ScanAfterRoc \/ ScanAccepted \/ Joined \/ Stopped \/ RocCancel
      BY <1>0, <3>1 DEF ScanAfterRoc, ScanAccepted, ScanRefused, Joined, Stopped, RocCancel, Goto, Return,
         Idle, OpShape
    <3>2. CASE Cancelled \/ Join \/ RemoveIf
      BY <1>0, <3>2 DEF Cancelled, Join, RemoveIf, Goto, Return, Idle, OpShape
    <3>3. CASE \E known \in BOOLEAN : Xmit(known)
      BY <1>0, <3>3 DEF Xmit, OpShape
    <3> QED
      BY <1>7, <3>1, <3>2, <3>3
  <2> QED
    BY <1>1, <2>1, <2>2
<1>8. CASE \/ ScanDone \/ Confirmed \/ Connected \/ CommandFails \/ Firmware \/ UNCHANGED vars
           \/ \E f \in offq.frames : Push(f)
  BY <1>1, <1>8 DEF ScanDone, Confirmed, Connected, CommandFails, Firmware, FwTake, FwScanDone, FwSwitch,
     FwExpire, FwJoin, Push
<1> QED
  BY <1>2, <1>3, <1>4, <1>5, <1>6, <1>7, <1>8 DEF Next, Ask, Continue, Handle

\* What begins with a RoC: its number, its interface, its user and an empty history.
LEMMA NewRocIs ==
    ASSUME EventInv, StartRoc
    PROVE  /\ roc' # None /\ roc'.id = Len(rocs) + 1 /\ roc'.vif = op.vif
           /\ ~roc'.on_chan /\ ~roc'.internal
           /\ op'.pc = "roc_sent" /\ op'.vif = op.vif /\ op'.kind = op.kind
           /\ Len(rocs) \in Nat /\ Len(rocs') = Len(rocs) + 1
           /\ \A i \in 1..Len(rocs) : rocs'[i] = rocs[i]
           /\ rocs'[Len(rocs) + 1] = IF op.kind = "tx" THEN "tx" ELSE "user"
<1>0. op \in OpShape /\ rocs \in Seq({"tx", "user"})
  BY DEF EventInv, PairInv, FrameInv, Shapes, FwShapes
<1>1. op'.pc = "roc_sent" /\ op'.vif = op.vif /\ op'.kind = op.kind
  BY <1>0 DEF StartRoc, Goto, OpShape
<1>2. NewRoc \in RocShape
  BY <1>0, OffChanAssumption DEF NewRoc, NoCookie, OpShape, RocShape
<1>3. roc' # None
  BY <1>2, OffChanAssumption DEF StartRoc, RocShape
<1>4. roc'.id = Len(rocs) + 1 /\ roc'.vif = op.vif /\ ~roc'.on_chan /\ ~roc'.internal
  BY DEF StartRoc, NewRoc
<1> DEFINE user == IF op.kind = "tx" THEN "tx" ELSE "user"
<1>5. rocs' = Append(rocs, user) /\ user \in {"tx", "user"}
  BY DEF StartRoc
<1> HIDE DEF user
<1>6. /\ Len(rocs) \in Nat /\ Len(rocs') = Len(rocs) + 1
      /\ \A i \in 1..Len(rocs) : rocs'[i] = rocs[i]
      /\ rocs'[Len(rocs) + 1] = user
  BY <1>0, <1>5
<1> QED
  BY <1>1, <1>3, <1>4, <1>6 DEF user

\* Every step keeps whose the RoC is, and what of it was reported.
LEMMA OwnNext == ASSUME EventInv, [Next]_vars PROVE OwnRoc' /\ ReadyIsOn'
<1>0. /\ op \in OpShape /\ roc \in RocShape \cup {None} /\ OwnRoc /\ ReadyIsOn
      /\ rocs \in Seq({"tx", "user"}) /\ Len(rocs) \in Nat
  BY DEF EventInv, PairInv, FrameInv, Shapes, FwShapes
<1>1. CASE Stays
  BY <1>0, <1>1 DEF Stays, OwnRoc, ReadyIsOn, SameRoc
<1>2. CASE StartsRoc
  BY <1>0, <1>2, NewRocIs DEF StartsRoc, OwnRoc, ReadyIsOn
<1>3. CASE RocSent
  <2>1. UNCHANGED <<rocs, ready>> /\ op.pc = "roc_sent" /\ (roc' = None \/ roc' = roc)
    BY <1>3 DEF RocSent, kernVars, Woken
  <2>2. op'.pc = "idle" \/ (op'.pc = "mark" /\ op.kind = "tx")
    BY <1>0, <1>3 DEF RocSent, Goto, Return, Idle, OpShape
  <2> QED
    BY <1>0, <2>1, <2>2 DEF OwnRoc, ReadyIsOn
<1>4. CASE Removed
  <2>1. UNCHANGED <<rocs, ready>> /\ (roc' = None \/ roc' = roc) /\ op'.pc = "idle"
    BY <1>4 DEF Removed, kernVars, Return, Idle
  <2> QED
    BY <1>0, <2>1 DEF OwnRoc, ReadyIsOn
<1>5. CASE Mark
  <2>1. UNCHANGED <<rocs, ready>> /\ op.pc = "mark" /\ op'.pc = "xmit"
    BY <1>0, <1>5 DEF Mark, kernVars, histVars, Goto, OpShape
  <2>2. CASE roc # None
    <3>1. roc' = [roc EXCEPT !.internal = TRUE]
      BY <1>5, <2>2 DEF Mark
    <3>2. roc'.id = roc.id /\ roc'.on_chan = roc.on_chan
      BY <1>0, <2>2, <3>1 DEF RocShape
    <3> QED
      BY <1>0, <2>1, <2>2, <3>2 DEF OwnRoc, ReadyIsOn
  <2>3. CASE roc = None
    BY <1>0, <1>5, <2>1, <2>3 DEF Mark, OwnRoc, ReadyIsOn
  <2> QED
    BY <2>2, <2>3
<1>6. CASE OnChannel
  <2>1. UNCHANGED <<op, rocs>>
    BY <1>6 DEF OnChannel, opVars, histVars
  <2>2. CASE roc # None
    <3>1. roc' = [roc EXCEPT !.on_chan = TRUE] /\ ready' \in {ready, ready \cup {roc.id}}
      BY <1>6, <2>2 DEF OnChannel
    <3>2. roc'.id = roc.id /\ roc'.vif = roc.vif /\ roc'.internal = roc.internal /\ roc'.on_chan
      BY <1>0, <2>2, <3>1 DEF RocShape
    <3> QED
      BY <1>0, <2>1, <2>2, <3>1, <3>2 DEF OwnRoc, ReadyIsOn
  <2>3. CASE roc = None
    BY <1>0, <1>6, <2>1, <2>3 DEF OnChannel, OwnRoc, ReadyIsOn
  <2> QED
    BY <2>2, <2>3
<1>7. CASE Expired
  <2>1. UNCHANGED <<op, rocs, ready>> /\ (roc' = None \/ roc' = roc)
    BY <1>7 DEF Expired, opVars
  <2> QED
    BY <1>0, <2>1 DEF OwnRoc, ReadyIsOn
<1> QED
  BY <1>1, <1>2, <1>3, <1>4, <1>5, <1>6, <1>7, StepsOfRoc

\* Every step keeps the ends of the RoCs of user space paired with their beginnings.
LEMMA PairedNext == ASSUME EventInv, [Next]_vars, ~late' PROVE EventsPaired'
<1>0. /\ op \in OpShape /\ roc \in RocShape \cup {None} /\ OwnRoc /\ ReadyIsOn /\ ReqOfOp
      /\ rocs \in Seq({"tx", "user"}) /\ Len(rocs) \in Nat
  BY DEF EventInv, PairInv, FrameInv, Shapes, FwShapes
<1>r. (expired \subseteq ready)'
  BY PairNext DEF EventInv, PairInv
<1> SUFFICES ASSUME NEW r \in (ready \cap UserRocs)'
             PROVE  r \in (expired \cup closed)' \/ (roc # None /\ roc.id = r)'
  BY <1>r DEF EventsPaired
<1>u. ASSUME UNCHANGED rocs, ~late, r \in ready
      PROVE  r \in expired \cup closed \/ (roc # None /\ roc.id = r)
  BY <1>u DEF EventInv, EventsPaired, UserRocs
<1>1. CASE Stays
  BY <1>1, <1>u DEF Stays, SameRoc
<1>2. CASE StartsRoc
  <2>1. r \in UserRocs /\ r \in ready /\ ~late /\ roc = None
    BY <1>0, <1>2, NewRocIs DEF StartsRoc, ReadyIsOn, UserRocs
  <2> QED
    BY <1>2, <2>1 DEF StartsRoc, EventInv, EventsPaired
<1>3. CASE RocSent
  <2>1. UNCHANGED <<rocs, ready, expired, closed, late>> /\ Woken("roc_sent")
    BY <1>3 DEF RocSent, kernVars
  <2>2. CASE answer = "error"
    <3>1. roc # None => roc.id \notin ready
      BY <2>1, <2>2 DEF EventInv, InStep, NotTaken, Woken
    <3> QED
      BY <1>u, <2>1, <3>1
  <2>3. CASE answer # "error"
    BY <1>3, <1>u, <2>1, <2>3 DEF RocSent
  <2> QED
    BY <2>2, <2>3
<1>4. CASE Removed
  <2>1. UNCHANGED <<rocs, ready, expired, late>>
    BY <1>4 DEF Removed, kernVars
  <2>2. UNCHANGED <<roc, closed>> \/ (roc # None /\ closed' = closed \cup {roc.id})
    BY <1>4 DEF Removed
  <2> QED
    BY <1>u, <2>1, <2>2
<1>5. CASE Mark
  <2>1. UNCHANGED <<rocs, ready, expired, closed, late>>
    BY <1>5 DEF Mark, kernVars, histVars
  <2>2. CASE roc # None
    <3>1. roc' = [roc EXCEPT !.internal = TRUE]
      BY <1>5, <2>2 DEF Mark
    <3>2. roc'.id = roc.id /\ roc' \in RocShape
      BY <1>0, <2>2, <3>1 DEF RocShape
    <3>3. roc' # None
      BY <3>2, OffChanAssumption DEF RocShape
    <3> QED
      BY <1>u, <2>1, <3>2, <3>3
  <2>3. CASE roc = None
    BY <1>u, <2>1, <2>3
  <2> QED
    BY <2>2, <2>3
<1>6. CASE OnChannel
  <2>1. UNCHANGED <<rocs, expired, closed, late>>
    BY <1>6 DEF OnChannel, histVars
  <2>2. CASE roc # None
    <3>1. roc' = [roc EXCEPT !.on_chan = TRUE] /\ ready' \in {ready, ready \cup {roc.id}}
      BY <1>6, <2>2 DEF OnChannel
    <3>2. roc'.id = roc.id /\ roc' \in RocShape
      BY <1>0, <2>2, <3>1 DEF RocShape
    <3>3. roc' # None
      BY <3>2, OffChanAssumption DEF RocShape
    <3> QED
      BY <1>u, <2>1, <3>1, <3>2, <3>3
  <2>3. CASE roc = None
    BY <1>6, <1>u, <2>1, <2>3 DEF OnChannel
  <2> QED
    BY <2>2, <2>3
<1>7. CASE Expired
  <2>1. UNCHANGED <<rocs, ready, closed, late>>
    BY <1>7 DEF Expired
  <2>2. CASE roc # None
    <3>1. expired' = IF Expires(roc) THEN expired \cup {roc.id} ELSE expired
      BY <1>7, <2>2 DEF Expired
    <3>2. ASSUME r = roc.id PROVE Expires(roc)
      BY <1>0, <2>1, <2>2, <3>2 DEF Expires, OwnRoc, ReadyIsOn, UserRocs
    <3> QED
      BY <1>u, <2>1, <3>1, <3>2
  <2>3. CASE roc = None
    BY <1>7, <1>u, <2>1, <2>3 DEF Expired
  <2> QED
    BY <2>2, <2>3
<1> QED
  BY <1>1, <1>2, <1>3, <1>4, <1>5, <1>6, <1>7, StepsOfRoc

-----------------------------------------------------------------------------
\* A step of the driver in which the RoC goes on, unless it begins one or waits for aml_close.
LEMMA DriverInStep ==
    ASSUME InStep, Stays, UNCHANGED <<fw, toHost>>,
           \/ UNCHANGED <<op, req, answer>>
           \/ op'.pc \notin {"roc_sent", "removed"}
           \/ op'.pc = "removed" /\ req' # None
    PROVE  InStep'
<1>1. Inds' = Inds /\ Acks' = Acks
  BY DEF Inds, Acks
<1> QED
  BY <1>1 DEF InStep, Stays, SameRoc, Quiet, NotTaken

\* A step of the firmware that has nothing to do with a RoC.
LEMMA FirmwareInStep ==
    ASSUME InStep, FwShapes, UNCHANGED <<op, roc, ready>>, fw'.roc = fw.roc, fw'.rvif = fw.rvif,
           \/ UNCHANGED <<req, answer, toHost>>
           \/ UNCHANGED <<req, answer>> /\ \E type \in MsgType \ {"switch_ind", "exp_ind"}, v \in Vif \cup {None} :
                                              Post(type, v)
           \/ UNCHANGED toHost /\ op.pc \notin {"roc_sent", "removed"}
           \/ op.pc \notin {"roc_sent", "removed"} /\ \E type \in {"cfm", "cancel_cfm"}, v \in Vif \cup {None} :
                                              Post(type, v)
    PROVE  InStep'
<1>1. CASE UNCHANGED toHost
  <2>1. Inds' = Inds /\ Acks' = Acks
    BY <1>1 DEF Inds, Acks
  <2> QED
    BY <1>1, <2>1, Zenon DEF InStep, Quiet, NotTaken
<1>2. ASSUME NEW type \in MsgType \ {"switch_ind", "exp_ind"}, NEW v \in Vif \cup {None}, Post(type, v),
             UNCHANGED <<req, answer>> \/ op.pc \notin {"roc_sent", "removed"}
      PROVE  InStep'
  <2>1. /\ Inds' = Inds /\ Acks \subseteq Acks' /\ \A i \in Inds : toHost'[i] = toHost[i]
    BY <1>2, Posted DEF FwShapes, Inds
  <2> QED
    BY <1>2, <2>1 DEF InStep, Quiet, NotTaken
<1> QED
  BY <1>1, <1>2 DEF MsgType

\* The beginning, the failure, the removal and the marking of a RoC.
LEMMA RocInStep ==
    ASSUME EventInv, InStep, [Next]_vars, ~late', StartsRoc \/ RocSent \/ Removed \/ Mark
    PROVE  InStep'
<1>0. op \in OpShape /\ roc \in RocShape \cup {None} /\ ReadyIsOn /\ Len(rocs) \in Nat
  BY DEF EventInv, PairInv, FrameInv, Shapes, FwShapes
<1>q. ASSUME UNCHANGED <<fw, toHost, ready>>, roc' = None, op'.pc \notin {"roc_sent", "removed"}, Quiet
      PROVE  InStep'
  <2>1. Inds' = {} /\ fw'.roc = "none"
    BY <1>q DEF Inds, Quiet
  <2> QED
    BY <1>q, <2>1 DEF InStep, Quiet, NotTaken
<1>1. CASE StartsRoc
  <2>1. /\ roc' # None /\ roc'.id \notin ready' /\ op'.pc = "roc_sent"
    BY <1>0, <1>1, NewRocIs DEF StartsRoc, ReadyIsOn
  <2>2. Quiet /\ Inds' = Inds /\ UNCHANGED fw
    BY <1>1 DEF InStep, StartsRoc, Inds
  <2> QED
    BY <2>1, <2>2 DEF InStep, Quiet
<1>2. CASE RocSent
  <2>1. UNCHANGED <<fw, toHost, ready>> /\ Woken("roc_sent")
    BY <1>2 DEF RocSent, fwVars, kernVars
  <2>2. CASE answer = "error"
    <3>1. Quiet
      BY <2>1, <2>2 DEF InStep, NotTaken, Woken
    <3>2. roc' = None /\ op'.pc = "idle"
      BY <1>2, <2>2 DEF RocSent, Return, Idle
    <3> QED
      BY <1>q, <2>1, <3>1, <3>2
  <2>3. CASE answer # "error"
    <3>1. roc' = roc /\ op'.pc \notin {"roc_sent", "removed"}
      BY <1>0, <1>2, <2>3 DEF RocSent, Goto, Return, Idle, OpShape
    <3>2. Inds' = Inds /\ Acks' = Acks
      BY <2>1 DEF Inds, Acks
    <3> QED
      BY <2>1, <3>1, <3>2 DEF InStep, Quiet, NotTaken
  <2> QED
    BY <2>2, <2>3
<1>3. CASE Removed
  <2>1. UNCHANGED <<fw, toHost, ready>> /\ Woken("removed") /\ op'.pc = "idle"
    BY <1>3 DEF Removed, fwVars, kernVars, Return, Idle
  <2>2. req = None /\ Acks = {}
    BY <2>1, NothingAwaited DEF Woken
  <2>3. CASE roc # None /\ roc.vif = op.vif
    <3>1. Quiet
      BY <2>1, <2>2, <2>3 DEF InStep, Quiet, Woken
    <3>2. roc' = None
      BY <1>3, <2>3 DEF Removed
    <3> QED
      BY <1>q, <2>1, <3>1, <3>2
  <2>4. CASE ~(roc # None /\ roc.vif = op.vif)
    <3>1. roc' = roc
      BY <1>3, <2>4 DEF Removed
    <3>2. Inds' = Inds /\ Acks' = Acks
      BY <2>1 DEF Inds, Acks
    <3> QED
      BY <2>1, <3>1, <3>2 DEF InStep, Quiet, NotTaken
  <2> QED
    BY <2>3, <2>4
<1>4. CASE Mark
  <2>1. UNCHANGED <<fw, toHost, ready>> /\ op'.pc = "xmit"
    BY <1>0, <1>4 DEF Mark, fwVars, kernVars, Goto, OpShape
  <2>2. Inds' = Inds /\ Acks' = Acks
    BY <2>1 DEF Inds, Acks
  <2>3. CASE roc # None
    <3>1. roc' = [roc EXCEPT !.internal = TRUE]
      BY <1>4, <2>3 DEF Mark
    <3>2. roc'.vif = roc.vif /\ roc' \in RocShape
      BY <1>0, <2>3, <3>1 DEF RocShape
    <3>3. roc' # None
      BY <3>2, OffChanAssumption DEF RocShape
    <3> QED
      BY <2>1, <2>2, <2>3, <3>2, <3>3 DEF InStep, Quiet, NotTaken
  <2>4. CASE roc = None
    <3>1. roc' = None
      BY <1>4, <2>4 DEF Mark
    <3> QED
      BY <2>1, <2>2, <2>4, <3>1 DEF InStep, Quiet, NotTaken
  <2> QED
    BY <2>3, <2>4
<1> QED
  BY <1>1, <1>2, <1>3, <1>4

\* The firmware takes a request.
LEMMA TakeInStep == ASSUME EventInv, InStep, FwTake PROVE InStep'
<1> USE DEF drvVars, kernVars, histVars
<1>0. /\ FwShapes /\ OneAnswer /\ ReqOfOp /\ OwnRoc
      /\ req # None /\ req' = None /\ UNCHANGED <<op, roc, ready>>
  BY DEF EventInv, FwTake
<1>1. /\ req.type \in ReqType /\ req.vif \in Vif \cup {None} /\ fw.rvif \in Vif \cup {None}
      /\ answer = "none" /\ Acks = {} /\ Len(toHost) \in Nat
  BY <1>0 DEF FwShapes, OneAnswer
<1>2. ASSUME req.type \notin {"roc", "remove_if"} PROVE op.pc \notin {"roc_sent", "removed"}
  BY <1>0, <1>2 DEF ReqOfOp
<1>3. CASE req.type \in {"scan", "cancel_scan", "join"}
  <2>1. fw'.roc = fw.roc /\ fw'.rvif = fw.rvif
    BY <1>0, <1>3 DEF FwTake, FwShapes
  <2>2. UNCHANGED toHost \/ Post("cancel_cfm", req.vif) \/ Post("cfm", req.vif)
    BY <1>3 DEF FwTake
  <2> QED
    BY <1>0, <1>1, <1>2, <1>3, <2>1, <2>2, FirmwareInStep
<1>4. CASE req.type = "roc"
  <2>1. fw'.roc = "asked" /\ fw'.rvif = req.vif /\ Post("cfm", req.vif) /\ answer' = "none"
    BY <1>0, <1>1, <1>4 DEF FwTake, FwShapes
  <2>2. Inds' = Inds
    BY ZenonT(40), <1>0, <1>1, <2>1, Posted DEF FwShapes, MsgType
  <2>3. Quiet /\ roc # None /\ roc.id \notin ready /\ op.pc = "roc_sent" /\ req.vif = roc.vif
    BY <1>0, <1>4 DEF InStep, NotTaken, ReqOfOp, OwnRoc
  <2> QED
    BY <1>0, <2>1, <2>2, <2>3 DEF InStep, Quiet, NotTaken
<1>5. CASE req.type = "cancel_roc"
  <2>0. op.pc \notin {"roc_sent", "removed"} /\ fw'.roc = "none"
    BY <1>0, <1>2, <1>5 DEF FwTake, FwShapes
  <2>1. CASE fw.roc = "none"
    <3>1. UNCHANGED toHost
      BY <1>5, <2>1 DEF FwTake
    <3>2. Inds' = Inds
      BY <3>1 DEF Inds
    <3> QED
      BY <1>0, <2>0, <2>1, <3>1, <3>2 DEF InStep, Quiet, NotTaken
  <2>2. CASE fw.roc # "none"
    <3>1. Post("exp_ind", fw.rvif)
      BY <1>5, <2>2 DEF FwTake
    <3>2. /\ Inds' = Inds \cup {Len(toHost) + 1}
          /\ \A i \in 1..Len(toHost) : toHost'[i] = toHost[i]
      BY <1>0, <1>1, <3>1, Posted DEF FwShapes, MsgType
    <3>3. \A i \in Inds : toHost'[i].type # "exp_ind" /\ i <= Len(toHost)
      BY <2>2, <3>2 DEF InStep, Inds
    <3>4. \A i \in Inds' : toHost'[i].type = "exp_ind" => \A j \in Inds' : j <= i
      BY <1>1, <3>2, <3>3 DEF Inds
    <3>5. roc # None
      BY <2>2 DEF InStep
    <3> QED
      BY <1>0, <2>0, <3>4, <3>5 DEF InStep, Quiet, NotTaken
  <2> QED
    BY <2>1, <2>2
<1>6. CASE req.type = "remove_if"
  <2>1. /\ Post("cfm", req.vif) /\ answer' = "none" /\ op.pc = "removed" /\ req.vif = op.vif
        /\ fw'.roc = (IF fw.rvif = req.vif THEN "none" ELSE fw.roc)
        /\ fw'.rvif = IF fw.rvif = req.vif THEN None ELSE fw.rvif
    BY <1>0, <1>1, <1>6 DEF FwTake, FwShapes, ReqOfOp
  <2>2. /\ Inds' = Inds /\ Acks' = {Len(toHost) + 1}
        /\ \A i \in Inds : toHost'[i] = toHost[i] /\ i < Len(toHost) + 1
    BY <1>0, <1>1, <2>1, Posted DEF FwShapes, MsgType, Inds
  <2>3. fw'.roc = fw.roc \/ fw'.roc = "none"
    BY <2>1
  <2>4. roc # None /\ roc.vif = op.vif => fw'.roc = "none"
    BY <2>1 DEF InStep
  <2> QED
    BY <1>0, <2>1, <2>2, <2>3, <2>4 DEF InStep, Quiet, NotTaken
<1> QED
  BY <1>1, <1>3, <1>4, <1>5, <1>6 DEF ReqType

\* The firmware reports of a RoC: its channel, or its end.
LEMMA ReportInStep == ASSUME EventInv, InStep, FwSwitch \/ FwExpire PROVE InStep'
<1> USE DEF drvVars, opVars, kernVars, histVars
<1>0. /\ FwShapes /\ UNCHANGED <<op, req, answer, roc, ready>> /\ fw.roc # "none"
      /\ fw.rvif \in Vif \cup {None} /\ Len(toHost) \in Nat
  BY DEF EventInv, FwShapes, FwSwitch, FwExpire
<1>1. roc # None /\ ~NotTaken /\ (op.pc = "removed" /\ req = None => roc.vif # op.vif)
  BY <1>0 DEF InStep, Quiet
<1>2. PICK type \in {"switch_ind", "exp_ind"} : Post(type, fw.rvif) /\ (type = "exp_ind" <=> FwExpire)
  BY <1>0 DEF FwSwitch, FwExpire
<1>3. /\ Inds' = Inds \cup {Len(toHost) + 1} /\ toHost'[Len(toHost) + 1].type = type
      /\ \A i \in 1..Len(toHost) : toHost'[i] = toHost[i]
  BY <1>0, <1>2, Posted DEF FwShapes, MsgType
<1>4. \A i \in Inds : toHost'[i].type # "exp_ind" /\ i <= Len(toHost)
  BY <1>0, <1>3 DEF InStep, Inds
<1>5. \A i \in Inds' : toHost'[i].type = "exp_ind" => type = "exp_ind" /\ \A j \in Inds' : j <= i
  <2>1. \A j \in Inds' : j <= Len(toHost) + 1
    BY <1>0, <1>3, <1>4 DEF Inds
  <2>2. ASSUME NEW i \in Inds', toHost'[i].type = "exp_ind" PROVE i = Len(toHost) + 1 /\ type = "exp_ind"
    BY <1>3, <1>4, <2>2
  <2> QED
    BY <2>1, <2>2
<1>6. type = "exp_ind" => fw'.roc = "none"
  BY <1>0, <1>2 DEF FwExpire, FwShapes
<1>7. fw'.roc # "none" => fw'.rvif = fw.rvif
  BY <1>0 DEF FwSwitch, FwExpire, FwShapes
<1> QED
  BY <1>0, <1>1, <1>5, <1>6, <1>7 DEF InStep, NotTaken

\* The message thread takes a message of the firmware.
LEMMA HandleInStep == ASSUME EventInv, InStep, Handle PROVE InStep'
<1> USE DEF drvVars, opVars, kernVars, histVars
<1>0. /\ FwShapes /\ OneAnswer /\ OwnRoc /\ roc \in RocShape \cup {None}
      /\ UNCHANGED <<op, req, fw>> /\ toHost # <<>> /\ toHost' = Tail(toHost)
  BY DEF EventInv, PairInv, FrameInv, Shapes, Handle, ScanDone, Confirmed, Connected, OnChannel, Expired, Msg
<1>1. /\ Head(toHost) = toHost[1] /\ 1 \in 1..Len(toHost)
      /\ \A i \in 1..Len(toHost') : toHost'[i] = toHost[i + 1]
      /\ \A i \in Acks : i = 1 \/ i - 1 \in Acks'
      /\ \A i \in Inds' : i \in Nat \ {0} /\ i + 1 \in Inds
  BY <1>0, Popped DEF FwShapes
<1>2. Inds' \subseteq 1..Len(toHost') /\ Inds \subseteq Nat /\ Acks \subseteq Nat
  BY DEF Inds, Acks
\* The order of what is left does not change,
<1>3. \A i \in Inds' : toHost'[i].type = "exp_ind" => fw.roc = "none" /\ \A j \in Inds' : j <= i
  <2>1. ASSUME NEW i \in Inds', toHost'[i].type = "exp_ind" PROVE fw.roc = "none" /\ \A j \in Inds' : j <= i
    <3>1. i + 1 \in Inds /\ toHost[i + 1].type = "exp_ind" /\ i \in Nat
      BY <1>1, <1>2, <2>1
    <3>2. fw.roc = "none" /\ \A j \in Inds : j <= i + 1
      BY <3>1 DEF InStep
    <3> QED
      BY <1>1, <3>1, <3>2
  <2> QED
    BY <2>1
\* and a confirmation follows them as before, unless it was the first.
<1>4. op.pc = "removed" /\ req = None /\ roc # None /\ roc.vif = op.vif =>
         fw.roc = "none" /\ \A i \in Inds' : \E j \in Acks' : i < j
  <2>1. ASSUME op.pc = "removed", req = None, roc # None, roc.vif = op.vif, NEW i \in Inds'
        PROVE  \E j \in Acks' : i < j
    <3>1. i + 1 \in Inds /\ i \in Nat \ {0}
      BY <1>1
    <3>2. PICK j \in Acks : i + 1 < j
      BY <2>1, <3>1 DEF InStep
    <3>3. j - 1 \in Acks' /\ i < j - 1
      BY <1>1, <1>2, <3>1, <3>2
    <3> QED
      BY <3>3
  <2> QED
    BY <2>1 DEF InStep
<1>5. Quiet => Quiet'
  BY <1>0, <1>1 DEF Quiet
<1>6. NotTaken' => NotTaken
  <2>1. answer' = answer \/ (answer' = "ok" /\ 1 \in Acks)
    BY <1>0, <1>1 DEF Handle, ScanDone, Confirmed, Connected, OnChannel, Expired, Msg, Acks
  <2> QED
    BY <1>0, <2>1 DEF NotTaken
<1>7. ASSUME UNCHANGED <<roc, ready>> PROVE InStep'
  BY <1>0, <1>3, <1>4, <1>5, <1>6, <1>7 DEF InStep
<1>8. CASE OnChannel
  <2>1. 1 \in Inds
    BY <1>1, <1>8 DEF OnChannel, Msg, Inds
  <2>2. roc # None /\ ~NotTaken
    BY <2>1 DEF InStep, Quiet
  <2>3. roc' = [roc EXCEPT !.on_chan = TRUE]
    BY <1>8, <2>2 DEF OnChannel
  <2>4. roc'.vif = roc.vif /\ roc' \in RocShape
    BY <1>0, <2>2, <2>3 DEF RocShape
  <2>5. roc' # None
    BY <2>4, OffChanAssumption DEF RocShape
  <2> QED
    BY <1>0, <1>3, <1>4, <1>6, <2>2, <2>4, <2>5 DEF InStep
<1>9. CASE Expired
  <2>1. 1 \in Inds /\ toHost[1].type = "exp_ind"
    BY <1>1, <1>9 DEF Expired, Msg, Inds
  <2>2. roc # None /\ ~NotTaken /\ fw.roc = "none" /\ \A j \in Inds : j <= 1
    BY <2>1 DEF InStep, Quiet
  <2>3. Quiet'
    BY <1>0, <1>1, <2>2 DEF Quiet
  <2>4. roc' = None
    BY <1>9, <2>2 DEF Expired
  <2> QED
    BY <1>3, <1>6, <2>2, <2>3, <2>4 DEF InStep, Quiet
<1> QED
  BY <1>7, <1>8, <1>9 DEF Handle, ScanDone, Confirmed, Connected

\* Unless the wait for a predecessor has timed out, every step keeps firmware and driver in step.
LEMMA InStepNext == ASSUME EventInv, [Next]_vars, ~late' PROVE InStep'
<1> USE DEF vars, drvVars, opVars, kernVars, fwVars, histVars
<1>0. op \in OpShape /\ FwShapes /\ OneAnswer /\ ReqOfOp
  BY DEF EventInv, PairInv, FrameInv, Shapes
<1>1. InStep
  BY DEF EventInv, StartsRoc, Next, Ask, Scan, Interrupt, Connect, Close, RemainOnChannel, MgmtTx,
     CancelRemainOnChannel, CancelWait, Continue, ScanAfterRoc, ScanAccepted, Cancelled, Join, Joined, RemoveIf,
     Removed, RocBegin, RocCancel, RocWait, RocSent, Stopped, Mark, CountTx, Xmit, CommandFails, Firmware, FwTake,
     FwSwitch, FwExpire, FwScanDone, FwJoin, Handle, ScanDone, Confirmed, Connected, OnChannel, Expired, Push
<1>2. CASE StartsRoc \/ RocSent \/ Removed \/ Mark
  BY <1>1, <1>2, RocInStep
<1>3. CASE Handle
  BY <1>1, <1>3, HandleInStep
<1>4. CASE Firmware
  <2>1. CASE FwTake
    BY <1>1, <2>1, TakeInStep
  <2>2. CASE FwSwitch \/ FwExpire
    BY <1>1, <2>2, ReportInStep
  <2>3. CASE FwScanDone \/ \E v \in Vif : FwJoin(v)
    <3>1. UNCHANGED <<op, req, answer, roc, ready>>
      BY <2>3 DEF FwScanDone, FwJoin
    <3>2. fw'.roc = fw.roc /\ fw'.rvif = fw.rvif
      BY <1>0, <2>3 DEF FwScanDone, FwJoin, FwShapes
    <3>3. \E type \in MsgType \ {"switch_ind", "exp_ind"}, v \in Vif \cup {None} : Post(type, v)
      BY <2>3 DEF FwScanDone, FwJoin, MsgType
    <3> QED
      BY <1>0, <1>1, <3>1, <3>2, <3>3, FirmwareInStep
  <2> QED
    BY <1>4, <2>1, <2>2, <2>3 DEF Firmware
<1>5. CASE CommandFails
  <2>1. UNCHANGED <<op, roc, ready, fw, toHost>> /\ req # None /\ op.pc # "removed"
    BY <1>0, <1>5 DEF CommandFails, ReqOfOp
  <2>2. Inds' = Inds /\ (NotTaken' => NotTaken)
    BY <2>1 DEF Inds, NotTaken
  <2> QED
    BY <1>1, <2>1, <2>2 DEF InStep, Quiet
<1>6. CASE Stays /\ (UNCHANGED vars \/ \E f \in offq.frames : Push(f))
  BY <1>1, <1>6, DriverInStep DEF Push
<1>7. CASE Stays /\ Ask
  <2>1. UNCHANGED <<fw, toHost>>
    BY <1>7 DEF Ask, Scan, Interrupt, Connect, Close, RemainOnChannel, MgmtTx, CancelRemainOnChannel, CancelWait
  <2>2. UNCHANGED <<op, req, answer>> \/ op'.pc \notin {"roc_sent", "removed"}
    <3> USE DEF Starts, Idle
    <3>1. \A kind \in Kind, v \in Vif, c \in Chan \cup {None}, pc \in {"idle", "join", "remove", "roc"} :
             Operation(kind, v, c, pc) => op'.pc \notin {"roc_sent", "removed"}
      BY ZenonT(40) DEF Operation
    <3> QED
      BY ZenonT(40), <1>7, <3>1 DEF Ask, Scan, Interrupt, Connect, Close, RemainOnChannel, MgmtTx, CancelRemainOnChannel,
         CancelWait, Stop, Kind
  <2> QED
    BY <1>1, <1>7, <2>1, <2>2, DriverInStep
<1>8. CASE Stays /\ Continue
  <2>1. CASE RemoveIf
    <3>1. op'.pc = "removed" /\ req' # None
      <4>1. req' = [type |-> "remove_if", vif |-> op.vif] /\ op.vif \in Vif \cup {None}
        BY <1>0, <2>1 DEF RemoveIf, Send, OpShape
      <4>2. req' \in [type : ReqType, vif : Vif \cup {None}]
        BY <4>1 DEF ReqType
      <4> QED
        BY <1>0, <2>1, <4>2, OffChanAssumption DEF RemoveIf, Goto, OpShape
    <3> QED
      BY <1>1, <1>8, <2>1, <3>1, DriverInStep DEF RemoveIf
  <2>2. CASE \/ ScanAfterRoc \/ ScanAccepted \/ Cancelled \/ Join \/ Joined \/ RocCancel \/ Stopped \/ CountTx
             \/ \E known \in BOOLEAN : Xmit(known)
    <3>1. UNCHANGED <<fw, toHost>>
      BY <2>2 DEF ScanAfterRoc, ScanAccepted, Cancelled, Join, Joined, RocCancel, Stopped, CountTx, Xmit
    <3>2. op'.pc \notin {"roc_sent", "removed"}
      <4>1. CASE ScanAfterRoc \/ ScanAccepted \/ Joined \/ Stopped \/ RocCancel \/ CountTx
        BY <1>0, <4>1 DEF ScanAfterRoc, ScanAccepted, ScanRefused, Joined, Stopped, RocCancel, CountTx, Goto,
           Return, Idle, OpShape
      <4>2. CASE Cancelled \/ Join
        BY <1>0, <4>2 DEF Cancelled, Join, Goto, Return, Idle, OpShape
      <4>3. CASE \E known \in BOOLEAN : Xmit(known)
        BY <1>0, <4>3 DEF Xmit, OpShape
      <4> QED
        BY <2>2, <4>1, <4>2, <4>3
    <3> QED
      BY <1>1, <1>8, <3>1, <3>2, DriverInStep
  <2>3. CASE RocBegin \/ RocWait
    <3>1. CASE StartRoc
      <4>1. op'.pc = "roc_sent" /\ op.pc # "roc_sent"
        BY <2>3, <3>1, NewRocIs DEF RocBegin, RocWait
      <4> QED
        BY <1>8, <4>1 DEF Stays
    <3>2. CASE Goto("roc_cancel") /\ RocBegin
      <4>1. op'.pc = "roc_cancel"
        BY <1>0, <3>2 DEF Goto, OpShape
      <4> QED
        BY <1>1, <1>8, <3>2, <4>1, DriverInStep DEF RocBegin
    <3> QED
      BY <2>3, <3>1, <3>2 DEF RocBegin, RocWait
  <2> QED
    BY <1>2, <1>8, <2>1, <2>2, <2>3 DEF Continue
<1>9. CASE OnChannel \/ Expired
  BY <1>3, <1>9 DEF Handle
<1> QED
  BY <1>2, <1>3, <1>4, <1>5, <1>6, <1>7, <1>8, <1>9, StepsOfRoc DEF Next

\* A RoC of user space whose beginning was reported is still on or was reported to have ended,
\* unless aml_close freed it or the wait for its predecessor had timed out; and nothing ends
\* that has not begun.  The firmware's messages, of which up to two of a RoC may be under way,
\* are never taken for those of the next.
THEOREM BeginningsAndEndsArePaired == Spec => []EventsPaired
<1>1. Init => EventInv
  <2> SUFFICES ASSUME Init PROVE EventInv
    OBVIOUS
  <2>1. PairInv
    BY FrameInit DEF Init, PairInv, OnIsReady
  <2>2. Acks = {} /\ Inds = {} /\ toHost \in Seq(MsgShape) /\ rocs \in Seq({"tx", "user"}) /\ Len(rocs) = 0
    BY DEF Init, Acks, Inds
  <2> QED
    BY <2>1, <2>2 DEF Init, EventInv, FwShapes, OneAnswer, ReqOfOp, OwnRoc, ReadyIsOn, InStep, Quiet, NotTaken,
       EventsPaired, UserRocs, Idle, PairInv
<1>2. EventInv /\ [Next]_vars => EventInv'
  BY PairNext, FwShapesNext, AnswerNext, OwnNext, InStepNext, PairedNext DEF EventInv
<1>3. EventInv => EventsPaired
  BY DEF EventInv, PairInv, EventsPaired
<1> QED
  BY <1>1, <1>2, <1>3, PTL DEF Spec
=============================================================================
