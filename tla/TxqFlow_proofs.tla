--------------------------- MODULE TxqFlow_proofs ---------------------------
(***************************************************************************)
(* Theorems about the counter of the frames buffered for a sleeping        *)
(* station, about the flow control of the netdev queues and about the list *)
(* of scheduled queues of Txq, for any stations, queues and bounds.        *)
(***************************************************************************)
EXTENDS Txq_proofs

\* No environment has both postponed frames and agreements, whose end drops postponed
\* frames without the bookkeeping of the other drops.
Apart == \A F \in FeatureSets : ~({"retry", "ba"} \subseteq F)

\* Without the feature nothing is postponed.
RetryInv ==
    "retry" \notin features =>
       /\ \A q \in Txq : txq[q].nbRetry = 0
       /\ \A i \in 1..Len(Waiting) : ~Waiting[i].retry

\* The frames buffered for a station.
Buf(s, id) ==
    { f \in Frame : /\ where[f] = "queued"
                    /\ StaOf[frameTxq[f]] = s /\ PsIdOf[frameTxq[f]] = id }

\* pkt_ready counts them, as far as 16 bits can.
ReadyInv ==
    \A s \in Sta : ps[s].active =>
       /\ valid[s]
       /\ \A id \in PsId : ps[s].pktReady[id] = U16(Cardinality(Buf(s, id)))

\* The clean-up timer has still to look at queue q.
TailOf(q) == cleanup.step # "none" /\ cleanup.of = q

\* The flag and the netdev queue agree, and a stopped queue has frames or will be restarted.
FlowInv ==
    "delete" \notin features =>
       /\ \A s \in Sta : valid[s]
       /\ \A q \in Txq :
             /\ txq[q].active
             /\ "NDEV_FLOW_CTRL" \in txq[q].status <=> q \in ndevStopped
             /\ q \in ndevStopped => txq[q].list # <<>> \/ TailOf(q)

-----------------------------------------------------------------------------
(* Sets of frames                                                          *)

\* A set of frames is finite and no larger than the set of all of them.
LEMMA FramesAreFew ==
    ASSUME NEW S \in SUBSET Frame
    PROVE  IsFiniteSet(S) /\ Cardinality(S) \in Nat /\ Cardinality(S) <= NbFrames
<1>1. 1 \in Int /\ NbFrames \in Int /\ NbFrames \in Nat
  BY TxqAssumption
<1>2. IsFiniteSet(Frame) /\ Cardinality(Frame) = IF 1 > NbFrames THEN 0 ELSE NbFrames - 1 + 1
  BY <1>1, FS_Interval DEF Frame
<1>3. Cardinality(Frame) = NbFrames
  BY <1>1, <1>2
<1>4. IsFiniteSet(S) /\ Cardinality(S) <= Cardinality(Frame)
  BY <1>2, FS_Subset
<1> QED
  BY <1>3, <1>4, FS_CardinalityType

\* What leaves a set leaves its cardinality.
LEMMA Taken ==
    ASSUME NEW S \in SUBSET Frame, NEW C \in SUBSET S
    PROVE  Cardinality(S \ C) = Cardinality(S) - Cardinality(C)
<1>1. /\ IsFiniteSet(S \ C) /\ IsFiniteSet(C)
      /\ Cardinality(S \ C) \in Nat /\ Cardinality(C) \in Nat /\ Cardinality(S) \in Nat
  <2>1. S \ C \in SUBSET Frame /\ C \in SUBSET Frame
    OBVIOUS
  <2> QED
    BY <2>1, FramesAreFew
<1>2. Cardinality((S \ C) \cup C) = Cardinality(S \ C) + Cardinality(C) - Cardinality((S \ C) \cap C)
  BY <1>1, FS_Union
<1>3. (S \ C) \cup C = S /\ (S \ C) \cap C = {}
  OBVIOUS
<1>4. Cardinality({}) = 0
  BY FS_EmptySet
<1>5. Cardinality(S) = Cardinality(S \ C) + Cardinality(C) - 0
  BY <1>2, <1>3, <1>4
<1> QED
  BY <1>1, <1>5

\* The frames at n places of a queue's list, after the first k.
FramesAt(q, k, n) == {txq[q].list[i] : i \in (k + 1)..(k + n)}

\* C is n frames, all queued on q.
QueuedOn(C, q, n) ==
    /\ C \in SUBSET Frame /\ Cardinality(C) = n
    /\ \A f \in C : where[f] = "queued" /\ frameTxq[f] = q

\* The frames at some places of a queue's list are as many as the places, and all queued there.
LEMMA FramesOfList ==
    ASSUME Shapes, ListInv, NEW q \in Txq, NEW k \in Nat, NEW n \in Nat, k + n <= Len(txq[q].list)
    PROVE  QueuedOn(FramesAt(q, k, n), q, n)
<1> DEFINE l == txq[q].list
           C == {l[i] : i \in (k + 1)..(k + n)}
<1>1. txq[q] \in TxqRec /\ ListGood(q)
  BY DEF Shapes, ListInv
<1>2. l \in Seq(Frame) /\ Len(l) \in Nat /\ k + n <= Len(l)
  BY <1>1 DEF TxqRec
<1>3. \A i \in (k + 1)..(k + n) : i \in 1..Len(l)
  BY <1>2
<1>4. /\ \A i \in 1..Len(l) : l[i] \in Frame /\ where[l[i]] = "queued" /\ frameTxq[l[i]] = q
      /\ \A i, j \in 1..Len(l) : i < j => l[i] # l[j]
  BY <1>1, <1>2 DEF ListGood
<1> HIDE DEF l
<1>5. C \in SUBSET Frame /\ \A f \in C : where[f] = "queued" /\ frameTxq[f] = q
  BY <1>3, <1>4
<1>6. Cardinality(C) = n
  <2> DEFINE g == [i \in (k + 1)..(k + n) |-> l[i]]
  <2>1. g \in Surjection((k + 1)..(k + n), C)
    BY DEF Surjection
  <2>2. \A i, j \in (k + 1)..(k + n) : i # j => l[i] # l[j]
    <3> SUFFICES ASSUME NEW i \in (k + 1)..(k + n), NEW j \in (k + 1)..(k + n), i < j PROVE l[i] # l[j]
      OBVIOUS
    <3> QED
      BY <1>3, <1>4
  <2>3. g \in Injection((k + 1)..(k + n), C)
    BY <2>2 DEF Injection, IsInjective
  <2>4. IsFiniteSet((k + 1)..(k + n)) /\ Cardinality((k + 1)..(k + n)) = n
    <3>1. k + 1 \in Int /\ k + n \in Int
      OBVIOUS
    <3>2. /\ IsFiniteSet((k + 1)..(k + n))
          /\ Cardinality((k + 1)..(k + n)) = IF k + 1 > k + n THEN 0 ELSE (k + n) - (k + 1) + 1
      BY <3>1, FS_Interval
    <3> QED
      BY <3>2
  <2> HIDE DEF g, C
  <2> QED
    BY <2>1, <2>3, <2>4, FS_Surjection
<1>7. C = FramesAt(q, k, n)
  BY DEF l, FramesAt
<1> HIDE DEF C
<1> QED
  BY <1>5, <1>6, <1>7 DEF QueuedOn

\* Summing the lengths of the lists of the station's queues counts its frames.
LEMMA BufferedIsBuf ==
    ASSUME Shapes, ListInv, NEW s \in Sta, NEW id \in PsId
    PROVE  Buffered(s, id) = Cardinality(Buf(s, id))
<1> DEFINE Q == { q \in StaTxqs(s) : PsIdOf[q] = id }
           g == [q \in Txq |-> Len(txq[q].list)]
           P == UNION { {q} \X (1..g[q]) : q \in Q }
           h == [x \in P |-> txq[x[1]].list[x[2]]]
<1>1. Buffered(s, id) = Cardinality(P)
  BY DEF Buffered, SumOf
<1>2. \A q \in Txq : /\ txq[q].list \in Seq(Frame) /\ Len(txq[q].list) \in Nat
                     /\ g[q] = Len(txq[q].list) /\ ListGood(q)
  <2> TAKE q \in Txq
  <2>1. txq[q] \in TxqRec /\ ListGood(q)
    BY DEF Shapes, ListInv
  <2> QED
    BY <2>1 DEF TxqRec
<1>3. \A q \in Q : q \in Txq /\ StaOf[q] = s /\ PsIdOf[q] = id
  BY DEF StaTxqs
<1>4. \A x \in P : /\ x[1] \in Q /\ x[2] \in 1..Len(txq[x[1]].list) /\ x = <<x[1], x[2]>>
  <2> TAKE x \in P
  <2>1. PICK q \in Q : x \in {q} \X (1..g[q])
    OBVIOUS
  <2>2. x[1] = q /\ x[2] \in 1..g[q] /\ x = <<x[1], x[2]>>
    BY <2>1
  <2> QED
    BY <1>2, <1>3, <2>1, <2>2
<1>5. \A q \in Q : \A i \in 1..Len(txq[q].list) : <<q, i>> \in P
  <2> TAKE q \in Q
  <2> TAKE i \in 1..Len(txq[q].list)
  <2>1. <<q, i>> \in {q} \X (1..g[q])
    BY <1>2, <1>3
  <2> QED
    BY <2>1
<1> HIDE DEF P, Q, g
<1>6. \A q \in Txq : \A i \in 1..Len(txq[q].list) :
         /\ txq[q].list[i] \in Frame /\ where[txq[q].list[i]] = "queued"
         /\ frameTxq[txq[q].list[i]] = q
  BY <1>2 DEF ListGood
<1>7. \A x \in P : h[x] \in Buf(s, id) /\ frameTxq[h[x]] = x[1]
  BY <1>3, <1>4, <1>6 DEF Buf
<1>8. \A x, y \in P : h[x] = h[y] => x = y
  <2> SUFFICES ASSUME NEW x \in P, NEW y \in P, h[x] = h[y] PROVE x = y
    OBVIOUS
  <2>1. x[1] = y[1]
    BY <1>7
  <2>2. x[1] \in Txq /\ x[2] \in 1..Len(txq[x[1]].list) /\ y[2] \in 1..Len(txq[x[1]].list)
    BY <1>3, <1>4, <2>1
  <2>3. txq[x[1]].list[x[2]] = txq[x[1]].list[y[2]]
    BY <2>1
  <2>4. \A i, j \in 1..Len(txq[x[1]].list) : i < j => txq[x[1]].list[i] # txq[x[1]].list[j]
    BY <1>2, <2>2 DEF ListGood
  <2>5. x[2] = y[2]
    <3>1. x[2] \in Int /\ y[2] \in Int
      BY <2>2
    <3>2. ~(x[2] < y[2]) /\ ~(y[2] < x[2])
      BY <2>2, <2>3, <2>4
    <3> QED
      BY <3>1, <3>2
  <2> QED
    BY <1>4, <2>1, <2>5
<1>9. \A f \in Buf(s, id) : \E x \in P : h[x] = f
  <2> SUFFICES ASSUME NEW f \in Buf(s, id) PROVE \E x \in P : h[x] = f
    OBVIOUS
  <2>1. f \in Frame /\ where[f] = "queued" /\ StaOf[frameTxq[f]] = s /\ PsIdOf[frameTxq[f]] = id
    BY DEF Buf
  <2>2. frameTxq[f] \in Txq
    BY <2>1 DEF Shapes
  <2>3. PICK i \in 1..Len(txq[frameTxq[f]].list) : txq[frameTxq[f]].list[i] = f
    BY <2>1 DEF ListInv, FramesGood
  <2>4. frameTxq[f] \in Q
    BY <2>1, <2>2 DEF Q, StaTxqs
  <2>5. <<frameTxq[f], i>> \in P
    BY <1>5, <2>4
  <2>6. h[<<frameTxq[f], i>>] = f
    BY <2>3, <2>5
  <2> QED
    BY <2>5, <2>6
<1>10. h \in Surjection(P, Buf(s, id)) /\ h \in Injection(P, Buf(s, id))
  <2>1. h \in [P -> Buf(s, id)]
    BY <1>7
  <2> HIDE DEF h
  <2> QED
    BY <1>8, <1>9, <2>1 DEF Surjection, Injection, IsInjective
<1>11. IsFiniteSet(Buf(s, id))
  <2>1. Buf(s, id) \in SUBSET Frame
    BY DEF Buf
  <2> QED
    BY <2>1, FramesAreFew
<1> HIDE DEF h
<1>12. Cardinality(P) = Cardinality(Buf(s, id))
  BY <1>10, <1>11, FS_Injection
<1> QED
  BY <1>1, <1>12

-----------------------------------------------------------------------------
(* Nothing is postponed                                                    *)

\* No step adds a retry frame unless a confirmation asks for it.
LEMMA RetryKept ==
    ASSUME RetryInv, features' = features,
           "retry" \notin features =>
              /\ \A q \in Txq : txq'[q].nbRetry = txq[q].nbRetry \/ txq'[q].nbRetry = 0
              /\ \A i \in 1..Len(Waiting') : ~Waiting'[i].retry
    PROVE  RetryInv'
BY DEF RetryInv

\* Without retry frames a cut leaves none.
LEMMA CutNone ==
    ASSUME NEW t, NEW u, NEW k \in Nat, NEW n \in Nat, Cut(t, u, k, n), t.nbRetry = 0
    PROVE  u.nbRetry = 0
BY DEF Cut, Higher

\* The firmware and the interrupt task hand the confirmations on.
LEMMA WaitingGrows ==
    ASSUME Inv, RetryInv, "retry" \notin features, (\E f \in Frame : FwConfirm(f)) \/ Irq
    PROVE  \A i \in 1..Len(Waiting') : ~Waiting'[i].retry
<1>1. toConfirm \in Seq(CfmRec) /\ cfms \in Seq(CfmRec)
  BY DEF Inv, Shapes
<1>2. \A i \in 1..Len(toConfirm \o cfms) : ~(toConfirm \o cfms)[i].retry
  BY DEF RetryInv, Waiting
<1>3. CASE Irq
  <2>1. toConfirm' = toConfirm \o cfms /\ cfms' = <<>>
    BY <1>3 DEF Irq
  <2>2. Waiting' = toConfirm \o cfms
    BY <1>1, <2>1 DEF Waiting
  <2> QED
    BY <1>2, <2>2
<1>4. ASSUME NEW f \in Frame, FwConfirm(f) PROVE \A i \in 1..Len(Waiting') : ~Waiting'[i].retry
  <2>1. PICK n \in Nat : /\ cfms' = Append(cfms, [frame |-> f, retry |-> FALSE, credits |-> n])
                         /\ toConfirm' = toConfirm
    <3>1. owed[frameTxq[f]] \in Nat
      BY DEF Inv, Shapes
    <3> QED
      BY <1>4, <3>1 DEF FwConfirm
  <2> DEFINE c == [frame |-> f, retry |-> FALSE, credits |-> n]
  <2>2. c \in CfmRec /\ ~c.retry
    BY DEF CfmRec
  <2> HIDE DEF c
  <2>3. Waiting' = toConfirm \o Append(cfms, c)
    BY <2>1 DEF Waiting, c
  <2>4. /\ Len(toConfirm \o Append(cfms, c)) = Len(toConfirm \o cfms) + 1
        /\ \A i \in 1..Len(toConfirm \o cfms) : (toConfirm \o Append(cfms, c))[i] = (toConfirm \o cfms)[i]
        /\ (toConfirm \o Append(cfms, c))[Len(toConfirm \o cfms) + 1] = c
    BY <1>1, <2>2
  <2>5. Len(toConfirm \o cfms) \in Nat
    BY <1>1
  <2> DEFINE v == toConfirm \o Append(cfms, c)
             w == toConfirm \o cfms
  <2>6. \A i \in 1..Len(v) : ~v[i].retry
    <3> HIDE DEF v, w
    <3> TAKE i \in 1..Len(v)
    <3>1. Len(v) = Len(w) + 1 /\ Len(w) \in Nat /\ v[Len(w) + 1] = c
      BY <2>4, <2>5 DEF v, w
    <3>2. CASE i = Len(w) + 1
      BY <2>2, <3>1, <3>2
    <3>3. CASE i # Len(w) + 1
      <4>1. i \in 1..Len(w)
        BY <3>1, <3>3
      <4>2. v[i] = w[i] /\ ~w[i].retry
        BY <1>2, <2>4, <4>1 DEF v, w
      <4> QED
        BY <4>2
    <3> QED
      BY <3>2, <3>3
  <2> QED
    BY <2>3, <2>6
<1> QED
  BY <1>3, <1>4

\* The host takes the first of them.
LEMMA FirstWaiting ==
    ASSUME Inv, Confirm
    PROVE  /\ Len(Waiting) >= 1 /\ Waiting[1] = Head(toConfirm)
           /\ Len(Waiting') = Len(Waiting) - 1
           /\ \A i \in 1..(Len(Waiting) - 1) : Waiting'[i] = Waiting[i + 1]
<1>1. /\ toConfirm \in Seq(CfmRec) /\ cfms \in Seq(CfmRec) /\ toConfirm # <<>>
      /\ toConfirm' = Tail(toConfirm) /\ cfms' = cfms
  BY DEF Inv, Shapes, Confirm
<1>2. Waiting = toConfirm \o cfms /\ Waiting' = Tail(toConfirm) \o cfms
  BY <1>1 DEF Waiting
<1>3. /\ Len(toConfirm \o cfms) >= 1 /\ (toConfirm \o cfms)[1] = Head(toConfirm)
      /\ Len(Tail(toConfirm) \o cfms) = Len(toConfirm \o cfms) - 1
      /\ \A i \in 1..(Len(toConfirm \o cfms) - 1) :
            (Tail(toConfirm) \o cfms)[i] = (toConfirm \o cfms)[i + 1]
  BY <1>1
<1> QED
  BY <1>2, <1>3

\* An indication leaves the frames alone.
LEMMA SchedulingKeeps ==
    ASSUME \/ ChanSwitch
           \/ \E s \in Sta : PsOn(s) \/ PsOff(s) \/ SpInterrupted(s)
           \/ \E s \in Sta, id \in PsId, n \in 0..MaxReq : TrafficReq(s, id, n)
    PROVE  UNCHANGED <<valid, where, frameTxq, ndevStopped, cleanup, cfms, toConfirm>>
<1> DEFINE Goal == UNCHANGED <<valid, where, frameTxq, ndevStopped, cleanup, cfms, toConfirm>>
<1>1. CASE ChanSwitch
  BY <1>1 DEF ChanSwitch, Indication
<1>2. ASSUME NEW s \in Sta, PsOn(s) PROVE Goal
  BY <1>2 DEF PsOn, Indication
<1>3. ASSUME NEW s \in Sta, PsOff(s) PROVE Goal
  BY <1>3 DEF PsOff, Indication
<1>4. ASSUME NEW s \in Sta, SpInterrupted(s) PROVE Goal
  BY <1>4 DEF SpInterrupted, Indication
<1>5. ASSUME NEW s \in Sta, NEW id \in PsId, NEW n \in 0..MaxReq, TrafficReq(s, id, n) PROVE Goal
  BY <1>5 DEF TrafficReq, Indication
<1> QED
  BY <1>1, <1>2, <1>3, <1>4, <1>5

\* Each step keeps it so.
LEMMA RetryNext ==
    ASSUME Inv, RetryInv, Step, features' = features
    PROVE  RetryInv'
<1> SUFFICES ASSUME "retry" \notin features
             PROVE  /\ \A q \in Txq : txq'[q].nbRetry = txq[q].nbRetry \/ txq'[q].nbRetry = 0
                    /\ \A i \in 1..Len(Waiting') : ~Waiting'[i].retry
  BY RetryKept
<1> DEFINE Goal == /\ \A q \in Txq : txq'[q].nbRetry = txq[q].nbRetry \/ txq'[q].nbRetry = 0
                   /\ \A i \in 1..Len(Waiting') : ~Waiting'[i].retry
<1>1. Shapes /\ ListInv
  BY DEF Inv
<1>2. /\ \A q \in Txq : txq[q].nbRetry = 0 /\ Len(txq[q].list) \in Nat
      /\ \A i \in 1..Len(Waiting) : ~Waiting[i].retry
  <2>1. \A q \in Txq : txq[q] \in TxqRec
    BY <1>1 DEF Shapes
  <2> QED
    BY <2>1 DEF RetryInv, TxqRec
<1>3. ASSUME cfms' = cfms, toConfirm' = toConfirm PROVE \A i \in 1..Len(Waiting') : ~Waiting'[i].retry
  <2>1. Waiting' = Waiting
    BY <1>3 DEF Waiting
  <2> QED
    BY <1>2, <2>1
<1>4. ASSUME NEW q \in Txq, NEW f \in Frame, Xmit(q, f) PROVE Goal
  <2>1. \A p \in Txq : txq'[p].nbRetry = txq[p].nbRetry
    BY <1>1, <1>4, XmitEffect DEF Queued
  <2>2. cfms' = cfms /\ toConfirm' = toConfirm
    BY <1>4 DEF Xmit
  <2> QED
    BY <1>3, <2>1, <2>2
<1>5. CASE VisitTxq
  <2>1. cfms' = cfms /\ toConfirm' = toConfirm
    BY <1>5 DEF VisitTxq
  <2>2. PICK q \in Txq : IF Pushable(txq[q]) /\ hwqCredits > 0 THEN PushTxq(q) ELSE UNCHANGED txq
    BY <1>5 DEF VisitTxq
  <2>3. CASE Pushable(txq[q]) /\ hwqCredits > 0
    <3>1. PICK n \in 0..Len(txq[q].list) : /\ Cut(txq[q], txq'[q], 0, n)
                                           /\ \A p \in Txq \ {q} : txq'[p] = txq[p]
      BY <1>1, <2>2, <2>3, VisitPushes
    <3>2. n \in Nat
      BY <1>2
    <3>3. txq'[q].nbRetry = 0
      BY <1>2, <3>1, <3>2, CutNone
    <3> QED
      BY <1>3, <2>1, <3>1, <3>3
  <2>4. CASE ~(Pushable(txq[q]) /\ hwqCredits > 0)
    BY <1>3, <2>1, <2>2, <2>4
  <2> QED
    BY <2>3, <2>4
<1>6. CASE (\E f \in Frame : FwConfirm(f)) \/ Irq
  BY <1>1, <1>6, OtherShapes, WaitingGrows
<1>7. CASE IrqProcess \/ (\E s \in Sta : StaDel(s)) \/ TailRead \/ TailWrite
  <2>1. cfms' = cfms /\ toConfirm' = toConfirm
    BY <1>7 DEF IrqProcess, StaDel, TailRead, TailWrite
  <2>2. \A p \in Txq : txq'[p].nbRetry = txq[p].nbRetry
    BY <1>1, <1>7, OtherShapes, TailsAreSteady DEF Steady, SameList
  <2> QED
    BY <1>3, <2>1, <2>2
<1>8. CASE Confirm
  <2>1. ~Head(toConfirm).retry
    BY <1>2, <1>8, FirstWaiting
  <2>2. \A p \in Txq : txq'[p].nbRetry = txq[p].nbRetry
    BY <1>1, <1>8, <2>1, ConfirmEffect DEF SameList
  <2>3. \A i \in 1..Len(Waiting') : ~Waiting'[i].retry
    <3> TAKE i \in 1..Len(Waiting')
    <3>1. Len(Waiting) \in Nat
      <4>1. toConfirm \in Seq(CfmRec) /\ cfms \in Seq(CfmRec)
        BY <1>1 DEF Shapes
      <4> QED
        BY <4>1 DEF Waiting
    <3>2. i \in 1..(Len(Waiting) - 1) /\ Waiting'[i] = Waiting[i + 1]
      BY <1>8, FirstWaiting
    <3>3. i + 1 \in 1..Len(Waiting)
      BY <3>1, <3>2
    <3> QED
      BY <1>2, <3>2, <3>3
  <2> QED
    BY <2>2, <2>3
<1>9. CASE \/ ChanSwitch
           \/ \E s \in Sta : PsOn(s) \/ PsOff(s) \/ SpInterrupted(s)
           \/ \E s \in Sta, id \in PsId, n \in 0..MaxReq : TrafficReq(s, id, n)
  <2>1. \A p \in Txq : txq'[p].nbRetry = txq[p].nbRetry
    BY <1>1, <1>9, ChanSwitchSchedules, PsOnSchedules, PsOffSchedules, TrafficReqSchedules,
       SpInterruptedSchedules DEF Schedules
  <2>2. cfms' = cfms /\ toConfirm' = toConfirm
    BY <1>9, SchedulingKeeps
  <2> QED
    BY <1>3, <2>1, <2>2
<1>10. ASSUME NEW q \in Txq, NEW b \in BaCredits, CreditUpdate(q, b) PROVE Goal
  <2>1. cfms' = cfms /\ toConfirm' = toConfirm
    BY <1>10 DEF CreditUpdate, Indication
  <2>2. txq[q].pktPushed <= HwqSize
    BY FewFrames
  <2>3. PICK n \in 0..txq[q].nbRetry : Cut(txq[q], txq'[q], 0, n) /\ \A p \in Txq \ {q} : txq'[p] = txq[p]
    BY <1>1, <1>10, <2>2, CreditUpdateEffect
  <2>4. n \in Nat
    BY <1>2
  <2>5. txq'[q].nbRetry = 0
    BY <1>2, <2>3, <2>4, CutNone
  <2> QED
    BY <1>3, <2>1, <2>3, <2>5
<1>11. ASSUME NEW q \in Txq, NEW n \in 0..NbFrames, CleanupTimer(q, n) PROVE Goal
  <2>1. cfms' = cfms /\ toConfirm' = toConfirm
    BY <1>11 DEF CleanupTimer
  <2>2. Cut(txq[q], txq'[q], txq[q].nbRetry, n) /\ \A p \in Txq \ {q} : txq'[p] = txq[p]
    BY <1>1, <1>11, CleanupEffect
  <2>3. n \in Nat
    BY TxqAssumption
  <2>4. txq'[q].nbRetry = 0
    <3>1. txq[q].nbRetry = 0 /\ txq[q].nbRetry \in Nat
      BY <1>2
    <3> QED
      BY <2>2, <2>3, <3>1, CutNone
  <2> QED
    BY <1>3, <2>1, <2>2, <2>4
<1>12. ASSUME NEW s \in Sta, StaAdd(s) PROVE Goal
  <2>1. cfms' = cfms /\ toConfirm' = toConfirm
    BY <1>12 DEF StaAdd
  <2>2. \A q \in Txq : txq'[q].nbRetry = txq[q].nbRetry \/ txq'[q].nbRetry = 0
    BY <1>1, <1>12, StaAddEffect
  <2> QED
    BY <1>3, <2>1, <2>2
<1>13. ASSUME NEW q \in Txq, TxqDeinit(q) PROVE Goal
  <2>1. cfms' = cfms /\ toConfirm' = toConfirm
    BY <1>13 DEF TxqDeinit
  <2>2. Cut(txq[q], txq'[q], 0, Len(txq[q].list)) /\ \A p \in Txq \ {q} : txq'[p] = txq[p]
    BY <1>1, <1>13, TxqDeinitEffect
  <2>3. txq'[q].nbRetry = 0
    BY <1>2, <2>2, CutNone
  <2> QED
    BY <1>3, <2>1, <2>2, <2>3
<1> QED
  BY <1>4, <1>5, <1>6, <1>7, <1>8, <1>9, <1>10, <1>11, <1>12, <1>13 DEF Step

-----------------------------------------------------------------------------
(* The frames buffered for a station                                       *)

\* Counting in 16 bits.
LEMMA Sixteen ==
    /\ U16(0) = 0
    /\ \A m \in Nat, n \in Nat : n <= m => U16(U16(m) - n) = U16(m - n)
    /\ \A m \in Nat : U16(U16(m) + 1) = U16(m + 1)
BY DEF U16

\* The frames stay, and so does the counter.
LEMMA ReadyKept ==
    ASSUME Shapes, ReadyInv,
           \A f \in Frame : /\ where'[f] = "queued" <=> where[f] = "queued"
                            /\ where[f] = "queued" => frameTxq'[f] = frameTxq[f],
           \A s \in Sta : ps'[s].active =>
              /\ ps[s].active /\ valid'[s] = valid[s]
              /\ \A id \in PsId : ps'[s].pktReady[id] = ps[s].pktReady[id]
    PROVE  ReadyInv'
<1>1. \A s \in Sta, id \in PsId : Buf(s, id)' = Buf(s, id)
  BY DEF Buf
<1> QED
  BY <1>1 DEF ReadyInv

\* n frames of queue q leave it.
LEMMA ReadyLeaves ==
    ASSUME Shapes, ReadyInv, NEW q \in Txq, NEW n \in Nat, NEW place \in {"fw", "done"},
           NEW C \in SUBSET Frame, Cardinality(C) = n,
           \A f \in C : where[f] = "queued" /\ frameTxq[f] = q,
           where' = [f \in Frame |-> IF f \in C THEN place ELSE where[f]],
           frameTxq' = frameTxq, valid' = valid,
           \A s \in Sta : ps'[s].active => ps[s].active,
           \A s \in Sta, id \in PsId : ps'[s].active =>
              ps'[s].pktReady[id] = IF s = StaOf[q] /\ id = PsIdOf[q]
                                    THEN U16(ps[s].pktReady[id] - n) ELSE ps[s].pktReady[id]
    PROVE  ReadyInv'
<1> SUFFICES ASSUME NEW s \in Sta, ps'[s].active
             PROVE  /\ valid'[s]
                    /\ \A id \in PsId : ps'[s].pktReady[id] = U16(Cardinality(Buf(s, id)'))
  BY DEF ReadyInv
<1>1. valid[s] /\ \A id \in PsId : ps[s].pktReady[id] = U16(Cardinality(Buf(s, id)))
  BY DEF ReadyInv
<1>2. ASSUME NEW id \in PsId PROVE ps'[s].pktReady[id] = U16(Cardinality(Buf(s, id)'))
  <2>1. \A f \in Frame : where'[f] = "queued" <=> where[f] = "queued" /\ f \notin C
    BY DEF Shapes
  <2>2. CASE s = StaOf[q] /\ id = PsIdOf[q]
    <3>1. Buf(s, id)' = Buf(s, id) \ C
      BY <2>1 DEF Buf
    <3>2. C \in SUBSET Buf(s, id) /\ Buf(s, id) \in SUBSET Frame
      BY <2>2 DEF Buf
    <3>3. Cardinality(Buf(s, id)') = Cardinality(Buf(s, id)) - n
      BY <3>1, <3>2, Taken
    <3>4. n <= Cardinality(Buf(s, id)) /\ Cardinality(Buf(s, id)) \in Nat
      <4>1. IsFiniteSet(Buf(s, id)) /\ Cardinality(Buf(s, id)) \in Nat
        BY <3>2, FramesAreFew
      <4> QED
        BY <3>2, <4>1, FS_Subset
    <3>5. U16(U16(Cardinality(Buf(s, id))) - n) = U16(Cardinality(Buf(s, id)) - n)
      BY <3>4, Sixteen
    <3>6. ps'[s].pktReady[id] = U16(ps[s].pktReady[id] - n)
      BY <2>2
    <3> QED
      BY <1>1, <3>3, <3>5, <3>6
  <2>3. CASE ~(s = StaOf[q] /\ id = PsIdOf[q])
    <3>1. Buf(s, id)' = Buf(s, id)
      BY <2>1, <2>3 DEF Buf
    <3> QED
      BY <1>1, <2>3, <3>1
  <2> QED
    BY <2>2, <2>3
<1> QED
  BY <1>1, <1>2

\* A frame enters queue q.
LEMMA ReadyEnters ==
    ASSUME Shapes, ReadyInv, NEW q \in Txq, NEW f \in Frame, where[f] # "queued",
           where' = [where EXCEPT ![f] = "queued"],
           frameTxq' = [frameTxq EXCEPT ![f] = q],
           valid' = valid, ps' = CountReady(q, 1)
    PROVE  ReadyInv'
<1> SUFFICES ASSUME NEW s \in Sta, ps'[s].active
             PROVE  /\ valid'[s]
                    /\ \A id \in PsId : ps'[s].pktReady[id] = U16(Cardinality(Buf(s, id)'))
  BY DEF ReadyInv
<1>0. /\ \A r \in Sta : ps'[r].active = ps[r].active
      /\ ps[StaOf[q]].active =>
            \A r \in Sta, id \in PsId :
               ps'[r].pktReady[id] = IF r = StaOf[q] /\ id = PsIdOf[q]
                                     THEN U16(ps[r].pktReady[id] + 1) ELSE ps[r].pktReady[id]
      /\ ~ps[StaOf[q]].active => ps' = ps
  <2> DEFINE one == 1
  <2>1. one \in Nat /\ ps' = CountReady(q, one)
    OBVIOUS
  <2> HIDE DEF one
  <2>2. /\ \A r \in Sta : ps'[r].active = ps[r].active
        /\ ps[StaOf[q]].active =>
              \A r \in Sta, id \in PsId :
                 ps'[r].pktReady[id] = IF r = StaOf[q] /\ id = PsIdOf[q]
                                       THEN U16(ps[r].pktReady[id] + one) ELSE ps[r].pktReady[id]
        /\ ~ps[StaOf[q]].active => ps' = ps
    BY <2>1, CountReadyShapes
  <2> QED
    BY <2>2 DEF one
<1>1. ps[s].active /\ valid[s] /\ \A id \in PsId : ps[s].pktReady[id] = U16(Cardinality(Buf(s, id)))
  BY <1>0 DEF ReadyInv
<1>2. ASSUME NEW id \in PsId PROVE ps'[s].pktReady[id] = U16(Cardinality(Buf(s, id)'))
  <2>1. /\ \A g \in Frame : where'[g] = "queued" <=> where[g] = "queued" \/ g = f
        /\ \A g \in Frame : frameTxq'[g] = IF g = f THEN q ELSE frameTxq[g]
    BY DEF Shapes
  <2>2. CASE s = StaOf[q] /\ id = PsIdOf[q]
    <3>1. Buf(s, id)' = Buf(s, id) \cup {f} /\ f \notin Buf(s, id)
      BY <2>1, <2>2 DEF Buf
    <3>2. IsFiniteSet(Buf(s, id)) /\ Cardinality(Buf(s, id)) \in Nat
      <4>1. Buf(s, id) \in SUBSET Frame
        BY DEF Buf
      <4> QED
        BY <4>1, FramesAreFew
    <3>3. Cardinality(Buf(s, id) \cup {f}) = Cardinality(Buf(s, id)) + 1
      BY <3>1, <3>2, FS_AddElement
    <3>4. ps'[s].pktReady[id] = U16(ps[s].pktReady[id] + 1)
      BY <1>0, <1>1, <2>2
    <3>5. U16(U16(Cardinality(Buf(s, id))) + 1) = U16(Cardinality(Buf(s, id)) + 1)
      BY <3>2, Sixteen
    <3> QED
      BY <1>1, <3>1, <3>3, <3>4, <3>5
  <2>3. CASE ~(s = StaOf[q] /\ id = PsIdOf[q])
    <3>1. Buf(s, id)' = Buf(s, id)
      BY <2>1, <2>3 DEF Buf
    <3>2. ps'[s].pktReady[id] = ps[s].pktReady[id]
      BY <1>0, <2>3
    <3> QED
      BY <1>1, <3>1, <3>2
  <2> QED
    BY <2>2, <2>3
<1> QED
  BY <1>1, <1>2

\* An inactive station buffers nothing.
LEMMA NothingBuffered ==
    ASSUME Inv, NEW s \in Sta, \A q \in Txq : StaOf[q] = s => ~txq[q].active, NEW id \in PsId
    PROVE  Cardinality(Buf(s, id)) = 0
<1>1. Buf(s, id) = {}
  <2> SUFFICES ASSUME NEW f \in Frame, where[f] = "queued", StaOf[frameTxq[f]] = s PROVE FALSE
    BY DEF Buf
  <2>1. frameTxq[f] \in Txq
    BY DEF Inv, Shapes
  <2>2. txq[frameTxq[f]].list = <<>>
    BY <2>1 DEF Inv, ListInv, ListGood
  <2>3. PICK i \in 1..Len(txq[frameTxq[f]].list) : txq[frameTxq[f]].list[i] = f
    BY DEF Inv, ListInv, FramesGood
  <2>4. Len(txq[frameTxq[f]].list) = 0
    BY <2>2
  <2> QED
    BY <2>3, <2>4
<1> QED
  BY <1>1, FS_EmptySet

\* One iteration of aml_hwq_process.
LEMMA VisitKeepsReady ==
    ASSUME Inv, ReadyInv, VisitTxq
    PROVE  ReadyInv'
<1>1. PICK q \in Txq : IF Pushable(txq[q]) /\ hwqCredits > 0 THEN PushTxq(q)
                       ELSE UNCHANGED <<txq, hwList, hwqCredits, ps, ndevStopped, where, pushed>>
  BY DEF VisitTxq
<1>2. valid' = valid /\ frameTxq' = frameTxq /\ Shapes /\ ListInv
  BY DEF VisitTxq, Inv
<1>3. CASE Pushable(txq[q]) /\ hwqCredits > 0
  <2>1. PICK n \in 0..Len(txq[q].list) :
           /\ where' = [f \in Frame |->
                          IF f \in {txq[q].list[i] : i \in 1..n} THEN "fw" ELSE where[f]]
           /\ ps[StaOf[q]].active =>
                \A s \in Sta, id \in PsId :
                   ps'[s].pktReady[id] = IF s = StaOf[q] /\ id = PsIdOf[q]
                                         THEN U16(ps[s].pktReady[id] - n) ELSE ps[s].pktReady[id]
           /\ \A s \in Sta : ps'[s].active = ps[s].active
           /\ \A s \in Sta \ {StaOf[q]}, id \in PsId : ps'[s].pktReady[id] = ps[s].pktReady[id]
    BY <1>1, <1>2, <1>3, VisitPushes
  <2>2. n \in Nat /\ n <= Len(txq[q].list)
    <3>1. txq[q] \in TxqRec
      BY <1>2 DEF Shapes
    <3> QED
      BY <3>1 DEF TxqRec
  <2> DEFINE C == {txq[q].list[i] : i \in 1..n}
  <2>3. C \in SUBSET Frame /\ Cardinality(C) = n /\ \A f \in C : where[f] = "queued" /\ frameTxq[f] = q
    <3>1. 0 \in Nat /\ 0 + n = n /\ 0 + 1 = 1 /\ 0 + n <= Len(txq[q].list)
      BY <2>2
    <3>2. QueuedOn(FramesAt(q, 0, n), q, n)
      BY <1>2, <2>2, <3>1, FramesOfList
    <3>3. FramesAt(q, 0, n) = C
      BY <3>1 DEF FramesAt
    <3> HIDE DEF C
    <3> QED
      BY <3>2, <3>3 DEF QueuedOn
  <2>4. where' = [f \in Frame |-> IF f \in C THEN "fw" ELSE where[f]]
    BY <2>1
  <2> HIDE DEF C
  <2>5. \A s \in Sta, id \in PsId : ps'[s].active =>
           ps'[s].pktReady[id] = IF s = StaOf[q] /\ id = PsIdOf[q]
                                 THEN U16(ps[s].pktReady[id] - n) ELSE ps[s].pktReady[id]
    <3> TAKE s \in Sta, id \in PsId
    <3> HAVE ps'[s].active
    <3>1. ps[s].active
      BY <2>1
    <3>2. CASE s = StaOf[q]
      BY <2>1, <3>1, <3>2
    <3>3. CASE s # StaOf[q]
      <4>1. s \in Sta \ {StaOf[q]}
        BY <3>3
      <4> QED
        BY <2>1, <3>3, <4>1
    <3> QED
      BY <3>2, <3>3
  <2>6. \A s \in Sta : ps'[s].active => ps[s].active
    BY <2>1
  <2> DEFINE place == "fw"
  <2>7. place \in {"fw", "done"} /\ where' = [f \in Frame |-> IF f \in C THEN place ELSE where[f]]
    BY <2>4
  <2> HIDE DEF place
  <2> QED
    BY <1>2, <2>2, <2>3, <2>5, <2>6, <2>7, ReadyLeaves
<1>4. CASE ~(Pushable(txq[q]) /\ hwqCredits > 0)
  <2>1. ps' = ps /\ where' = where
    BY <1>1, <1>4
  <2> QED
    BY <1>2, <2>1, ReadyKept
<1> QED
  BY <1>3, <1>4

\* A confirmation.
LEMMA ConfirmKeepsReady ==
    ASSUME Inv, ReadyInv, Confirm
    PROVE  ReadyInv'
<1> DEFINE c == Head(toConfirm)
           f == c.frame
           q == frameTxq[f]
           again == txq[q].active /\ c.retry
<1>1. /\ f \in Frame /\ q \in Txq
      /\ again => where' = [where EXCEPT ![f] = "queued"] /\ ps' = CountReady(q, 1)
      /\ ~again => where' = [where EXCEPT ![f] = "done"] /\ ps' = ps
  BY ConfirmEffect DEF Inv
<1>2. valid' = valid /\ frameTxq' = frameTxq /\ Shapes
  BY DEF Confirm, Inv
<1>3. where[f] = "fw"
  <2>1. Len(Waiting) >= 1 /\ Waiting[1] = c
    BY FirstWaiting
  <2>2. Len(Waiting) \in Nat
    <3>1. toConfirm \in Seq(CfmRec) /\ cfms \in Seq(CfmRec)
      BY <1>2 DEF Shapes
    <3> QED
      BY <3>1 DEF Waiting
  <2>3. 1 \in 1..Len(Waiting)
    BY <2>1, <2>2
  <2>4. where[Waiting[1].frame] = "fw"
    BY <2>3 DEF Inv, CfmInv
  <2> QED
    BY <2>1, <2>4
<1>4. frameTxq' = [frameTxq EXCEPT ![f] = q]
  BY <1>1, <1>2 DEF Shapes
<1> HIDE DEF again, q, f, c
<1>5. CASE again
  <2>1. where[f] # "queued"
    BY <1>3
  <2> QED
    BY <1>1, <1>2, <1>4, <1>5, <2>1, ReadyEnters
<1>6. CASE ~again
  <2>1. \A g \in Frame : where'[g] = "queued" <=> where[g] = "queued"
    BY <1>1, <1>2, <1>3, <1>6 DEF Shapes
  <2> QED
    BY <1>1, <1>2, <1>6, <2>1, ReadyKept
<1> QED
  BY <1>5, <1>6

\* A frame is sent.
LEMMA XmitKeepsReady ==
    ASSUME Inv, ReadyInv, NEW q \in Txq, NEW f \in Frame, Xmit(q, f)
    PROVE  ReadyInv'
<1>1. /\ where[f] = "new" /\ frameTxq' = [frameTxq EXCEPT ![f] = q] /\ valid' = valid
      /\ \/ ps' = ps /\ where' = [where EXCEPT ![f] = "done"]
         \/ ps' = CountReady(q, 1) /\ where' = [where EXCEPT ![f] = "queued"]
  BY DEF Xmit
<1>2. Shapes
  BY DEF Inv
<1>3. CASE ps' = CountReady(q, 1) /\ where' = [where EXCEPT ![f] = "queued"]
  BY <1>1, <1>2, <1>3, ReadyEnters
<1>4. CASE ps' = ps /\ where' = [where EXCEPT ![f] = "done"]
  <2>1. \A g \in Frame : /\ where'[g] = "queued" <=> where[g] = "queued"
                         /\ where[g] = "queued" => frameTxq'[g] = frameTxq[g]
    BY <1>1, <1>2, <1>4 DEF Shapes
  <2> QED
    BY <1>1, <1>2, <1>4, <2>1, ReadyKept
<1> QED
  BY <1>1, <1>3, <1>4

\* The clean-up timer.
LEMMA CleanupKeepsReady ==
    ASSUME Inv, ReadyInv, NEW q \in Txq, NEW n \in 0..NbFrames, CleanupTimer(q, n)
    PROVE  ReadyInv'
<1> DEFINE C == {txq[q].list[i] : i \in (txq[q].nbRetry + 1)..(txq[q].nbRetry + n)}
           place == "done"
<1>1. Shapes /\ ListInv /\ valid' = valid /\ frameTxq' = frameTxq
  BY DEF Inv, CleanupTimer
<1>2. n \in Nat /\ txq[q].nbRetry \in Nat
  <2>1. txq[q] \in TxqRec
    BY <1>1 DEF Shapes
  <2> QED
    BY <2>1, TxqAssumption DEF TxqRec
<1>3. /\ txq[q].nbRetry + n <= Len(txq[q].list)
      /\ where' = [f \in Frame |-> IF f \in C THEN place ELSE where[f]]
      /\ ps[StaOf[q]].active =>
            \A s \in Sta, id \in PsId :
               /\ ps'[s].active = ps[s].active
               /\ ps'[s].pktReady[id] = IF s = StaOf[q] /\ id = PsIdOf[q]
                                        THEN U16(ps[s].pktReady[id] - n) ELSE ps[s].pktReady[id]
      /\ ~ps[StaOf[q]].active => ps' = ps
  BY <1>1, CleanupEffect
<1>4. C \in SUBSET Frame /\ Cardinality(C) = n /\ \A f \in C : where[f] = "queued" /\ frameTxq[f] = q
  <2> DEFINE k == txq[q].nbRetry
  <2>1. k \in Nat /\ k + n <= Len(txq[q].list)
    BY <1>2, <1>3
  <2> HIDE DEF k
  <2>2. QueuedOn(FramesAt(q, k, n), q, n)
    BY <1>1, <1>2, <2>1, FramesOfList
  <2>3. FramesAt(q, k, n) = C
    BY DEF FramesAt, k
  <2> HIDE DEF C
  <2> QED
    BY <2>2, <2>3 DEF QueuedOn
<1>5. place \in {"fw", "done"}
  OBVIOUS
<1>6. PsIdOf[q] \in PsId
  BY TxqAssumption
<1>7. \A s \in Sta : ps'[s].active => ps[s].active
  BY <1>3, <1>6
<1>8. \A s \in Sta, id \in PsId : ps'[s].active =>
         ps'[s].pktReady[id] = IF s = StaOf[q] /\ id = PsIdOf[q]
                               THEN U16(ps[s].pktReady[id] - n) ELSE ps[s].pktReady[id]
  BY <1>3
<1> HIDE DEF C, place
<1> QED
  BY <1>1, <1>2, <1>3, <1>4, <1>5, <1>7, <1>8, ReadyLeaves

\* The queues of a station that has left are emptied.
LEMMA DeinitKeepsReady ==
    ASSUME Inv, ReadyInv, NEW q \in Txq, TxqDeinit(q)
    PROVE  ReadyInv'
<1> DEFINE n == Len(txq[q].list)
           C == {txq[q].list[i] : i \in 1..n}
           place == "done"
<1>1. Shapes /\ ListInv /\ valid' = valid /\ frameTxq' = frameTxq /\ ps' = ps /\ ~valid[StaOf[q]]
  BY DEF Inv, TxqDeinit
<1>2. n \in Nat
  <2>1. txq[q] \in TxqRec
    BY <1>1 DEF Shapes
  <2> QED
    BY <2>1 DEF TxqRec
<1>3. where' = [f \in Frame |-> IF f \in C THEN place ELSE where[f]]
  BY <1>1, TxqDeinitEffect
<1>4. C \in SUBSET Frame /\ Cardinality(C) = n /\ \A f \in C : where[f] = "queued" /\ frameTxq[f] = q
  <2>1. 0 \in Nat /\ 0 + n <= Len(txq[q].list) /\ 0 + 1 = 1 /\ 0 + n = n
    BY <1>2
  <2> HIDE DEF n
  <2>2. QueuedOn(FramesAt(q, 0, n), q, n)
    BY <1>1, <1>2, <2>1, FramesOfList
  <2>3. FramesAt(q, 0, n) = C
    BY <2>1 DEF FramesAt
  <2> HIDE DEF C
  <2> QED
    BY <2>2, <2>3 DEF QueuedOn
<1>5. place \in {"fw", "done"}
  OBVIOUS
<1>6. StaOf[q] \in Sta /\ ~ps'[StaOf[q]].active
  BY <1>1, TxqAssumption DEF ReadyInv
<1>7. \A s \in Sta, id \in PsId : ps'[s].active =>
         ps'[s].pktReady[id] = IF s = StaOf[q] /\ id = PsIdOf[q]
                               THEN U16(ps[s].pktReady[id] - n) ELSE ps[s].pktReady[id]
  BY <1>1, <1>6
<1> HIDE DEF n, C, place
<1> QED
  BY <1>1, <1>2, <1>3, <1>4, <1>5, <1>7, ReadyLeaves

\* A station falls asleep, wakes up, has a service period, comes or leaves.
LEMMA StationsKeepReady ==
    ASSUME Inv, ReadyInv,
           \/ ChanSwitch
           \/ \E s \in Sta : PsOn(s) \/ PsOff(s) \/ SpInterrupted(s) \/ StaDel(s) \/ StaAdd(s)
           \/ \E s \in Sta, id \in PsId, n \in 0..MaxReq : TrafficReq(s, id, n)
    PROVE  ReadyInv'
<1>1. Shapes /\ ListInv
  BY DEF Inv
<1>2. CASE ChanSwitch
  <2>1. UNCHANGED <<where, frameTxq, valid, ps>>
    BY <1>2 DEF ChanSwitch, Indication
  <2> QED
    BY <1>1, <2>1, ReadyKept
<1>3. ASSUME NEW s \in Sta, PsOn(s) PROVE ReadyInv'
  <2>1. /\ UNCHANGED <<where, frameTxq, valid>> /\ valid[s]
        /\ ps' = [ps EXCEPT ![s] = [active   |-> TRUE,
                                    pktReady |-> [id \in PsId |-> U16(Buffered(s, id))],
                                    spCnt    |-> [id \in PsId |-> 0]]]
    BY <1>3 DEF PsOn, Indication
  <2>2. \A r \in Sta, id \in PsId : Buf(r, id)' = Buf(r, id)
    BY <2>1 DEF Buf
  <2>3. \A r \in Sta : IF r = s
                       THEN \A id \in PsId : ps'[r].pktReady[id] = U16(Buffered(s, id))
                       ELSE ps'[r] = ps[r]
    BY <1>1, <2>1 DEF Shapes
  <2>4. \A id \in PsId : Buffered(s, id) = Cardinality(Buf(s, id))
    BY <1>1, BufferedIsBuf
  <2> QED
    BY <2>1, <2>2, <2>3, <2>4 DEF ReadyInv
<1>4. ASSUME NEW s \in Sta, PsOff(s) \/ StaDel(s) PROVE ReadyInv'
  <2>1. /\ UNCHANGED <<where, frameTxq>> /\ ps' = [ps EXCEPT ![s].active = FALSE]
        /\ \A r \in Sta \ {s} : valid'[r] = valid[r]
    <3>1. CASE PsOff(s)
      BY <3>1 DEF PsOff, Indication
    <3>2. CASE StaDel(s)
      BY <1>1, <3>2 DEF StaDel, Shapes
    <3> QED
      BY <1>4, <3>1, <3>2
  <2>2. ~ps'[s].active /\ \A r \in Sta \ {s} : ps'[r] = ps[r]
    BY <1>1, <2>1 DEF Shapes, PsRec
  <2>3. \A r \in Sta : ps'[r].active =>
           /\ ps[r].active /\ valid'[r] = valid[r]
           /\ \A id \in PsId : ps'[r].pktReady[id] = ps[r].pktReady[id]
    BY <2>1, <2>2
  <2> QED
    BY <1>1, <2>1, <2>3, ReadyKept
<1>5. ASSUME NEW s \in Sta, NEW x, ps' = [ps EXCEPT ![s].spCnt = x], UNCHANGED <<where, frameTxq, valid>>
      PROVE  ReadyInv'
  <2>1. \A r \in Sta : ps'[r].active = ps[r].active /\ ps'[r].pktReady = ps[r].pktReady
    BY <1>1, <1>5 DEF Shapes, PsRec
  <2> QED
    BY <1>1, <1>5, <2>1, ReadyKept
<1>6. ASSUME NEW s \in Sta, SpInterrupted(s) PROVE ReadyInv'
  <2>1. /\ ps' = [ps EXCEPT ![s].spCnt = [ps[s].spCnt EXCEPT !["UAPSD"] = 0]]
        /\ UNCHANGED <<where, frameTxq, valid>>
    BY <1>6 DEF SpInterrupted, Indication
  <2> QED
    BY <1>5, <2>1
<1>7. ASSUME NEW s \in Sta, NEW id \in PsId, NEW n \in 0..MaxReq, TrafficReq(s, id, n) PROVE ReadyInv'
  <2>1. \E y : ps' = [ps EXCEPT ![s].spCnt[id] = y]
    BY <1>7 DEF TrafficReq
  <2>2. PICK y : ps' = [ps EXCEPT ![s].spCnt[id] = y]
    BY <2>1
  <2>3. ps' = [ps EXCEPT ![s].spCnt = [ps[s].spCnt EXCEPT ![id] = y]]
    BY <2>2
  <2>4. UNCHANGED <<where, frameTxq, valid>>
    BY <1>7 DEF TrafficReq, Indication
  <2> QED
    BY <1>5, <2>3, <2>4
<1>8. ASSUME NEW s \in Sta, StaAdd(s) PROVE ReadyInv'
  <2>1. PICK asleep \in BOOLEAN :
           ps' = [ps EXCEPT ![s] = IF asleep THEN [active |-> TRUE, pktReady |-> [id \in PsId |-> 0],
                                                   spCnt |-> [id \in PsId |-> 0]]
                                   ELSE @]
    BY <1>8 DEF StaAdd
  <2>2. /\ UNCHANGED <<where, frameTxq>> /\ valid' = [valid EXCEPT ![s] = TRUE] /\ ~valid[s]
        /\ \A q \in Txq : StaOf[q] = s => ~txq[q].active
    BY <1>8 DEF StaAdd, StaTxqs
  <2>3. \A r \in Sta, id \in PsId : Buf(r, id)' = Buf(r, id)
    BY <2>2 DEF Buf
  <2>4. \A id \in PsId : Cardinality(Buf(s, id)) = 0
    BY <2>2, NothingBuffered
  <2>5. ~ps[s].active
    BY <2>2 DEF ReadyInv
  <2>6. \A r \in Sta : r = s \/ valid[r] => valid'[r]
    BY <1>1, <2>2 DEF Shapes
  <2>7. \A r \in Sta : IF r = s THEN ps'[r].active => \A id \in PsId : ps'[r].pktReady[id] = 0
                       ELSE ps'[r] = ps[r]
    BY <1>1, <2>1, <2>5 DEF Shapes
  <2> SUFFICES ASSUME NEW r \in Sta, ps'[r].active
               PROVE  /\ valid'[r]
                      /\ \A id \in PsId : ps'[r].pktReady[id] = U16(Cardinality(Buf(r, id)'))
    BY DEF ReadyInv
  <2>8. CASE r = s
    <3>1. valid'[r] /\ \A id \in PsId : ps'[r].pktReady[id] = 0 /\ Cardinality(Buf(r, id)') = 0
      BY <2>3, <2>4, <2>6, <2>7, <2>8
    <3> QED
      BY <3>1, Sixteen
  <2>9. CASE r # s
    <3>1. ps'[r] = ps[r] /\ (valid[r] => valid'[r])
      BY <2>6, <2>7, <2>9
    <3> QED
      BY <2>3, <3>1 DEF ReadyInv
  <2> QED
    BY <2>8, <2>9
<1> QED
  BY <1>2, <1>3, <1>4, <1>6, <1>7, <1>8

\* Postponed frames and agreements exclude each other, so an update drops nothing.
LEMMA UpdateDropsNothing ==
    ASSUME Inv, RetryInv, Apart, features \in FeatureSets, NEW q \in Txq, NEW b \in BaCredits,
           CreditUpdate(q, b)
    PROVE  /\ Shapes' /\ where' = where
           /\ Len(txq'[q].list) = Len(txq[q].list) /\ txq'[q].active = txq[q].active
           /\ \A p \in Txq \ {q} : txq'[p] = txq[p]
           /\ "NDEV_FLOW_CTRL" \in txq'[q].status <=> "NDEV_FLOW_CTRL" \in txq[q].status
<1>1. "ba" \in features
  BY DEF CreditUpdate
<1>2. "retry" \notin features
  BY <1>1 DEF Apart
<1>3. txq[q].nbRetry = 0 /\ txq[q].pktPushed <= HwqSize /\ Shapes /\ ListInv
  BY <1>2, FewFrames DEF RetryInv, Inv
<1>4. /\ Shapes'
      /\ \A p \in Txq \ {q} : txq'[p] = txq[p]
      /\ txq'[q].active = txq[q].active
      /\ "NDEV_FLOW_CTRL" \in txq'[q].status <=> "NDEV_FLOW_CTRL" \in txq[q].status
  BY <1>3, CreditUpdateEffect
<1>5. PICK n \in 0..txq[q].nbRetry :
         /\ Cut(txq[q], txq'[q], 0, n)
         /\ where' = [f \in Frame |->
                        IF f \in {txq[q].list[i] : i \in 1..n} THEN "done" ELSE where[f]]
  BY <1>3, CreditUpdateEffect
<1>6. n = 0
  BY <1>3
<1>7. where' = where
  <2>1. {txq[q].list[i] : i \in 1..n} = {}
    BY <1>6
  <2> QED
    BY <1>3, <1>5, <2>1 DEF Shapes
<1>8. Len(txq'[q].list) = Len(txq[q].list)
  <2>1. Len(txq[q].list) \in Nat
    <3>1. txq[q] \in TxqRec
      BY <1>3 DEF Shapes
    <3> QED
      BY <3>1 DEF TxqRec
  <2> QED
    BY <1>5, <1>6, <2>1 DEF Cut
<1> QED
  BY <1>4, <1>7, <1>8

\* Each step counts the frames it adds to a queue or takes from it.
LEMMA ReadyNext ==
    ASSUME Inv, RetryInv, ReadyInv, Apart, features \in FeatureSets, Step
    PROVE  ReadyInv'
<1>1. Shapes
  BY DEF Inv
<1>2. ASSUME NEW q \in Txq, NEW f \in Frame, Xmit(q, f) PROVE ReadyInv'
  BY <1>2, XmitKeepsReady
<1>3. CASE VisitTxq
  BY <1>3, VisitKeepsReady
<1>4. CASE (\E f \in Frame : FwConfirm(f)) \/ Irq \/ IrqProcess \/ TailRead \/ TailWrite
  <2>1. UNCHANGED <<where, frameTxq, valid, ps>>
    BY <1>4 DEF FwConfirm, Irq, IrqProcess, TailRead, TailWrite, drvVars
  <2> QED
    BY <1>1, <2>1, ReadyKept
<1>5. CASE Confirm
  BY <1>5, ConfirmKeepsReady
<1>6. CASE \/ ChanSwitch
           \/ \E s \in Sta : PsOn(s) \/ PsOff(s) \/ SpInterrupted(s) \/ StaDel(s) \/ StaAdd(s)
           \/ \E s \in Sta, id \in PsId, n \in 0..MaxReq : TrafficReq(s, id, n)
  BY <1>6, StationsKeepReady
<1>7. ASSUME NEW q \in Txq, NEW b \in BaCredits, CreditUpdate(q, b) PROVE ReadyInv'
  <2>1. UNCHANGED <<frameTxq, valid, ps>>
    BY <1>7 DEF CreditUpdate, Indication
  <2>2. where' = where
    BY <1>7, UpdateDropsNothing
  <2> QED
    BY <1>1, <2>1, <2>2, ReadyKept
<1>8. ASSUME NEW q \in Txq, NEW n \in 0..NbFrames, CleanupTimer(q, n) PROVE ReadyInv'
  BY <1>8, CleanupKeepsReady
<1>9. ASSUME NEW q \in Txq, TxqDeinit(q) PROVE ReadyInv'
  BY <1>9, DeinitKeepsReady
<1> QED
  BY <1>2, <1>3, <1>4, <1>5, <1>6, <1>7, <1>8, <1>9 DEF Step

-----------------------------------------------------------------------------
(* Flow control                                                            *)

\* The flags, the netdev queues and the lists stay as they are.
LEMMA FlowStays ==
    ASSUME FlowInv, features' = features, UNCHANGED <<valid, ndevStopped, cleanup>>,
           \A q \in Txq : /\ txq'[q].active = txq[q].active /\ txq'[q].list = txq[q].list
                          /\ "NDEV_FLOW_CTRL" \in txq'[q].status <=> "NDEV_FLOW_CTRL" \in txq[q].status
    PROVE  FlowInv'
BY DEF FlowInv, TailOf

\* Queue q changes and the others do not.
LEMMA FlowOne ==
    ASSUME FlowInv, "delete" \notin features, features' = features, valid' = valid, NEW q \in Txq,
           \A p \in Txq \ {q} : txq'[p] = txq[p],
           txq'[q].active,
           cleanup' = cleanup \/ cleanup.step = "none",
           \/ Restarted(q)
           \/ /\ FlowKept(q)
              /\ "NDEV_FLOW_CTRL" \in txq[q].status => txq'[q].list # <<>> \/ TailOf(q)'
           \/ StoppedIfFull(q) /\ txq'[q].list # <<>>
    PROVE  FlowInv'
<1>1. /\ \A s \in Sta : valid'[s]
      /\ "NDEV_FLOW_CTRL" \in txq[q].status <=> q \in ndevStopped
  BY DEF FlowInv
<1>2. ASSUME NEW p \in Txq
      PROVE  /\ txq'[p].active
             /\ "NDEV_FLOW_CTRL" \in txq'[p].status <=> p \in ndevStopped'
             /\ p \in ndevStopped' => txq'[p].list # <<>> \/ TailOf(p)'
  <2>1. CASE p = q
    BY <1>1, <2>1 DEF Restarted, FlowKept, StoppedIfFull
  <2>2. CASE p # q
    <3>1. txq'[p] = txq[p] /\ (p \in ndevStopped' <=> p \in ndevStopped)
      BY <2>2 DEF Restarted, FlowKept, StoppedIfFull
    <3>2. /\ txq[p].active
          /\ "NDEV_FLOW_CTRL" \in txq[p].status <=> p \in ndevStopped
          /\ p \in ndevStopped => txq[p].list # <<>> \/ TailOf(p)
      BY DEF FlowInv
    <3>3. TailOf(p) => TailOf(p)'
      BY DEF TailOf
    <3> QED
      BY <3>1, <3>2, <3>3
  <2> QED
    BY <2>1, <2>2
<1> QED
  BY <1>1, <1>2 DEF FlowInv

\* A list with a frame is not empty.
LEMMA NotEmpty ==
    ASSUME NEW t \in TxqRec
    PROVE  t.list # <<>> <=> Len(t.list) > 0
BY DEF TxqRec

\* Each step keeps the flag and the netdev queue together.
LEMMA FlowNext ==
    ASSUME Inv, RetryInv, FlowInv, Apart, features \in FeatureSets, Step, features' = features
    PROVE  FlowInv'
<1> SUFFICES ASSUME "delete" \notin features PROVE FlowInv'
  BY DEF FlowInv
<1>1. /\ Shapes /\ ListInv /\ \A s \in Sta : valid[s]
      /\ \A q \in Txq : /\ txq[q] \in TxqRec /\ txq[q].active /\ Len(txq[q].list) \in Nat
                        /\ "NDEV_FLOW_CTRL" \in txq[q].status <=> q \in ndevStopped
                        /\ q \in ndevStopped => txq[q].list # <<>> \/ TailOf(q)
  <2>1. \A q \in Txq : txq[q] \in TxqRec
    BY DEF Inv, Shapes
  <2> QED
    BY <2>1 DEF Inv, FlowInv, TxqRec
<1>2. ASSUME NEW q \in Txq, NEW f \in Frame, Xmit(q, f) PROVE FlowInv'
  <2>1. valid' = valid /\ cleanup' = cleanup
    BY <1>2 DEF Xmit
  <2>2. /\ Shapes' /\ Queued(txq[q], txq'[q], f, FALSE) /\ StoppedIfFull(q)
        /\ \A p \in Txq \ {q} : txq'[p] = txq[p]
    BY <1>1, <1>2, XmitEffect
  <2>3. txq'[q].active /\ txq'[q].list # <<>>
    <3>1. txq'[q] \in TxqRec /\ txq'[q].active /\ Len(txq'[q].list) = Len(txq[q].list) + 1
      BY <1>1, <2>2 DEF Queued
    <3> QED
      BY <1>1, <3>1, NotEmpty
  <2> QED
    BY <2>1, <2>2, <2>3, FlowOne
<1>3. CASE VisitTxq
  <2>1. valid' = valid /\ cleanup' = cleanup
    BY <1>3 DEF VisitTxq
  <2>2. PICK q \in Txq : IF Pushable(txq[q]) /\ hwqCredits > 0 THEN PushTxq(q)
                         ELSE UNCHANGED <<txq, hwList, hwqCredits, ps, ndevStopped, where, pushed>>
    BY <1>3 DEF VisitTxq
  <2>3. CASE Pushable(txq[q]) /\ hwqCredits > 0
    <3>1. /\ txq'[q].active /\ \A p \in Txq \ {q} : txq'[p] = txq[p]
          /\ txq' \in [Txq -> TxqRec]
          /\ \/ Restarted(q)
             \/ /\ FlowKept(q)
                /\ "NDEV_FLOW_CTRL" \in txq[q].status => Len(txq'[q].list) >= FlowRestart
      BY <1>1, <2>2, <2>3, VisitPushes
    <3>2. Len(txq'[q].list) >= FlowRestart => txq'[q].list # <<>>
      <4>1. txq'[q] \in TxqRec
        BY <3>1
      <4>2. Len(txq'[q].list) \in Nat
        BY <4>1 DEF TxqRec
      <4>3. Len(txq'[q].list) >= FlowRestart => Len(txq'[q].list) > 0
        BY <4>2, TxqAssumption
      <4> QED
        BY <4>1, <4>3, NotEmpty
    <3> QED
      BY <2>1, <3>1, <3>2, FlowOne
  <2>4. CASE ~(Pushable(txq[q]) /\ hwqCredits > 0)
    <3>1. txq' = txq /\ ndevStopped' = ndevStopped
      BY <2>2, <2>4
    <3> QED
      BY <2>1, <3>1, FlowStays
  <2> QED
    BY <2>3, <2>4
<1>4. CASE (\E f \in Frame : FwConfirm(f)) \/ Irq \/ IrqProcess
  <2>1. UNCHANGED <<txq, valid, ndevStopped, cleanup>>
    BY <1>4 DEF FwConfirm, Irq, IrqProcess, drvVars
  <2> QED
    BY <2>1, FlowStays
<1>5. CASE Confirm
  <2>1. valid' = valid /\ cleanup' = cleanup
    BY <1>5 DEF Confirm
  <2>2. PICK q \in Txq, f \in Frame, again \in BOOLEAN :
           /\ \A p \in Txq \ {q} : txq'[p] = txq[p]
           /\ again => Queued(txq[q], txq'[q], f, TRUE) /\ StoppedIfFull(q)
           /\ ~again => SameList(txq[q], txq'[q]) /\ FlowKept(q)
    <3> DEFINE x == Head(toConfirm)
               g == x.frame
               p == frameTxq[g]
    <3>1. /\ g \in Frame /\ p \in Txq /\ \A r \in Txq \ {p} : txq'[r] = txq[r]
          /\ txq[p].active /\ x.retry => Queued(txq[p], txq'[p], g, TRUE) /\ StoppedIfFull(p)
          /\ ~(txq[p].active /\ x.retry) => SameList(txq[p], txq'[p]) /\ FlowKept(p)
      BY <1>1, <1>5, ConfirmEffect
    <3> HIDE DEF p, g, x
    <3>2. CASE txq[p].active /\ x.retry
      BY <3>1, <3>2
    <3>3. CASE ~(txq[p].active /\ x.retry)
      BY <3>1, <3>3
    <3> QED
      BY <3>2, <3>3
  <2>3. CASE again
    <3>1. txq'[q] \in TxqRec /\ txq'[q].active /\ Len(txq'[q].list) = Len(txq[q].list) + 1
      BY <1>1, <2>2, <2>3 DEF Queued
    <3>2. txq'[q].list # <<>>
      BY <1>1, <2>2, <3>1, NotEmpty
    <3> QED
      BY <2>1, <2>2, <2>3, <3>1, <3>2, FlowOne
  <2>4. CASE ~again
    <3>1. txq'[q].active /\ txq'[q].list = txq[q].list
      BY <1>1, <2>2, <2>4 DEF SameList
    <3>2. TailOf(q)' <=> TailOf(q)
      BY <2>1 DEF TailOf
    <3>3. "NDEV_FLOW_CTRL" \in txq[q].status => txq'[q].list # <<>> \/ TailOf(q)'
      BY <1>1, <2>2, <3>1, <3>2
    <3> QED
      BY <2>1, <2>2, <2>4, <3>1, <3>3, FlowOne
  <2> QED
    BY <2>3, <2>4
<1>6. CASE \/ ChanSwitch
           \/ \E s \in Sta : PsOn(s) \/ PsOff(s) \/ SpInterrupted(s)
           \/ \E s \in Sta, id \in PsId, n \in 0..MaxReq : TrafficReq(s, id, n)
  <2>1. \A p \in Txq : Schedules(txq[p], txq'[p])
    BY <1>1, <1>6, ChanSwitchSchedules, PsOnSchedules, PsOffSchedules, TrafficReqSchedules,
       SpInterruptedSchedules
  <2>2. UNCHANGED <<valid, ndevStopped, cleanup>>
    BY <1>6, SchedulingKeeps
  <2> QED
    BY <2>1, <2>2, FlowStays DEF Schedules
<1>7. ASSUME NEW q \in Txq, NEW b \in BaCredits, CreditUpdate(q, b) PROVE FlowInv'
  <2>1. UNCHANGED <<valid, ndevStopped, cleanup>>
    BY <1>7 DEF CreditUpdate, Indication
  <2>2. /\ Shapes' /\ Len(txq'[q].list) = Len(txq[q].list) /\ txq'[q].active = txq[q].active
        /\ \A p \in Txq \ {q} : txq'[p] = txq[p]
        /\ "NDEV_FLOW_CTRL" \in txq'[q].status <=> "NDEV_FLOW_CTRL" \in txq[q].status
    BY <1>7, UpdateDropsNothing
  <2>3. FlowKept(q)
    BY <2>1, <2>2 DEF FlowKept
  <2>4. txq[q].list # <<>> => txq'[q].list # <<>>
    <3>1. txq'[q] \in TxqRec
      BY <2>2 DEF Shapes
    <3> QED
      BY <1>1, <2>2, <3>1, NotEmpty
  <2>5. TailOf(q)' <=> TailOf(q)
    BY <2>1 DEF TailOf
  <2>6. txq'[q].active
    BY <1>1, <2>2
  <2>7. "NDEV_FLOW_CTRL" \in txq[q].status => txq'[q].list # <<>> \/ TailOf(q)'
    BY <1>1, <2>4, <2>5
  <2> QED
    BY <2>1, <2>2, <2>3, <2>6, <2>7, FlowOne
<1>8. ASSUME NEW q \in Txq, NEW n \in 0..NbFrames, CleanupTimer(q, n) PROVE FlowInv'
  <2>1. valid' = valid /\ cleanup.step = "none"
    BY <1>8 DEF CleanupTimer
  <2>2. /\ \A p \in Txq \ {q} : txq'[p] = txq[p]
        /\ txq'[q].active
        /\ \/ Restarted(q)
           \/ /\ FlowKept(q)
              /\ \/ cleanup'.step # "none" /\ cleanup'.of = q
                 \/ "NDEV_FLOW_CTRL" \in txq[q].status => txq'[q].list # <<>>
    BY <1>1, <1>8, CleanupEffect
  <2>3. \/ Restarted(q)
        \/ /\ FlowKept(q)
           /\ "NDEV_FLOW_CTRL" \in txq[q].status => txq'[q].list # <<>> \/ TailOf(q)'
    BY <2>2 DEF TailOf
  <2> QED
    BY <2>1, <2>2, <2>3, FlowOne
<1>9. CASE TailRead
  <2>1. /\ UNCHANGED <<txq, valid, ndevStopped>>
        /\ cleanup' = IF Drained(txq[cleanup.of])
                      THEN [cleanup EXCEPT !.step = "write", !.status = txq[cleanup.of].status]
                      ELSE NoTail
    BY <1>9 DEF TailRead, drvVars
  <2>2. cleanup.of \in Txq /\ cleanup \in [step : {"none", "read", "write"}, of : Txq, status : SUBSET Status]
    BY <1>1 DEF Shapes
  <2>3. ASSUME NEW q \in Txq, q \in ndevStopped PROVE txq[q].list # <<>> \/ TailOf(q)'
    <3>1. CASE Drained(txq[cleanup.of])
      <4>1. cleanup'.step = "write" /\ cleanup'.of = cleanup.of
        BY <2>1, <2>2, <3>1
      <4> QED
        BY <1>1, <2>3, <4>1 DEF TailOf
    <3>2. CASE ~Drained(txq[cleanup.of])
      BY <1>1, <2>3, <3>2 DEF Drained, TailOf
    <3> QED
      BY <3>1, <3>2
  <2> QED
    BY <1>1, <2>1, <2>3 DEF FlowInv
<1>10. CASE TailWrite
  <2>1. /\ txq' = [txq EXCEPT ![cleanup.of].status = cleanup.status \ {"NDEV_FLOW_CTRL"}]
        /\ ndevStopped' = ndevStopped \ {cleanup.of} /\ valid' = valid
    BY <1>10 DEF TailWrite
  <2>2. cleanup.of \in Txq
    BY <1>1 DEF Shapes
  <2>3. \A q \in Txq \ {cleanup.of} : txq'[q] = txq[q]
    BY <1>1, <2>1 DEF Shapes
  <2>4. txq'[cleanup.of].active /\ "NDEV_FLOW_CTRL" \notin txq'[cleanup.of].status
    BY <1>1, <2>1, <2>2 DEF Shapes, TxqRec
  <2>5. \A q \in Txq \ {cleanup.of} : ~TailOf(q)
    BY DEF TailOf
  <2>6. ASSUME NEW q \in Txq
        PROVE  /\ txq'[q].active
               /\ "NDEV_FLOW_CTRL" \in txq'[q].status <=> q \in ndevStopped'
               /\ q \in ndevStopped' => txq'[q].list # <<>>
    <3>1. CASE q = cleanup.of
      BY <2>1, <2>4, <3>1
    <3>2. CASE q # cleanup.of
      BY <1>1, <2>1, <2>3, <2>5, <3>2
    <3> QED
      BY <3>1, <3>2
  <2> QED
    BY <1>1, <2>1, <2>6 DEF FlowInv
<1>11. CASE \/ \E s \in Sta : StaDel(s) \/ StaAdd(s)
            \/ \E q \in Txq : TxqDeinit(q)
  <2>1. \A q \in Txq : StaOf[q] \in Sta
    BY TxqAssumption
  <2> QED
    BY <1>1, <1>11, <2>1 DEF StaDel, StaAdd, TxqDeinit
<1> QED
  BY <1>2, <1>3, <1>4, <1>5, <1>6, <1>7, <1>8, <1>9, <1>10, <1>11 DEF Step

-----------------------------------------------------------------------------
(* The theorems                                                            *)

FlowAll == Inv /\ features \in FeatureSets /\ RetryInv /\ ReadyInv /\ FlowInv

\* In the beginning nothing is queued and nothing is stopped.
LEMMA InitFlow == Init => FlowAll
<1> SUFFICES ASSUME Init PROVE FlowAll
  OBVIOUS
<1>1. Inv
  BY InitInv
<1>2. /\ \A q \in Txq : /\ txq[q].nbRetry = 0 /\ txq[q].active
                        /\ "NDEV_FLOW_CTRL" \notin txq[q].status
      /\ Waiting = <<>> /\ ndevStopped = {} /\ features \in FeatureSets
      /\ \A s \in Sta : valid[s] /\ ~ps[s].active
  BY DEF Init, InitTxq, Waiting
<1>3. RetryInv
  <2>1. Len(Waiting) = 0
    BY <1>2
  <2> QED
    BY <1>2, <2>1 DEF RetryInv
<1> QED
  BY <1>1, <1>2, <1>3 DEF FlowAll, ReadyInv, FlowInv

\* Each step keeps the three invariants.
LEMMA NextFlow == ASSUME Apart, FlowAll, [Next]_<<vars, conf>> PROVE FlowAll'
<1>1. Inv /\ features \in FeatureSets /\ RetryInv /\ ReadyInv /\ FlowInv
  BY DEF FlowAll
<1>2. Inv'
  BY <1>1, NextInv
<1>3. CASE Next
  <2>1. Step /\ features' = features
    BY <1>3 DEF Next, conf
  <2>2. RetryInv' /\ ReadyInv' /\ FlowInv'
    BY <1>1, <2>1, RetryNext, ReadyNext, FlowNext
  <2> QED
    BY <1>1, <1>2, <2>1, <2>2 DEF FlowAll
<1>4. CASE UNCHANGED <<vars, conf>>
  <2>1. UNCHANGED <<txq, ps, valid, where, frameTxq, cfms, toConfirm, ndevStopped, cleanup, features>>
    BY <1>4 DEF vars, drvVars, conf
  <2>2. RetryInv'
    BY <1>1, <2>1 DEF RetryInv, Waiting
  <2>3. ReadyInv'
    BY <1>1, <2>1, ReadyKept DEF Inv
  <2>4. FlowInv'
    BY <1>1, <2>1, FlowStays
  <2> QED
    BY <1>1, <1>2, <2>1, <2>2, <2>3, <2>4 DEF FlowAll
<1> QED
  BY <1>3, <1>4

\* ps.pkt_ready counts the frames buffered for a sleeping station, whatever is sent,
\* pushed, postponed, dropped or deleted while it sleeps.
THEOREM PktReadyIsExact == ASSUME Apart PROVE Spec => []PktReadyExact
<1>1. ASSUME FlowAll PROVE PktReadyExact
  <2>1. Shapes /\ ListInv /\ ReadyInv
    BY <1>1 DEF FlowAll, Inv
  <2>2. \A s \in Sta, id \in PsId : Buffered(s, id) = Cardinality(Buf(s, id))
    BY <2>1, BufferedIsBuf
  <2> QED
    BY <2>1, <2>2 DEF ReadyInv, PktReadyExact
<1> QED
  BY <1>1, InitFlow, NextFlow, PTL DEF Spec

\* The netdev queue is stopped exactly while AML_TXQ_NDEV_FLOW_CTRL says so, and a
\* stopped one has frames whose departure wakes it.
THEOREM FlowControlIsExact == ASSUME Apart PROVE Spec => []FlowControlExact
<1>1. ASSUME FlowAll PROVE FlowControlExact
  BY <1>1 DEF FlowAll, FlowInv, FlowControlExact, TailOf
<1> QED
  BY <1>1, InitFlow, NextFlow, PTL DEF Spec

-----------------------------------------------------------------------------
(* The list of queues                                                      *)

\* The elements of at up to i.
Upto(at, i) == { j \in at : j <= i }

\* The number of the elements up to i tells the elements of a set apart, and takes each value
\* up to their number.
LEMMA Numbering ==
    ASSUME NEW n \in Nat, NEW at \in SUBSET (1..n)
    PROVE  /\ Cardinality(at) \in Nat
           /\ \A i \in at : Cardinality(Upto(at, i)) \in 1..Cardinality(at)
           /\ \A i, j \in at : Cardinality(Upto(at, i)) = Cardinality(Upto(at, j)) => i = j
           /\ \A k \in 1..Cardinality(at) : \E i \in at : Cardinality(Upto(at, i)) = k
<1> DEFINE c == Cardinality(at)
           g == [i \in at |-> Cardinality(Upto(at, i))]
<1>1. IsFiniteSet(at) /\ c \in Nat
  <2>1. IsFiniteSet(1..n)
    BY FS_Interval
  <2> QED
    BY <2>1, FS_Subset, FS_CardinalityType
<1>2. \A i \in at : /\ IsFiniteSet(Upto(at, i)) /\ Cardinality(Upto(at, i)) \in Nat
                    /\ Cardinality(Upto(at, i)) <= c
  <2> TAKE i \in at
  <2>1. Upto(at, i) \in SUBSET at
    BY DEF Upto
  <2> QED
    BY <1>1, <2>1, FS_Subset, FS_CardinalityType
<1>3. \A i \in at : Cardinality(Upto(at, i)) # 0
  <2> TAKE i \in at
  <2>1. i \in Upto(at, i)
    <3>1. i \in Nat
      OBVIOUS
    <3> QED
      BY <3>1 DEF Upto
  <2> QED
    BY <1>2, <2>1, FS_EmptySet
<1>4. \A i \in at : g[i] \in 1..c
  BY <1>1, <1>2, <1>3
<1>5. \A i, j \in at : i < j => g[i] # g[j]
  <2> SUFFICES ASSUME NEW i \in at, NEW j \in at, i < j
               PROVE  Cardinality(Upto(at, i)) # Cardinality(Upto(at, j))
    OBVIOUS
  <2>1. Upto(at, i) \in SUBSET Upto(at, j) /\ j \in Upto(at, j) /\ j \notin Upto(at, i)
    <3>1. i \in Nat /\ j \in Nat /\ \A k \in at : k \in Nat
      OBVIOUS
    <3>2. \A k \in at : k <= i => k <= j
      BY <3>1
    <3>3. j <= j /\ ~(j <= i)
      BY <3>1
    <3> QED
      BY <3>2, <3>3, Zenon DEF Upto
  <2>2. Upto(at, i) # Upto(at, j)
    BY <2>1
  <2> QED
    BY <1>2, <2>1, <2>2, FS_Subset
<1>6. \A i, j \in at : g[i] = g[j] => i = j
  <2> SUFFICES ASSUME NEW i \in at, NEW j \in at, i # j PROVE g[i] # g[j]
    OBVIOUS
  <2>1. i < j \/ j < i
    OBVIOUS
  <2> QED
    BY <1>5, <2>1
<1>7. g \in Injection(at, 1..c)
  BY <1>4, <1>6 DEF Injection, IsInjective
<1>8. IsFiniteSet(1..c) /\ Cardinality(1..c) = c
  <2>1. 1 \in Int /\ c \in Int
    BY <1>1
  <2>2. IsFiniteSet(1..c) /\ Cardinality(1..c) = IF 1 > c THEN 0 ELSE c - 1 + 1
    BY <2>1, FS_Interval
  <2> QED
    BY <1>1, <2>2
<1>9. g \in Surjection(at, 1..c)
  BY <1>7, <1>8, FS_Injection
<1>10. \A k \in 1..c : \E i \in at : g[i] = k
  BY <1>9 DEF Surjection
<1> QED
  BY <1>1, <1>4, <1>6, <1>10

\* OnlyOf keeps the elements in S, each in one place.
LEMMA OnlyOfKeeps ==
    ASSUME NEW l \in Seq(Txq), IsInjective(l), NEW S
    PROVE  /\ OnlyOf(l, S) \in Seq(Txq) /\ IsInjective(OnlyOf(l, S))
           /\ ToSet(OnlyOf(l, S)) = ToSet(l) \cap S
<1> DEFINE at == { i \in DOMAIN l : l[i] \in S }
           c  == Cardinality(at)
           h  == [k \in 1..c |-> CHOOSE i \in at : Cardinality(Upto(at, i)) = k]
           o  == [k \in 1..c |-> l[h[k]]]
<1>1. DOMAIN l = 1..Len(l) /\ Len(l) \in Nat /\ at \in SUBSET (1..Len(l))
  OBVIOUS
<1>2. OnlyOf(l, S) = o
  BY DEF OnlyOf, Upto
<1>3. c \in Nat /\ \A k \in 1..c : h[k] \in at /\ Cardinality(Upto(at, h[k])) = k
  <2>1. c \in Nat /\ \A k \in 1..c : \E i \in at : Cardinality(Upto(at, i)) = k
    BY <1>1, Numbering
  <2> HIDE DEF at, c
  <2> QED
    BY <2>1
<1>4. \A i \in at : \E k \in 1..c : h[k] = i
  <2> TAKE i \in at
  <2>1. Cardinality(Upto(at, i)) \in 1..c
    BY <1>1, Numbering
  <2>2. \A j \in at : Cardinality(Upto(at, i)) = Cardinality(Upto(at, j)) => i = j
    BY <1>1, Numbering
  <2> HIDE DEF at, c, h
  <2>3. h[Cardinality(Upto(at, i))] = i
    BY <1>3, <2>1, <2>2
  <2> QED
    BY <2>1, <2>3
<1>5. \A i \in at : i \in DOMAIN l /\ l[i] \in Txq /\ l[i] \in S
  OBVIOUS
<1>6. \A i \in DOMAIN l : l[i] \in S => i \in at
  OBVIOUS
<1> HIDE DEF at, h
<1>7. o \in Seq(Txq) /\ DOMAIN o = 1..c
  <2>1. o \in [1..c -> Txq]
    BY <1>3, <1>5
  <2> QED
    BY <1>3, <2>1
<1>8. IsInjective(o)
  <2> SUFFICES ASSUME NEW k \in 1..c, NEW m \in 1..c, l[h[k]] = l[h[m]] PROVE k = m
    BY <1>7 DEF IsInjective
  <2>1. h[k] = h[m]
    BY <1>3, <1>5 DEF IsInjective
  <2> QED
    BY <1>3, <2>1
<1>9. ToSet(o) = ToSet(l) \cap S
  <2>1. \A k \in 1..c : o[k] \in ToSet(l) \cap S
    BY <1>3, <1>5 DEF ToSet
  <2>2. \A i \in DOMAIN l : l[i] \in S => \E k \in 1..c : o[k] = l[i]
    BY <1>4, <1>6
  <2> HIDE DEF o
  <2> QED
    BY <1>7, <2>1, <2>2 DEF ToSet
<1> QED
  BY <1>2, <1>7, <1>8, <1>9

\* A list whose elements are those of two lists without a common one.
LEMMA TwoLists ==
    ASSUME NEW a \in Seq(Txq), NEW b \in Seq(Txq), IsInjective(a), IsInjective(b),
           ToSet(a) \cap ToSet(b) = {}
    PROVE  (a \o b) \in Seq(Txq) /\ IsInjective(a \o b) /\ ToSet(a \o b) = ToSet(a) \cup ToSet(b)
<1> DEFINE c == a \o b
<1>1. /\ DOMAIN a = 1..Len(a) /\ Len(a) \in Nat /\ DOMAIN b = 1..Len(b) /\ Len(b) \in Nat
      /\ c \in Seq(Txq) /\ Len(c) = Len(a) + Len(b) /\ DOMAIN c = 1..(Len(a) + Len(b))
      /\ \A i \in 1..(Len(a) + Len(b)) : c[i] = IF i <= Len(a) THEN a[i] ELSE b[i - Len(a)]
  OBVIOUS
<1> HIDE DEF c
<1>2. /\ \A i \in 1..Len(a) : i \in DOMAIN c /\ c[i] = a[i]
      /\ \A i \in 1..Len(b) : i + Len(a) \in DOMAIN c /\ c[i + Len(a)] = b[i]
  <2>1. ASSUME NEW i \in 1..Len(a) PROVE i \in DOMAIN c /\ c[i] = a[i]
    BY <1>1
  <2>2. ASSUME NEW i \in 1..Len(b) PROVE i + Len(a) \in DOMAIN c /\ c[i + Len(a)] = b[i]
    <3>1. /\ i + Len(a) \in 1..(Len(a) + Len(b)) /\ ~(i + Len(a) <= Len(a))
          /\ (i + Len(a)) - Len(a) = i
      BY <1>1
    <3> QED
      BY <1>1, <3>1
  <2> QED
    BY <2>1, <2>2
<1>3. \A i \in DOMAIN c : \/ i \in 1..Len(a) /\ c[i] = a[i]
                          \/ i - Len(a) \in 1..Len(b) /\ c[i] = b[i - Len(a)]
  BY <1>1
<1>4. \A i \in 1..Len(a), j \in 1..Len(b) : a[i] # b[j]
  BY <1>1 DEF ToSet
<1>5. ToSet(c) = ToSet(a) \cup ToSet(b)
  <2>1. \A x \in ToSet(c) : x \in ToSet(a) \cup ToSet(b)
    BY <1>1, <1>3 DEF ToSet
  <2>2. \A x \in ToSet(a) : x \in ToSet(c)
    BY <1>1, <1>2 DEF ToSet
  <2>3. \A x \in ToSet(b) : x \in ToSet(c)
    <3> TAKE x \in ToSet(b)
    <3>1. PICK i \in 1..Len(b) : x = b[i]
      BY <1>1 DEF ToSet
    <3>2. i + Len(a) \in DOMAIN c /\ c[i + Len(a)] = x
      BY <1>2, <3>1
    <3> QED
      BY <3>2 DEF ToSet
  <2> QED
    BY <2>1, <2>2, <2>3
<1>6. ASSUME NEW i \in DOMAIN c, NEW j \in DOMAIN c, c[i] = c[j] PROVE i = j
  <2>0. i \in Nat /\ j \in Nat
    BY <1>1
  <2>1. CASE i \in 1..Len(a) /\ c[i] = a[i] /\ j \in 1..Len(a) /\ c[j] = a[j]
    BY <1>1, <1>6, <2>1 DEF IsInjective
  <2>2. CASE /\ i - Len(a) \in 1..Len(b) /\ c[i] = b[i - Len(a)]
             /\ j - Len(a) \in 1..Len(b) /\ c[j] = b[j - Len(a)]
    <3>1. i - Len(a) = j - Len(a)
      BY <1>1, <1>6, <2>2 DEF IsInjective
    <3> QED
      BY <1>1, <2>0, <3>1
  <2>3. CASE i \in 1..Len(a) /\ c[i] = a[i] /\ j - Len(a) \in 1..Len(b) /\ c[j] = b[j - Len(a)]
    BY <1>4, <1>6, <2>3
  <2>4. CASE j \in 1..Len(a) /\ c[j] = a[j] /\ i - Len(a) \in 1..Len(b) /\ c[i] = b[i - Len(a)]
    BY <1>4, <1>6, <2>4
  <2> QED
    BY <1>3, <2>1, <2>2, <2>3, <2>4
<1> QED
  BY <1>1, <1>5, <1>6 DEF c, IsInjective

\* list_add_tail, and moving the first element to the tail.
LEMMA AtTheTail ==
    ASSUME NEW l \in Seq(Txq), IsInjective(l)
    PROVE  /\ \A q \in Txq \ ToSet(l) : /\ Append(l, q) \in Seq(Txq) /\ IsInjective(Append(l, q))
                                        /\ ToSet(Append(l, q)) = ToSet(l) \cup {q}
           /\ l # <<>> => /\ Append(Tail(l), Head(l)) \in Seq(Txq)
                          /\ IsInjective(Append(Tail(l), Head(l)))
                          /\ ToSet(Append(Tail(l), Head(l))) = ToSet(l)
<1>1. ASSUME NEW m \in Seq(Txq), IsInjective(m), NEW q \in Txq \ ToSet(m)
      PROVE  /\ Append(m, q) \in Seq(Txq) /\ IsInjective(Append(m, q))
             /\ ToSet(Append(m, q)) = ToSet(m) \cup {q}
  <2>1. <<q>> \in Seq(Txq) /\ IsInjective(<<q>>) /\ ToSet(<<q>>) = {q}
    <3>1. <<q>> \in Seq(Txq) /\ DOMAIN <<q>> = {1} /\ <<q>>[1] = q
      OBVIOUS
    <3> QED
      BY <3>1 DEF IsInjective, ToSet
  <2>2. Append(m, q) = m \o <<q>>
    OBVIOUS
  <2>3. ToSet(m) \cap {q} = {}
    OBVIOUS
  <2> QED
    BY <1>1, <2>1, <2>2, <2>3, TwoLists
<1>2. ASSUME l # <<>>
      PROVE  /\ Tail(l) \in Seq(Txq) /\ IsInjective(Tail(l)) /\ Head(l) \in Txq \ ToSet(Tail(l))
             /\ ToSet(l) = ToSet(Tail(l)) \cup {Head(l)}
  <2>1. /\ Len(l) \in Nat /\ Len(l) >= 1 /\ DOMAIN l = 1..Len(l) /\ Head(l) = l[1]
        /\ Tail(l) \in Seq(Txq) /\ DOMAIN Tail(l) = 1..(Len(l) - 1)
        /\ \A i \in 1..(Len(l) - 1) : Tail(l)[i] = l[i + 1]
    BY <1>2
  <2>2. \A i \in 1..(Len(l) - 1) : i + 1 \in DOMAIN l /\ i + 1 # 1
    BY <2>1
  <2>3. 1 \in DOMAIN l
    BY <2>1
  <2> DEFINE u == Tail(l)
  <2>4. ASSUME NEW i \in DOMAIN u, NEW j \in DOMAIN u, u[i] = u[j] PROVE i = j
    <3>1. l[i + 1] = l[j + 1] /\ i + 1 \in DOMAIN l /\ j + 1 \in DOMAIN l /\ i \in Nat /\ j \in Nat
      BY <2>1, <2>2, <2>4
    <3>2. i + 1 = j + 1
      BY <3>1 DEF IsInjective
    <3> QED
      BY <3>1, <3>2
  <2>5. \A i \in DOMAIN u : u[i] # l[1]
    <3> SUFFICES ASSUME NEW i \in DOMAIN u PROVE l[i + 1] # l[1]
      BY <2>1
    <3>1. i \in 1..(Len(l) - 1)
      BY <2>1
    <3>2. i + 1 \in DOMAIN l /\ i + 1 # 1
      BY <2>2, <3>1
    <3> QED
      BY <2>3, <3>2 DEF IsInjective
  <2>6. \A i \in DOMAIN l : i = 1 \/ (i - 1 \in DOMAIN u /\ u[i - 1] = l[i])
    BY <2>1
  <2>7. \A i \in DOMAIN u : u[i] = l[i + 1] /\ i + 1 \in DOMAIN l
    BY <2>1, <2>2
  <2>8. l[1] \in Txq
    BY <2>3
  <2>9. u \in Seq(Txq) /\ Head(l) = l[1]
    BY <2>1
  <2> HIDE DEF u
  <2>10. ToSet(l) = ToSet(u) \cup {l[1]}
    <3>1. \A x \in ToSet(l) : x \in ToSet(u) \cup {l[1]}
      BY <2>6 DEF ToSet
    <3>2. \A x \in ToSet(u) : x \in ToSet(l)
      BY <2>7 DEF ToSet
    <3>3. l[1] \in ToSet(l)
      BY <2>3 DEF ToSet
    <3> QED
      BY <3>1, <3>2, <3>3
  <2>11. IsInjective(u) /\ l[1] \notin ToSet(u)
    BY <2>4, <2>5 DEF IsInjective, ToSet
  <2> QED
    BY <2>8, <2>9, <2>10, <2>11 DEF u
<1>3. ASSUME l # <<>>
      PROVE  /\ Append(Tail(l), Head(l)) \in Seq(Txq) /\ IsInjective(Append(Tail(l), Head(l)))
             /\ ToSet(Append(Tail(l), Head(l))) = ToSet(l)
  BY <1>1, <1>2, <1>3
<1> QED
  BY <1>1, <1>3

-----------------------------------------------------------------------------
(* The list and the status bits                                            *)

\* Environments in which nobody steps into the unlocked end of the clean-up timer.
NoRace == \A F \in FeatureSets : "race" \notin F

\* A queue on the list belongs to a station that is there.
LinkOk(t) == Linked(t) => t.active

\* The list is a sequence of queues that agrees with the bits.
HwListOk == hwList \in Seq(Txq) /\ ListSound

\* A sleeping station is there, and the queues of one that is there are active.
StationsOk ==
    \A s \in Sta : /\ ps[s].active => valid[s]
                   /\ valid[s] => \A q \in Txq : StaOf[q] = s => txq[q].active

\* Nobody is in the unlocked end of the clean-up timer.
TailOff == features \in FeatureSets /\ cleanup.step = "none"

\* All that the proofs about the list need of a state, besides Inv.
HwListInv == HwListOk /\ StationsOk /\ TailOff

\* One queue is linked or unlinked as its bit changes.
LEMMA Relinked ==
    ASSUME HwListOk, Shapes, NEW q \in Txq, NEW t
    PROVE  LET l == Relink(hwList, q, txq[q], t) IN
           /\ l \in Seq(Txq) /\ IsInjective(l)
           /\ ToSet(l) = IF Linked(t) THEN ToSet(hwList) \cup {q} ELSE ToSet(hwList) \ {q}
<1>1. /\ hwList \in Seq(Txq) /\ IsInjective(hwList)
      /\ q \in ToSet(hwList) <=> Linked(txq[q])
      /\ ToSet(hwList) \in SUBSET Txq
  BY DEF HwListOk, ListSound
<1>2. CASE Joins(txq[q], t)
  <2>1. q \in Txq \ ToSet(hwList)
    BY <1>1, <1>2 DEF Joins
  <2> QED
    BY <1>1, <1>2, <2>1, AtTheTail DEF Relink, Joins
<1>3. CASE ~Joins(txq[q], t) /\ Leaves(txq[q], t)
  <2>1. ToSet(hwList) \cap (Txq \ {q}) = ToSet(hwList) \ {q}
    BY <1>1
  <2> QED
    BY <1>1, <1>3, <2>1, OnlyOfKeeps DEF Relink, Leaves
<1>4. CASE ~Joins(txq[q], t) /\ ~Leaves(txq[q], t)
  <2>1. Relink(hwList, q, txq[q], t) = hwList
    BY <1>4 DEF Relink
  <2>2. Linked(t) <=> Linked(txq[q])
    BY <1>4 DEF Joins, Leaves
  <2> QED
    BY <1>1, <2>1, <2>2
<1> QED
  BY <1>2, <1>3, <1>4

\* One queue changes.
LEMMA OneRelinked ==
    ASSUME HwListOk, Shapes, NEW q \in Txq, NEW t, SetTxq(q, t), LinkOk(t)
    PROVE  HwListOk'
<1>1. hwList' \in Seq(Txq) /\ IsInjective(hwList')
      /\ ToSet(hwList') = IF Linked(t) THEN ToSet(hwList) \cup {q} ELSE ToSet(hwList) \ {q}
  BY Relinked DEF SetTxq
<1>2. \A p \in Txq : txq'[p] = IF p = q THEN t ELSE txq[p]
  BY DEF SetTxq, Shapes
<1>3. /\ ToSet(hwList) = { p \in Txq : Linked(txq[p]) }
      /\ \A p \in Txq : Linked(txq[p]) => txq[p].active
  BY DEF HwListOk, ListSound
<1>4. ToSet(hwList') = { p \in Txq : Linked(txq'[p]) }
  BY <1>1, <1>2, <1>3
<1>5. \A p \in Txq : Linked(txq'[p]) => txq'[p].active
  BY <1>2, <1>3 DEF LinkOk
<1> QED
  BY <1>1, <1>4, <1>5 DEF HwListOk, ListSound, Linked

\* Every queue may change.
LEMMA AllRelinked ==
    ASSUME HwListOk, Shapes, NEW new, NEW order \in Seq(Txq), IsInjective(order),
           ToSet(order) = Txq, SetTxqs(new, order), \A q \in Txq : LinkOk(new[q])
    PROVE  HwListOk'
<1> DEFINE K == { q \in Txq : ~Leaves(txq[q], new[q]) }
           J == { q \in Txq : Joins(txq[q], new[q]) }
<1>1. /\ hwList \in Seq(Txq) /\ IsInjective(hwList)
      /\ ToSet(hwList) = { q \in Txq : Linked(txq[q]) }
  BY DEF HwListOk, ListSound
<1>2. /\ OnlyOf(hwList, K) \in Seq(Txq) /\ IsInjective(OnlyOf(hwList, K))
      /\ ToSet(OnlyOf(hwList, K)) = ToSet(hwList) \cap K
  BY <1>1, OnlyOfKeeps
<1>3. /\ OnlyOf(order, J) \in Seq(Txq) /\ IsInjective(OnlyOf(order, J))
      /\ ToSet(OnlyOf(order, J)) = Txq \cap J
  BY OnlyOfKeeps
<1>4. (ToSet(hwList) \cap K) \cap (Txq \cap J) = {}
  BY <1>1 DEF Joins
<1>5. (ToSet(hwList) \cap K) \cup (Txq \cap J) = { q \in Txq : Linked(new[q]) }
  BY <1>1 DEF Joins, Leaves
<1>6. hwList' = OnlyOf(hwList, K) \o OnlyOf(order, J) /\ txq' = new
  BY DEF SetTxqs
<1> HIDE DEF K, J
<1>7. /\ hwList' \in Seq(Txq) /\ IsInjective(hwList')
      /\ ToSet(hwList') = { q \in Txq : Linked(new[q]) }
  BY <1>2, <1>3, <1>4, <1>5, <1>6, TwoLists
<1> QED
  BY <1>6, <1>7 DEF HwListOk, ListSound, Linked, LinkOk

\* The bits stay, and no listed queue loses its station.
LEMMA NoneRelinked ==
    ASSUME HwListOk, hwList' = hwList,
           \A q \in Txq : (Linked(txq'[q]) <=> Linked(txq[q])) /\ LinkOk(txq'[q])
    PROVE  HwListOk'
<1>1. /\ hwList' \in Seq(Txq) /\ IsInjective(hwList')
      /\ ToSet(hwList') = { q \in Txq : Linked(txq[q]) }
  BY DEF HwListOk, ListSound
<1>2. { q \in Txq : Linked(txq[q]) } = { q \in Txq : Linked(txq'[q]) }
  OBVIOUS
<1> QED
  BY <1>1, <1>2 DEF HwListOk, ListSound, Linked, LinkOk

\* Starting and stopping a queue.
LEMMA LinkOps ==
    ASSUME NEW t \in TxqRec, LinkOk(t), NEW r \in SUBSET StopReason
    PROVE  /\ LinkOk(Start(t, r)) /\ LinkOk(Stop(t, r)) /\ LinkOk(StopIfFull(t))
           /\ LinkOk([t EXCEPT !.pushLimit = 0])
<1>1. "IN_HWQ_LIST" \notin r /\ "IN_HWQ_LIST" \notin {"STOP_FULL"}
  BY DEF StopReason
<1>2. ASSUME NEW x, "IN_HWQ_LIST" \notin x
      PROVE  LinkOk(Start(t, x)) /\ LinkOk(Stop(t, x))
  <2>1. LinkOk(Start(t, x))
    BY <1>2 DEF Start, LinkOk, Linked, AddToHwList, TxqRec
  <2>2. LinkOk(Stop(t, x))
    BY <1>2 DEF Stop, LinkOk, Linked, DelFromHwList, TxqRec
  <2> QED
    BY <2>1, <2>2
<1>3. LinkOk([t EXCEPT !.pushLimit = 0])
  BY DEF LinkOk, Linked, TxqRec
<1> QED
  BY <1>1, <1>2, <1>3 DEF StopIfFull

\* The stations and the queues that are active stay.
LEMMA StationsStay ==
    ASSUME StationsOk, valid' = valid, \A s \in Sta : ps'[s].active => ps[s].active,
           \A q \in Txq : txq'[q].active = txq[q].active
    PROVE  StationsOk'
BY DEF StationsOk

\* What the invariant says of each queue.
LEMMA ListedAreActive ==
    ASSUME HwListOk, Shapes, NEW q \in Txq
    PROVE  txq[q] \in TxqRec /\ LinkOk(txq[q])
BY DEF HwListOk, ListSound, Shapes, LinkOk

\* A frame enters a queue.
LEMMA XmitRelinks ==
    ASSUME Inv, HwListOk, StationsOk, NEW q \in Txq, NEW f \in Frame, Xmit(q, f)
    PROVE  HwListOk' /\ StationsOk'
<1>1. Shapes /\ ListInv
  BY DEF Inv
<1>2. txq[q] \in TxqRec /\ LinkOk(txq[q])
  BY <1>1, ListedAreActive
<1>3. \A p \in Txq : txq'[p].active = txq[p].active
  BY <1>1, XmitEffect DEF Queued
<1>4. valid' = valid /\ \A s \in Sta : ps'[s].active => ps[s].active
  BY CountReadyShapes, <1>1 DEF Xmit
<1>5. HwListOk'
  <2>1. CASE ~txq[q].active
    <3>1. txq' = txq /\ hwList' = hwList
      BY <2>1 DEF Xmit
    <3> QED
      BY <1>1, <3>1, NoneRelinked, ListedAreActive
  <2>2. CASE txq[q].active
    <3>1. PICK t : SetTxq(q, t)
      BY <2>2 DEF Xmit
    <3>2. txq'[q] = t
      BY <1>1, <3>1 DEF SetTxq, Shapes
    <3>3. LinkOk(t)
      BY <1>3, <2>2, <3>2 DEF LinkOk
    <3> QED
      BY <1>1, <3>1, <3>3, OneRelinked
  <2> QED
    BY <2>1, <2>2
<1> QED
  BY <1>3, <1>4, <1>5, StationsStay

\* The flags that the schedule reads.
SchedFlag == StopReason \cup {"IN_HWQ_LIST"}

\* After the push a queue that may push no more is unlinked, and the list may be rotated.
LEMMA PushRelinks ==
    ASSUME Inv, NEW q \in Txq, Pushable(txq[q]), hwqCredits > 0, PushTxq(q)
    PROVE  LET u == AfterPush(txq[q], PushCount(txq[q]))
               t == txq'[q]
               l == Relink(hwList, q, txq[q], t)
           IN /\ u \in TxqRec /\ t \in TxqRec
              /\ t.list = u.list /\ t.credits = u.credits /\ t.active = u.active
              /\ t.pushLimit \in {u.pushLimit, 0}
              /\ \A x \in SchedFlag :
                    x \in t.status
                      <=> x \in u.status /\ ~(x = "IN_HWQ_LIST" /\ PushedAll(txq[q]))
              /\ hwList' = l \/ (Linked(t) /\ hwList' = Append(Tail(l), Head(l)))
<1> DEFINE old == txq[q]
           n   == PushCount(old)
           all == PushedAll(old)
           t1  == AfterPush(old, n)
           t2  == IF all THEN [DelFromHwList(t1) EXCEPT !.pktSent = 0] ELSE t1
           turn == ~all /\ hwqCredits = n /\ Linked(t2) /\ t2.pktSent > HwqSize
           t3  == IF turn THEN [t2 EXCEPT !.pktSent = 0] ELSE t2
           aborts == AbortsSp(q, t3)
           t4  == IF aborts THEN [t3 EXCEPT !.pushLimit = 0] ELSE t3
           wake == Wakes(t4)
           t5  == IF wake THEN [t4 EXCEPT !.status = @ \ {"NDEV_FLOW_CTRL"}] ELSE t4
<1>1. /\ txq' = [txq EXCEPT ![q] = t5]
      /\ hwList' = LET m == Relink(hwList, q, old, t5)
                   IN IF turn THEN Append(Tail(m), Head(m)) ELSE m
  BY Zenon DEF PushTxq
<1>2. t1 \in TxqRec
  <2>a. old \in TxqRec
    BY DEF Inv, Shapes
  <2>b. old.credits > 0
    BY DEF Pushable
  <2>c. hwqCredits \in Nat /\ RetryOk(old)
    BY DEF Inv, Shapes, ListInv, ListGood
  <2>1. /\ old \in TxqRec /\ old.credits > 0 /\ hwqCredits \in Nat /\ RetryOk(old)
        /\ Len(old.list) \in Nat /\ old.credits \in Int /\ old.pushLimit \in Nat
    BY <2>a, <2>b, <2>c DEF TxqRec
  <2>2. n \in 0..Len(old.list)
    BY <2>1 DEF PushCount, Credits, Lower
  <2> HIDE DEF n
  <2> QED
    BY <2>1, <2>2, AfterPushCuts DEF Cut
<1> HIDE DEF t1, all, n
<1>3. /\ t2 \in TxqRec /\ t2.list = t1.list /\ t2.credits = t1.credits /\ t2.active = t1.active
      /\ t2.pushLimit = t1.pushLimit
      /\ t2.status = IF all THEN t1.status \ {"IN_HWQ_LIST"} ELSE t1.status
  BY <1>2 DEF DelFromHwList, TxqRec
<1> HIDE DEF t2
<1>4. turn => Linked(t2)
  OBVIOUS
<1> HIDE DEF turn
<1>5. /\ t3 \in TxqRec /\ t3.list = t2.list /\ t3.credits = t2.credits /\ t3.active = t2.active
      /\ t3.pushLimit = t2.pushLimit /\ t3.status = t2.status
  BY <1>3 DEF TxqRec
<1> HIDE DEF t3, aborts
<1>6. /\ t4 \in TxqRec /\ t4.list = t3.list /\ t4.credits = t3.credits /\ t4.active = t3.active
      /\ t4.pushLimit \in {t3.pushLimit, 0} /\ t4.status = t3.status
  BY <1>5 DEF TxqRec
<1> HIDE DEF t4, wake
<1>7. /\ t5 \in TxqRec /\ t5.list = t4.list /\ t5.credits = t4.credits /\ t5.active = t4.active
      /\ t5.pushLimit = t4.pushLimit
      /\ t5.status \in {t4.status, t4.status \ {"NDEV_FLOW_CTRL"}}
  BY <1>6 DEF TxqRec
<1> HIDE DEF t5
<1>8. txq'[q] = t5
  BY <1>1 DEF Inv, Shapes
<1>9. \A x \in SchedFlag : x \in t5.status <=> x \in t1.status /\ ~(x = "IN_HWQ_LIST" /\ all)
  <2> TAKE x \in SchedFlag
  <2>1. x # "NDEV_FLOW_CTRL"
    BY DEF SchedFlag, StopReason
  <2> QED
    BY <1>3, <1>5, <1>6, <1>7, <2>1
<1>10. turn => Linked(t5)
  <2>1. "IN_HWQ_LIST" \in SchedFlag
    BY DEF SchedFlag
  <2> QED
    BY <1>3, <1>4, <1>9, <2>1 DEF Linked
<1>11. hwList' = Relink(hwList, q, old, t5)
       \/ (turn /\ hwList' = Append(Tail(Relink(hwList, q, old, t5)), Head(Relink(hwList, q, old, t5))))
  BY <1>1
<1>12. /\ t5.list = t1.list /\ t5.credits = t1.credits /\ t5.active = t1.active
       /\ t5.pushLimit \in {t1.pushLimit, 0}
  BY <1>3, <1>5, <1>6, <1>7
<1> QED
  BY <1>2, <1>7, <1>8, <1>9, <1>10, <1>11, <1>12 DEF t1, n, all

\* One iteration of aml_hwq_process.
LEMMA VisitRelinks ==
    ASSUME Inv, HwListOk, StationsOk, VisitTxq
    PROVE  HwListOk' /\ StationsOk'
<1>1. Shapes /\ ListInv /\ valid' = valid
  BY DEF Inv, VisitTxq
<1>2. PICK q \in Txq : IF Pushable(txq[q]) /\ hwqCredits > 0 THEN PushTxq(q)
                       ELSE UNCHANGED <<txq, hwList, hwqCredits, ps, ndevStopped, where, pushed>>
  BY DEF VisitTxq
<1>3. CASE Pushable(txq[q]) /\ hwqCredits > 0
  <2> DEFINE t == txq'[q]
             l == Relink(hwList, q, txq[q], t)
  <2>1. /\ t.active /\ txq[q].active /\ \A p \in Txq \ {q} : txq'[p] = txq[p]
        /\ txq' \in [Txq -> TxqRec] /\ \A s \in Sta : ps'[s].active = ps[s].active
    BY <1>1, <1>2, <1>3, VisitPushes DEF Pushable
  <2>2. hwList' = l \/ (Linked(t) /\ hwList' = Append(Tail(l), Head(l)))
    BY <1>2, <1>3, PushRelinks
  <2>3. /\ l \in Seq(Txq) /\ IsInjective(l)
        /\ ToSet(l) = IF Linked(t) THEN ToSet(hwList) \cup {q} ELSE ToSet(hwList) \ {q}
    BY <1>1, Relinked
  <2> HIDE DEF l
  <2>4. /\ hwList' \in Seq(Txq) /\ IsInjective(hwList')
        /\ ToSet(hwList') = IF Linked(t) THEN ToSet(hwList) \cup {q} ELSE ToSet(hwList) \ {q}
    <3>1. CASE hwList' = l
      BY <2>3, <3>1
    <3>2. CASE Linked(t) /\ hwList' = Append(Tail(l), Head(l))
      <4>1. q \in ToSet(l)
        BY <2>3, <3>2
      <4>2. l # <<>>
        BY <4>1 DEF ToSet
      <4> QED
        BY <2>3, <3>2, <4>2, AtTheTail
    <3> QED
      BY <2>2, <3>1, <3>2
  <2>5. /\ ToSet(hwList) = { p \in Txq : Linked(txq[p]) }
        /\ \A p \in Txq : Linked(txq[p]) => txq[p].active
    BY DEF HwListOk, ListSound
  <2>6. \A p \in Txq : txq'[p] = IF p = q THEN t ELSE txq[p]
    BY <2>1
  <2> HIDE DEF t
  <2>7. ToSet(hwList') = { p \in Txq : Linked(txq'[p]) }
    BY <2>4, <2>5, <2>6
  <2>8. \A p \in Txq : Linked(txq'[p]) => txq'[p].active
    BY <2>1, <2>5, <2>6
  <2>9. HwListOk'
    BY <2>4, <2>7, <2>8 DEF HwListOk, ListSound, Linked
  <2>10. \A p \in Txq : txq'[p].active = txq[p].active
    BY <2>1, <2>6, <1>1 DEF Shapes, TxqRec
  <2> QED
    BY <1>1, <2>1, <2>9, <2>10, StationsStay
<1>4. CASE ~(Pushable(txq[q]) /\ hwqCredits > 0)
  <2>1. txq' = txq /\ hwList' = hwList /\ ps' = ps
    BY <1>2, <1>4
  <2>2. HwListOk'
    BY <1>1, <2>1, NoneRelinked, ListedAreActive
  <2> QED
    BY <1>1, <2>1, <2>2, StationsStay
<1> QED
  BY <1>3, <1>4

\* One queue is set, and the stations stay.
LEMMA SetRelinks ==
    ASSUME Shapes, HwListOk, StationsOk, NEW q \in Txq, NEW t, SetTxq(q, t), valid' = valid,
           \A s \in Sta : ps'[s].active => ps[s].active,
           txq'[q].active = txq[q].active, LinkOk(txq'[q])
    PROVE  HwListOk' /\ StationsOk'
<1>1. txq'[q] = t /\ \A p \in Txq \ {q} : txq'[p] = txq[p]
  BY DEF SetTxq, Shapes
<1>2. LinkOk(t)
  BY <1>1
<1>3. HwListOk'
  BY <1>2, OneRelinked
<1>4. \A p \in Txq : txq'[p].active = txq[p].active
  BY <1>1
<1> QED
  BY <1>3, <1>4, StationsStay

\* One confirmation.
LEMMA ConfirmRelinks ==
    ASSUME Inv, HwListOk, StationsOk, Confirm
    PROVE  HwListOk' /\ StationsOk'
<1> DEFINE c == Head(toConfirm)
           q == frameTxq[c.frame]
           again == txq[q].active /\ c.retry
<1>1. Shapes /\ ListInv /\ valid' = valid
  BY DEF Inv, Confirm
<1>2. /\ q \in Txq
      /\ again => Queued(txq[q], txq'[q], c.frame, TRUE) /\ ps' = CountReady(q, 1)
      /\ ~again => SameList(txq[q], txq'[q]) /\ ps' = ps
  BY <1>1, ConfirmEffect
<1>3. ConfirmAny(txq[q]).active = txq[q].active /\ ConfirmAny(txq[q]).status = txq[q].status
  <2>1. txq[q] \in TxqRec
    BY <1>1, <1>2 DEF Shapes
  <2> QED
    BY <2>1 DEF ConfirmAny, TxqRec
<1>4. \/ SetTxq(q, Retry(ConfirmAny(txq[q]), c.frame)) /\ again
      \/ /\ ~again
         /\ SetTxq(q, IF txq[q].active THEN Credited(ConfirmAny(txq[q]), c.credits)
                       ELSE ConfirmAny(txq[q]))
  BY <1>3 DEF Confirm
<1>5. txq'[q].active = txq[q].active
  BY <1>2 DEF Queued, SameList
<1>6. PICK t : SetTxq(q, t) /\ (~txq[q].active => t = ConfirmAny(txq[q]))
  BY <1>4
<1> HIDE DEF c, again
<1>7. LinkOk(txq'[q])
  <2>1. CASE txq[q].active
    BY <1>5, <2>1 DEF LinkOk
  <2>2. CASE ~txq[q].active
    <3>1. txq'[q] = ConfirmAny(txq[q])
      BY <1>1, <1>2, <1>6, <2>2 DEF SetTxq, Shapes
    <3>2. LinkOk(txq[q])
      BY <1>1, <1>2, ListedAreActive
    <3> QED
      BY <1>3, <3>1, <3>2 DEF LinkOk, Linked
  <2> QED
    BY <2>1, <2>2
<1>8. \A s \in Sta : ps'[s].active => ps[s].active
  <2>1. 1 \in Nat
    OBVIOUS
  <2>2. CASE ps' = CountReady(q, 1)
    BY <1>1, <1>2, <2>1, <2>2, CountReadyShapes
  <2> QED
    BY <1>2, <2>2
<1> QED
  BY <1>1, <1>2, <1>5, <1>6, <1>7, <1>8, SetRelinks

\* An update of the credits.
LEMMA UpdateRelinks ==
    ASSUME Inv, HwListOk, StationsOk, NEW q \in Txq, NEW b \in BaCredits, CreditUpdate(q, b)
    PROVE  HwListOk' /\ StationsOk'
<1>1. Shapes /\ ListInv /\ valid' = valid /\ ps' = ps
  BY DEF Inv, CreditUpdate, Indication
<1>2. txq'[q].active = txq[q].active
  <2>1. txq[q].pktPushed <= HwqSize
    BY FewFrames
  <2> QED
    BY <1>1, <2>1, CreditUpdateEffect
<1>3. PICK t : SetTxq(q, t)
  BY DEF CreditUpdate
<1>4. txq[q].active
  BY TxqAssumption DEF CreditUpdate, StationsOk
<1> QED
  BY <1>1, <1>2, <1>3, <1>4, SetRelinks DEF LinkOk

\* Old frames are dropped.
LEMMA CleanupRelinks ==
    ASSUME Inv, HwListOk, StationsOk, NEW q \in Txq, NEW n \in 0..NbFrames, CleanupTimer(q, n)
    PROVE  HwListOk' /\ StationsOk'
<1>1. Shapes /\ ListInv /\ valid' = valid /\ txq[q].active
  BY DEF Inv, CleanupTimer
<1>2. /\ txq'[q].active
      /\ \A s \in Sta : ps'[s].active = ps[s].active
  <2>1. PsId # {}
    BY DEF PsId
  <2> QED
    BY <1>1, <2>1, CleanupEffect
<1>3. PICK t : SetTxq(q, t)
  BY DEF CleanupTimer
<1>4. txq'[q].active = txq[q].active
  BY <1>1, <1>2
<1> QED
  BY <1>1, <1>2, <1>3, <1>4, SetRelinks DEF LinkOk

\* A queue of a station that has gone.
LEMMA DeinitRelinks ==
    ASSUME Inv, HwListOk, StationsOk, NEW q \in Txq, TxqDeinit(q)
    PROVE  HwListOk' /\ StationsOk'
<1> DEFINE t == [DelFromHwList(txq[q]) EXCEPT
                    !.active = FALSE, !.list = <<>>, !.nbRetry = 0, !.lastRetry = NoFrame]
<1>1. Shapes /\ ListInv /\ valid' = valid /\ ps' = ps /\ ~valid[StaOf[q]]
  BY DEF Inv, TxqDeinit
<1>2. SetTxq(q, t)
  BY DEF TxqDeinit
<1>3. LinkOk(t)
  <2>1. txq[q] \in TxqRec
    BY <1>1 DEF Shapes
  <2> QED
    BY <2>1 DEF LinkOk, Linked, DelFromHwList, TxqRec
<1> HIDE DEF t
<1>4. \A p \in Txq \ {q} : txq'[p] = txq[p]
  BY <1>1, TxqDeinitEffect
<1>5. StationsOk'
  BY <1>1, <1>4 DEF StationsOk
<1> QED
  BY <1>1, <1>2, <1>3, <1>5, OneRelinked

\* Steps that schedule the queues and leave the stations that are there.
LEMMA ScheduleRelinks ==
    ASSUME Shapes, HwListOk, StationsOk, valid' = valid,
           \A s \in Sta : ps'[s].active => valid[s],
           \A q \in Txq : Schedules(txq[q], txq'[q]) /\ LinkOk(txq'[q]),
           \/ hwList' = hwList /\ \A q \in Txq : Linked(txq'[q]) <=> Linked(txq[q])
           \/ \E order \in {TxqSeq, TxqPrio} : SetTxqs(txq', order)
    PROVE  HwListOk' /\ StationsOk'
<1>1. StationsOk'
  BY DEF StationsOk, Schedules
<1>2. CASE hwList' = hwList /\ \A q \in Txq : Linked(txq'[q]) <=> Linked(txq[q])
  <2>1. HwListOk'
    BY <1>2, NoneRelinked
  <2> QED
    BY <1>1, <2>1
<1>3. ASSUME NEW order \in {TxqSeq, TxqPrio}, SetTxqs(txq', order)
      PROVE  HwListOk' /\ StationsOk'
  <2>1. order \in Seq(Txq) /\ IsInjective(order) /\ ToSet(order) = Txq
    BY TxqAssumption DEF Txq
  <2>2. ASSUME NEW new, SetTxqs(new, order), \A q \in Txq : LinkOk(new[q])
        PROVE  HwListOk'
    BY <2>1, <2>2, AllRelinked
  <2>3. \A q \in Txq : LinkOk(txq'[q])
    OBVIOUS
  <2>4. HwListOk'
    BY <1>3, <2>2, <2>3
  <2> QED
    BY <1>1, <2>4
<1> QED
  BY <1>2, <1>3

\* The firmware takes the channel or gives it back.
LEMMA ChanSwitchRelinks ==
    ASSUME Shapes, HwListOk, StationsOk, ChanSwitch
    PROVE  HwListOk' /\ StationsOk'
<1>1. valid' = valid /\ ps' = ps /\ SetTxqs(txq', TxqSeq)
  BY DEF ChanSwitch, Indication, SetTxqs
<1>2. \A q \in Txq : Schedules(txq[q], txq'[q])
  BY ChanSwitchSchedules
<1>3. txq' = [q \in Txq |-> IF chanOn THEN Stop(txq[q], {"STOP_CHAN"}) ELSE Start(txq[q], {"STOP_CHAN"})]
  BY DEF ChanSwitch, SetTxqs
<1>4. \A q \in Txq : LinkOk(txq'[q])
  <2> TAKE q \in Txq
  <2>1. txq[q] \in TxqRec /\ LinkOk(txq[q])
    BY ListedAreActive
  <2>2. {"STOP_CHAN"} \in SUBSET StopReason
    BY DEF StopReason
  <2>3. LinkOk(Stop(txq[q], {"STOP_CHAN"})) /\ LinkOk(Start(txq[q], {"STOP_CHAN"}))
    BY <2>1, <2>2, LinkOps
  <2> QED
    BY <1>3, <2>3
<1>5. \A s \in Sta : ps'[s].active => valid[s]
  BY <1>1 DEF StationsOk
<1> QED
  BY <1>1, <1>2, <1>4, <1>5, ScheduleRelinks

\* A station goes to sleep or wakes up.
LEMMA PsRelinks ==
    ASSUME Shapes, HwListOk, StationsOk, NEW s \in Sta, PsOn(s) \/ PsOff(s)
    PROVE  HwListOk' /\ StationsOk'
<1>1. valid' = valid /\ SetTxqs(txq', TxqSeq) /\ valid[s]
  BY DEF PsOn, PsOff, Indication, SetTxqs
<1>2. \A q \in Txq : Schedules(txq[q], txq'[q])
  BY PsOnSchedules, PsOffSchedules
<1>3. \/ txq' = [q \in Txq |-> IF StaOf[q] = s THEN Stop(txq[q], {"STOP_STA_PS"}) ELSE txq[q]]
      \/ txq' = [q \in Txq |-> IF StaOf[q] = s
                               THEN Start([txq[q] EXCEPT !.pushLimit = 0], {"STOP_STA_PS"})
                               ELSE txq[q]]
  BY DEF PsOn, PsOff, SetTxqs
<1>4. \A q \in Txq : LinkOk(txq'[q])
  <2> TAKE q \in Txq
  <2>1. txq[q] \in TxqRec /\ LinkOk(txq[q])
    BY ListedAreActive
  <2>2. {"STOP_STA_PS"} \in SUBSET StopReason
    BY DEF StopReason
  <2> DEFINE u == [txq[q] EXCEPT !.pushLimit = 0]
  <2>3. u \in TxqRec
    BY <2>1 DEF TxqRec
  <2>4. LinkOk(Stop(txq[q], {"STOP_STA_PS"})) /\ LinkOk(u)
    BY <2>1, <2>2, LinkOps
  <2> HIDE DEF u
  <2>5. LinkOk(Start(u, {"STOP_STA_PS"}))
    BY <2>2, <2>3, <2>4, LinkOps
  <2>6. txq'[q] \in {txq[q], Stop(txq[q], {"STOP_STA_PS"}), Start(u, {"STOP_STA_PS"})}
    BY <1>3 DEF u
  <2> QED
    BY <2>1, <2>4, <2>5, <2>6
<1>5. \A r \in Sta : ps'[r].active => valid[r]
  <2>1. \A r \in Sta \ {s} : ps'[r] = ps[r]
    BY DEF Shapes, PsOn, PsOff
  <2> QED
    BY <1>1, <2>1 DEF StationsOk
<1> QED
  BY <1>1, <1>2, <1>4, <1>5, ScheduleRelinks

\* A service period begins.
LEMMA TrafficReqRelinks ==
    ASSUME Shapes, HwListOk, StationsOk, NEW s \in Sta, NEW id \in PsId, NEW n \in 0..MaxReq,
           TrafficReq(s, id, n)
    PROVE  HwListOk' /\ StationsOk'
<1> DEFINE ready == ps[s].pktReady[id] - ps[s].spCnt[id]
           req   == IF n = 0 \/ n > ready THEN ready ELSE n
           chosen == { q \in StaTxqs(s) : PsIdOf[q] = id /\ Share(q, req) > 0 }
<1>1. /\ valid' = valid /\ SetTxqs(txq', TxqPrio) /\ ps[s].active
      /\ txq' = [q \in Txq |-> IF q \in chosen
                               THEN AddToHwList([txq[q] EXCEPT !.pushLimit = U8(Share(q, req))])
                               ELSE txq[q]]
      /\ ps' = [ps EXCEPT ![s].spCnt[id] = U16(SumOf([q \in Txq |-> Share(q, req)], chosen))]
  BY DEF TrafficReq, Indication, SetTxqs
<1> HIDE DEF req
<1>2. \A q \in chosen : txq[q].active
  BY <1>1 DEF StationsOk, StaTxqs
<1> HIDE DEF chosen
<1>3. \A q \in Txq : Schedules(txq[q], txq'[q])
  BY TrafficReqSchedules
<1>4. \A q \in Txq : LinkOk(txq'[q])
  <2> TAKE q \in Txq
  <2>1. LinkOk(txq[q])
    BY ListedAreActive
  <2>2. txq'[q].active = txq[q].active
    BY <1>3 DEF Schedules
  <2>3. CASE q \in chosen
    BY <1>2, <2>2, <2>3 DEF LinkOk
  <2>4. CASE q \notin chosen
    BY <1>1, <2>1, <2>4
  <2> QED
    BY <2>3, <2>4
<1>5. \A r \in Sta : ps'[r].active => valid[r]
  <2>1. \A r \in Sta : ps'[r].active = ps[r].active
    BY <1>1 DEF Shapes, PsRec
  <2> QED
    BY <2>1 DEF StationsOk
<1> QED
  BY <1>1, <1>3, <1>4, <1>5, ScheduleRelinks

\* A service period ends early.
LEMMA SpInterruptedRelinks ==
    ASSUME Shapes, HwListOk, StationsOk, NEW s \in Sta, SpInterrupted(s)
    PROVE  HwListOk' /\ StationsOk'
<1>1. /\ valid' = valid /\ hwList' = hwList
      /\ txq' = [q \in Txq |-> IF StaOf[q] = s THEN [txq[q] EXCEPT !.pushLimit = 0] ELSE txq[q]]
      /\ ps' = [ps EXCEPT ![s].spCnt["UAPSD"] = 0]
  BY DEF SpInterrupted, Indication
<1>2. \A q \in Txq : Schedules(txq[q], txq'[q])
  BY SpInterruptedSchedules
<1>3. ASSUME NEW q \in Txq
      PROVE  LinkOk(txq'[q]) /\ (Linked(txq'[q]) <=> Linked(txq[q]))
  <2>1. txq[q] \in TxqRec /\ LinkOk(txq[q])
    BY ListedAreActive
  <2>2. txq'[q].status = txq[q].status /\ txq'[q].active = txq[q].active
    BY <1>1, <2>1 DEF TxqRec
  <2> QED
    BY <2>1, <2>2 DEF LinkOk, Linked
<1>4. \A r \in Sta : ps'[r].active => valid[r]
  <2>1. \A r \in Sta : ps'[r].active = ps[r].active
    BY <1>1 DEF Shapes, PsRec
  <2> QED
    BY <2>1 DEF StationsOk
<1> QED
  BY <1>1, <1>2, <1>3, <1>4, ScheduleRelinks

\* A station comes: its queues were inactive and are not linked.
LEMMA StaAddRelinks ==
    ASSUME Shapes, ListInv, HwListOk, StationsOk, NEW s \in Sta, StaAdd(s)
    PROVE  HwListOk' /\ StationsOk'
<1>1. PICK asleep \in BOOLEAN :
         LET status == (IF chanOn THEN {} ELSE {"STOP_CHAN"})
                       \cup (IF asleep THEN {"STOP_STA_PS"} ELSE {})
         IN /\ txq' = [q \in Txq |-> IF StaOf[q] = s THEN InitTxq(status) ELSE txq[q]]
            /\ ps' = [ps EXCEPT ![s] =
                        IF asleep THEN [active |-> TRUE, pktReady |-> [id \in PsId |-> 0],
                                        spCnt |-> [id \in PsId |-> 0]]
                        ELSE @]
  BY DEF StaAdd
<1> DEFINE status == (IF chanOn THEN {} ELSE {"STOP_CHAN"})
                     \cup (IF asleep THEN {"STOP_STA_PS"} ELSE {})
<1>2. txq' = [q \in Txq |-> IF StaOf[q] = s THEN InitTxq(status) ELSE txq[q]]
  BY <1>1
<1>3. "IN_HWQ_LIST" \notin status
  OBVIOUS
<1> HIDE DEF status
<1>4. /\ hwList' = hwList /\ valid' = [valid EXCEPT ![s] = TRUE]
      /\ \A q \in Txq : StaOf[q] = s => ~txq[q].active
  BY DEF StaAdd, StaTxqs
<1>5. InitTxq(status).active /\ ~Linked(InitTxq(status))
  BY <1>3 DEF InitTxq, Linked
<1>6. ASSUME NEW q \in Txq
      PROVE  LinkOk(txq'[q]) /\ (Linked(txq'[q]) <=> Linked(txq[q]))
  <2>1. LinkOk(txq[q])
    BY ListedAreActive
  <2> QED
    BY <1>2, <1>4, <1>5, <2>1 DEF LinkOk
<1>7. HwListOk'
  BY <1>4, <1>6, NoneRelinked
<1>8. StationsOk'
  <2>1. \A r \in Sta \ {s} : ps'[r] = ps[r] /\ valid'[r] = valid[r]
    BY <1>1, <1>4 DEF Shapes
  <2>2. valid'[s]
    BY <1>4 DEF Shapes
  <2>3. \A q \in Txq : txq'[q].active \/ (StaOf[q] # s /\ txq'[q] = txq[q])
    BY <1>2, <1>5
  <2>4. \A q \in Txq : StaOf[q] = s => txq'[q].active
    BY <1>2, <1>5
  <2> QED
    BY <2>1, <2>2, <2>3, <2>4 DEF StationsOk
<1> QED
  BY <1>7, <1>8

\* A station goes, and the steps that leave the queues alone.
LEMMA QuietRelinks ==
    ASSUME Shapes, HwListOk, StationsOk,
           (\E f \in Frame : FwConfirm(f)) \/ Irq \/ IrqProcess \/ (\E s \in Sta : StaDel(s))
    PROVE  HwListOk' /\ StationsOk'
<1>1. txq' = txq /\ hwList' = hwList
  BY DEF FwConfirm, Irq, IrqProcess, StaDel, drvVars
<1>2. HwListOk'
  BY <1>1, NoneRelinked, ListedAreActive
<1>3. CASE (\E f \in Frame : FwConfirm(f)) \/ Irq \/ IrqProcess
  <2>1. ps' = ps /\ valid' = valid
    BY <1>3 DEF FwConfirm, Irq, IrqProcess, drvVars
  <2> QED
    BY <1>1, <1>2, <2>1 DEF StationsOk
<1>4. ASSUME NEW s \in Sta, StaDel(s) PROVE StationsOk'
  <2>1. ps' = [ps EXCEPT ![s].active = FALSE] /\ valid' = [valid EXCEPT ![s] = FALSE]
    BY <1>4 DEF StaDel
  <2>2. \A r \in Sta \ {s} : ps'[r] = ps[r] /\ valid'[r] = valid[r]
    BY <2>1 DEF Shapes
  <2>3. ~ps'[s].active /\ ~valid'[s]
    BY <2>1 DEF Shapes, PsRec
  <2> QED
    BY <1>1, <2>2, <2>3 DEF StationsOk
<1> QED
  BY <1>2, <1>3, <1>4

\* In the beginning nothing is linked.
LEMMA InitHwList == Init => HwListInv
<1> SUFFICES ASSUME Init PROVE HwListInv
  OBVIOUS
<1>1. /\ \A q \in Txq : txq[q].active /\ ~Linked(txq[q])
      /\ hwList = <<>> /\ features \in FeatureSets /\ cleanup.step = "none"
      /\ \A s \in Sta : valid[s] /\ ~ps[s].active
  BY DEF Init, InitTxq, Linked, NoTail
<1>2. hwList \in Seq(Txq) /\ IsInjective(hwList) /\ ToSet(hwList) = {}
  <2>1. <<>> \in Seq(Txq) /\ DOMAIN <<>> = {}
    OBVIOUS
  <2> QED
    BY <1>1, <2>1 DEF IsInjective, ToSet
<1> QED
  BY <1>1, <1>2 DEF HwListInv, HwListOk, ListSound, StationsOk, TailOff

\* Each step keeps the list and the bits in agreement.
LEMMA NextHwList == ASSUME NoRace, Inv, HwListInv, [Next]_<<vars, conf>> PROVE HwListInv'
<1>1. /\ Shapes /\ ListInv /\ HwListOk /\ StationsOk
      /\ features \in FeatureSets /\ "race" \notin features /\ cleanup.step = "none"
  BY DEF Inv, HwListInv, TailOff, NoRace
<1>2. CASE Next
  <2>1. Step /\ features' = features
    BY <1>2 DEF Next, conf
  <2>2. cleanup'.step = "none"
    <3>1. CASE \E q \in Txq, n \in 0..NbFrames : CleanupTimer(q, n)
      <4>1. PICK q \in Txq, n \in 0..NbFrames : CleanupTimer(q, n)
        BY <3>1
      <4>2. cleanup' = IF "race" \in features
                       THEN [step |-> "read", of |-> q, status |-> {}] ELSE NoTail
        BY <4>1 DEF CleanupTimer
      <4> QED
        BY <1>1, <4>2 DEF NoTail
    <3>2. CASE TailRead \/ TailWrite
      BY <1>1, <3>2 DEF TailRead, TailWrite
    <3>3. CASE ~(\E q \in Txq, n \in 0..NbFrames : CleanupTimer(q, n)) /\ ~(TailRead \/ TailWrite)
      <4>1. CASE \/ \E q \in Txq, f \in Frame : Xmit(q, f)
                 \/ VisitTxq
                 \/ \E f \in Frame : FwConfirm(f)
                 \/ Irq
                 \/ IrqProcess
                 \/ Confirm
        BY <1>1, <4>1 DEF Xmit, VisitTxq, FwConfirm, Irq, IrqProcess, Confirm
      <4>2. CASE \/ ChanSwitch
                 \/ \E s \in Sta : PsOn(s) \/ PsOff(s) \/ SpInterrupted(s)
                 \/ \E s \in Sta, id \in PsId, n \in 0..MaxReq : TrafficReq(s, id, n)
                 \/ \E q \in Txq, n \in BaCredits : CreditUpdate(q, n)
        <5>1. Indication
          <6>1. ChanSwitch => Indication
            BY DEF ChanSwitch
          <6>2. \A s \in Sta : PsOn(s) \/ PsOff(s) \/ SpInterrupted(s) => Indication
            BY DEF PsOn, PsOff, SpInterrupted
          <6>3. \A s \in Sta, id \in PsId, n \in 0..MaxReq : TrafficReq(s, id, n) => Indication
            BY DEF TrafficReq
          <6>4. \A q \in Txq, n \in BaCredits : CreditUpdate(q, n) => Indication
            BY DEF CreditUpdate
          <6> QED
            BY <4>2, <6>1, <6>2, <6>3, <6>4, Zenon
        <5> QED
          BY <1>1, <5>1 DEF Indication
      <4>3. CASE \/ \E s \in Sta : StaDel(s) \/ StaAdd(s)
                 \/ \E q \in Txq : TxqDeinit(q)
        BY <1>1, <4>3 DEF StaDel, StaAdd, TxqDeinit
      <4> QED
        BY <2>1, <3>3, <4>1, <4>2, <4>3 DEF Step
    <3> QED
      BY <3>1, <3>2, <3>3
  <2>3. TailOff'
    BY <1>1, <2>1, <2>2 DEF TailOff
  <2>4. ASSUME NEW q \in Txq, NEW f \in Frame, Xmit(q, f) PROVE HwListOk' /\ StationsOk'
    BY <1>1, <2>4, XmitRelinks
  <2>5. ASSUME VisitTxq PROVE HwListOk' /\ StationsOk'
    BY <1>1, <2>5, VisitRelinks
  <2>6. ASSUME (\E f \in Frame : FwConfirm(f)) \/ Irq \/ IrqProcess \/ (\E s \in Sta : StaDel(s))
        PROVE  HwListOk' /\ StationsOk'
    BY <1>1, <2>6, QuietRelinks
  <2>7. ASSUME Confirm PROVE HwListOk' /\ StationsOk'
    BY <1>1, <2>7, ConfirmRelinks
  <2>8. ASSUME ChanSwitch PROVE HwListOk' /\ StationsOk'
    BY <1>1, <2>8, ChanSwitchRelinks
  <2>9. ASSUME NEW s \in Sta, PsOn(s) \/ PsOff(s) PROVE HwListOk' /\ StationsOk'
    BY <1>1, <2>9, PsRelinks
  <2>10. ASSUME NEW s \in Sta, SpInterrupted(s) PROVE HwListOk' /\ StationsOk'
    BY <1>1, <2>10, SpInterruptedRelinks
  <2>11. ASSUME NEW s \in Sta, NEW id \in PsId, NEW n \in 0..MaxReq, TrafficReq(s, id, n)
         PROVE  HwListOk' /\ StationsOk'
    BY <1>1, <2>11, TrafficReqRelinks
  <2>12. ASSUME NEW q \in Txq, NEW n \in BaCredits, CreditUpdate(q, n)
         PROVE  HwListOk' /\ StationsOk'
    BY <1>1, <2>12, UpdateRelinks
  <2>13. ASSUME NEW q \in Txq, NEW n \in 0..NbFrames, CleanupTimer(q, n)
         PROVE  HwListOk' /\ StationsOk'
    BY <1>1, <2>13, CleanupRelinks
  <2>14. ASSUME NEW s \in Sta, StaAdd(s) PROVE HwListOk' /\ StationsOk'
    BY <1>1, <2>14, StaAddRelinks
  <2>15. ASSUME NEW q \in Txq, TxqDeinit(q) PROVE HwListOk' /\ StationsOk'
    BY <1>1, <2>15, DeinitRelinks
  <2>16. ~(TailRead \/ TailWrite)
    BY <1>1 DEF TailRead, TailWrite
  <2>17. HwListOk' /\ StationsOk'
    BY <2>1, <2>4, <2>5, <2>6, <2>7, <2>8, <2>9, <2>10, <2>11, <2>12, <2>13, <2>14, <2>15, <2>16
       DEF Step
  <2> QED
    BY <2>3, <2>17 DEF HwListInv
<1>3. CASE UNCHANGED <<vars, conf>>
  <2>1. UNCHANGED <<txq, hwList, ps, valid, features, cleanup>>
    BY <1>3 DEF vars, drvVars, conf
  <2>2. HwListOk'
    BY <1>1, <2>1, NoneRelinked, ListedAreActive
  <2> QED
    BY <1>1, <2>1, <2>2 DEF HwListInv, StationsOk, TailOff
<1> QED
  BY <1>2, <1>3

\* hwq->list holds each queue whose AML_TXQ_IN_HWQ_LIST bit is set, once, and no other, and
\* each of them is active, whatever is sent, pushed, confirmed, postponed, updated, stopped,
\* started, dropped or deleted.
THEOREM ListIsSound == ASSUME NoRace PROVE Spec => []ListSound
<1>1. HwListInv => ListSound
  BY DEF HwListInv, HwListOk
<1>2. ASSUME Inv, HwListInv, [Next]_<<vars, conf>> PROVE HwListInv'
  BY <1>2, NextHwList
<1>3. Inv /\ HwListInv /\ [Next]_<<vars, conf>> => HwListInv'
  BY <1>2
<1> QED
  BY <1>1, <1>3, InitHwList, InvHolds, PTL DEF Spec

-----------------------------------------------------------------------------
(* The schedule                                                            *)

\* Environments in which no station sleeps.
NoSleep == \A F \in FeatureSets : "ps" \notin F

\* A queue is linked if and only if it is active, has a frame and is not stopped.
LinkExact(t) == Linked(t) <=> t.active /\ t.list # <<>> /\ ~IsStopped(t)

\* A queue without credits is stopped.
FullOk(t) == t.active /\ t.credits <= 0 => "STOP_FULL" \in t.status

\* No service period limits it.
NoPeriod(t) == t.pushLimit = 0 /\ "STOP_STA_PS" \notin t.status

\* What holds of each queue, and of the stations, while nobody sleeps.
ReadyOk(t) == LinkExact(t) /\ FullOk(t) /\ NoPeriod(t)

SchedInv == (\A q \in Txq : ReadyOk(txq[q])) /\ \A s \in Sta : ~ps[s].active

\* The reasons, one by one.
LEMMA Reasons ==
    ASSUME NEW t
    PROVE  IsStopped(t) <=> \/ "STOP_FULL" \in t.status \/ "STOP_STA_PS" \in t.status
                            \/ "STOP_CHAN" \in t.status
BY DEF IsStopped, StopReason

\* Stopping and starting a queue for one reason, and what the number of credits asks for.
LEMMA ReadyOps ==
    ASSUME NEW t \in TxqRec, LinkExact(t), NoPeriod(t), NEW r \in {"STOP_FULL", "STOP_CHAN"}
    PROVE  /\ LinkExact(Stop(t, {r})) /\ NoPeriod(Stop(t, {r}))
           /\ t.active => r \in Stop(t, {r}).status
           /\ LinkExact(Start(t, {r})) /\ NoPeriod(Start(t, {r}))
           /\ FullOk(t) => FullOk(Stop(t, {r})) /\ (r = "STOP_CHAN" => FullOk(Start(t, {r})))
<1> DEFINE u == Stop(t, {r})
           v == Start(t, {r})
           s == [t EXCEPT !.status = @ \ {r}]
<1>1. r \in StopReason /\ r # "IN_HWQ_LIST" /\ r # "STOP_STA_PS"
  BY DEF StopReason
<1>2. /\ u.active = t.active /\ u.list = t.list /\ u.credits = t.credits
      /\ u.pushLimit = t.pushLimit
      /\ u.status = IF t.active THEN (t.status \cup {r}) \ {"IN_HWQ_LIST"} ELSE t.status
  BY DEF Stop, DelFromHwList, TxqRec
<1>3. /\ s.active = t.active /\ s.list = t.list /\ s.credits = t.credits
      /\ s.pushLimit = t.pushLimit /\ s.status = t.status \ {r} /\ s \in TxqRec
  BY DEF TxqRec
<1>4. v = IF t.active /\ r \in t.status
          THEN IF ~IsStopped(s) /\ s.list # <<>> THEN AddToHwList(s) ELSE s
          ELSE t
  BY DEF Start
<1> HIDE DEF s, u
<1>5. /\ v.active = t.active /\ v.list = t.list /\ v.credits = t.credits
      /\ v.pushLimit = t.pushLimit
      /\ v.status = IF t.active /\ r \in t.status
                    THEN IF ~IsStopped(s) /\ s.list # <<>> THEN s.status \cup {"IN_HWQ_LIST"}
                         ELSE s.status
                    ELSE t.status
  BY <1>3, <1>4 DEF AddToHwList, TxqRec
<1> HIDE DEF v
<1>6. LinkExact(u) /\ NoPeriod(u)
  <2>1. t.active => "IN_HWQ_LIST" \notin u.status /\ r \in u.status
    BY <1>1, <1>2
  <2>2. t.active => IsStopped(u) /\ ~Linked(u)
    BY <1>1, <2>1 DEF IsStopped, Linked
  <2>3. ~t.active => ~Linked(u)
    BY <1>2 DEF LinkExact, Linked
  <2> QED
    BY <1>1, <1>2, <2>2, <2>3 DEF LinkExact, NoPeriod
<1>7. LinkExact(v) /\ NoPeriod(v)
  <2>1. CASE t.active /\ r \in t.status
    <3>1. IsStopped(t) /\ ~Linked(t)
      BY <1>1, <2>1 DEF IsStopped, LinkExact
    <3>2. IsStopped(v) <=> IsStopped(s)
      BY <1>5, <2>1 DEF IsStopped, StopReason
    <3>3. "IN_HWQ_LIST" \notin s.status
      BY <1>1, <1>3, <3>1 DEF Linked
    <3>4. Linked(v) <=> ~IsStopped(s) /\ s.list # <<>>
      BY <1>5, <2>1, <3>3 DEF Linked
    <3>5. NoPeriod(v)
      BY <1>1, <1>3, <1>5 DEF NoPeriod
    <3> QED
      BY <1>3, <1>5, <2>1, <3>2, <3>4, <3>5 DEF LinkExact
  <2>2. CASE ~(t.active /\ r \in t.status)
    <3>1. v = t
      BY <1>4, <2>2 DEF v
    <3> QED
      BY <3>1
  <2> QED
    BY <2>1, <2>2
<1>8. t.active => r \in u.status
  BY <1>1, <1>2
<1>9. FullOk(t) => FullOk(u)
  BY <1>2 DEF FullOk
<1>10. FullOk(t) /\ r = "STOP_CHAN" => FullOk(v)
  <2>1. r = "STOP_CHAN" /\ "STOP_FULL" \in t.status => "STOP_FULL" \in v.status
    BY <1>3, <1>5
  <2> QED
    BY <1>5, <2>1 DEF FullOk
<1> QED
  BY <1>6, <1>7, <1>8, <1>9, <1>10 DEF u, v

\* After any change of the credits.
LEMMA FullAgain ==
    ASSUME NEW t \in TxqRec, LinkExact(t), NoPeriod(t)
    PROVE  /\ ReadyOk(StopIfFull(t)) /\ StopIfFull(t).list = t.list
           /\ StopIfFull(t).active = t.active /\ StopIfFull(t) \in TxqRec
<1>1. "STOP_FULL" \in {"STOP_FULL", "STOP_CHAN"} /\ {} \in SUBSET StopReason
  OBVIOUS
<1>2. Schedules(t, StopIfFull(t)) /\ t.credits \in Int
  BY <1>1, StatusOps DEF TxqRec
<1>3. CASE t.credits <= 0
  <2>1. StopIfFull(t) = Stop(t, {"STOP_FULL"})
    BY <1>3 DEF StopIfFull
  <2>2. /\ LinkExact(Stop(t, {"STOP_FULL"})) /\ NoPeriod(Stop(t, {"STOP_FULL"}))
        /\ t.active => "STOP_FULL" \in Stop(t, {"STOP_FULL"}).status
    BY <1>1, ReadyOps
  <2> QED
    BY <1>2, <2>1, <2>2 DEF ReadyOk, FullOk, Schedules
<1>4. CASE ~(t.credits <= 0)
  <2>1. StopIfFull(t) = Start(t, {"STOP_FULL"})
    BY <1>4 DEF StopIfFull
  <2>2. LinkExact(Start(t, {"STOP_FULL"})) /\ NoPeriod(Start(t, {"STOP_FULL"}))
    BY <1>1, ReadyOps
  <2> QED
    BY <1>2, <1>4, <2>1, <2>2 DEF ReadyOk, FullOk, Schedules
<1> QED
  BY <1>3, <1>4

\* A queue with other credits.
LEMMA OtherCredits ==
    ASSUME NEW t \in TxqRec, NEW c \in Int
    PROVE  /\ [t EXCEPT !.credits = c] \in TxqRec /\ [t EXCEPT !.credits = c].credits = c
           /\ LinkExact(t) => LinkExact([t EXCEPT !.credits = c])
           /\ NoPeriod(t) => NoPeriod([t EXCEPT !.credits = c])
           /\ [t EXCEPT !.credits = c].active = t.active /\ [t EXCEPT !.credits = c].list = t.list
           /\ [t EXCEPT !.credits = c].status = t.status
BY DEF TxqRec, LinkExact, NoPeriod, Linked, IsStopped

\* Queueing a frame.
LEMMA QueueSkbReady ==
    ASSUME NEW t \in TxqRec, ReadyOk(t), RetryOk(t), t.active, NEW f \in Frame, NEW retry \in BOOLEAN
    PROVE  ReadyOk(QueueSkb(t, f, retry))
<1> DEFINE i == Insert(t, f, retry)
           c == IF Congested(i) THEN [i EXCEPT !.status = @ \cup {"NDEV_FLOW_CTRL"}] ELSE i
           u == QueueSkb(t, f, retry)
<1>1. /\ Queued(t, u, f, retry) /\ u.credits = t.credits
  BY QueueSkbQueues
<1>2. u.active /\ u.list # <<>>
  <2>1. Len(t.list) \in Nat
    BY DEF TxqRec
  <2>2. Len(u.list) # 0 /\ Len(<<>>) = 0
    BY <1>1, <2>1 DEF Queued
  <2> QED
    BY <1>1, <2>2 DEF Queued
<1>3. i.status = t.status /\ i.pushLimit = t.pushLimit
  BY DEF Insert, TxqRec
<1>4. "status" \in DOMAIN i /\ "pushLimit" \in DOMAIN i
  BY DEF Insert, TxqRec
<1>5. u = IF IsStopped(c) THEN c ELSE AddToHwList(c)
  BY DEF QueueSkb
<1> HIDE DEF i, u
<1>6. /\ c.status \in {t.status, t.status \cup {"NDEV_FLOW_CTRL"}} /\ c.pushLimit = t.pushLimit
      /\ "status" \in DOMAIN c /\ "pushLimit" \in DOMAIN c
  BY <1>3, <1>4
<1> HIDE DEF c
<1>7. /\ u.status = IF IsStopped(c) THEN c.status ELSE c.status \cup {"IN_HWQ_LIST"}
      /\ u.pushLimit = t.pushLimit
  BY <1>5, <1>6 DEF AddToHwList
<1>8. /\ IsStopped(c) <=> IsStopped(t)
      /\ "STOP_STA_PS" \in c.status <=> "STOP_STA_PS" \in t.status
      /\ "STOP_FULL" \in c.status <=> "STOP_FULL" \in t.status
      /\ "IN_HWQ_LIST" \in c.status <=> "IN_HWQ_LIST" \in t.status
  BY <1>6 DEF IsStopped, StopReason
<1>9. IsStopped(u) <=> IsStopped(c)
  BY <1>7 DEF IsStopped, StopReason
<1>10. LinkExact(u)
  BY <1>2, <1>7, <1>8, <1>9 DEF LinkExact, Linked, ReadyOk
<1>11. FullOk(u) /\ NoPeriod(u)
  BY <1>1, <1>7, <1>8 DEF FullOk, NoPeriod, ReadyOk
<1> QED
  BY <1>10, <1>11 DEF u, ReadyOk

\* One queue changes and nobody goes to sleep.
LEMMA OneReady ==
    ASSUME SchedInv, NEW q \in Txq, \A p \in Txq \ {q} : txq'[p] = txq[p], ReadyOk(txq'[q]),
           \A s \in Sta : ps'[s].active => ps[s].active
    PROVE  SchedInv'
<1>1. ASSUME NEW p \in Txq PROVE ReadyOk(txq'[p])
  <2>1. CASE p = q
    BY <2>1
  <2>2. CASE p # q
    BY <2>2 DEF SchedInv
  <2> QED
    BY <2>1, <2>2
<1> QED
  BY <1>1 DEF SchedInv, ReadyOk, LinkExact, FullOk, NoPeriod, Linked, IsStopped

\* A frame enters a queue.
LEMMA XmitReady ==
    ASSUME Inv, SchedInv, NEW q \in Txq, NEW f \in Frame, Xmit(q, f)
    PROVE  SchedInv'
<1>1. Shapes /\ ListInv /\ txq[q] \in TxqRec /\ RetryOk(txq[q]) /\ ReadyOk(txq[q])
  BY DEF Inv, Shapes, ListInv, ListGood, SchedInv
<1>2. \A p \in Txq \ {q} : txq'[p] = txq[p]
  BY <1>1, XmitEffect
<1>3. \A s \in Sta : ps'[s].active => ps[s].active
  <2>1. 1 \in Nat /\ (ps' = ps \/ ps' = CountReady(q, 1))
    BY DEF Xmit
  <2> QED
    BY <1>1, <2>1, CountReadyShapes
<1>4. ReadyOk(txq'[q])
  <2>1. CASE ~txq[q].active
    BY <1>1, <2>1 DEF Xmit
  <2>2. CASE txq[q].active
    <3>1. txq'[q] = QueueSkb(txq[q], f, FALSE)
      BY <1>1, <2>2 DEF Xmit, SetTxq, Shapes
    <3>2. FALSE \in BOOLEAN
      OBVIOUS
    <3>3. ReadyOk(QueueSkb(txq[q], f, FALSE))
      BY <1>1, <2>2, <3>2, QueueSkbReady
    <3> QED
      BY <3>1, <3>3
  <2> QED
    BY <2>1, <2>2
<1> QED
  BY <1>2, <1>3, <1>4, OneReady

\* A queue from which n frames are pushed keeps its place only if more may follow.
LEMMA PushReady ==
    ASSUME NEW t \in TxqRec, ReadyOk(t), RetryOk(t), Pushable(t), hwqCredits \in Nat, hwqCredits > 0
    PROVE  LET n == PushCount(t)
               u == AfterPush(t, n)
           IN /\ u.pushLimit = 0 /\ "STOP_STA_PS" \notin u.status /\ u.active
              /\ IsStopped(u) <=> u.credits <= 0
              /\ u.credits <= 0 => "STOP_FULL" \in u.status
              /\ Linked(u) <=> u.credits > 0
              /\ PushedAll(t) <=> u.list = <<>>
<1> DEFINE n == PushCount(t)
           r == Lower(n, t.nbRetry)
           v == [t EXCEPT !.list = SubSeq(@, n + 1, Len(@)),
                          !.nbRetry = @ - r,
                          !.lastRetry = IF r = t.nbRetry THEN NoFrame ELSE @,
                          !.pktSent = U8(@ + (n - r)),
                          !.credits = @ - n,
                          !.pktPushed = U8(@ + n),
                          !.pushLimit = LimitAfter(t, n)]
           u == AfterPush(t, n)
<1>1. /\ t.credits \in Int /\ t.credits > 0 /\ Len(t.list) \in Nat /\ t.pushLimit = 0 /\ t.active
      /\ "STOP_STA_PS" \notin t.status /\ Linked(t) /\ ~IsStopped(t)
  BY DEF TxqRec, Pushable, ReadyOk, NoPeriod, LinkExact
<1>2. n = Lower(Len(t.list), Lower(t.credits, hwqCredits))
  BY <1>1 DEF PushCount, Credits
<1>3. /\ n \in 0..Len(t.list)
      /\ PushedAll(t) <=> Lower(t.credits, hwqCredits) >= Len(t.list)
  <2>1. n \in 0..Len(t.list)
    BY <1>1, <1>2 DEF Lower
  <2>2. PushedAll(t) <=> Lower(t.credits, hwqCredits) >= Len(t.list)
    BY <1>1 DEF PushedAll, Credits
  <2> QED
    BY <2>1, <2>2
<1>4. PushedAll(t) <=> n = Len(t.list)
  BY <1>1, <1>2, <1>3 DEF Lower
<1> HIDE DEF n
<1>5. Cut(t, u, 0, n) /\ u.active = t.active
  BY <1>3, AfterPushCuts
<1>6. PushedAll(t) <=> u.list = <<>>
  <2>1. Len(u.list) = Len(t.list) - n /\ u \in TxqRec
    BY <1>5 DEF Cut
  <2>2. u.list = <<>> <=> Len(u.list) = 0
    BY <2>1 DEF TxqRec
  <2> QED
    BY <1>1, <1>3, <1>4, <2>1, <2>2
<1>7. /\ v.status = t.status /\ v.credits = t.credits - n /\ v.active = t.active
      /\ v.pushLimit = LimitAfter(t, n) /\ "status" \in DOMAIN v
  BY DEF TxqRec
<1>8. u = IF v.credits <= 0 THEN Stop(v, {"STOP_FULL"}) ELSE v
  BY DEF AfterPush
<1> HIDE DEF u, v
<1>9. LimitAfter(t, n) = 0
  BY <1>1, <1>3 DEF LimitAfter, Higher
<1>10. /\ u.credits = v.credits /\ u.pushLimit = v.pushLimit
       /\ u.status = IF v.credits <= 0 THEN (v.status \cup {"STOP_FULL"}) \ {"IN_HWQ_LIST"}
                     ELSE v.status
  BY <1>1, <1>7, <1>8 DEF Stop, DelFromHwList
<1>11. CASE v.credits <= 0
  <2>1. "STOP_FULL" \in u.status /\ "IN_HWQ_LIST" \notin u.status /\ "STOP_STA_PS" \notin u.status
    BY <1>1, <1>7, <1>10, <1>11
  <2>2. IsStopped(u) /\ ~Linked(u)
    BY <2>1, Reasons DEF Linked
  <2>3. ~(u.credits > 0)
    BY <1>1, <1>3, <1>7, <1>10, <1>11
  <2> QED
    BY <1>1, <1>5, <1>6, <1>7, <1>9, <1>10, <1>11, <2>1, <2>2, <2>3 DEF u, n
<1>12. CASE ~(v.credits <= 0)
  <2>1. u.status = t.status
    BY <1>7, <1>10, <1>12
  <2>2. ~IsStopped(u) /\ Linked(u)
    BY <1>1, <2>1 DEF IsStopped, Linked
  <2>3. u.credits > 0
    BY <1>1, <1>3, <1>7, <1>10, <1>12
  <2> QED
    BY <1>1, <1>5, <1>6, <1>7, <1>9, <1>10, <1>12, <2>1, <2>2, <2>3 DEF u, n
<1> QED
  BY <1>11, <1>12

\* One iteration of aml_hwq_process.
LEMMA VisitReady ==
    ASSUME Inv, SchedInv, VisitTxq
    PROVE  SchedInv'
<1>1. PICK q \in Txq : IF Pushable(txq[q]) /\ hwqCredits > 0 THEN PushTxq(q)
                       ELSE UNCHANGED <<txq, hwList, hwqCredits, ps, ndevStopped, where, pushed>>
  BY DEF VisitTxq
<1>2. /\ Shapes /\ ListInv /\ txq[q] \in TxqRec /\ RetryOk(txq[q]) /\ ReadyOk(txq[q])
      /\ hwqCredits \in Nat
  BY DEF Inv, Shapes, ListInv, ListGood, SchedInv
<1>3. CASE Pushable(txq[q]) /\ hwqCredits > 0
  <2> DEFINE u == AfterPush(txq[q], PushCount(txq[q]))
             t == txq'[q]
             all == PushedAll(txq[q])
  <2>1. PushTxq(q)
    BY <1>1, <1>3
  <2>2. /\ t.list = u.list /\ t.credits = u.credits /\ t.active = u.active
        /\ t.pushLimit \in {u.pushLimit, 0}
        /\ \A x \in SchedFlag :
              x \in t.status <=> x \in u.status /\ ~(x = "IN_HWQ_LIST" /\ all)
    BY <1>3, <2>1, PushRelinks
  <2>3. /\ u.pushLimit = 0 /\ "STOP_STA_PS" \notin u.status /\ u.active
        /\ IsStopped(u) <=> u.credits <= 0
        /\ u.credits <= 0 => "STOP_FULL" \in u.status
        /\ Linked(u) <=> u.credits > 0
        /\ all <=> u.list = <<>>
    BY <1>2, <1>3, PushReady
  <2>4. /\ \A p \in Txq \ {q} : txq'[p] = txq[p]
        /\ \A s \in Sta : ps'[s].active = ps[s].active
    BY <1>2, <1>3, <2>1, VisitPushes
  <2>5. u.credits \in Int
    BY <1>3, <2>1, PushRelinks DEF TxqRec
  <2> HIDE DEF u, t, all
  <2>6. /\ "STOP_FULL" \in SchedFlag /\ "STOP_STA_PS" \in SchedFlag /\ "STOP_CHAN" \in SchedFlag
        /\ "IN_HWQ_LIST" \in SchedFlag
    BY DEF SchedFlag, StopReason
  <2>7. /\ "STOP_FULL" \in t.status <=> "STOP_FULL" \in u.status
        /\ "STOP_STA_PS" \in t.status <=> "STOP_STA_PS" \in u.status
        /\ "STOP_CHAN" \in t.status <=> "STOP_CHAN" \in u.status
        /\ "IN_HWQ_LIST" \in t.status <=> "IN_HWQ_LIST" \in u.status /\ ~all
    BY <2>2, <2>6
  <2>8. IsStopped(t) <=> IsStopped(u)
    BY <2>7, Reasons
  <2>9. LinkExact(t)
    <3>1. u.credits > 0 <=> ~(u.credits <= 0)
      BY <2>5
    <3> QED
      BY <2>2, <2>3, <2>7, <2>8, <3>1 DEF LinkExact, Linked
  <2>10. FullOk(t) /\ NoPeriod(t)
    BY <2>2, <2>3, <2>7 DEF FullOk, NoPeriod
  <2>11. ReadyOk(txq'[q])
    BY <2>9, <2>10 DEF ReadyOk, t
  <2> QED
    BY <2>4, <2>11, OneReady
<1>4. CASE ~(Pushable(txq[q]) /\ hwqCredits > 0)
  <2>1. txq' = txq /\ ps' = ps
    BY <1>1, <1>4
  <2> QED
    BY <2>1 DEF SchedInv
<1> QED
  BY <1>3, <1>4

\* A confirmation of a frame changes only the count of pushed frames of the queue.
LEMMA ConfirmAnyShape ==
    ASSUME NEW u \in TxqRec
    PROVE  /\ ConfirmAny(u) \in TxqRec
           /\ ConfirmAny(u).active = u.active /\ ConfirmAny(u).status = u.status
           /\ ConfirmAny(u).list = u.list /\ ConfirmAny(u).credits = u.credits
           /\ ConfirmAny(u).pushLimit = u.pushLimit
           /\ ConfirmAny(u).nbRetry = u.nbRetry /\ ConfirmAny(u).lastRetry = u.lastRetry
<1> DEFINE m == Higher(u.pktPushed - 1, 0)
<1>1. u.pktPushed \in Nat
  BY DEF TxqRec
<1>2. m \in Nat
  BY <1>1 DEF Higher
<1>3. ConfirmAny(u) = [u EXCEPT !.pktPushed = m]
  BY DEF ConfirmAny
<1> HIDE DEF m
<1> QED
  BY <1>2, <1>3 DEF TxqRec

\* One confirmation.
LEMMA ConfirmReady ==
    ASSUME Inv, SchedInv, Confirm
    PROVE  SchedInv'
<1> DEFINE c == Head(toConfirm)
           q == frameTxq[c.frame]
           t == ConfirmAny(txq[q])
           again == txq[q].active /\ c.retry
<1>1. Shapes /\ ListInv
  BY DEF Inv
<1>2. /\ c \in CfmRec /\ c.frame \in Frame /\ q \in Txq /\ \A p \in Txq \ {q} : txq'[p] = txq[p]
      /\ again => ps' = CountReady(q, 1)
      /\ ~again => ps' = ps
  BY <1>1, ConfirmEffect
<1>3. txq[q] \in TxqRec /\ RetryOk(txq[q]) /\ ReadyOk(txq[q])
  BY <1>1, <1>2 DEF Shapes, ListInv, ListGood, SchedInv
<1>4. /\ t \in TxqRec /\ t.active = txq[q].active /\ t.status = txq[q].status
      /\ t.list = txq[q].list /\ t.credits = txq[q].credits /\ t.pushLimit = txq[q].pushLimit
      /\ t.nbRetry = txq[q].nbRetry /\ t.lastRetry = txq[q].lastRetry
  BY <1>3, ConfirmAnyShape
<1>5. txq'[q] = IF again THEN Retry(t, c.frame)
                ELSE IF t.active THEN Credited(t, c.credits) ELSE t
  <2>1. \/ SetTxq(q, Retry(t, c.frame)) /\ again
        \/ ~again /\ SetTxq(q, IF t.active THEN Credited(t, c.credits) ELSE t)
    BY <1>4 DEF Confirm
  <2> HIDE DEF t, again, c
  <2> QED
    BY <1>1, <1>2, <2>1 DEF SetTxq, Shapes
<1> HIDE DEF t
<1>6. ReadyOk(t) /\ RetryOk(t)
  BY <1>3, <1>4 DEF ReadyOk, LinkExact, FullOk, NoPeriod, Linked, IsStopped, RetryOk
<1>7. t.credits \in Int /\ c.credits \in Nat
  BY <1>2, <1>4 DEF TxqRec, CfmRec
<1> HIDE DEF c, q
<1>8. CASE again
  <2> DEFINE d == [t EXCEPT !.credits = @ + 1]
             u == IF d.credits > 0 THEN Start(d, {"STOP_FULL"}) ELSE d
  <2>1. t.credits + 1 \in Int /\ d = [t EXCEPT !.credits = t.credits + 1]
    BY <1>7
  <2>2. /\ d \in TxqRec /\ d.credits = t.credits + 1 /\ LinkExact(d) /\ NoPeriod(d)
        /\ d.active = t.active /\ d.list = t.list /\ d.status = t.status
    BY <1>4, <1>6, <2>1, OtherCredits DEF ReadyOk
  <2>3. d.nbRetry = t.nbRetry /\ d.lastRetry = t.lastRetry
    BY <1>4 DEF TxqRec
  <2> HIDE DEF d
  <2>4. /\ ReadyOk(u) /\ u \in TxqRec /\ u.active = t.active
        /\ u.list = t.list /\ u.nbRetry = t.nbRetry /\ u.lastRetry = t.lastRetry
    <3>1. CASE d.credits > 0
      <4>1. u = StopIfFull(d)
        BY <1>7, <2>2, <3>1 DEF StopIfFull
      <4>2. ReadyOk(StopIfFull(d)) /\ StopIfFull(d) \in TxqRec
        BY <2>2, FullAgain
      <4>3. Schedules(d, StopIfFull(d))
        <5>1. {} \in SUBSET StopReason
          OBVIOUS
        <5> QED
          BY <2>2, <5>1, StatusOps
      <4> QED
        BY <2>2, <2>3, <4>1, <4>2, <4>3 DEF Schedules
    <3>2. CASE ~(d.credits > 0)
      <4>1. t.credits <= 0
        BY <1>7, <2>2, <3>2
      <4>2. FullOk(d)
        BY <1>6, <2>2, <4>1 DEF FullOk, ReadyOk
      <4> QED
        BY <2>2, <2>3, <3>2, <4>2 DEF ReadyOk
    <3> QED
      BY <3>1, <3>2
  <2>5. Retry(t, c.frame) = QueueSkb(u, c.frame, TRUE)
    BY DEF Retry, d
  <2> HIDE DEF u
  <2>6. RetryOk(u) /\ u.active
    BY <1>4, <1>6, <1>8, <2>4 DEF RetryOk
  <2>7. ReadyOk(QueueSkb(u, c.frame, TRUE))
    BY <1>2, <2>4, <2>6, QueueSkbReady
  <2>8. ReadyOk(txq'[q])
    BY <1>5, <1>8, <2>5, <2>7
  <2>9. \A s \in Sta : ps'[s].active => ps[s].active
    <3>1. 1 \in Nat /\ ps' = CountReady(q, 1)
      BY <1>2, <1>8
    <3> QED
      BY <1>1, <1>2, <3>1, CountReadyShapes
  <2> QED
    BY <1>2, <2>8, <2>9, OneReady
<1>9. CASE ~again
  <2>1. ReadyOk(Credited(t, c.credits))
    <3> DEFINE d == [t EXCEPT !.credits = @ + c.credits]
               u == IF c.credits # 0 THEN StopIfFull(d) ELSE t
    <3>1. t.credits + c.credits \in Int /\ d = [t EXCEPT !.credits = t.credits + c.credits]
      BY <1>7
    <3>2. d \in TxqRec /\ LinkExact(d) /\ NoPeriod(d)
      BY <1>4, <1>6, <3>1, OtherCredits DEF ReadyOk
    <3> HIDE DEF d
    <3>3. ReadyOk(u)
      BY <1>6, <3>2, FullAgain
    <3>4. Credited(t, c.credits)
            = IF u.pushLimit # 0 /\ "STOP_FULL" \notin u.status THEN AddToHwList(u) ELSE u
      BY DEF Credited, d
    <3> HIDE DEF u
    <3>5. u.pushLimit = 0
      BY <3>3 DEF ReadyOk, NoPeriod
    <3> QED
      BY <3>3, <3>4, <3>5
  <2>2. ReadyOk(txq'[q])
    BY <1>5, <1>6, <1>9, <2>1
  <2>3. ps' = ps
    BY <1>2, <1>9
  <2> QED
    BY <1>2, <2>2, <2>3, OneReady
<1> QED
  BY <1>8, <1>9

\* Nobody goes to sleep and each queue is as it should be.
LEMMA AllReady ==
    ASSUME SchedInv, \A q \in Txq : ReadyOk(txq'[q]), \A s \in Sta : ps'[s].active => ps[s].active
    PROVE  SchedInv'
BY DEF SchedInv, ReadyOk, LinkExact, FullOk, NoPeriod, Linked, IsStopped

\* The firmware takes the channel or gives it back.
LEMMA ChanSwitchReady ==
    ASSUME Inv, SchedInv, ChanSwitch
    PROVE  SchedInv'
<1>1. txq' = [q \in Txq |-> IF chanOn THEN Stop(txq[q], {"STOP_CHAN"}) ELSE Start(txq[q], {"STOP_CHAN"})]
      /\ ps' = ps
  BY DEF ChanSwitch, SetTxqs
<1>2. \A q \in Txq : ReadyOk(txq'[q])
  <2> TAKE q \in Txq
  <2>1. txq[q] \in TxqRec /\ ReadyOk(txq[q]) /\ "STOP_CHAN" \in {"STOP_FULL", "STOP_CHAN"}
    BY DEF Inv, Shapes, SchedInv
  <2>2. LinkExact(txq[q]) /\ FullOk(txq[q]) /\ NoPeriod(txq[q])
    BY <2>1 DEF ReadyOk
  <2>3. ReadyOk(Stop(txq[q], {"STOP_CHAN"})) /\ ReadyOk(Start(txq[q], {"STOP_CHAN"}))
    <3>1. /\ LinkExact(Stop(txq[q], {"STOP_CHAN"})) /\ NoPeriod(Stop(txq[q], {"STOP_CHAN"}))
          /\ LinkExact(Start(txq[q], {"STOP_CHAN"})) /\ NoPeriod(Start(txq[q], {"STOP_CHAN"}))
          /\ FullOk(Stop(txq[q], {"STOP_CHAN"})) /\ FullOk(Start(txq[q], {"STOP_CHAN"}))
      BY <2>1, <2>2, ReadyOps
    <3> QED
      BY <3>1 DEF ReadyOk
  <2> QED
    BY <1>1, <2>3
<1> QED
  BY <1>1, <1>2, AllReady

\* An update of the credits, which drops nothing.
LEMMA UpdateReady ==
    ASSUME Inv, SchedInv, RetryInv, Apart, features \in FeatureSets, NEW q \in Txq,
           NEW b \in BaCredits, CreditUpdate(q, b)
    PROVE  SchedInv'
<1> DEFINE t == txq[q]
           u == IF ba[q] = 0 THEN b ELSE -ba[q]
           v == IF ~Pcie /\ u > InitialCredits /\ t.active THEN HwqSize - InitialCredits ELSE u
           n == IF v < InitialCredits THEN NbDropped(t) ELSE 0
           t1 == IF t.active THEN Updated(t, v) ELSE t
           t2 == DropRetries(t1, n)
<1>1. Shapes /\ t \in TxqRec /\ ReadyOk(t)
  BY DEF Inv, Shapes, SchedInv
<1>2. txq' = [txq EXCEPT ![q] = t2] /\ ps' = ps
  BY DEF CreditUpdate, SetTxq
<1>3. v \in Int
  BY <1>1, TxqAssumption DEF Shapes
<1> HIDE DEF v
<1>4. n = 0
  <2>1. "retry" \notin features
    BY DEF CreditUpdate, Apart
  <2>2. t.nbRetry = 0
    BY <2>1 DEF RetryInv
  <2>3. NbDropped(t) = 0
    BY <2>2 DEF NbDropped
  <2> QED
    BY <2>3
<1> HIDE DEF n, t
<1>5. t1 \in TxqRec /\ ReadyOk(t1)
  <2>1. CASE t.active
    <3> DEFINE fits == /\ Pcie \/ t.credits + v > 0
                       /\ t.credits + t.pktPushed + v < HwqSize
               x == S8(IF fits THEN t.credits + v ELSE HwqSize - t.pktPushed)
               d == [t EXCEPT !.credits = x]
    <3>1. t.credits \in Int /\ t.pktPushed \in Int /\ HwqSize \in Int
      BY <1>1, TxqAssumption DEF TxqRec
    <3>2. ASSUME NEW i \in Int PROVE S8(i) \in Int
      BY DEF S8
    <3>3. x \in Int
      BY <1>3, <3>1, <3>2
    <3>4. Updated(t, v) = StopIfFull(d)
      BY DEF Updated
    <3> HIDE DEF x
    <3>5. d \in TxqRec /\ LinkExact(d) /\ NoPeriod(d)
      BY <1>1, <3>3, OtherCredits DEF ReadyOk
    <3> HIDE DEF d
    <3>6. ReadyOk(StopIfFull(d)) /\ StopIfFull(d) \in TxqRec
      BY <3>5, FullAgain
    <3> QED
      BY <2>1, <3>4, <3>6
  <2>2. CASE ~t.active
    BY <1>1, <2>2
  <2> QED
    BY <2>1, <2>2
<1> HIDE DEF t1
<1>6. /\ t2.list = SubSeq(t1.list, 1, Len(t1.list)) /\ t2.status = t1.status
      /\ t2.active = t1.active /\ t2.credits = t1.credits /\ t2.pushLimit = t1.pushLimit
  <2>1. Len(t1.list) \in Nat /\ 0 + 1 = 1
    BY <1>5 DEF TxqRec
  <2> QED
    BY <1>4, <1>5, <2>1 DEF DropRetries, TxqRec
<1>7. t2.list = t1.list
  <2>1. t1.list \in Seq(Frame)
    BY <1>5 DEF TxqRec
  <2> QED
    BY <1>6, <2>1
<1> HIDE DEF t2
<1>8. ReadyOk(t2)
  BY <1>5, <1>6, <1>7 DEF ReadyOk, LinkExact, FullOk, NoPeriod, Linked, IsStopped
<1>9. txq'[q] = t2 /\ \A p \in Txq \ {q} : txq'[p] = txq[p]
  BY <1>1, <1>2 DEF Shapes
<1> QED
  BY <1>2, <1>8, <1>9, OneReady

\* Old frames are dropped.
LEMMA CleanupReady ==
    ASSUME Inv, SchedInv, NEW q \in Txq, NEW m \in 0..NbFrames, CleanupTimer(q, m)
    PROVE  SchedInv'
<1> DEFINE t  == txq[q]
           t0 == DropOld(t, m)
           t1 == Unschedule(ShortenSp(t0, 0))
           t2 == [t1 EXCEPT !.status = @ \ {"NDEV_FLOW_CTRL"}]
<1>1. /\ Shapes /\ ListInv /\ t \in TxqRec /\ ReadyOk(t) /\ RetryOk(t) /\ t.active
      /\ ~ps[StaOf[q]].active
  BY ZenonT(40), TxqAssumption DEF Inv, Shapes, ListInv, ListGood, SchedInv, CleanupTimer
<1>2. t.nbRetry + m <= Len(t.list)
  BY <1>1, CleanupEffect
<1>3. txq'[q] \in {t1, t2} /\ ps' = ps /\ \A p \in Txq \ {q} : txq'[p] = txq[p]
  <2>1. /\ \E w \in {t1, t2} : SetTxq(q, w)
        /\ ps' = ps
    BY <1>1 DEF CleanupTimer
  <2> HIDE DEF t1, t2
  <2> QED
    BY <1>1, <2>1 DEF SetTxq, Shapes
<1>4. t0 \in TxqRec /\ t0.status = t.status /\ t0.credits = t.credits /\ t0.active = t.active
  <2>1. m \in Nat
    BY TxqAssumption
  <2>2. Cut(t, t0, t.nbRetry, m) /\ t0.status = t.status /\ t0.credits = t.credits /\ t0.active = t.active
    BY <1>1, <1>2, <2>1, DropOldCuts
  <2> QED
    BY <2>2 DEF Cut
<1>5. t0.pushLimit = 0
  BY <1>1 DEF DropOld, ReadyOk, NoPeriod, TxqRec
<1>6. t0.list # <<>> => t.list # <<>>
  <2>1. t0.list = SubSeq(t.list, 1, t.nbRetry) \o SubSeq(t.list, t.nbRetry + m + 1, Len(t.list))
    BY <1>1 DEF DropOld, TxqRec
  <2>2. ASSUME t.list = <<>> PROVE t0.list = <<>>
    <3>1. t.nbRetry = 0 /\ m = 0 /\ Len(t.list) = 0
      BY <1>1, <1>2, <2>2, TxqAssumption DEF TxqRec
    <3> QED
      BY <2>1, <2>2, <3>1
  <2> QED
    BY <2>2
<1> HIDE DEF t0, t
<1> DEFINE d == ShortenSp(t0, 0)
<1>7. /\ d \in TxqRec /\ d.status = t.status /\ d.credits = t.credits /\ d.active = t.active
      /\ d.pushLimit = 0 /\ d.list = t0.list
  <2>1. LimitAfter(t0, 0) = 0
    BY <1>5 DEF LimitAfter, Higher
  <2> QED
    BY <1>4, <2>1 DEF ShortenSp, TxqRec
<1> HIDE DEF d
<1>8. /\ t1 \in TxqRec /\ t1.credits = t.credits /\ t1.active = t.active /\ t1.pushLimit = 0
      /\ t1.list = t0.list
      /\ t1.status = IF t0.list = <<>> THEN t.status \ {"IN_HWQ_LIST"} ELSE t.status
  <2> DEFINE e == [d EXCEPT !.status = @ \ {"IN_HWQ_LIST"}]
  <2>1. t1 = IF t0.list = <<>> THEN [e EXCEPT !.pktSent = 0] ELSE d
    BY <1>7 DEF d, Unschedule, DelFromHwList
  <2>2. /\ e \in TxqRec /\ e.credits = t.credits /\ e.active = t.active /\ e.pushLimit = 0
        /\ e.list = t0.list /\ e.status = t.status \ {"IN_HWQ_LIST"}
    BY <1>7 DEF TxqRec
  <2> HIDE DEF e
  <2>3. /\ [e EXCEPT !.pktSent = 0] \in TxqRec /\ [e EXCEPT !.pktSent = 0].credits = t.credits
        /\ [e EXCEPT !.pktSent = 0].active = t.active /\ [e EXCEPT !.pktSent = 0].pushLimit = 0
        /\ [e EXCEPT !.pktSent = 0].list = t0.list
        /\ [e EXCEPT !.pktSent = 0].status = t.status \ {"IN_HWQ_LIST"}
    BY <2>2 DEF TxqRec
  <2> QED
    BY <1>7, <2>1, <2>3
<1> HIDE DEF t1
<1>9. ReadyOk(t1)
  <2>1. IsStopped(t1) <=> IsStopped(t)
    BY <1>8 DEF IsStopped, StopReason
  <2>2. Linked(t1) <=> Linked(t) /\ t0.list # <<>>
    BY <1>8 DEF Linked
  <2>3. LinkExact(t1)
    BY <1>1, <1>6, <1>8, <2>1, <2>2 DEF ReadyOk, LinkExact
  <2>4. FullOk(t1) /\ NoPeriod(t1)
    BY <1>1, <1>8 DEF ReadyOk, FullOk, NoPeriod
  <2> QED
    BY <2>3, <2>4 DEF ReadyOk
<1>10. ReadyOk(t2)
  <2>1. /\ t2.status = t1.status \ {"NDEV_FLOW_CTRL"} /\ t2.credits = t1.credits
        /\ t2.active = t1.active /\ t2.pushLimit = t1.pushLimit /\ t2.list = t1.list
    BY <1>8 DEF TxqRec
  <2> HIDE DEF t2
  <2>2. IsStopped(t2) <=> IsStopped(t1)
    BY <2>1 DEF IsStopped, StopReason
  <2> QED
    BY <1>9, <2>1, <2>2 DEF ReadyOk, LinkExact, FullOk, NoPeriod, Linked
<1>11. ReadyOk(txq'[q])
  BY <1>3, <1>9, <1>10
<1> QED
  BY <1>3, <1>11, OneReady

\* A queue of a station that has gone.
LEMMA DeinitReady ==
    ASSUME Inv, SchedInv, NEW q \in Txq, TxqDeinit(q)
    PROVE  SchedInv'
<1> DEFINE t == [DelFromHwList(txq[q]) EXCEPT
                    !.active = FALSE, !.list = <<>>, !.nbRetry = 0, !.lastRetry = NoFrame]
<1>1. Shapes /\ txq[q] \in TxqRec /\ ReadyOk(txq[q])
  BY DEF Inv, Shapes, SchedInv
<1>2. txq'[q] = t /\ ps' = ps /\ \A p \in Txq \ {q} : txq'[p] = txq[p]
  BY <1>1 DEF TxqDeinit, SetTxq, Shapes
<1>3. /\ ~t.active /\ t.status = txq[q].status \ {"IN_HWQ_LIST"}
      /\ t.pushLimit = txq[q].pushLimit
  BY <1>1 DEF DelFromHwList, TxqRec
<1> HIDE DEF t
<1>4. ReadyOk(t)
  BY <1>1, <1>3 DEF ReadyOk, LinkExact, FullOk, NoPeriod, Linked
<1> QED
  BY <1>2, <1>4, OneReady

\* A station comes awake.
LEMMA StaAddReady ==
    ASSUME Inv, SchedInv, NoSleep, features \in FeatureSets, NEW s \in Sta, StaAdd(s)
    PROVE  SchedInv'
<1> DEFINE status == IF chanOn THEN {} ELSE {"STOP_CHAN"}
<1>1. "ps" \notin features
  BY DEF NoSleep
<1>2. /\ txq' = [q \in Txq |-> IF StaOf[q] = s THEN InitTxq(status \cup {}) ELSE txq[q]]
      /\ ps' = [ps EXCEPT ![s] = ps[s]]
  BY <1>1 DEF StaAdd, Inv, Shapes
<1>3. /\ "STOP_FULL" \notin status /\ "STOP_STA_PS" \notin status /\ "IN_HWQ_LIST" \notin status
      /\ status \cup {} = status
  OBVIOUS
<1> HIDE DEF status
<1>4. ReadyOk(InitTxq(status))
  <2>1. InitialCredits \in Int /\ InitialCredits > 0
    BY TxqAssumption
  <2> QED
    BY <1>3, <2>1 DEF ReadyOk, LinkExact, FullOk, NoPeriod, Linked, InitTxq
<1>5. \A q \in Txq : ReadyOk(txq'[q])
  BY <1>2, <1>3, <1>4 DEF SchedInv
<1>6. \A r \in Sta : ps'[r].active => ps[r].active
  BY <1>2 DEF Inv, Shapes
<1> QED
  BY <1>5, <1>6, AllReady

\* Each step keeps the queues as they should be.
LEMMA NextReady ==
    ASSUME NoRace, Apart, NoSleep, FlowAll, HwListInv, SchedInv, Step
    PROVE  SchedInv'
<1>1. Inv /\ RetryInv /\ features \in FeatureSets /\ "ps" \notin features /\ cleanup.step = "none"
  BY DEF FlowAll, HwListInv, TailOff, NoSleep
<1>2. ASSUME NEW q \in Txq, NEW f \in Frame, Xmit(q, f) PROVE SchedInv'
  BY <1>1, <1>2, XmitReady
<1>3. CASE VisitTxq
  BY <1>1, <1>3, VisitReady
<1>4. CASE Confirm
  BY <1>1, <1>4, ConfirmReady
<1>5. CASE ChanSwitch
  BY <1>1, <1>5, ChanSwitchReady
<1>6. ASSUME NEW q \in Txq, NEW b \in BaCredits, CreditUpdate(q, b) PROVE SchedInv'
  BY <1>1, <1>6, UpdateReady
<1>7. ASSUME NEW q \in Txq, NEW m \in 0..NbFrames, CleanupTimer(q, m) PROVE SchedInv'
  BY <1>1, <1>7, CleanupReady
<1>8. ASSUME NEW q \in Txq, TxqDeinit(q) PROVE SchedInv'
  BY <1>1, <1>8, DeinitReady
<1>9. ASSUME NEW s \in Sta, StaAdd(s) PROVE SchedInv'
  BY <1>1, <1>9, StaAddReady
<1>10. ASSUME NEW s \in Sta, StaDel(s) PROVE SchedInv'
  <2>1. txq' = txq /\ ps' = [ps EXCEPT ![s].active = FALSE]
    BY <1>10 DEF StaDel
  <2>2. \A r \in Sta : ps'[r].active => ps[r].active
    BY <1>1, <2>1 DEF Inv, Shapes, PsRec
  <2>3. \A q \in Txq : ReadyOk(txq'[q])
    BY <2>1 DEF SchedInv
  <2> QED
    BY <2>2, <2>3, AllReady
<1>11. CASE (\E f \in Frame : FwConfirm(f)) \/ Irq \/ IrqProcess
  <2>1. txq' = txq /\ ps' = ps
    BY <1>11 DEF FwConfirm, Irq, IrqProcess, drvVars
  <2> QED
    BY <2>1 DEF SchedInv
<1>12. ~(TailRead \/ TailWrite)
  BY <1>1 DEF TailRead, TailWrite
<1>13. \A s \in Sta : ~PsOn(s) /\ ~PsOff(s) /\ ~SpInterrupted(s)
  BY <1>1 DEF PsOn, PsOff, SpInterrupted, SchedInv
<1>14. \A s \in Sta, id \in PsId, n \in 0..MaxReq : ~TrafficReq(s, id, n)
  BY <1>1 DEF TrafficReq
<1> QED
  BY <1>2, <1>3, <1>4, <1>5, <1>6, <1>7, <1>8, <1>9, <1>10, <1>11, <1>12, <1>13, <1>14 DEF Step

\* A queue that is linked exactly while it can send is scheduled as it should be.
LEMMA ReadyIsScheduled ==
    ASSUME Inv, HwListInv, SchedInv
    PROVE  ScheduledIffReady
<1>1. ASSUME NEW q \in Txq
      PROVE  /\ Linked(txq[q]) => Pushable(txq[q]) /\ ~IsStopped(txq[q])
             /\ txq[q].active /\ ~IsStopped(txq[q]) /\ txq[q].list # <<>> => Linked(txq[q])
  <2>1. txq[q] \in TxqRec /\ ReadyOk(txq[q])
    BY DEF Inv, Shapes, SchedInv
  <2>2. txq[q].credits \in Int
    BY <2>1 DEF TxqRec
  <2>3. ~IsStopped(txq[q]) => "STOP_FULL" \notin txq[q].status
    BY Reasons
  <2>4. txq[q].active /\ ~IsStopped(txq[q]) => txq[q].credits > 0
    BY <2>1, <2>2, <2>3 DEF ReadyOk, FullOk
  <2> QED
    BY <2>1, <2>4 DEF ReadyOk, LinkExact, Pushable
<1>2. ASSUME NEW q \in ToSet(hwList)
      PROVE  /\ txq[q].status \cap StopReason \subseteq {"STOP_STA_PS"}
             /\ "STOP_STA_PS" \in txq[q].status => txq[q].pushLimit > 0
  <2>1. q \in Txq /\ Linked(txq[q])
    BY DEF HwListInv, HwListOk, ListSound
  <2>2. ~IsStopped(txq[q])
    BY <1>1, <2>1
  <2> QED
    BY <2>2, Reasons DEF IsStopped
<1> QED
  BY <1>1, <1>2 DEF ScheduledIffReady

\* In the beginning no queue has a frame.
LEMMA InitSched == Init => SchedInv
<1> SUFFICES ASSUME Init PROVE SchedInv
  OBVIOUS
<1>1. InitialCredits \in Int /\ InitialCredits > 0
  BY TxqAssumption
<1>2. ReadyOk(InitTxq({}))
  BY <1>1 DEF ReadyOk, LinkExact, FullOk, NoPeriod, Linked, InitTxq
<1>3. (\A q \in Txq : txq[q] = InitTxq({})) /\ \A s \in Sta : ~ps[s].active
  BY DEF Init
<1> QED
  BY <1>2, <1>3 DEF SchedInv

\* The four invariants together.
SchedAll == FlowAll /\ HwListInv /\ SchedInv

\* Each step keeps all of it.
LEMMA NextSched ==
    ASSUME NoRace, Apart, NoSleep, SchedAll, [Next]_<<vars, conf>>
    PROVE  SchedAll'
<1>1. FlowAll /\ HwListInv /\ SchedInv /\ Inv
  BY DEF SchedAll, FlowAll
<1>2. FlowAll'
  BY <1>1, NextFlow
<1>3. HwListInv'
  BY <1>1, NextHwList
<1>4. SchedInv'
  <2>1. CASE Next
    BY <1>1, <2>1, NextReady DEF Next
  <2>2. CASE UNCHANGED <<vars, conf>>
    <3>1. txq' = txq /\ ps' = ps
      BY <2>2 DEF vars, drvVars
    <3> QED
      BY <1>1, <3>1 DEF SchedInv
  <2> QED
    BY <2>1, <2>2
<1> QED
  BY <1>2, <1>3, <1>4 DEF SchedAll

\* A queue is scheduled exactly while it can send: a scheduled one has a frame and a
\* credit and no reason to wait, and one with both and no reason to wait is scheduled,
\* whatever is confirmed, postponed, updated, dropped, deleted and switched meanwhile.
THEOREM ScheduleIsRight == ASSUME NoRace, Apart, NoSleep PROVE Spec => []ScheduledIffReady
<1>1. ASSUME SchedAll PROVE ScheduledIffReady
  BY <1>1, ReadyIsScheduled DEF SchedAll, FlowAll
<1>2. Init => SchedAll
  BY InitFlow, InitHwList, InitSched DEF SchedAll
<1>3. SchedAll => ScheduledIffReady
  BY <1>1
<1>4. SchedAll /\ [Next]_<<vars, conf>> => SchedAll'
  BY NextSched
<1> QED
  BY <1>2, <1>3, <1>4, PTL DEF Spec
=============================================================================
