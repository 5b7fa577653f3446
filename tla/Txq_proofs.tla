----------------------------- MODULE Txq_proofs -----------------------------
(***************************************************************************)
(* Theorems about Txq, for any stations, queues, bounds and features.      *)
(***************************************************************************)
EXTENDS Txq, FiniteSetTheorems, TLAPS

\* The shapes of the variables.
TxqRec == [active : BOOLEAN, status : SUBSET Status, credits : Int, pktSent : Nat, pktPushed : Nat,
           list : Seq(Frame), lastRetry : Frame \cup {NoFrame}, nbRetry : Nat, pushLimit : Nat]
PsRec  == [active : BOOLEAN, pktReady : [PsId -> Int], spCnt : [PsId -> Int]]
CfmRec == [frame : Frame, retry : BOOLEAN, credits : Nat]

Shapes ==
    /\ txq \in [Txq -> TxqRec] /\ hwqCredits \in Nat
    /\ ps \in [Sta -> PsRec] /\ valid \in [Sta -> BOOLEAN]
    /\ where \in [Frame -> Place] /\ frameTxq \in [Frame -> Txq]
    /\ cfms \in Seq(CfmRec) /\ toConfirm \in Seq(CfmRec)
    /\ ba \in [Txq -> Nat] /\ owed \in [Txq -> Nat]
    /\ ndevStopped \subseteq Txq /\ pushed \subseteq Frame
    /\ cleanup \in [step : {"none", "read", "write"}, of : Txq, status : SUBSET Status]

-----------------------------------------------------------------------------
(* The operations on lists                                                 *)

\* The first n elements, and what is left without them.
LEMMA DropFirst ==
    ASSUME NEW l \in Seq(Frame), NEW n \in 0..Len(l)
    PROVE  /\ SubSeq(l, n + 1, Len(l)) \in Seq(Frame) /\ Len(SubSeq(l, n + 1, Len(l))) = Len(l) - n
           /\ \A i \in 1..(Len(l) - n) : i + n \in 1..Len(l) /\ SubSeq(l, n + 1, Len(l))[i] = l[i + n]
           /\ AsFrames(SubSeq(l, 1, n)) = {l[i] : i \in 1..n}
<1>1. /\ SubSeq(l, n + 1, Len(l)) \in Seq(Frame) /\ Len(SubSeq(l, n + 1, Len(l))) = Len(l) - n
      /\ \A i \in 1..(Len(l) - n) : i + n \in 1..Len(l) /\ SubSeq(l, n + 1, Len(l))[i] = l[i + n]
  OBVIOUS
<1>2. DOMAIN SubSeq(l, 1, n) = 1..n /\ \A i \in 1..n : SubSeq(l, 1, n)[i] = l[i]
  OBVIOUS
<1> QED
  BY <1>1, <1>2 DEF AsFrames

\* The elements of two lists.
LEMMA Concatenated ==
    ASSUME NEW a \in Seq(Frame), NEW b \in Seq(Frame)
    PROVE  /\ (a \o b) \in Seq(Frame) /\ Len(a \o b) = Len(a) + Len(b)
           /\ \A i \in 1..(Len(a) + Len(b)) :
                 (a \o b)[i] = IF i <= Len(a) THEN a[i] ELSE b[i - Len(a)]
OBVIOUS

\* The tail of a joined list.
LEMMA TailOfJoined ==
    ASSUME NEW S, NEW a \in Seq(S), NEW b \in Seq(S), a # <<>>
    PROVE  Tail(a) \o b = Tail(a \o b)
OBVIOUS

\* l2 is list l with f in it after the first k.
IsInsertion(l2, l, k, f) ==
    /\ l2 \in Seq(Frame) /\ Len(l2) = Len(l) + 1
    /\ \A i \in 1..(Len(l) + 1) :
          l2[i] = IF i <= k THEN l[i] ELSE IF i = k + 1 THEN f ELSE l[i - 1]

\* An element in the middle of a list.
LEMMA InsertedAt ==
    ASSUME NEW l \in Seq(Frame), NEW k \in 0..Len(l), NEW f \in Frame
    PROVE  IsInsertion(InsertAt(l, k + 1, f), l, k, f)
<1> DEFINE a == SubSeq(l, 1, k)
           b == SubSeq(l, k + 1, Len(l))
<1>1. a \in Seq(Frame) /\ Len(a) = k /\ \A i \in 1..k : a[i] = l[i]
  OBVIOUS
<1>2. b \in Seq(Frame) /\ Len(b) = Len(l) - k /\ \A i \in 1..(Len(l) - k) : b[i] = l[i + k]
  OBVIOUS
<1>3. InsertAt(l, k + 1, f) = a \o <<f>> \o b
  <2>1. (k + 1) - 1 = k
    OBVIOUS
  <2> QED
    BY <2>1 DEF InsertAt
<1> HIDE DEF a, b
<1> DEFINE c == a \o <<f>>
<1>4. c \in Seq(Frame) /\ Len(c) = k + 1 /\ c[k + 1] = f /\ \A i \in 1..k : c[i] = l[i]
  BY <1>1
<1> HIDE DEF c
<1>5. (c \o b) \in Seq(Frame) /\ Len(c \o b) = Len(l) + 1
      /\ \A i \in 1..(Len(l) + 1) : (c \o b)[i] = IF i <= k + 1 THEN c[i] ELSE b[i - (k + 1)]
  <2>1. Len(c) + Len(b) = Len(l) + 1
    BY <1>2, <1>4
  <2>2. /\ (c \o b) \in Seq(Frame) /\ Len(c \o b) = Len(c) + Len(b)
        /\ \A i \in 1..(Len(c) + Len(b)) : (c \o b)[i] = IF i <= Len(c) THEN c[i] ELSE b[i - Len(c)]
    BY <1>2, <1>4, Concatenated
  <2> QED
    BY <1>4, <2>1, <2>2
<1>6. \A i \in 1..(Len(l) + 1) : i > k + 1 => b[i - (k + 1)] = l[i - 1]
  <2> TAKE i \in 1..(Len(l) + 1)
  <2> HAVE i > k + 1
  <2>1. i - (k + 1) \in 1..(Len(l) - k) /\ (i - (k + 1)) + k = i - 1
    OBVIOUS
  <2> QED
    BY <1>2, <2>1
<1>7. InsertAt(l, k + 1, f) = c \o b
  BY <1>3 DEF c
<1>8. \A i \in 1..(Len(l) + 1) :
        (c \o b)[i] = IF i <= k THEN l[i] ELSE IF i = k + 1 THEN f ELSE l[i - 1]
  <2> DEFINE d == c \o b
  <2>1. \A i \in 1..(Len(l) + 1) : d[i] = IF i <= k + 1 THEN c[i] ELSE b[i - (k + 1)]
    BY <1>5
  <2> HIDE DEF d
  <2>2. ASSUME NEW i \in 1..(Len(l) + 1)
        PROVE  d[i] = IF i <= k THEN l[i] ELSE IF i = k + 1 THEN f ELSE l[i - 1]
    <3>1. CASE i <= k
      BY <1>4, <2>1, <3>1
    <3>2. CASE i = k + 1
      BY <1>4, <2>1, <3>2
    <3>3. CASE i > k + 1
      BY <1>6, <2>1, <3>3
    <3> QED
      BY <3>1, <3>2, <3>3
  <2> QED
    BY <2>2 DEF d
<1> DEFINE m == InsertAt(l, k + 1, f)
<1> HIDE DEF m
<1>9. m = c \o b
  BY <1>7 DEF m
<1>10. /\ m \in Seq(Frame) /\ Len(m) = Len(l) + 1
       /\ \A i \in 1..(Len(l) + 1) : m[i] = IF i <= k THEN l[i] ELSE IF i = k + 1 THEN f ELSE l[i - 1]
  BY <1>5, <1>8, <1>9
<1> QED
  BY <1>10 DEF m, IsInsertion

\* A list without n elements after the first k.
LEMMA CutOut ==
    ASSUME NEW l \in Seq(Frame), NEW k \in Nat, NEW n \in Nat, k + n <= Len(l)
    PROVE  LET d == SubSeq(l, 1, k) \o SubSeq(l, k + n + 1, Len(l)) IN
           /\ d \in Seq(Frame) /\ Len(d) = Len(l) - n
           /\ \A i \in 1..(Len(l) - n) : d[i] = IF i <= k THEN l[i] ELSE l[i + n]
<1> DEFINE a == SubSeq(l, 1, k)
           b == SubSeq(l, k + n + 1, Len(l))
<1>1. a \in Seq(Frame) /\ Len(a) = k /\ \A i \in 1..k : a[i] = l[i]
  OBVIOUS
<1>2. /\ b \in Seq(Frame) /\ Len(b) = Len(l) - (k + n)
      /\ \A i \in 1..(Len(l) - (k + n)) : b[i] = l[i + (k + n)]
  OBVIOUS
<1> HIDE DEF a, b
<1>3. (a \o b) \in Seq(Frame) /\ Len(a \o b) = Len(l) - n
      /\ \A i \in 1..(Len(l) - n) : (a \o b)[i] = IF i <= k THEN a[i] ELSE b[i - k]
  <2>1. Len(a) + Len(b) = Len(l) - n
    BY <1>1, <1>2
  <2>2. /\ (a \o b) \in Seq(Frame) /\ Len(a \o b) = Len(a) + Len(b)
        /\ \A i \in 1..(Len(a) + Len(b)) : (a \o b)[i] = IF i <= Len(a) THEN a[i] ELSE b[i - Len(a)]
    BY <1>1, <1>2, Concatenated
  <2> QED
    BY <1>1, <2>1, <2>2
<1>4. \A i \in 1..(Len(l) - n) : i > k => b[i - k] = l[i + n]
  <2> TAKE i \in 1..(Len(l) - n)
  <2> HAVE i > k
  <2>1. i - k \in 1..(Len(l) - (k + n)) /\ (i - k) + (k + n) = i + n
    OBVIOUS
  <2> QED
    BY <1>2, <2>1
<1>5. \A i \in 1..(Len(l) - n) : (a \o b)[i] = IF i <= k THEN l[i] ELSE l[i + n]
  <2> TAKE i \in 1..(Len(l) - n)
  <2>1. (a \o b)[i] = IF i <= k THEN a[i] ELSE b[i - k]
    BY <1>3
  <2>2. i <= k => a[i] = l[i]
    BY <1>1
  <2>3. i > k => b[i - k] = l[i + n]
    BY <1>4
  <2> HIDE DEF a, b
  <2> QED
    BY ONLY <2>1, <2>2, <2>3, n \in Nat, k \in Nat, i \in Int
<1> QED
  BY <1>3, <1>5 DEF a, b

\* And those n elements.
LEMMA CutOff ==
    ASSUME NEW l \in Seq(Frame), NEW k \in Nat, NEW n \in Nat, k + n <= Len(l)
    PROVE  AsFrames(SubSeq(l, k + 1, k + n)) = {l[i] : i \in (k + 1)..(k + n)}
<1> DEFINE m == SubSeq(l, k + 1, k + n)
<1>1. DOMAIN m = 1..n /\ \A i \in 1..n : m[i] = l[i + k]
  OBVIOUS
<1>2. \A i \in (k + 1)..(k + n) : i - k \in 1..n /\ (i - k) + k = i
  OBVIOUS
<1>3. \A i \in 1..n : i + k \in (k + 1)..(k + n)
  OBVIOUS
<1> HIDE DEF m
<1>4. AsFrames(m) = {m[i] : i \in 1..n}
  BY <1>1 DEF AsFrames
<1>5. {m[i] : i \in 1..n} \subseteq {l[i] : i \in (k + 1)..(k + n)}
  BY <1>1, <1>3
<1>6. {l[i] : i \in (k + 1)..(k + n)} \subseteq {m[i] : i \in 1..n}
  BY <1>1, <1>2
<1> QED
  BY <1>4, <1>5, <1>6 DEF m

-----------------------------------------------------------------------------
(* The operations on a queue                                               *)

\* What Start, Stop and the hardware queue's list leave of a queue as it is.
Schedules(t, u) ==
    /\ u \in TxqRec
    /\ u.active = t.active /\ u.credits = t.credits /\ u.pktPushed = t.pktPushed
    /\ u.list = t.list /\ u.nbRetry = t.nbRetry /\ u.lastRetry = t.lastRetry
    /\ "NDEV_FLOW_CTRL" \in u.status <=> "NDEV_FLOW_CTRL" \in t.status

\* They change the status only.
LEMMA StatusOps ==
    ASSUME NEW t \in TxqRec, NEW r \in SUBSET StopReason
    PROVE  /\ Schedules(t, AddToHwList(t)) /\ Schedules(t, DelFromHwList(t))
           /\ Schedules(t, Start(t, r)) /\ Schedules(t, Stop(t, r)) /\ Schedules(t, StopIfFull(t))
           /\ Schedules(t, t)
<1>1. ASSUME NEW x \in TxqRec PROVE Schedules(x, AddToHwList(x)) /\ Schedules(x, DelFromHwList(x))
  BY <1>1 DEF Schedules, AddToHwList, DelFromHwList, TxqRec, Status
<1>2. ASSUME NEW x \in SUBSET StopReason PROVE Schedules(t, Stop(t, x)) /\ Schedules(t, Start(t, x))
  <2>1. [t EXCEPT !.status = @ \cup x] \in TxqRec /\ Schedules(t, [t EXCEPT !.status = @ \cup x])
    BY DEF Schedules, TxqRec, Status, StopReason
  <2>2. [t EXCEPT !.status = @ \ x] \in TxqRec /\ Schedules(t, [t EXCEPT !.status = @ \ x])
    BY DEF Schedules, TxqRec, Status, StopReason
  <2>3. Schedules(t, DelFromHwList([t EXCEPT !.status = @ \cup x]))
    BY <1>1, <2>1 DEF Schedules
  <2>4. Schedules(t, AddToHwList([t EXCEPT !.status = @ \ x]))
    BY <1>1, <2>2 DEF Schedules
  <2>5. Schedules(t, t)
    BY DEF Schedules
  <2> QED
    BY <2>2, <2>3, <2>4, <2>5 DEF Stop, Start
<1>3. Schedules(t, t)
  BY DEF Schedules
<1>4. Schedules(t, StopIfFull(t))
  <2>1. {"STOP_FULL"} \in SUBSET StopReason
    BY DEF StopReason
  <2> QED
    BY <1>2, <2>1 DEF StopIfFull
<1> QED
  BY <1>1, <1>2, <1>3, <1>4

\* One after the other they change no more.
LEMMA SchedulesTwice ==
    ASSUME NEW t, NEW u, NEW v, Schedules(t, u), Schedules(u, v)
    PROVE  Schedules(t, v)
BY DEF Schedules

-----------------------------------------------------------------------------
(* Numbers                                                                 *)

\* There are finitely many queues.
LEMMA FewQueues == IsFiniteSet(Txq) /\ TxqSeq[1] \in Txq
<1>1. TxqSeq \in Seq(Txq) /\ TxqSeq # <<>>
  BY TxqAssumption
<1>2. Len(TxqSeq) \in Nat /\ DOMAIN TxqSeq = 1..Len(TxqSeq) /\ 1 \in DOMAIN TxqSeq
  BY <1>1
<1>3. IsFiniteSet(1..Len(TxqSeq))
  BY <1>2, FS_Interval
<1>4. TxqSeq \in Surjection(1..Len(TxqSeq), Txq)
  BY <1>1, <1>2 DEF Surjection, Txq, ToSet
<1> QED
  BY <1>1, <1>2, <1>3, <1>4, FS_Surjection DEF Txq, ToSet

\* A sum over queues is a number.
LEMMA SumsAreNumbers ==
    ASSUME NEW g \in [Txq -> Nat], NEW Q \in SUBSET Txq
    PROVE  SumOf(g, Q) \in Nat
<1> DEFINE F(q) == {q} \X (1..g[q])
           FF == {F(q) : q \in Q}
<1>1. IsFiniteSet(Q)
  BY FewQueues, FS_Subset
<1>2. IsFiniteSet(FF)
  <2>1. [q \in Q |-> F(q)] \in Surjection(Q, FF)
    BY DEF Surjection
  <2> QED
    BY <1>1, <2>1, FS_Surjection
<1>3. ASSUME NEW q \in Q PROVE IsFiniteSet(F(q))
  <2>1. IsFiniteSet({q}) /\ IsFiniteSet(1..g[q])
    <3>1. 1 \in Int /\ g[q] \in Int
      OBVIOUS
    <3> QED
      BY <3>1, FS_Singleton, FS_Interval
  <2> QED
    BY <2>1, FS_Product
<1>4. \A X \in FF : IsFiniteSet(X)
  BY <1>3
<1>5. IsFiniteSet(UNION FF)
  BY <1>2, <1>4, FS_UNION
<1> QED
  BY <1>5, FS_CardinalityType DEF SumOf

-----------------------------------------------------------------------------
(* The operations that move frames                                         *)

\* nb_retry and last_retry_skb describe the list.
RetryOk(t) ==
    /\ t.nbRetry <= Len(t.list)
    /\ t.lastRetry = IF t.nbRetry = 0 THEN NoFrame ELSE t.list[t.nbRetry]

\* Queue u is queue t without the n frames after the first k.
Cut(t, u, k, n) ==
    /\ u \in TxqRec
    /\ Len(u.list) = Len(t.list) - n
    /\ \A i \in 1..(Len(t.list) - n) : u.list[i] = IF i <= k THEN t.list[i] ELSE t.list[i + n]
    /\ u.nbRetry = IF k = 0 THEN Higher(t.nbRetry - n, 0) ELSE t.nbRetry
    /\ u.lastRetry = IF u.nbRetry = 0 THEN NoFrame ELSE t.lastRetry

\* A cut queue may change its status afterwards.
LEMMA CutThenSchedule ==
    ASSUME NEW t, NEW u, NEW v, NEW k, NEW n, Cut(t, u, k, n), Schedules(u, v)
    PROVE  Cut(t, v, k, n)
BY DEF Cut, Schedules

\* And before.
LEMMA ScheduleThenCut ==
    ASSUME NEW t, NEW u, NEW v, NEW k, NEW n, Schedules(t, u), Cut(u, v, k, n)
    PROVE  Cut(t, v, k, n)
BY DEF Cut, Schedules

\* Pushing n frames.
LEMMA AfterPushCuts ==
    ASSUME NEW t \in TxqRec, RetryOk(t), NEW n \in 0..Len(t.list)
    PROVE  LET u == AfterPush(t, n) IN
           /\ Cut(t, u, 0, n) /\ u.active = t.active
           /\ u.credits = t.credits - n /\ u.pktPushed = U8(t.pktPushed + n)
           /\ "NDEV_FLOW_CTRL" \in u.status <=> "NDEV_FLOW_CTRL" \in t.status
<1> DEFINE r == Lower(n, t.nbRetry)
           u == [t EXCEPT !.list = SubSeq(@, n + 1, Len(@)),
                          !.nbRetry = @ - r,
                          !.lastRetry = IF r = t.nbRetry THEN NoFrame ELSE @,
                          !.pktSent = U8(@ + (n - r)),
                          !.credits = @ - n,
                          !.pktPushed = U8(@ + n),
                          !.pushLimit = LimitAfter(t, n)]
<1>1. /\ t.nbRetry \in Nat /\ t.list \in Seq(Frame) /\ Len(t.list) \in Nat /\ t.pktSent \in Nat
      /\ t.pktPushed \in Nat /\ t.pushLimit \in Nat /\ t.credits \in Int /\ t.status \in SUBSET Status
      /\ t.active \in BOOLEAN /\ t.lastRetry \in Frame \cup {NoFrame}
  BY DEF TxqRec
<1>2. /\ u.list = SubSeq(t.list, n + 1, Len(t.list)) /\ u.nbRetry = t.nbRetry - r
      /\ u.lastRetry = (IF r = t.nbRetry THEN NoFrame ELSE t.lastRetry)
      /\ u.credits = t.credits - n /\ u.pktPushed = U8(t.pktPushed + n)
      /\ u.active = t.active /\ u.status = t.status
  BY DEF TxqRec
<1>3. u \in TxqRec
  <2>1. /\ SubSeq(t.list, n + 1, Len(t.list)) \in Seq(Frame) /\ t.nbRetry - r \in Nat
        /\ (IF r = t.nbRetry THEN NoFrame ELSE t.lastRetry) \in Frame \cup {NoFrame}
    BY <1>1, DropFirst DEF Lower
  <2>2. U8(t.pktPushed + n) \in Nat /\ t.credits - n \in Int /\ LimitAfter(t, n) \in Nat
    BY <1>1 DEF U8, LimitAfter, Higher
  <2>3. t.pktSent + (n - r) \in Nat
    BY <1>1 DEF Lower
  <2>4. U8(t.pktSent + (n - r)) \in Nat
    BY <2>3 DEF U8
  <2> HIDE DEF r
  <2> QED
    BY <2>1, <2>2, <2>4 DEF TxqRec
<1>4. /\ Len(u.list) = Len(t.list) - n
      /\ \A i \in 1..(Len(t.list) - n) : u.list[i] = t.list[i + n]
  BY ZenonT(40), <1>1, <1>2, DropFirst
<1>5. /\ u.nbRetry = Higher(t.nbRetry - n, 0)
      /\ u.lastRetry = IF u.nbRetry = 0 THEN NoFrame ELSE t.lastRetry
  BY <1>1, <1>2 DEF Lower, Higher
<1> HIDE DEF u
<1>6. Cut(t, u, 0, n)
  BY <1>1, <1>3, <1>4, <1>5 DEF Cut
<1>7. AfterPush(t, n) = IF u.credits <= 0 THEN Stop(u, {"STOP_FULL"}) ELSE u
  BY DEF AfterPush, u
<1>8. Schedules(u, AfterPush(t, n))
  <2>1. {"STOP_FULL"} \in SUBSET StopReason
    BY DEF StopReason
  <2> QED
    BY <1>3, <1>7, <2>1, StatusOps
<1>9. Cut(t, AfterPush(t, n), 0, n)
  BY <1>6, <1>8, CutThenSchedule
<1> QED
  BY <1>2, <1>8, <1>9 DEF Schedules

\* Dropping the first n retry frames.
LEMMA DropRetriesCuts ==
    ASSUME NEW t \in TxqRec, RetryOk(t), NEW n \in 0..t.nbRetry
    PROVE  LET u == DropRetries(t, n) IN
           /\ Cut(t, u, 0, n) /\ u.active = t.active /\ u.status = t.status
           /\ u.credits = t.credits /\ u.pktPushed = t.pktPushed
<1> DEFINE u == DropRetries(t, n)
<1>1. /\ t.nbRetry \in Nat /\ t.list \in Seq(Frame) /\ Len(t.list) \in Nat
      /\ t.lastRetry \in Frame \cup {NoFrame} /\ n \in 0..Len(t.list)
  BY DEF TxqRec, RetryOk
<1>2. /\ u.list = SubSeq(t.list, n + 1, Len(t.list)) /\ u.nbRetry = t.nbRetry - n
      /\ u.lastRetry = (IF t.nbRetry = n THEN NoFrame ELSE t.lastRetry)
      /\ u.credits = t.credits /\ u.pktPushed = t.pktPushed
      /\ u.active = t.active /\ u.status = t.status
  BY DEF TxqRec, DropRetries
<1>3. u \in TxqRec
  <2>1. SubSeq(t.list, n + 1, Len(t.list)) \in Seq(Frame) /\ t.nbRetry - n \in Nat
    BY <1>1, DropFirst
  <2> QED
    BY <1>1, <2>1 DEF TxqRec, DropRetries
<1>4. /\ Len(u.list) = Len(t.list) - n
      /\ \A i \in 1..(Len(t.list) - n) : u.list[i] = t.list[i + n]
  BY <1>1, <1>2, DropFirst
<1>5. /\ u.nbRetry = Higher(t.nbRetry - n, 0)
      /\ u.lastRetry = IF u.nbRetry = 0 THEN NoFrame ELSE t.lastRetry
  BY <1>1, <1>2 DEF Higher
<1> HIDE DEF u
<1>6. Cut(t, u, 0, n)
  BY <1>1, <1>3, <1>4, <1>5 DEF Cut
<1> QED
  BY <1>2, <1>6 DEF u

\* Dropping the n oldest frames that are not retry ones.
LEMMA DropOldCuts ==
    ASSUME NEW t \in TxqRec, RetryOk(t), NEW n \in Nat, t.nbRetry + n <= Len(t.list)
    PROVE  LET u == DropOld(t, n) IN
           /\ Cut(t, u, t.nbRetry, n) /\ u.active = t.active /\ u.status = t.status
           /\ u.credits = t.credits /\ u.pktPushed = t.pktPushed
<1> DEFINE u == DropOld(t, n)
<1>1. t.nbRetry \in Nat /\ t.list \in Seq(Frame) /\ Len(t.list) \in Nat
  BY DEF TxqRec
<1>2. /\ u.list = SubSeq(t.list, 1, t.nbRetry) \o SubSeq(t.list, t.nbRetry + n + 1, Len(t.list))
      /\ u.nbRetry = t.nbRetry /\ u.lastRetry = t.lastRetry
      /\ u.credits = t.credits /\ u.pktPushed = t.pktPushed
      /\ u.active = t.active /\ u.status = t.status
  BY DEF TxqRec, DropOld
<1>3. /\ u.list \in Seq(Frame) /\ Len(u.list) = Len(t.list) - n
      /\ \A i \in 1..(Len(t.list) - n) : u.list[i] = IF i <= t.nbRetry THEN t.list[i] ELSE t.list[i + n]
  <2> DEFINE d == SubSeq(t.list, 1, t.nbRetry) \o SubSeq(t.list, t.nbRetry + n + 1, Len(t.list))
  <2>1. /\ d \in Seq(Frame) /\ Len(d) = Len(t.list) - n
        /\ \A i \in 1..(Len(t.list) - n) : d[i] = IF i <= t.nbRetry THEN t.list[i] ELSE t.list[i + n]
    <3> DEFINE l == t.list
               k == t.nbRetry
    <3>1. l \in Seq(Frame) /\ k \in Nat /\ k + n <= Len(l)
      BY <1>1
    <3> HIDE DEF l, k
    <3>2. LET e == SubSeq(l, 1, k) \o SubSeq(l, k + n + 1, Len(l)) IN
          /\ e \in Seq(Frame) /\ Len(e) = Len(l) - n
          /\ \A i \in 1..(Len(l) - n) : e[i] = IF i <= k THEN l[i] ELSE l[i + n]
      BY <3>1, CutOut
    <3> QED
      BY <3>2 DEF l, k
  <2> HIDE DEF d
  <2>2. u.list = d
    BY <1>2 DEF d
  <2> HIDE DEF u
  <2> QED
    BY <2>1, <2>2
<1>4. u \in TxqRec
  BY <1>2, <1>3 DEF TxqRec, DropOld
<1>5. /\ u.nbRetry = IF t.nbRetry = 0 THEN Higher(t.nbRetry - n, 0) ELSE t.nbRetry
      /\ u.lastRetry = IF u.nbRetry = 0 THEN NoFrame ELSE t.lastRetry
  BY <1>1, <1>2 DEF Higher, RetryOk
<1> HIDE DEF u
<1>6. Cut(t, u, t.nbRetry, n)
  BY <1>1, <1>3, <1>4, <1>5 DEF Cut
<1> QED
  BY <1>2, <1>6 DEF u

\* Queue u is queue t with frame f at place k + 1, as the last of the retry frames
\* (retry) or as the last of all.
Queued(t, u, f, retry) ==
    /\ u \in TxqRec
    /\ Len(u.list) = Len(t.list) + 1
    /\ LET k == IF retry THEN t.nbRetry ELSE Len(t.list) IN
       \A i \in 1..(Len(t.list) + 1) :
          u.list[i] = IF i <= k THEN t.list[i] ELSE IF i = k + 1 THEN f ELSE t.list[i - 1]
    /\ u.nbRetry = IF retry THEN t.nbRetry + 1 ELSE t.nbRetry
    /\ u.lastRetry = IF retry THEN f ELSE t.lastRetry
    /\ u.active = t.active

\* Queueing a frame.
LEMMA QueueSkbQueues ==
    ASSUME NEW t \in TxqRec, RetryOk(t), NEW f \in Frame, NEW retry \in BOOLEAN
    PROVE  LET u == QueueSkb(t, f, retry) IN
           /\ Queued(t, u, f, retry) /\ u.credits = t.credits /\ u.pktPushed = t.pktPushed
           /\ "NDEV_FLOW_CTRL" \in u.status <=> "NDEV_FLOW_CTRL" \in t.status \/ Congested(u)
<1> DEFINE k == IF retry THEN t.nbRetry ELSE Len(t.list)
           i == Insert(t, f, retry)
           c == IF Congested(i) THEN [i EXCEPT !.status = @ \cup {"NDEV_FLOW_CTRL"}] ELSE i
           u == IF IsStopped(c) THEN c ELSE AddToHwList(c)
<1>1. t.nbRetry \in Nat /\ t.list \in Seq(Frame) /\ Len(t.list) \in Nat /\ f # NoFrame
  BY DEF TxqRec, Frame, NoFrame
<1>2. /\ i \in TxqRec /\ Len(i.list) = Len(t.list) + 1
      /\ \A j \in 1..(Len(t.list) + 1) :
            i.list[j] = IF j <= k THEN t.list[j] ELSE IF j = k + 1 THEN f ELSE t.list[j - 1]
      /\ i.nbRetry = (IF retry THEN t.nbRetry + 1 ELSE t.nbRetry)
      /\ i.lastRetry = (IF retry THEN f ELSE t.lastRetry)
      /\ i.active = t.active /\ i.credits = t.credits /\ i.pktPushed = t.pktPushed
      /\ i.status = t.status
  <2>1. CASE ~retry
    <3>1. i = [t EXCEPT !.list = Append(@, f)]
      BY <2>1 DEF Insert
    <3>2. /\ Append(t.list, f) \in Seq(Frame) /\ Len(Append(t.list, f)) = Len(t.list) + 1
          /\ \A j \in 1..(Len(t.list) + 1) :
                Append(t.list, f)[j] = IF j <= Len(t.list) THEN t.list[j] ELSE f
      BY <1>1
    <3>3. /\ i.list = Append(t.list, f) /\ i.nbRetry = t.nbRetry /\ i.lastRetry = t.lastRetry
          /\ i.active = t.active /\ i.credits = t.credits /\ i.pktPushed = t.pktPushed
          /\ i.status = t.status
      BY <3>1 DEF TxqRec
    <3>4. i \in TxqRec
      BY <3>1, <3>2 DEF TxqRec
    <3> HIDE DEF i
    <3>5. /\ Len(i.list) = Len(t.list) + 1
          /\ \A j \in 1..(Len(t.list) + 1) :
                i.list[j] = IF j <= k THEN t.list[j] ELSE IF j = k + 1 THEN f ELSE t.list[j - 1]
      BY <1>1, <2>1, <3>2, <3>3
    <3> QED
      BY <2>1, <3>3, <3>4, <3>5
  <2>2. CASE retry
    <3> DEFINE m == InsertAt(t.list, t.nbRetry + 1, f)
    <3>0. (IF t.lastRetry # NoFrame THEN t.nbRetry ELSE 0) = t.nbRetry
      <4>1. CASE t.nbRetry = 0
        BY <4>1
      <4>2. CASE t.nbRetry # 0
        <5>1. t.nbRetry \in 1..Len(t.list)
          BY <1>1, <4>2 DEF RetryOk
        <5>2. t.list[t.nbRetry] \in Frame
          BY <1>1, <5>1
        <5>3. t.lastRetry # NoFrame
          BY <4>2, <5>2 DEF RetryOk, Frame, NoFrame
        <5> QED
          BY <5>3
      <4> QED
        BY <4>1, <4>2
    <3>1. i = [t EXCEPT !.list = m, !.lastRetry = f, !.nbRetry = @ + 1]
      BY <2>2, <3>0 DEF Insert
    <3>2. t.nbRetry \in 0..Len(t.list)
      BY <1>1 DEF RetryOk
    <3>3. /\ m \in Seq(Frame) /\ Len(m) = Len(t.list) + 1
          /\ \A j \in 1..(Len(t.list) + 1) :
                m[j] = IF j <= t.nbRetry THEN t.list[j] ELSE IF j = t.nbRetry + 1 THEN f ELSE t.list[j - 1]
      <4> DEFINE l == t.list
                 r == t.nbRetry
      <4>1. l \in Seq(Frame) /\ r \in 0..Len(l)
        BY <1>1, <3>2
      <4> HIDE DEF l, r
      <4>2. IsInsertion(InsertAt(l, r + 1, f), l, r, f)
        BY <4>1, InsertedAt
      <4>3. m = InsertAt(l, r + 1, f)
        BY DEF l, r
      <4> HIDE DEF m
      <4> QED
        BY <4>2, <4>3 DEF l, r, IsInsertion
    <3> HIDE DEF m
    <3>4. /\ i.list = m /\ i.nbRetry = t.nbRetry + 1 /\ i.lastRetry = f
          /\ i.active = t.active /\ i.credits = t.credits /\ i.pktPushed = t.pktPushed
          /\ i.status = t.status
      BY <3>1 DEF TxqRec
    <3>5. i \in TxqRec
      <4>1. m \in Seq(Frame) /\ f \in Frame \cup {NoFrame} /\ t.nbRetry + 1 \in Nat
        BY <1>1, <3>3
      <4> HIDE DEF i
      <4> QED
        BY <3>1, <4>1 DEF TxqRec
    <3> HIDE DEF i
    <3> QED
      BY <2>2, <3>3, <3>4, <3>5
  <2> QED
    BY <2>1, <2>2
<1> HIDE DEF i
<1>3. /\ c \in TxqRec /\ c.list = i.list /\ c.nbRetry = i.nbRetry /\ c.lastRetry = i.lastRetry
      /\ c.active = i.active /\ c.credits = i.credits /\ c.pktPushed = i.pktPushed
      /\ "NDEV_FLOW_CTRL" \in c.status <=> "NDEV_FLOW_CTRL" \in i.status \/ Congested(i)
  BY <1>2 DEF TxqRec, Status
<1> HIDE DEF c
<1>4. Schedules(c, u)
  <2>1. {} \in SUBSET StopReason
    OBVIOUS
  <2> QED
    BY <1>3, <2>1, StatusOps
<1> HIDE DEF u
<1>5. /\ u \in TxqRec /\ u.list = i.list /\ u.nbRetry = i.nbRetry /\ u.lastRetry = i.lastRetry
      /\ u.active = i.active /\ u.credits = i.credits /\ u.pktPushed = i.pktPushed
      /\ "NDEV_FLOW_CTRL" \in u.status <=> "NDEV_FLOW_CTRL" \in c.status
  BY <1>3, <1>4 DEF Schedules
<1>6. Congested(u) <=> Congested(i)
  BY <1>5 DEF Congested
<1>7. u = QueueSkb(t, f, retry)
  BY DEF u, c, i, QueueSkb
<1>8. Queued(t, u, f, retry) /\ u.credits = t.credits /\ u.pktPushed = t.pktPushed
  BY <1>2, <1>5 DEF Queued
<1>9. "NDEV_FLOW_CTRL" \in u.status <=> "NDEV_FLOW_CTRL" \in t.status \/ Congested(u)
  BY <1>2, <1>3, <1>5, <1>6
<1> QED
  BY <1>7, <1>8, <1>9

\* A queue may change its status before a frame is queued.
LEMMA ScheduleThenQueue ==
    ASSUME NEW t, NEW u, NEW v, NEW f, NEW retry, Schedules(t, u), Queued(u, v, f, retry)
    PROVE  Queued(t, v, f, retry)
BY DEF Queued, Schedules

-----------------------------------------------------------------------------
(* The lists                                                               *)

\* The list of queue q: the retry frames, which have been pushed before, then the
\* others, in the order of the network stack.
ListGood(q) ==
    LET t == txq[q] IN
    /\ RetryOk(t)
    /\ ~t.active => t.list = <<>>
    /\ \A i \in 1..Len(t.list) :
          /\ where[t.list[i]] = "queued" /\ frameTxq[t.list[i]] = q
          /\ t.list[i] \in pushed <=> i <= t.nbRetry
    /\ \A i, j \in 1..Len(t.list) :
          i < j => t.list[i] # t.list[j] /\ (t.nbRetry < i => t.list[i] < t.list[j])

\* Every queued frame is in the list of its queue, and none that waits for its first
\* push is older than a pushed one.
FramesGood ==
    /\ \A f \in Frame : where[f] = "queued" =>
          \E i \in 1..Len(txq[frameTxq[f]].list) : txq[frameTxq[f]].list[i] = f
    /\ \A f \in Frame : where[f] = "fw" => f \in pushed
    /\ \A f \in pushed : where[f] # "new"
    /\ \A f, g \in Frame : where[f] = "new" /\ where[g] # "new" => g < f
    /\ \A f, g \in Frame :
          where[f] = "queued" /\ f \notin pushed /\ g \in pushed /\ frameTxq[f] = frameTxq[g]
              => g < f

ListInv == (\A q \in Txq : ListGood(q)) /\ FramesGood

\* What the invariant reads of a queue.
SameList(t, u) ==
    u.list = t.list /\ u.nbRetry = t.nbRetry /\ u.lastRetry = t.lastRetry /\ u.active = t.active

\* Frames leave a list.
LEMMA CutKeepsLists ==
    ASSUME Shapes, ListInv, NEW q \in Txq, NEW k \in {0, txq[q].nbRetry}, NEW n \in Nat,
           k + n <= Len(txq[q].list), NEW place \in {"fw", "done"},
           Cut(txq[q], txq'[q], k, n), ~txq'[q].active => txq'[q].list = <<>>,
           \A p \in Txq \ {q} : SameList(txq[p], txq'[p]),
           NEW C, C = {txq[q].list[i] : i \in (k + 1)..(k + n)},
           where' = [f \in Frame |-> IF f \in C THEN place ELSE where[f]],
           frameTxq' = frameTxq,
           pushed' = IF place = "fw" THEN pushed \cup C ELSE pushed
    PROVE  ListInv'
<1> DEFINE l == txq[q].list
           m == txq'[q].list
           r == txq[q].nbRetry
           s == txq'[q].nbRetry
<1>1. /\ l \in Seq(Frame) /\ Len(l) \in Nat /\ r \in Nat /\ r <= Len(l) /\ k \in Nat
      /\ \A i \in 1..Len(l) : l[i] \in Frame
      /\ where \in [Frame -> Place] /\ frameTxq \in [Frame -> Txq] /\ pushed \subseteq Frame
      /\ txq[q] \in TxqRec /\ txq'[q] \in TxqRec
  <2>1. txq[q] \in TxqRec /\ txq'[q] \in TxqRec
    BY DEF Shapes, Cut
  <2>2. l \in Seq(Frame) /\ r \in Nat
    BY <2>1 DEF TxqRec
  <2>3. r <= Len(l)
    BY DEF ListInv, ListGood, RetryOk
  <2>4. Len(l) \in Nat /\ \A i \in 1..Len(l) : l[i] \in Frame
    BY <2>2
  <2>5. where \in [Frame -> Place] /\ frameTxq \in [Frame -> Txq] /\ pushed \subseteq Frame
    BY DEF Shapes
  <2> QED
    BY <2>1, <2>2, <2>3, <2>4, <2>5
<1>2. /\ m \in Seq(Frame) /\ Len(m) = Len(l) - n
      /\ \A i \in 1..Len(m) : m[i] = (IF i <= k THEN l[i] ELSE l[i + n])
      /\ s = (IF k = 0 THEN Higher(r - n, 0) ELSE r)
      /\ txq'[q].lastRetry = IF s = 0 THEN NoFrame ELSE txq[q].lastRetry
  BY <1>1 DEF Cut, TxqRec
<1>3. /\ \A i \in 1..Len(l) : where[l[i]] = "queued" /\ frameTxq[l[i]] = q /\ (l[i] \in pushed <=> i <= r)
      /\ \A i, j \in 1..Len(l) : i < j => l[i] # l[j] /\ (r < i => l[i] < l[j])
      /\ txq[q].lastRetry = IF r = 0 THEN NoFrame ELSE l[r]
  BY DEF ListInv, ListGood, RetryOk
<1>4. C = {l[i] : i \in (k + 1)..(k + n)}
  OBVIOUS
<1>5. /\ C \subseteq Frame
      /\ \A f \in C : where[f] = "queued" /\ frameTxq[f] = q
  <2> SUFFICES ASSUME NEW f \in C PROVE f \in Frame /\ where[f] = "queued" /\ frameTxq[f] = q
    OBVIOUS
  <2>1. PICK i \in (k + 1)..(k + n) : f = l[i]
    BY <1>4
  <2>2. i \in 1..Len(l)
    BY <1>1
  <2> QED
    BY <1>1, <1>3, <2>1, <2>2
<1> HIDE DEF l, m, r, s
<1>6. \A i \in 1..Len(l) : l[i] \in C <=> i \in (k + 1)..(k + n)
  <2> SUFFICES ASSUME NEW i \in 1..Len(l), l[i] \in C PROVE i \in (k + 1)..(k + n)
    BY <1>4
  <2>1. PICK j \in (k + 1)..(k + n) : l[i] = l[j]
    BY <1>4
  <2>2. j \in 1..Len(l)
    BY <1>1 DEF l
  <2> QED
    BY <1>3, <2>1, <2>2
<1> DEFINE old(i) == IF i <= k THEN i ELSE i + n
<1>7. \A i \in 1..Len(m) :
         old(i) \in 1..Len(l) /\ old(i) \notin (k + 1)..(k + n) /\ m[i] = l[old(i)] /\ m[i] \notin C
  <2> TAKE i \in 1..Len(m)
  <2>1. old(i) \in 1..Len(l) /\ old(i) \notin (k + 1)..(k + n)
    BY <1>1, <1>2 DEF l
  <2>2. m[i] = l[old(i)]
    BY <1>2
  <2> QED
    BY <1>6, <2>1, <2>2
<1>8. \A i \in 1..Len(m) : i <= s <=> old(i) <= r
  <2>1. CASE k = 0
    BY <1>1, <1>2, <2>1 DEF Higher, l
  <2>2. CASE k # 0
    BY <1>1, <1>2, <2>2 DEF r, l
  <2> QED
    BY <2>1, <2>2
<1>9. \A i, j \in 1..Len(m) : i < j => old(i) < old(j)
  BY <1>1, <1>2
<1>10. \A f \in Frame : f \notin C => where'[f] = where[f] /\ (f \in pushed' <=> f \in pushed)
  OBVIOUS
<1>11. ListGood(q)'
  <2>1. RetryOk(txq'[q])
    <3>1. s <= Len(m) /\ s \in Nat
      <4>1. Len(m) = Len(l) - n /\ s = (IF k = 0 THEN Higher(r - n, 0) ELSE r)
        BY <1>2
      <4>2. /\ k \in {0, r} /\ k + n <= Len(l) /\ k \in Nat /\ r \in Nat /\ r <= Len(l)
            /\ Len(l) \in Nat
        BY <1>1 DEF l, r
      <4> QED
        BY <4>1, <4>2 DEF Higher
    <3>2. s # 0 => m[s] = l[r]
      <4> HAVE s # 0
      <4>1. s \in 1..Len(m) /\ r # 0
        BY <1>1, <1>2, <3>1 DEF Higher
      <4>2. old(s) = r
        <5>1. CASE k = 0
          BY <1>1, <1>2, <4>1, <5>1 DEF Higher
        <5>2. CASE k # 0
          BY <1>2, <4>1, <5>2 DEF r
        <5> QED
          BY <5>1, <5>2
      <4> QED
        BY <1>7, <4>1, <4>2
    <3>3. s # 0 => r # 0
      BY <1>1, <1>2 DEF Higher
    <3>4. txq'[q].lastRetry = IF s = 0 THEN NoFrame ELSE m[s]
      BY <1>2, <1>3, <3>2, <3>3
    <3> QED
      BY <3>1, <3>4 DEF RetryOk, m, s
  <2>2. ASSUME NEW i \in 1..Len(m)
        PROVE  /\ where'[m[i]] = "queued" /\ frameTxq'[m[i]] = q
               /\ m[i] \in pushed' <=> i <= s
    <3> DEFINE o == old(i)
    <3>1. o \in 1..Len(l) /\ m[i] = l[o] /\ m[i] \notin C /\ (i <= s <=> o <= r)
      BY <1>7, <1>8
    <3> HIDE DEF o
    <3>2. l[o] \in Frame /\ where[l[o]] = "queued" /\ frameTxq[l[o]] = q /\ (l[o] \in pushed <=> o <= r)
      BY <1>1, <1>3, <3>1 DEF l
    <3> QED
      BY <1>10, <3>1, <3>2
  <2>3. ASSUME NEW i \in 1..Len(m), NEW j \in 1..Len(m), i < j
        PROVE  m[i] # m[j] /\ (s < i => m[i] < m[j])
    <3> DEFINE o == old(i)
               p == old(j)
    <3>1. /\ o \in 1..Len(l) /\ m[i] = l[o] /\ (i <= s <=> o <= r)
          /\ p \in 1..Len(l) /\ m[j] = l[p]
          /\ o < p
      BY <1>7, <1>8, <1>9, <2>3
    <3> HIDE DEF o, p
    <3>2. s < i => r < o
      BY <1>1, <1>2, <3>1 DEF Higher
    <3> QED
      BY <1>3, <3>1, <3>2
  <2>4. ~txq'[q].active => m = <<>>
    BY DEF m
  <2> QED
    BY <2>1, <2>2, <2>3, <2>4 DEF ListGood, m, s
<1>12. ASSUME NEW p \in Txq \ {q} PROVE ListGood(p)'
  <2>1. ListGood(p) /\ SameList(txq[p], txq'[p]) /\ txq[p].list \in Seq(Frame)
    BY DEF ListInv, Shapes, TxqRec
  <2>2. \A i \in 1..Len(txq[p].list) :
           /\ where'[txq[p].list[i]] = "queued" /\ frameTxq'[txq[p].list[i]] = p
           /\ txq[p].list[i] \in pushed' <=> i <= txq[p].nbRetry
    <3> TAKE i \in 1..Len(txq[p].list)
    <3>1. /\ txq[p].list[i] \in Frame /\ frameTxq[txq[p].list[i]] = p /\ where[txq[p].list[i]] = "queued"
          /\ txq[p].list[i] \in pushed <=> i <= txq[p].nbRetry
      BY <2>1 DEF ListGood
    <3>2. txq[p].list[i] \notin C
      BY <1>5, <3>1
    <3> QED
      BY <1>10, <3>1, <3>2
  <2> DEFINE t == txq[p]
             u == txq'[p]
  <2>3. u.list = t.list /\ u.nbRetry = t.nbRetry /\ u.lastRetry = t.lastRetry /\ u.active = t.active
    BY <2>1 DEF SameList
  <2>4. RetryOk(u) /\ (~u.active => u.list = <<>>)
    BY <2>1, <2>3 DEF ListGood, RetryOk
  <2>5. \A i \in 1..Len(u.list) :
           /\ where'[u.list[i]] = "queued" /\ frameTxq'[u.list[i]] = p
           /\ u.list[i] \in pushed' <=> i <= u.nbRetry
    BY <2>2, <2>3
  <2>6. \A i, j \in 1..Len(u.list) :
           i < j => u.list[i] # u.list[j] /\ (u.nbRetry < i => u.list[i] < u.list[j])
    BY <2>1, <2>3 DEF ListGood
  <2> QED
    BY <2>4, <2>5, <2>6 DEF ListGood
<1>13. FramesGood'
  <2>1. ASSUME NEW f \in Frame, where'[f] = "queued"
        PROVE  \E i \in 1..Len(txq'[frameTxq'[f]].list) : txq'[frameTxq'[f]].list[i] = f
    <3>1. f \notin C /\ where[f] = "queued"
      BY <2>1
    <3>2. PICK i \in 1..Len(txq[frameTxq[f]].list) : txq[frameTxq[f]].list[i] = f
      BY <3>1 DEF ListInv, FramesGood
    <3>3. CASE frameTxq[f] = q
      <4>1. i \in 1..Len(l) /\ l[i] = f /\ i \notin (k + 1)..(k + n)
        BY <1>6, <3>1, <3>2, <3>3 DEF l
      <4>2. CASE i <= k
        <5>1. i \in 1..Len(m) /\ m[i] = f
          BY <1>1, <1>2, <4>1, <4>2 DEF l
        <5> QED
          BY <3>3, <5>1 DEF m
      <4>3. CASE i > k + n
        <5>1. i - n \in 1..Len(m) /\ ~(i - n <= k) /\ (i - n) + n = i
          BY <1>1, <1>2, <4>1, <4>3
        <5>2. m[i - n] = f
          BY <1>2, <4>1, <5>1
        <5> QED
          BY <3>3, <5>1, <5>2 DEF m
      <4> QED
        BY <1>1, <4>1, <4>2, <4>3
    <3>4. CASE frameTxq[f] # q
      BY <1>1, <3>2, <3>4 DEF SameList
    <3> QED
      BY <3>3, <3>4
  <2>2. ASSUME NEW f \in Frame, where'[f] = "fw" PROVE f \in pushed'
    <3>1. CASE f \in C
      BY <2>2, <3>1
    <3>2. CASE f \notin C
      BY <1>10, <2>2, <3>2 DEF ListInv, FramesGood
    <3> QED
      BY <3>1, <3>2
  <2>3. ASSUME NEW f \in pushed' PROVE where'[f] # "new"
    <3>1. CASE f \in C
      BY <1>5, <3>1
    <3>2. CASE f \notin C
      BY <1>1, <1>5, <1>10, <2>3, <3>2 DEF ListInv, FramesGood
    <3> QED
      BY <3>1, <3>2
  <2>4. \A f \in Frame : where'[f] = "new" <=> where[f] = "new"
    BY <1>5
  <2>5. ASSUME NEW f \in Frame, NEW g \in Frame, where'[f] = "new", where'[g] # "new" PROVE g < f
    BY <2>4, <2>5 DEF ListInv, FramesGood
  <2>6. ASSUME NEW f \in Frame, NEW g \in Frame, where'[f] = "queued", f \notin pushed', g \in pushed',
               frameTxq'[f] = frameTxq'[g]
        PROVE  g < f
    <3>1. f \notin C /\ where[f] = "queued" /\ f \notin pushed
      BY <2>6
    <3>2. CASE g \in pushed
      BY <2>6, <3>1, <3>2 DEF ListInv, FramesGood
    <3>3. CASE g \notin pushed
      <4>1. g \in C /\ frameTxq[g] = q /\ frameTxq[f] = q
        BY <1>5, <2>6, <3>3
      <4>2. PICK i \in 1..Len(l) : l[i] = f
        BY <3>1, <4>1 DEF ListInv, FramesGood, l
      <4>3. PICK j \in (k + 1)..(k + n) : l[j] = g
        BY <1>4, <4>1
      <4>4. j \in 1..Len(l)
        BY <1>1 DEF l
      <4>5. ~(i <= r) /\ ~(j <= r)
        BY <1>3, <3>1, <3>3, <4>2, <4>3, <4>4
      <4>6. i \notin (k + 1)..(k + n)
        BY <1>6, <3>1, <4>2
      <4>7. j < i
        BY <1>1, <4>5, <4>6 DEF r
      <4> QED
        BY <1>1, <1>3, <4>2, <4>3, <4>4, <4>5, <4>7
    <3> QED
      BY <3>2, <3>3
  <2> QED
    BY <2>1, <2>2, <2>3, <2>5, <2>6 DEF FramesGood
<1> QED
  BY <1>11, <1>12, <1>13 DEF ListInv

\* A frame enters a list: a new one, the oldest of the new ones, or one to send again.
LEMMA QueuedKeepsLists ==
    ASSUME Shapes, ListInv, NEW q \in Txq, NEW f \in Frame, NEW retry \in BOOLEAN, txq[q].active,
           Queued(txq[q], txq'[q], f, retry),
           \A p \in Txq \ {q} : SameList(txq[p], txq'[p]),
           IF retry THEN where[f] = "fw" /\ frameTxq[f] = q
                    ELSE where[f] = "new" /\ \A g \in 1..(f - 1) : where[g] # "new",
           where' = [where EXCEPT ![f] = "queued"],
           frameTxq' = [frameTxq EXCEPT ![f] = q],
           pushed' = pushed
    PROVE  ListInv'
<1> DEFINE l == txq[q].list
           m == txq'[q].list
           r == txq[q].nbRetry
           s == txq'[q].nbRetry
           k == IF retry THEN r ELSE Len(l)
<1>1. /\ l \in Seq(Frame) /\ Len(l) \in Nat /\ r \in Nat /\ r <= Len(l)
      /\ \A i \in 1..Len(l) : l[i] \in Frame
      /\ where \in [Frame -> Place] /\ frameTxq \in [Frame -> Txq] /\ pushed \subseteq Frame
      /\ txq[q] \in TxqRec /\ txq'[q] \in TxqRec
  <2>1. txq[q] \in TxqRec /\ txq'[q] \in TxqRec
    BY DEF Shapes, Queued
  <2>2. l \in Seq(Frame) /\ r \in Nat
    BY <2>1 DEF TxqRec
  <2>3. r <= Len(l)
    BY DEF ListInv, ListGood, RetryOk
  <2> QED
    BY <2>1, <2>2, <2>3 DEF Shapes
<1>2. /\ m \in Seq(Frame) /\ Len(m) = Len(l) + 1
      /\ \A i \in 1..Len(m) : m[i] = (IF i <= k THEN l[i] ELSE IF i = k + 1 THEN f ELSE l[i - 1])
      /\ s = (IF retry THEN r + 1 ELSE r)
      /\ txq'[q].lastRetry = (IF retry THEN f ELSE txq[q].lastRetry)
      /\ txq'[q].active
  BY <1>1 DEF Queued, TxqRec
<1>3. /\ \A i \in 1..Len(l) : where[l[i]] = "queued" /\ frameTxq[l[i]] = q /\ (l[i] \in pushed <=> i <= r)
      /\ \A i, j \in 1..Len(l) : i < j => l[i] # l[j] /\ (r < i => l[i] < l[j])
      /\ txq[q].lastRetry = IF r = 0 THEN NoFrame ELSE l[r]
  BY DEF ListInv, ListGood, RetryOk
<1>4. /\ f \in pushed <=> retry
      /\ where[f] # "queued"
      /\ frameTxq'[f] = q /\ where'[f] = "queued"
      /\ \A g \in Frame \ {f} : frameTxq'[g] = frameTxq[g] /\ where'[g] = where[g]
  BY <1>1 DEF ListInv, FramesGood
<1>5. k \in 0..Len(l) /\ (retry => k = r) /\ (~retry => k = Len(l))
  BY <1>1
<1> HIDE DEF l, m, r, s, k
<1>6. \A i \in 1..Len(l) : l[i] # f /\ l[i] \in Frame
  BY <1>1, <1>3, <1>4
<1> DEFINE old(i) == IF i <= k THEN i ELSE i - 1
<1>7. \A i \in 1..Len(m) : i # k + 1 => old(i) \in 1..Len(l) /\ m[i] = l[old(i)]
  BY <1>1, <1>2, <1>5
<1>8. k + 1 \in 1..Len(m) /\ m[k + 1] = f /\ (k + 1 <= s <=> retry)
  BY <1>1, <1>2, <1>5
<1>9. \A i \in 1..Len(m) : i # k + 1 => (i <= s <=> old(i) <= r)
  BY <1>1, <1>2, <1>5
<1>10. \A g \in Frame : g < f => where[g] # "new" \/ retry
  BY DEF Frame
<1>11. ListGood(q)'
  <2>1. RetryOk(txq'[q])
    <3>1. s <= Len(m) /\ s \in Nat
      BY <1>1, <1>2
    <3>2. CASE retry
      <4>1. s = k + 1 /\ s # 0
        BY <1>1, <1>2, <1>5, <3>2
      <4> QED
        BY <1>2, <1>8, <3>1, <3>2, <4>1 DEF RetryOk, m, s
    <3>3. CASE ~retry
      <4>1. s = r /\ (s # 0 => m[s] = l[r])
        BY <1>1, <1>2, <1>5, <3>3
      <4> QED
        BY <1>2, <1>3, <3>1, <3>3, <4>1 DEF RetryOk, m, s
    <3> QED
      BY <3>2, <3>3
  <2>2. ASSUME NEW i \in 1..Len(m)
        PROVE  /\ where'[m[i]] = "queued" /\ frameTxq'[m[i]] = q
               /\ m[i] \in pushed' <=> i <= s
    <3>1. CASE i = k + 1
      BY <1>4, <1>8, <3>1
    <3>2. CASE i # k + 1
      <4> DEFINE o == old(i)
      <4>1. o \in 1..Len(l) /\ m[i] = l[o] /\ (i <= s <=> o <= r)
        BY <1>7, <1>9, <3>2
      <4> HIDE DEF o
      <4> QED
        BY <1>3, <1>4, <1>6, <4>1
    <3> QED
      BY <3>1, <3>2
  <2>3. ASSUME NEW i \in 1..Len(m), NEW j \in 1..Len(m), i < j
        PROVE  m[i] # m[j] /\ (s < i => m[i] < m[j])
    <3>1. CASE i # k + 1 /\ j # k + 1
      <4> DEFINE o == old(i)
                 p == old(j)
      <4>1. o < p
        BY <1>5, <2>3, <3>1
      <4>2. /\ o \in 1..Len(l) /\ m[i] = l[o] /\ (i <= s <=> o <= r)
            /\ p \in 1..Len(l) /\ m[j] = l[p]
        BY <1>7, <1>9, <3>1
      <4> HIDE DEF o, p
      <4>3. s < i => r < o
        BY <1>1, <1>2, <4>2
      <4> QED
        BY <1>3, <4>1, <4>2, <4>3
    <3>2. CASE i = k + 1
      <4>1. m[i] = f /\ m[j] = l[old(j)] /\ old(j) \in 1..Len(l)
        BY <1>7, <1>8, <2>3, <3>2
      <4>2. retry
        BY <1>2, <1>5, <2>3, <3>2
      <4>3. i <= s
        BY <1>8, <3>2, <4>2
      <4> QED
        BY <1>1, <1>2, <1>6, <4>1, <4>3
    <3>3. CASE j = k + 1
      <4>1. m[j] = f /\ m[i] = l[old(i)] /\ old(i) \in 1..Len(l)
        BY <1>7, <1>8, <2>3, <3>3
      <4>2. CASE retry
        BY <1>1, <1>2, <1>5, <1>6, <2>3, <3>3, <4>1, <4>2
      <4>3. CASE ~retry
        <5>1. where[f] = "new" /\ where[m[i]] = "queued" /\ m[i] \in Frame /\ m[i] # f
          BY <1>3, <1>6, <4>1, <4>3
        <5>2. m[i] < f
          BY <5>1 DEF ListInv, FramesGood
        <5> QED
          BY <4>1, <5>1, <5>2
      <4> QED
        BY <4>2, <4>3
    <3> QED
      BY <2>3, <3>1, <3>2, <3>3
  <2> QED
    BY <1>2, <2>1, <2>2, <2>3 DEF ListGood, m, s
<1>12. ASSUME NEW p \in Txq \ {q} PROVE ListGood(p)'
  <2>1. ListGood(p) /\ SameList(txq[p], txq'[p]) /\ txq[p].list \in Seq(Frame)
    BY DEF ListInv, Shapes, TxqRec
  <2>2. \A i \in 1..Len(txq[p].list) :
           /\ where'[txq[p].list[i]] = "queued" /\ frameTxq'[txq[p].list[i]] = p
           /\ txq[p].list[i] \in pushed' <=> i <= txq[p].nbRetry
    <3> TAKE i \in 1..Len(txq[p].list)
    <3>1. /\ txq[p].list[i] \in Frame /\ frameTxq[txq[p].list[i]] = p /\ where[txq[p].list[i]] = "queued"
          /\ txq[p].list[i] \in pushed <=> i <= txq[p].nbRetry
      BY <2>1 DEF ListGood
    <3> QED
      BY <1>4, <3>1
  <2> DEFINE t == txq[p]
             u == txq'[p]
  <2>3. u.list = t.list /\ u.nbRetry = t.nbRetry /\ u.lastRetry = t.lastRetry /\ u.active = t.active
    BY <2>1 DEF SameList
  <2>4. RetryOk(u) /\ (~u.active => u.list = <<>>)
    BY <2>1, <2>3 DEF ListGood, RetryOk
  <2>5. \A i \in 1..Len(u.list) :
           /\ where'[u.list[i]] = "queued" /\ frameTxq'[u.list[i]] = p
           /\ u.list[i] \in pushed' <=> i <= u.nbRetry
    BY <2>2, <2>3
  <2>6. \A i, j \in 1..Len(u.list) :
           i < j => u.list[i] # u.list[j] /\ (u.nbRetry < i => u.list[i] < u.list[j])
    BY <2>1, <2>3 DEF ListGood
  <2> QED
    BY <2>4, <2>5, <2>6 DEF ListGood
<1>13. FramesGood'
  <2>1. ASSUME NEW g \in Frame, where'[g] = "queued"
        PROVE  \E i \in 1..Len(txq'[frameTxq'[g]].list) : txq'[frameTxq'[g]].list[i] = g
    <3>1. CASE g = f
      BY <1>4, <1>8, <3>1 DEF m
    <3>2. CASE g # f
      <4>1. where[g] = "queued" /\ frameTxq'[g] = frameTxq[g]
        BY <1>4, <2>1, <3>2
      <4>2. PICK i \in 1..Len(txq[frameTxq[g]].list) : txq[frameTxq[g]].list[i] = g
        BY <4>1 DEF ListInv, FramesGood
      <4>3. CASE frameTxq[g] = q
        <5>1. i \in 1..Len(l) /\ l[i] = g
          BY <4>2, <4>3 DEF l
        <5>2. CASE i <= k
          <6>1. i \in 1..Len(m) /\ m[i] = g
            BY <1>1, <1>2, <5>1, <5>2
          <6> QED
            BY <4>1, <4>3, <6>1 DEF m
        <5>3. CASE i > k
          <6>1. i + 1 \in 1..Len(m) /\ ~(i + 1 <= k) /\ i + 1 # k + 1 /\ (i + 1) - 1 = i
            BY <1>1, <1>2, <1>5, <5>1, <5>3
          <6>2. m[i + 1] = g
            BY <1>2, <5>1, <6>1
          <6> QED
            BY <4>1, <4>3, <6>1, <6>2 DEF m
        <5> QED
          BY <1>5, <5>1, <5>2, <5>3
      <4>4. CASE frameTxq[g] # q
        BY <1>1, <4>1, <4>2, <4>4 DEF SameList
      <4> QED
        BY <4>3, <4>4
    <3> QED
      BY <3>1, <3>2
  <2>2. ASSUME NEW g \in Frame, where'[g] = "fw" PROVE g \in pushed'
    BY <1>4, <2>2 DEF ListInv, FramesGood
  <2>3. ASSUME NEW g \in pushed' PROVE where'[g] # "new"
    BY <1>1, <1>4, <2>3 DEF ListInv, FramesGood
  <2>4. ASSUME NEW g \in Frame, NEW h \in Frame, where'[g] = "new", where'[h] # "new" PROVE h < g
    <3>1. g # f /\ where[g] = "new"
      BY <1>4, <2>4
    <3>2. CASE h = f
      <4>1. CASE retry
        BY <3>1, <3>2, <4>1 DEF ListInv, FramesGood
      <4>2. CASE ~retry
        BY <1>10, <3>1, <3>2, <4>2 DEF Frame
      <4> QED
        BY <4>1, <4>2
    <3>3. CASE h # f
      BY <1>4, <2>4, <3>1, <3>3 DEF ListInv, FramesGood
    <3> QED
      BY <3>2, <3>3
  <2>5. ASSUME NEW g \in Frame, NEW h \in Frame, where'[g] = "queued", g \notin pushed', h \in pushed',
               frameTxq'[g] = frameTxq'[h]
        PROVE  h < g
    <3>1. CASE g = f
      <4>1. where[f] = "new" /\ where[h] # "new"
        BY <1>4, <2>5, <3>1 DEF ListInv, FramesGood
      <4> QED
        BY <3>1, <4>1 DEF ListInv, FramesGood
    <3>2. CASE g # f
      <4>1. where[g] = "queued" /\ g \notin pushed /\ frameTxq'[g] = frameTxq[g] /\ h \in pushed
        BY <1>4, <2>5, <3>2
      <4>2. frameTxq'[h] = frameTxq[h]
        <5>1. CASE h = f
          BY <1>4, <2>5, <4>1, <5>1
        <5>2. CASE h # f
          BY <1>4, <5>2
        <5> QED
          BY <5>1, <5>2
      <4> QED
        BY <2>5, <4>1, <4>2 DEF ListInv, FramesGood
    <3> QED
      BY <3>1, <3>2
  <2> QED
    BY <2>1, <2>2, <2>3, <2>4, <2>5 DEF FramesGood
<1> QED
  BY <1>11, <1>12, <1>13 DEF ListInv

\* The lists stay, and so does what the invariant says of each frame in them.
LEMMA KeptLists ==
    ASSUME Shapes, ListInv, NEW p \in Txq,
           txq'[p].list = txq[p].list, txq'[p].nbRetry = txq[p].nbRetry,
           txq'[p].lastRetry = txq[p].lastRetry, ~txq'[p].active => txq'[p].list = <<>>,
           pushed' = pushed,
           \A f \in Frame : where[f] = "queued" => where'[f] = "queued" /\ frameTxq'[f] = frameTxq[f]
    PROVE  ListGood(p)'
<1> DEFINE t == txq[p]
           u == txq'[p]
<1>1. ListGood(p) /\ txq[p].list \in Seq(Frame)
  BY DEF ListInv, Shapes, TxqRec
<1>2. RetryOk(u)
  BY <1>1 DEF ListGood, RetryOk
<1>3. \A i \in 1..Len(u.list) :
         /\ where'[u.list[i]] = "queued" /\ frameTxq'[u.list[i]] = p
         /\ u.list[i] \in pushed' <=> i <= u.nbRetry
  <2> TAKE i \in 1..Len(u.list)
  <2>1. /\ t.list[i] \in Frame /\ frameTxq[t.list[i]] = p /\ where[t.list[i]] = "queued"
        /\ t.list[i] \in pushed <=> i <= t.nbRetry
    BY <1>1 DEF ListGood
  <2> QED
    BY <2>1
<1>4. \A i, j \in 1..Len(u.list) :
         i < j => u.list[i] # u.list[j] /\ (u.nbRetry < i => u.list[i] < u.list[j])
  BY <1>1 DEF ListGood
<1> QED
  BY <1>2, <1>3, <1>4 DEF ListGood

\* No frame moves.
LEMMA SameKeepsLists ==
    ASSUME Shapes, ListInv,
           \A p \in Txq : /\ txq'[p].list = txq[p].list /\ txq'[p].nbRetry = txq[p].nbRetry
                          /\ txq'[p].lastRetry = txq[p].lastRetry
                          /\ ~txq'[p].active => txq'[p].list = <<>>,
           pushed' = pushed, where' = where, frameTxq' = frameTxq
    PROVE  ListInv'
<1>1. \A p \in Txq : ListGood(p)'
  <2> TAKE p \in Txq
  <2> QED
    BY KeptLists
<1>2. FramesGood'
  <2>1. ASSUME NEW f \in Frame, where'[f] = "queued"
        PROVE  \E i \in 1..Len(txq'[frameTxq'[f]].list) : txq'[frameTxq'[f]].list[i] = f
    <3>1. frameTxq[f] \in Txq
      BY DEF Shapes
    <3> QED
      BY <2>1, <3>1 DEF ListInv, FramesGood
  <2> QED
    BY <2>1 DEF ListInv, FramesGood
<1> QED
  BY <1>1, <1>2 DEF ListInv

\* A frame is done that was not queued: the oldest new one, or one in the firmware.
LEMMA DoneKeepsLists ==
    ASSUME Shapes, ListInv, NEW f \in Frame, NEW q \in Txq,
           \A p \in Txq : SameList(txq[p], txq'[p]),
           \/ where[f] = "fw" /\ frameTxq[f] = q
           \/ where[f] = "new" /\ \A g \in 1..(f - 1) : where[g] # "new",
           where' = [where EXCEPT ![f] = "done"],
           frameTxq' = [frameTxq EXCEPT ![f] = q],
           pushed' = pushed
    PROVE  ListInv'
<1>1. /\ where \in [Frame -> Place] /\ frameTxq \in [Frame -> Txq] /\ pushed \subseteq Frame
      /\ where[f] # "queued" /\ where'[f] = "done"
      /\ \A g \in Frame \ {f} : frameTxq'[g] = frameTxq[g] /\ where'[g] = where[g]
  BY DEF Shapes
<1>2. \A p \in Txq : ListGood(p)'
  <2> TAKE p \in Txq
  <2>1. /\ txq'[p].list = txq[p].list /\ txq'[p].nbRetry = txq[p].nbRetry
        /\ txq'[p].lastRetry = txq[p].lastRetry /\ txq'[p].active = txq[p].active
    BY DEF SameList
  <2>2. ~txq'[p].active => txq'[p].list = <<>>
    BY <2>1 DEF ListInv, ListGood
  <2>3. \A g \in Frame : where[g] = "queued" => where'[g] = "queued" /\ frameTxq'[g] = frameTxq[g]
    BY <1>1
  <2> QED
    BY <2>1, <2>2, <2>3, KeptLists
<1>3. FramesGood'
  <2>1. ASSUME NEW g \in Frame, where'[g] = "queued"
        PROVE  \E i \in 1..Len(txq'[frameTxq'[g]].list) : txq'[frameTxq'[g]].list[i] = g
    <3>1. g # f /\ where[g] = "queued" /\ frameTxq'[g] = frameTxq[g] /\ frameTxq[g] \in Txq
      BY <1>1, <2>1
    <3>2. txq'[frameTxq[g]].list = txq[frameTxq[g]].list
      BY <3>1 DEF SameList
    <3> QED
      BY <3>1, <3>2 DEF ListInv, FramesGood
  <2>2. ASSUME NEW g \in Frame, where'[g] = "fw" PROVE g \in pushed'
    BY <1>1, <2>2 DEF ListInv, FramesGood
  <2>3. ASSUME NEW g \in pushed' PROVE where'[g] # "new"
    BY <1>1, <2>3 DEF ListInv, FramesGood
  <2>4. ASSUME NEW g \in Frame, NEW h \in Frame, where'[g] = "new", where'[h] # "new" PROVE h < g
    <3>1. g # f /\ where[g] = "new"
      BY <1>1, <2>4
    <3>2. CASE h = f /\ where[f] = "new"
      BY <3>1, <3>2 DEF Frame
    <3>3. CASE h = f /\ where[f] # "new"
      BY <3>1, <3>3 DEF ListInv, FramesGood
    <3>4. CASE h # f
      BY <1>1, <2>4, <3>1, <3>4 DEF ListInv, FramesGood
    <3> QED
      BY <3>2, <3>3, <3>4
  <2>5. ASSUME NEW g \in Frame, NEW h \in Frame, where'[g] = "queued", g \notin pushed', h \in pushed',
               frameTxq'[g] = frameTxq'[h]
        PROVE  h < g
    <3>1. g # f /\ where[g] = "queued" /\ g \notin pushed /\ frameTxq'[g] = frameTxq[g] /\ h \in pushed
      BY <1>1, <2>5
    <3>2. frameTxq'[h] = frameTxq[h]
      <4>1. CASE h = f
        <5>1. where[f] # "new"
          BY <3>1, <4>1 DEF ListInv, FramesGood
        <5> QED
          BY <1>1, <4>1, <5>1
      <4>2. CASE h # f
        BY <1>1, <4>2
      <4> QED
        BY <4>1, <4>2
    <3> QED
      BY <2>5, <3>1, <3>2 DEF ListInv, FramesGood
  <2> QED
    BY <2>1, <2>2, <2>3, <2>4, <2>5 DEF FramesGood
<1> QED
  BY <1>2, <1>3 DEF ListInv

-----------------------------------------------------------------------------
(* What each step makes of the queues                                      *)

\* The frames and the credits of a queue stay as they are.
Steady(t, u) ==
    /\ u \in TxqRec /\ SameList(t, u)
    /\ u.credits = t.credits /\ u.pktPushed = t.pktPushed

\* Changing the status, pkt_sent or push_limit does that.
LEMMA SchedulesIsSteady ==
    ASSUME NEW t, NEW u, Schedules(t, u) PROVE Steady(t, u)
BY DEF Schedules, Steady, SameList

\* One queue changes.
LEMMA OneTxq ==
    ASSUME Shapes, NEW q \in Txq, NEW u \in TxqRec, txq' = [txq EXCEPT ![q] = u]
    PROVE  /\ txq' \in [Txq -> TxqRec] /\ txq'[q] = u
           /\ \A p \in Txq \ {q} : txq'[p] = txq[p]
BY DEF Shapes

\* What a step makes of the flag of queue q and of its netdev queue: nothing, ...
FlowKept(q) ==
    /\ ndevStopped' = ndevStopped
    /\ "NDEV_FLOW_CTRL" \in txq'[q].status <=> "NDEV_FLOW_CTRL" \in txq[q].status

\* ... the netdev queue is restarted, ...
Restarted(q) == ndevStopped' = ndevStopped \ {q} /\ "NDEV_FLOW_CTRL" \notin txq'[q].status

\* ... or it is stopped if too many frames wait.
StoppedIfFull(q) ==
    /\ ndevStopped' = IF Congested(txq'[q]) THEN ndevStopped \cup {q} ELSE ndevStopped
    /\ "NDEV_FLOW_CTRL" \in txq'[q].status
         <=> "NDEV_FLOW_CTRL" \in txq[q].status \/ Congested(txq'[q])

\* A push_limit is a number.
LEMMA LimitStays ==
    ASSUME NEW t \in TxqRec, NEW n \in Nat
    PROVE  Schedules(t, [t EXCEPT !.pushLimit = n]) /\ Schedules(t, [t EXCEPT !.pktSent = n])
BY DEF Schedules, TxqRec

\* One pair of counters of a station changes.
LEMMA OnePs ==
    ASSUME ps \in [Sta -> PsRec], NEW s \in Sta, NEW id \in PsId, NEW x \in Int, NEW c \in PsRec,
           ps' = [ps EXCEPT ![s] = c], c.active = ps[s].active,
           c.pktReady = [ps[s].pktReady EXCEPT ![id] = x]
    PROVE  /\ ps' \in [Sta -> PsRec]
           /\ \A r \in Sta : ps'[r].active = ps[r].active
           /\ \A r \in Sta, i \in PsId :
                ps'[r].pktReady[i] = IF r = s /\ i = id THEN x ELSE ps[r].pktReady[i]
<1>1. ps[s] \in PsRec
  OBVIOUS
<1>2. \A i \in PsId : c.pktReady[i] = IF i = id THEN x ELSE ps[s].pktReady[i]
  BY <1>1 DEF PsRec
<1>3. ps' \in [Sta -> PsRec] /\ ps'[s] = c /\ \A r \in Sta \ {s} : ps'[r] = ps[r]
  OBVIOUS
<1> QED
  BY <1>2, <1>3

\* A share of a request is a number.
LEMMA SharesAreNumbers ==
    ASSUME Shapes, NEW n \in Int
    PROVE  \A q \in Txq : Offer(q) \in Nat /\ Share(q, n) \in Nat
<1>1. ASSUME NEW q \in Txq PROVE Offer(q) \in Nat
  <2>0. txq[q] \in TxqRec
    BY DEF Shapes
  <2>1. txq[q].credits \in Int /\ Len(txq[q].list) \in Nat
    BY <2>0 DEF TxqRec
  <2>2. Higher(txq[q].credits, 0) \in Nat /\ Lower(Len(txq[q].list), txq[q].credits) \in Int
    BY <2>1 DEF Higher, Lower
  <2>3. ASSUME NEW x \in Int PROVE U16(x) \in Nat
    BY DEF U16
  <2> QED
    BY <2>2, <2>3 DEF Offer
<1>2. [r \in Txq |-> Offer(r)] \in [Txq -> Nat]
  BY <1>1
<1>3. ASSUME NEW Q \in SUBSET Txq PROVE SumOf([r \in Txq |-> Offer(r)], Q) \in Nat
  BY <1>2, SumsAreNumbers
<1>4. ASSUME NEW q \in Txq PROVE Share(q, n) \in Nat
  <2> DEFINE pos(r)  == CHOOSE i \in DOMAIN TxqPrio : TxqPrio[i] = r
             before  == { r \in StaTxqs(StaOf[q]) : PsIdOf[r] = PsIdOf[q] /\ pos(r) < pos(q) }
             sum == SumOf([r \in Txq |-> Offer(r)], before)
  <2>1. before \in SUBSET Txq
    BY DEF StaTxqs
  <2>2. sum \in Nat
    BY <1>3, <2>1
  <2>3. Share(q, n) = Higher(0, Lower(Offer(q), n - sum))
    BY DEF Share
  <2> HIDE DEF sum
  <2> QED
    BY <1>1, <2>2, <2>3 DEF Higher, Lower
<1> QED
  BY <1>1, <1>4

\* The steps that only schedule.
LEMMA ChanSwitchSchedules ==
    ASSUME Shapes, ChanSwitch
    PROVE  Shapes' /\ \A q \in Txq : Schedules(txq[q], txq'[q])
<1>1. \A q \in Txq : txq[q] \in TxqRec
  BY DEF Shapes
<1>2. {"STOP_CHAN"} \in SUBSET StopReason
  BY DEF StopReason
<1>3. txq' = [q \in Txq |-> IF chanOn THEN Stop(txq[q], {"STOP_CHAN"}) ELSE Start(txq[q], {"STOP_CHAN"})]
  BY DEF ChanSwitch, SetTxqs
<1>4. \A q \in Txq : Schedules(txq[q], txq'[q])
  BY <1>1, <1>2, <1>3, StatusOps
<1>5. txq' \in [Txq -> TxqRec]
  BY <1>3, <1>4 DEF Schedules
<1> QED
  BY <1>4, <1>5 DEF Shapes, ChanSwitch, Indication

\* A station goes to sleep.
LEMMA PsOnSchedules ==
    ASSUME Shapes, NEW s \in Sta, PsOn(s)
    PROVE  Shapes' /\ \A q \in Txq : Schedules(txq[q], txq'[q])
<1>1. \A q \in Txq : txq[q] \in TxqRec
  BY DEF Shapes
<1>2. {"STOP_STA_PS"} \in SUBSET StopReason
  BY DEF StopReason
<1>3. txq' = [q \in Txq |-> IF StaOf[q] = s THEN Stop(txq[q], {"STOP_STA_PS"}) ELSE txq[q]]
  BY DEF PsOn, SetTxqs
<1>4. \A q \in Txq : Schedules(txq[q], txq'[q])
  BY <1>1, <1>2, <1>3, StatusOps
<1>5. txq' \in [Txq -> TxqRec]
  BY <1>3, <1>4 DEF Schedules
<1>6. ps' \in [Sta -> PsRec]
  <2>1. [q \in Txq |-> Len(txq[q].list)] \in [Txq -> Nat]
    BY <1>1 DEF TxqRec
  <2>2. ASSUME NEW id \in PsId PROVE U16(Buffered(s, id)) \in Nat
    <3>1. { q \in StaTxqs(s) : PsIdOf[q] = id } \in SUBSET Txq
      BY DEF StaTxqs
    <3>2. Buffered(s, id) \in Nat
      BY <2>1, <3>1, SumsAreNumbers DEF Buffered
    <3> QED
      BY <3>2 DEF U16
  <2>3. [active   |-> TRUE, pktReady |-> [id \in PsId |-> U16(Buffered(s, id))],
         spCnt    |-> [id \in PsId |-> 0]] \in PsRec
    BY <2>2 DEF PsRec
  <2> QED
    BY <2>3 DEF Shapes, PsOn
<1> QED
  BY <1>4, <1>5, <1>6 DEF Shapes, PsOn, Indication

\* A station wakes up.
LEMMA PsOffSchedules ==
    ASSUME Shapes, NEW s \in Sta, PsOff(s)
    PROVE  Shapes' /\ \A q \in Txq : Schedules(txq[q], txq'[q])
<1>1. \A q \in Txq : txq[q] \in TxqRec
  BY DEF Shapes
<1>2. {"STOP_STA_PS"} \in SUBSET StopReason
  BY DEF StopReason
<1>3. txq' = [q \in Txq |-> IF StaOf[q] = s THEN Start([txq[q] EXCEPT !.pushLimit = 0], {"STOP_STA_PS"})
                            ELSE txq[q]]
  BY DEF PsOff, SetTxqs
<1>4. ASSUME NEW t \in TxqRec PROVE Schedules(t, Start([t EXCEPT !.pushLimit = 0], {"STOP_STA_PS"}))
  <2> DEFINE u == [t EXCEPT !.pushLimit = 0]
  <2>1. Schedules(t, u) /\ u \in TxqRec
    BY LimitStays DEF Schedules
  <2> HIDE DEF u
  <2>2. Schedules(u, Start(u, {"STOP_STA_PS"}))
    BY <1>2, <2>1, StatusOps
  <2>3. Schedules(t, Start(u, {"STOP_STA_PS"}))
    BY <2>1, <2>2, SchedulesTwice
  <2> QED
    BY <2>3 DEF u
<1>5. \A q \in Txq : Schedules(txq[q], txq'[q])
  BY <1>1, <1>2, <1>3, <1>4, StatusOps
<1>6. txq' \in [Txq -> TxqRec]
  BY <1>3, <1>5 DEF Schedules
<1>7. ps' \in [Sta -> PsRec]
  BY ZenonT(40) DEF Shapes, PsOff, PsRec
<1> QED
  BY <1>5, <1>6, <1>7 DEF Shapes, PsOff, Indication

\* A service period begins.
LEMMA TrafficReqSchedules ==
    ASSUME Shapes, NEW s \in Sta, NEW id \in PsId, NEW n \in 0..MaxReq, TrafficReq(s, id, n)
    PROVE  Shapes' /\ \A q \in Txq : Schedules(txq[q], txq'[q])
<1> DEFINE ready == ps[s].pktReady[id] - ps[s].spCnt[id]
           req   == IF n = 0 \/ n > ready THEN ready ELSE n
           chosen == { q \in StaTxqs(s) : PsIdOf[q] = id /\ Share(q, req) > 0 }
<1>1. \A q \in Txq : txq[q] \in TxqRec
  BY DEF Shapes
<1>2. req \in Int
  <2>1. ps[s] \in PsRec /\ n \in Int
    BY TxqAssumption DEF Shapes
  <2>2. ready \in Int
    BY <2>1 DEF PsRec
  <2> QED
    BY <2>1, <2>2
<1>3. /\ txq' = [q \in Txq |-> IF q \in chosen
                               THEN AddToHwList([txq[q] EXCEPT !.pushLimit = U8(Share(q, req))])
                               ELSE txq[q]]
      /\ ps' = [ps EXCEPT ![s].spCnt[id] = U16(SumOf([q \in Txq |-> Share(q, req)], chosen))]
      /\ Indication /\ UNCHANGED <<ndevStopped, chanOn, ba, owed, where>>
  BY DEF TrafficReq, SetTxqs
<1> HIDE DEF req
<1>4. \A q \in Txq : Share(q, req) \in Nat
  BY <1>2, SharesAreNumbers
<1>5. \A q \in Txq : U8(Share(q, req)) \in Nat
  <2>1. ASSUME NEW x \in Nat PROVE U8(x) \in Nat
    BY DEF U8
  <2> QED
    BY <1>4, <2>1
<1>6. ASSUME NEW t \in TxqRec, NEW m \in Nat PROVE Schedules(t, AddToHwList([t EXCEPT !.pushLimit = m]))
  <2> DEFINE u == [t EXCEPT !.pushLimit = m]
  <2>1. Schedules(t, u) /\ u \in TxqRec
    BY LimitStays DEF Schedules
  <2> HIDE DEF u
  <2>2. {} \in SUBSET StopReason
    OBVIOUS
  <2>3. Schedules(u, AddToHwList(u))
    BY <2>1, <2>2, StatusOps
  <2>4. Schedules(t, AddToHwList(u))
    BY <2>1, <2>3, SchedulesTwice
  <2> QED
    BY <2>4 DEF u
<1>7. \A q \in Txq : Schedules(txq[q], txq'[q])
  <2> TAKE q \in Txq
  <2>1. CASE q \in chosen
    <3>1. txq'[q] = AddToHwList([txq[q] EXCEPT !.pushLimit = U8(Share(q, req))])
      BY <1>3, <2>1
    <3> HIDE DEF chosen
    <3> QED
      BY <1>1, <1>5, <1>6, <3>1
  <2>2. CASE q \notin chosen
    <3>1. txq'[q] = txq[q]
      BY <1>3, <2>2
    <3>2. {} \in SUBSET StopReason
      OBVIOUS
    <3> QED
      BY <1>1, <3>1, <3>2, StatusOps
  <2> QED
    BY <2>1, <2>2
<1>8. txq' \in [Txq -> TxqRec]
  BY <1>3, <1>7 DEF Schedules
<1>9. ps' \in [Sta -> PsRec]
  <2>1. chosen \in SUBSET Txq
    BY DEF StaTxqs
  <2>2. [q \in Txq |-> Share(q, req)] \in [Txq -> Nat]
    BY <1>4
  <2> HIDE DEF chosen
  <2>3. SumOf([q \in Txq |-> Share(q, req)], chosen) \in Nat
    BY <2>1, <2>2, SumsAreNumbers
  <2>4. ASSUME NEW x \in Nat PROVE U16(x) \in Int
    BY DEF U16
  <2>5. U16(SumOf([q \in Txq |-> Share(q, req)], chosen)) \in Int
    BY <2>3, <2>4
  <2> QED
    BY ZenonT(40), <1>3, <2>5 DEF Shapes, PsRec
<1> QED
  BY <1>3, <1>7, <1>8, <1>9 DEF Shapes, Indication

\* A service period ends early.
LEMMA SpInterruptedSchedules ==
    ASSUME Shapes, NEW s \in Sta, SpInterrupted(s)
    PROVE  Shapes' /\ \A q \in Txq : Schedules(txq[q], txq'[q])
<1>1. \A q \in Txq : txq[q] \in TxqRec
  BY DEF Shapes
<1>2. txq' = [q \in Txq |-> IF StaOf[q] = s THEN [txq[q] EXCEPT !.pushLimit = 0] ELSE txq[q]]
  BY DEF SpInterrupted
<1>3. {} \in SUBSET StopReason
  OBVIOUS
<1>4. \A q \in Txq : Schedules(txq[q], txq'[q])
  BY <1>1, <1>2, <1>3, LimitStays, StatusOps
<1>5. txq' \in [Txq -> TxqRec]
  BY <1>2, <1>4 DEF Schedules
<1>6. ps' \in [Sta -> PsRec]
  <2>1. ps' = [ps EXCEPT ![s].spCnt["UAPSD"] = 0] /\ "UAPSD" \in PsId
    BY DEF SpInterrupted, PsId
  <2>2. ps[s] \in PsRec
    BY DEF Shapes
  <2>3. [ps[s].spCnt EXCEPT !["UAPSD"] = 0] \in [PsId -> Int]
    BY <2>1, <2>2 DEF PsRec
  <2>4. [ps[s] EXCEPT !.spCnt = [ps[s].spCnt EXCEPT !["UAPSD"] = 0]] \in PsRec
    BY <2>2, <2>3 DEF PsRec
  <2>5. ps' = [ps EXCEPT ![s] = [ps[s] EXCEPT !.spCnt = [ps[s].spCnt EXCEPT !["UAPSD"] = 0]]]
    BY <2>1
  <2> QED
    BY <2>4, <2>5 DEF Shapes
<1> QED
  BY <1>4, <1>5, <1>6 DEF Shapes, SpInterrupted, Indication

\* The unlocked end of the clean-up timer changes the status of one queue.
LEMMA TailsAreSteady ==
    ASSUME Shapes, TailRead \/ TailWrite
    PROVE  Shapes' /\ \A q \in Txq : Steady(txq[q], txq'[q])
<1>1. \A q \in Txq : txq[q] \in TxqRec /\ Steady(txq[q], txq[q])
  BY DEF Shapes, Steady, SameList
<1>2. cleanup.of \in Txq /\ cleanup.status \in SUBSET Status /\ NoTail.of \in Txq
  BY FewQueues DEF Shapes, NoTail
<1>3. CASE TailRead
  <2>1. cleanup' \in [step : {"none", "read", "write"}, of : Txq, status : SUBSET Status]
    <3>1. NoTail \in [step : {"none", "read", "write"}, of : Txq, status : SUBSET Status]
      BY <1>2 DEF NoTail
    <3>2. txq[cleanup.of].status \in SUBSET Status
      BY <1>1, <1>2 DEF TxqRec
    <3>3. [cleanup EXCEPT !.step = "write", !.status = txq[cleanup.of].status]
             \in [step : {"none", "read", "write"}, of : Txq, status : SUBSET Status]
      BY <3>2 DEF Shapes
    <3> QED
      BY <1>3, <3>1, <3>3 DEF TailRead
  <2>2. txq' = txq
    BY <1>3 DEF TailRead, drvVars
  <2> QED
    BY <1>1, <1>3, <2>1, <2>2 DEF Shapes, TailRead, drvVars
<1>4. CASE TailWrite
  <2> DEFINE c == cleanup.of
             u == [txq[c] EXCEPT !.status = cleanup.status \ {"NDEV_FLOW_CTRL"}]
  <2>1. txq' = [txq EXCEPT ![c] = u]
    BY <1>4 DEF TailWrite
  <2>2. u \in TxqRec /\ Steady(txq[c], u)
    <3>1. txq[c] \in TxqRec /\ cleanup.status \ {"NDEV_FLOW_CTRL"} \in SUBSET Status
      BY <1>1, <1>2
    <3>2. u \in TxqRec
      BY <3>1 DEF TxqRec
    <3>3. /\ u.list = txq[c].list /\ u.nbRetry = txq[c].nbRetry /\ u.lastRetry = txq[c].lastRetry
          /\ u.active = txq[c].active /\ u.credits = txq[c].credits
          /\ u.pktPushed = txq[c].pktPushed
      BY <3>1 DEF TxqRec
    <3> HIDE DEF u
    <3> QED
      BY <3>2, <3>3 DEF Steady, SameList
  <2>3. txq' \in [Txq -> TxqRec] /\ txq'[c] = u /\ \A p \in Txq \ {c} : txq'[p] = txq[p]
    BY <1>2, <2>1, <2>2, OneTxq
  <2>4. \A q \in Txq : Steady(txq[q], txq'[q])
    BY <1>1, <2>2, <2>3
  <2>5. cleanup' \in [step : {"none", "read", "write"}, of : Txq, status : SUBSET Status]
    BY <1>2, <1>4 DEF TailWrite, NoTail
  <2> QED
    BY <1>4, <2>3, <2>4, <2>5 DEF Shapes, TailWrite
<1> QED
  BY <1>3, <1>4

\* Frames of the first n places are pushed; nothing happens if the queue cannot push.
LEMMA VisitPushes ==
    ASSUME Shapes, ListInv, NEW q \in Txq, Pushable(txq[q]), hwqCredits > 0, PushTxq(q)
    PROVE  \E n \in 0..Len(txq[q].list) :
           /\ n <= hwqCredits /\ hwqCredits' = hwqCredits - n
           /\ Cut(txq[q], txq'[q], 0, n)
           /\ txq'[q].active /\ txq'[q].credits = txq[q].credits - n
           /\ txq'[q].pktPushed = U8(txq[q].pktPushed + n)
           /\ \A p \in Txq \ {q} : txq'[p] = txq[p]
           /\ where' = [f \in Frame |->
                          IF f \in {txq[q].list[i] : i \in 1..n} THEN "fw" ELSE where[f]]
           /\ pushed' = pushed \cup {txq[q].list[i] : i \in 1..n}
           /\ txq' \in [Txq -> TxqRec] /\ ps' \in [Sta -> PsRec] /\ ndevStopped' \subseteq Txq
           /\ ps[StaOf[q]].active =>
                \A s \in Sta, id \in PsId :
                   ps'[s].pktReady[id] = IF s = StaOf[q] /\ id = PsIdOf[q]
                                         THEN U16(ps[s].pktReady[id] - n) ELSE ps[s].pktReady[id]
           /\ \A s \in Sta : ps'[s].active = ps[s].active
           /\ \A s \in Sta \ {StaOf[q]}, id \in PsId : ps'[s].pktReady[id] = ps[s].pktReady[id]
           /\ \/ Restarted(q)
              \/ /\ FlowKept(q)
                 /\ "NDEV_FLOW_CTRL" \in txq[q].status => Len(txq'[q].list) >= FlowRestart
<1> DEFINE old == txq[q]
           n   == PushCount(old)
           all == PushedAll(old)
           t1  == AfterPush(old, n)
           t2  == IF all THEN [DelFromHwList(t1) EXCEPT !.pktSent = 0] ELSE t1
           turn == ~all /\ hwqCredits = n /\ Linked(t2) /\ t2.pktSent > HwqSize
           t3  == IF turn THEN [t2 EXCEPT !.pktSent = 0] ELSE t2
           t4  == IF AbortsSp(q, t3) THEN [t3 EXCEPT !.pushLimit = 0] ELSE t3
           wake == Wakes(t4)
           t5  == IF wake THEN [t4 EXCEPT !.status = @ \ {"NDEV_FLOW_CTRL"}] ELSE t4
           s   == StaOf[q]
           id  == PsIdOf[q]
           active == ps[s].active
           aborted == IF AbortsSp(q, t3) THEN t3.pushLimit ELSE 0
<1>1. /\ old \in TxqRec /\ RetryOk(old) /\ old.active
      /\ old.list \in Seq(Frame) /\ Len(old.list) \in Nat /\ old.credits \in Nat /\ old.pushLimit \in Nat
      /\ old.pktPushed \in Nat /\ hwqCredits \in Nat
  <2>1. old \in TxqRec
    BY DEF Shapes
  <2>2. old.credits > 0 /\ old.active
    BY DEF Pushable
  <2>3. hwqCredits \in Nat /\ RetryOk(old)
    BY DEF Shapes, ListInv, ListGood
  <2>4. /\ old.list \in Seq(Frame) /\ Len(old.list) \in Nat /\ old.credits \in Int
        /\ old.pushLimit \in Nat /\ old.pktPushed \in Nat
    BY <2>1 DEF TxqRec
  <2> QED
    BY <2>1, <2>2, <2>3, <2>4
<1>2. n \in 0..Len(old.list) /\ n <= hwqCredits
  BY <1>1 DEF PushCount, Credits, Lower
<1>3. /\ txq' = [txq EXCEPT ![q] = t5] /\ hwqCredits' = hwqCredits - n
      /\ ps' = [ps EXCEPT ![s].pktReady[id] = IF active THEN U16(@ - n) ELSE @,
                          ![s].spCnt[id] = U16((IF active THEN @ - n ELSE @) - aborted)]
      /\ ndevStopped' = (IF wake THEN ndevStopped \ {q} ELSE ndevStopped)
      /\ where' = [f \in Frame |-> IF f \in AsFrames(SubSeq(old.list, 1, n)) THEN "fw" ELSE where[f]]
      /\ pushed' = pushed \cup AsFrames(SubSeq(old.list, 1, n))
  BY DEF PushTxq
<1>4. AsFrames(SubSeq(old.list, 1, n)) = {old.list[i] : i \in 1..n}
  BY <1>1, <1>2, DropFirst
<1>5. /\ Cut(old, t1, 0, n) /\ t1 \in TxqRec /\ t1.active = old.active
      /\ "NDEV_FLOW_CTRL" \in t1.status <=> "NDEV_FLOW_CTRL" \in old.status
      /\ t1.credits = old.credits - n /\ t1.pktPushed = U8(old.pktPushed + n)
  <2> HIDE DEF n
  <2> QED
    BY <1>1, <1>2, AfterPushCuts DEF Cut
<1> HIDE DEF t1, n, all
<1>6. Schedules(t1, t2) /\ t2 \in TxqRec
  <2>1. {} \in SUBSET StopReason
    OBVIOUS
  <2>2. Schedules(t1, t1) /\ Schedules(t1, DelFromHwList(t1)) /\ DelFromHwList(t1) \in TxqRec
    BY <1>5, <2>1, StatusOps DEF Schedules
  <2>3. Schedules(DelFromHwList(t1), [DelFromHwList(t1) EXCEPT !.pktSent = 0])
    BY <2>2, LimitStays
  <2>4. Schedules(t1, [DelFromHwList(t1) EXCEPT !.pktSent = 0])
    BY <2>2, <2>3, SchedulesTwice
  <2> QED
    BY <1>5, <2>2, <2>4 DEF Schedules
<1> HIDE DEF t2, turn
<1>7. Schedules(t2, t3) /\ t3 \in TxqRec
  <2>1. Schedules(t2, t2)
    BY <1>6 DEF Schedules
  <2>2. Schedules(t2, [t2 EXCEPT !.pktSent = 0])
    BY <1>6, LimitStays
  <2> QED
    BY <2>1, <2>2 DEF t3, Schedules
<1> HIDE DEF t3
<1>8. Schedules(t3, t4) /\ t4 \in TxqRec
  <2>1. Schedules(t3, t3)
    BY <1>7 DEF Schedules
  <2>2. Schedules(t3, [t3 EXCEPT !.pushLimit = 0])
    BY <1>7, LimitStays
  <2> QED
    BY <2>1, <2>2 DEF t4, Schedules
<1>9. Schedules(t1, t4)
  BY <1>6, <1>7, <1>8, SchedulesTwice
<1> HIDE DEF t4
<1>9a. wake <=> "NDEV_FLOW_CTRL" \in t4.status /\ Len(t4.list) < FlowRestart
  BY DEF Wakes
<1> HIDE DEF wake
<1>10. /\ t5.status = (IF wake THEN t4.status \ {"NDEV_FLOW_CTRL"} ELSE t4.status)
       /\ t5 \in TxqRec /\ t5.list = t4.list /\ t5.nbRetry = t4.nbRetry /\ t5.lastRetry = t4.lastRetry
       /\ t5.active = t4.active /\ t5.credits = t4.credits /\ t5.pktPushed = t4.pktPushed
  BY <1>8 DEF TxqRec
<1> HIDE DEF t5
<1>11. /\ Cut(old, t5, 0, n) /\ t5.active /\ t5.credits = old.credits - n
       /\ t5.pktPushed = U8(old.pktPushed + n)
  <2>1. Cut(old, t4, 0, n)
    BY <1>5, <1>9, CutThenSchedule
  <2> QED
    BY <1>1, <1>5, <1>9, <1>10, <2>1 DEF Cut, Schedules
<1>12. txq' \in [Txq -> TxqRec] /\ txq'[q] = t5 /\ \A p \in Txq \ {q} : txq'[p] = txq[p]
  BY <1>3, <1>10, OneTxq
<1>12a. Restarted(q) \/ (FlowKept(q) /\ ("NDEV_FLOW_CTRL" \in txq[q].status => Len(txq'[q].list) >= FlowRestart))
  <2>1. "NDEV_FLOW_CTRL" \in t4.status <=> "NDEV_FLOW_CTRL" \in txq[q].status
    BY <1>5, <1>9 DEF Schedules
  <2>2. CASE wake
    <3>1. ndevStopped' = ndevStopped \ {q}
      BY <1>3, <2>2
    <3>2. "NDEV_FLOW_CTRL" \notin txq'[q].status
      BY <1>10, <1>12, <2>2
    <3> QED
      BY <3>1, <3>2 DEF Restarted
  <2>3. CASE ~wake
    <3>1. FlowKept(q)
      BY <1>3, <1>10, <1>12, <2>1, <2>3 DEF FlowKept
    <3>2. ASSUME "NDEV_FLOW_CTRL" \in txq[q].status PROVE Len(txq'[q].list) >= FlowRestart
      <4>1. ~(Len(t4.list) < FlowRestart)
        BY <1>9a, <2>1, <2>3, <3>2
      <4>2. Len(t4.list) \in Nat /\ FlowRestart \in Nat
        BY <1>8, TxqAssumption DEF TxqRec
      <4>3. txq'[q].list = t4.list
        BY <1>10, <1>12
      <4> QED
        BY <4>1, <4>2, <4>3
    <3> QED
      BY <3>1, <3>2
  <2> QED
    BY <2>2, <2>3
<1>13. aborted \in Nat
  BY <1>7 DEF TxqRec
<1> HIDE DEF aborted
<1>14. s \in Sta /\ id \in PsId
  BY TxqAssumption
<1>15. ps[s] \in PsRec /\ ps[s].pktReady[id] \in Int /\ ps[s].spCnt[id] \in Int /\ n \in Int
  BY SMTT(40), <1>1, <1>2, <1>14 DEF Shapes, PsRec
<1> DEFINE x == IF active THEN U16(ps[s].pktReady[id] - n) ELSE ps[s].pktReady[id]
           y == U16((IF active THEN ps[s].spCnt[id] - n ELSE ps[s].spCnt[id]) - aborted)
<1>16. x \in Int /\ y \in Int
  <2>1. ASSUME NEW z \in Int PROVE U16(z) \in Int
    BY DEF U16
  <2> QED
    BY <1>13, <1>15, <2>1
<1>17. ps' = [ps EXCEPT ![s].pktReady[id] = x, ![s].spCnt[id] = y]
  BY <1>3, <1>14 DEF Shapes, PsRec
<1> DEFINE a == [ps[s].pktReady EXCEPT ![id] = x]
           b == [ps[s].spCnt EXCEPT ![id] = y]
           c == [ps[s] EXCEPT !.pktReady = a, !.spCnt = b]
<1> HIDE DEF x, y, s, id
<1>18. ps \in [Sta -> PsRec] /\ a \in [PsId -> Int] /\ b \in [PsId -> Int]
  BY <1>14, <1>15, <1>16 DEF Shapes, PsRec
<1>19. /\ ps' \in [Sta -> PsRec]
       /\ \A r \in Sta : ps'[r].active = ps[r].active
       /\ \A r \in Sta, i \in PsId :
            ps'[r].pktReady[i] = IF r = s /\ i = id THEN x ELSE ps[r].pktReady[i]
  <2>1. ps' = [ps EXCEPT ![s] = c]
    BY <1>14, <1>15, <1>17, <1>18 DEF PsRec
  <2> HIDE DEF a, b
  <2>2. c \in PsRec /\ c.active = ps[s].active /\ c.pktReady = a
    BY <1>15, <1>18 DEF PsRec
  <2> HIDE DEF c
  <2>3. c.pktReady = [ps[s].pktReady EXCEPT ![id] = x]
    BY <2>2 DEF a
  <2> QED
    BY <1>14, <1>16, <1>18, <2>1, <2>2, <2>3, OnePs
<1>20. ps[s].active => \A r \in Sta, i \in PsId :
          ps'[r].pktReady[i] = IF r = s /\ i = id THEN U16(ps[r].pktReady[i] - n) ELSE ps[r].pktReady[i]
  BY <1>19 DEF x
<1>21. ndevStopped' \subseteq Txq
  BY <1>3 DEF Shapes
<1>22. \A r \in Sta \ {s}, i \in PsId : ps'[r].pktReady[i] = ps[r].pktReady[i]
  BY <1>19
<1>23. /\ n <= hwqCredits /\ hwqCredits' = hwqCredits - n
       /\ Cut(txq[q], txq'[q], 0, n)
       /\ txq'[q].active /\ txq'[q].credits = txq[q].credits - n
       /\ txq'[q].pktPushed = U8(txq[q].pktPushed + n)
       /\ \A p \in Txq \ {q} : txq'[p] = txq[p]
       /\ where' = [f \in Frame |->
                      IF f \in {txq[q].list[i] : i \in 1..n} THEN "fw" ELSE where[f]]
       /\ pushed' = pushed \cup {txq[q].list[i] : i \in 1..n}
  BY <1>2, <1>3, <1>4, <1>11, <1>12
<1>24. /\ ps[StaOf[q]].active =>
            \A r \in Sta, i \in PsId :
               ps'[r].pktReady[i] = IF r = StaOf[q] /\ i = PsIdOf[q]
                                    THEN U16(ps[r].pktReady[i] - n) ELSE ps[r].pktReady[i]
       /\ \A r \in Sta \ {StaOf[q]}, i \in PsId : ps'[r].pktReady[i] = ps[r].pktReady[i]
  BY <1>20, <1>22 DEF s, id
<1> QED
  BY <1>2, <1>12, <1>12a, <1>19, <1>21, <1>23, <1>24

\* One more frame is ready.
LEMMA CountReadyShapes ==
    ASSUME Shapes, NEW q \in Txq, NEW n \in Nat, ps' = CountReady(q, n)
    PROVE  /\ ps' \in [Sta -> PsRec] /\ \A s \in Sta : ps'[s].active = ps[s].active
           /\ ps[StaOf[q]].active =>
                \A s \in Sta, id \in PsId :
                   ps'[s].pktReady[id] = IF s = StaOf[q] /\ id = PsIdOf[q]
                                         THEN U16(ps[s].pktReady[id] + n) ELSE ps[s].pktReady[id]
           /\ ~ps[StaOf[q]].active => ps' = ps
<1> DEFINE s  == StaOf[q]
           id == PsIdOf[q]
<1>1. s \in Sta /\ id \in PsId /\ ps \in [Sta -> PsRec]
  BY TxqAssumption DEF Shapes
<1>2. ps' = IF ps[s].active THEN [ps EXCEPT ![s].pktReady[id] = U16(@ + n)] ELSE ps
  BY DEF CountReady
<1> HIDE DEF s, id
<1>3. CASE ps[s].active
  <2> DEFINE x == U16(ps[s].pktReady[id] + n)
             a == [ps[s].pktReady EXCEPT ![id] = x]
             c == [ps[s] EXCEPT !.pktReady = a]
  <2>1. ps[s] \in PsRec
    BY <1>1
  <2>2. ps[s].pktReady[id] \in Int /\ ps[s].pktReady \in [PsId -> Int]
    BY <1>1, <2>1 DEF PsRec
  <2>3. x \in Int
    BY <2>2 DEF U16
  <2>4. ps' = [ps EXCEPT ![s].pktReady[id] = x]
    BY <1>1, <1>2, <1>3 DEF PsRec
  <2> HIDE DEF x
  <2>5. ps' = [ps EXCEPT ![s] = c]
    BY <1>1, <2>1, <2>4 DEF PsRec
  <2>6. a \in [PsId -> Int]
    BY <1>1, <2>2, <2>3
  <2> HIDE DEF a
  <2>7. c \in PsRec /\ c.active = ps[s].active /\ c.pktReady = a
    BY <2>1, <2>6 DEF PsRec
  <2> HIDE DEF c
  <2>8. c.pktReady = [ps[s].pktReady EXCEPT ![id] = x]
    BY <2>7 DEF a
  <2>9. /\ ps' \in [Sta -> PsRec] /\ \A r \in Sta : ps'[r].active = ps[r].active
        /\ \A r \in Sta, i \in PsId :
             ps'[r].pktReady[i] = IF r = s /\ i = id THEN x ELSE ps[r].pktReady[i]
    <3>1. ps' \in [Sta -> PsRec] /\ ps'[s] = c /\ \A r \in Sta \ {s} : ps'[r] = ps[r]
      BY <1>1, <2>5, <2>7
    <3>2. \A i \in PsId : c.pktReady[i] = IF i = id THEN x ELSE ps[s].pktReady[i]
      BY <1>1, <2>2, <2>8
    <3> QED
      BY <2>7, <3>1, <3>2
  <2>10. \A r \in Sta, i \in PsId :
             ps'[r].pktReady[i] = IF r = s /\ i = id THEN U16(ps[r].pktReady[i] + n) ELSE ps[r].pktReady[i]
    BY <2>9 DEF x
  <2> QED
    BY <1>3, <2>9, <2>10 DEF s, id
<1>4. CASE ~ps[s].active
  BY <1>1, <1>2, <1>4 DEF s, id
<1> QED
  BY <1>3, <1>4

\* The frame is queued, or done when the queue is not active.
LEMMA XmitEffect ==
    ASSUME Shapes, ListInv, NEW q \in Txq, NEW f \in Frame, Xmit(q, f)
    PROVE  /\ Shapes'
           /\ \/ ~txq[q].active /\ where' = [where EXCEPT ![f] = "done"] /\ txq' = txq
              \/ /\ txq[q].active /\ where' = [where EXCEPT ![f] = "queued"]
                 /\ Queued(txq[q], txq'[q], f, FALSE)
                 /\ txq'[q].credits = txq[q].credits /\ txq'[q].pktPushed = txq[q].pktPushed
                 /\ \A p \in Txq \ {q} : txq'[p] = txq[p]
                 /\ StoppedIfFull(q)
<1>1. where' \in [Frame -> Place] /\ frameTxq' \in [Frame -> Txq]
  BY DEF Shapes, Xmit, Place
<1>2. CASE ~txq[q].active
  BY <1>1, <1>2 DEF Shapes, Xmit
<1>3. CASE txq[q].active
  <2> DEFINE t == QueueSkb(txq[q], f, FALSE)
  <2>1. /\ txq' = [txq EXCEPT ![q] = t] /\ ps' = CountReady(q, 1)
        /\ where' = [where EXCEPT ![f] = "queued"]
        /\ ndevStopped' = IF Congested(t) THEN ndevStopped \cup {q} ELSE ndevStopped
    BY <1>3 DEF Xmit, SetTxq
  <2>2. txq[q] \in TxqRec /\ RetryOk(txq[q]) /\ FALSE \in BOOLEAN
    BY DEF Shapes, ListInv, ListGood
  <2>3. /\ Queued(txq[q], t, f, FALSE) /\ t.credits = txq[q].credits /\ t.pktPushed = txq[q].pktPushed
        /\ "NDEV_FLOW_CTRL" \in t.status <=> "NDEV_FLOW_CTRL" \in txq[q].status \/ Congested(t)
    BY <2>2, QueueSkbQueues
  <2> HIDE DEF t
  <2>4. t \in TxqRec
    BY <2>3 DEF Queued
  <2>5. txq' \in [Txq -> TxqRec] /\ txq'[q] = t /\ \A p \in Txq \ {q} : txq'[p] = txq[p]
    BY <2>1, <2>4, OneTxq
  <2>6. 1 \in Nat
    OBVIOUS
  <2>7. ps' \in [Sta -> PsRec]
    BY <2>1, <2>6, CountReadyShapes
  <2>8. ndevStopped' \subseteq Txq
    BY <2>1 DEF Shapes
  <2>9. StoppedIfFull(q)
    BY <2>1, <2>3, <2>5 DEF StoppedIfFull
  <2> QED
    BY <1>1, <1>3, <2>1, <2>3, <2>5, <2>7, <2>8, <2>9 DEF Shapes, Xmit
<1> QED
  BY <1>2, <1>3

\* The frame is queued again, or done.
LEMMA ConfirmEffect ==
    ASSUME Shapes, ListInv, Confirm
    PROVE  LET c == Head(toConfirm)
               f == c.frame
               q == frameTxq[f]
               again == txq[q].active /\ c.retry
           IN /\ Shapes' /\ c \in CfmRec /\ f \in Frame /\ q \in Txq
              /\ hwqCredits' = hwqCredits + 1
              /\ \A p \in Txq \ {q} : txq'[p] = txq[p]
              /\ txq'[q].pktPushed = Higher(txq[q].pktPushed - 1, 0)
              /\ again => /\ Queued(txq[q], txq'[q], f, TRUE)
                          /\ txq'[q].credits = txq[q].credits + 1
                          /\ where' = [where EXCEPT ![f] = "queued"]
                          /\ ps' = CountReady(q, 1)
                          /\ StoppedIfFull(q)
              /\ ~again => /\ txq'[q].credits = IF txq[q].active THEN txq[q].credits + c.credits
                                                ELSE txq[q].credits
                           /\ SameList(txq[q], txq'[q])
                           /\ where' = [where EXCEPT ![f] = "done"]
                           /\ ps' = ps
                           /\ FlowKept(q)
<1> DEFINE c == Head(toConfirm)
           f == c.frame
           q == frameTxq[f]
           t == ConfirmAny(txq[q])
           again == t.active /\ c.retry
<1>1. c \in CfmRec /\ Tail(toConfirm) \in Seq(CfmRec)
  BY DEF Confirm, Shapes
<1>2. f \in Frame /\ c.credits \in Nat /\ c.retry \in BOOLEAN
  BY <1>1 DEF CfmRec
<1>3. q \in Txq /\ txq[q] \in TxqRec /\ RetryOk(txq[q])
  BY <1>2 DEF Shapes, ListInv, ListGood
<1>4. /\ t \in TxqRec /\ SameList(txq[q], t) /\ t.credits = txq[q].credits
      /\ t.pktPushed = Higher(txq[q].pktPushed - 1, 0) /\ t.status = txq[q].status
  <2>1. Higher(txq[q].pktPushed - 1, 0) \in Nat
    BY <1>3 DEF Higher, TxqRec
  <2> QED
    BY <1>3, <2>1 DEF ConfirmAny, TxqRec, SameList
<1>5. RetryOk(t)
  BY <1>3, <1>4 DEF RetryOk, SameList
<1>6. /\ hwqCredits' = hwqCredits + 1 /\ toConfirm' = Tail(toConfirm)
      /\ UNCHANGED <<valid, chanOn, ba, owed, frameTxq, scan, irq, cfms, cleanup, retried, pushed>>
  BY DEF Confirm, HwqConfirmed
<1>7. \/ again /\ txq' = [txq EXCEPT ![q] = Retry(t, f)] /\ ps' = CountReady(q, 1)
         /\ ndevStopped' = (IF Congested(Retry(t, f)) THEN ndevStopped \cup {q} ELSE ndevStopped)
         /\ where' = [where EXCEPT ![f] = "queued"]
      \/ ~again /\ txq' = [txq EXCEPT ![q] = IF t.active THEN Credited(t, c.credits) ELSE t]
         /\ where' = [where EXCEPT ![f] = "done"] /\ UNCHANGED <<ps, ndevStopped>>
  BY DEF Confirm, SetTxq
<1>8. where' \in [Frame -> Place]
  <2>1. where' = [where EXCEPT ![f] = "queued"] \/ where' = [where EXCEPT ![f] = "done"]
    BY <1>7
  <2> QED
    BY <1>2, <2>1 DEF Shapes, Place
<1>9. hwqCredits' \in Nat
  BY <1>6 DEF Shapes
<1> HIDE DEF c, f, q
<1>10. again <=> txq[q].active /\ c.retry
  BY <1>4 DEF SameList
<1> HIDE DEF t
<1>11. CASE again
  <2> DEFINE r == Retry(t, f)
             d == [t EXCEPT !.credits = @ + 1]
             u == IF d.credits > 0 THEN Start(d, {"STOP_FULL"}) ELSE d
  <2>1. /\ d \in TxqRec /\ SameList(t, d) /\ d.credits = t.credits + 1 /\ d.pktPushed = t.pktPushed
        /\ d.status = t.status
    <3>1. t.credits + 1 \in Int
      BY <1>4 DEF TxqRec
    <3> QED
      BY <1>4, <3>1 DEF TxqRec, SameList
  <2>2. Schedules(d, u)
    <3>1. {"STOP_FULL"} \in SUBSET StopReason
      BY DEF StopReason
    <3> HIDE DEF d
    <3> QED
      BY <2>1, <3>1, StatusOps
  <2>3. r = QueueSkb(u, f, TRUE)
    BY DEF Retry
  <2>4. u \in TxqRec /\ RetryOk(u)
    <3> HIDE DEF u, d
    <3> QED
      BY <1>5, <2>1, <2>2 DEF Schedules, RetryOk, SameList
  <2> HIDE DEF u, d, r
  <2>5. /\ Queued(u, r, f, TRUE) /\ r.credits = u.credits /\ r.pktPushed = u.pktPushed
        /\ "NDEV_FLOW_CTRL" \in r.status <=> "NDEV_FLOW_CTRL" \in u.status \/ Congested(r)
    <3>1. TRUE \in BOOLEAN
      OBVIOUS
    <3> QED
      BY <1>2, <2>3, <2>4, <3>1, QueueSkbQueues
  <2>6. Queued(d, r, f, TRUE)
    BY <2>2, <2>5, ScheduleThenQueue
  <2>7. SameList(txq[q], d)
    BY <1>4, <2>1 DEF SameList
  <2>8. Queued(txq[q], r, f, TRUE)
    BY <2>6, <2>7 DEF Queued, SameList
  <2>9. r \in TxqRec /\ r.pktPushed = t.pktPushed /\ r.credits = txq[q].credits + 1
    BY <1>4, <2>1, <2>2, <2>5, <2>6 DEF Queued, Schedules
  <2>10. txq' = [txq EXCEPT ![q] = r]
    BY <1>7, <1>11 DEF r
  <2>11. txq' \in [Txq -> TxqRec] /\ txq'[q] = r /\ \A p \in Txq \ {q} : txq'[p] = txq[p]
    BY <1>3, <2>9, <2>10, OneTxq
  <2>12. ps' = CountReady(q, 1) /\ ndevStopped' \subseteq Txq /\ where' = [where EXCEPT ![f] = "queued"]
    BY <1>3, <1>7, <1>11 DEF Shapes
  <2>13. 1 \in Nat
    OBVIOUS
  <2>14. ps' \in [Sta -> PsRec]
    BY <1>3, <2>12, <2>13, CountReadyShapes
  <2>15. Shapes'
    BY <1>1, <1>6, <1>8, <1>9, <2>11, <2>12, <2>14 DEF Shapes
  <2>17. StoppedIfFull(q)
    <3>1. ndevStopped' = IF Congested(r) THEN ndevStopped \cup {q} ELSE ndevStopped
      BY <1>7, <1>11 DEF r
    <3>2. "NDEV_FLOW_CTRL" \in u.status <=> "NDEV_FLOW_CTRL" \in txq[q].status
      BY <1>4, <2>1, <2>2 DEF Schedules
    <3> QED
      BY <2>5, <2>11, <3>1, <3>2 DEF StoppedIfFull
  <2> HIDE DEF again
  <2>16. Queued(txq[q], txq'[q], f, TRUE) /\ txq'[q].credits = txq[q].credits + 1
    BY <2>8, <2>9, <2>11
  <2> QED
    BY <1>1, <1>2, <1>3, <1>4, <1>6, <1>10, <1>11, <2>9, <2>11, <2>12, <2>15, <2>16, <2>17 DEF c, f, q
<1>12. CASE ~again
  <2> DEFINE r == IF t.active THEN Credited(t, c.credits) ELSE t
             n == c.credits
             d == [t EXCEPT !.credits = @ + n]
             u == IF n # 0 THEN StopIfFull(d) ELSE t
  <2>1. /\ d \in TxqRec /\ SameList(t, d) /\ d.credits = t.credits + n /\ d.pktPushed = t.pktPushed
        /\ d.status = t.status
    <3>1. t.credits + n \in Int
      BY <1>2, <1>4 DEF TxqRec
    <3> QED
      BY <1>4, <3>1 DEF TxqRec, SameList
  <2>2. {} \in SUBSET StopReason
    OBVIOUS
  <2>3. /\ u \in TxqRec /\ SameList(t, u) /\ u.credits = t.credits + n /\ u.pktPushed = t.pktPushed
        /\ "NDEV_FLOW_CTRL" \in u.status <=> "NDEV_FLOW_CTRL" \in t.status
    <3> HIDE DEF d
    <3>1. Schedules(d, StopIfFull(d))
      BY <2>1, <2>2, StatusOps
    <3>2. CASE n = 0
      BY <1>4, <3>2 DEF SameList, TxqRec
    <3>3. CASE n # 0
      BY <2>1, <3>1, <3>3 DEF SameList, Schedules
    <3> QED
      BY <3>2, <3>3
  <2>4. Credited(t, n) = IF u.pushLimit # 0 /\ "STOP_FULL" \notin u.status THEN AddToHwList(u) ELSE u
    BY DEF Credited
  <2> HIDE DEF u
  <2>5. Schedules(u, Credited(t, n))
    BY <2>2, <2>3, <2>4, StatusOps
  <2>6. /\ r \in TxqRec /\ SameList(t, r) /\ r.pktPushed = t.pktPushed
        /\ "NDEV_FLOW_CTRL" \in r.status <=> "NDEV_FLOW_CTRL" \in t.status
        /\ r.credits = IF t.active THEN t.credits + n ELSE t.credits
    <3>1. CASE t.active
      <4>1. r = Credited(t, n)
        BY <3>1
      <4> QED
        BY <2>3, <2>5, <3>1, <4>1 DEF Schedules, SameList
    <3>2. CASE ~t.active
      BY <1>4, <3>2 DEF SameList
    <3> QED
      BY <3>1, <3>2
  <2>7. txq' = [txq EXCEPT ![q] = r] /\ where' = [where EXCEPT ![f] = "done"] /\ ps' = ps
        /\ ndevStopped' = ndevStopped
    BY <1>7, <1>12
  <2> HIDE DEF r, n
  <2>8. txq' \in [Txq -> TxqRec] /\ txq'[q] = r /\ \A p \in Txq \ {q} : txq'[p] = txq[p]
    BY <1>3, <2>6, <2>7, OneTxq
  <2>9. Shapes'
    BY <1>1, <1>6, <1>8, <1>9, <2>7, <2>8 DEF Shapes
  <2>10. SameList(txq[q], txq'[q])
    BY <1>4, <2>6, <2>8 DEF SameList
  <2>11. txq'[q].credits = IF txq[q].active THEN txq[q].credits + c.credits ELSE txq[q].credits
    BY <1>4, <2>6, <2>8 DEF SameList, n
  <2>12. FlowKept(q)
    BY <1>4, <2>6, <2>7, <2>8 DEF FlowKept
  <2> HIDE DEF again
  <2> QED
    BY <1>1, <1>2, <1>3, <1>4, <1>6, <1>10, <1>12, <2>6, <2>7, <2>8, <2>9, <2>10, <2>11, <2>12 DEF c, f, q
<1> QED
  BY <1>11, <1>12

\* An update of the credits, for an active queue.
LEMMA UpdatedCredits ==
    ASSUME NEW t \in TxqRec, NEW u \in Int, t.pktPushed <= HwqSize
    PROVE  /\ Updated(t, u) \in TxqRec /\ SameList(t, Updated(t, u))
           /\ Updated(t, u).pktPushed = t.pktPushed
           /\ ~Pcie => Updated(t, u).credits + t.pktPushed <= HwqSize
           /\ "NDEV_FLOW_CTRL" \in Updated(t, u).status <=> "NDEV_FLOW_CTRL" \in t.status
<1> DEFINE fits == /\ Pcie \/ t.credits + u > 0
                   /\ t.credits + t.pktPushed + u < HwqSize
           x == IF fits THEN t.credits + u ELSE HwqSize - t.pktPushed
           d == [t EXCEPT !.credits = S8(x)]
<1>1. t.credits \in Int /\ t.pktPushed \in Nat /\ HwqSize \in 1..124
  BY TxqAssumption DEF TxqRec
<1>2. x \in Int
  BY <1>1
<1>3. S8(x) \in Int
  BY <1>2 DEF S8
<1>4. ~Pcie => S8(x) + t.pktPushed <= HwqSize
  <2> HAVE ~Pcie
  <2>1. x \in -128..127 /\ x + t.pktPushed <= HwqSize
    <3>1. CASE fits
      <4>1. x = t.credits + u /\ x > 0 /\ x + t.pktPushed < HwqSize
        BY <1>1, <3>1
      <4> HIDE DEF x
      <4> QED
        BY <1>1, <1>2, <4>1
    <3>2. CASE ~fits
      <4>1. x = HwqSize - t.pktPushed
        BY <3>2
      <4> HIDE DEF x
      <4> QED
        BY <1>1, <1>2, <4>1
    <3> QED
      BY <3>1, <3>2
  <2>2. ASSUME NEW y \in -128..127 PROVE S8(y) = y
    BY DEF S8
  <2> QED
    BY <2>1, <2>2
<1>5. Updated(t, u) = StopIfFull(d)
  BY DEF Updated
<1> HIDE DEF x
<1>6. d \in TxqRec /\ SameList(t, d) /\ d.credits = S8(x) /\ d.pktPushed = t.pktPushed /\ d.status = t.status
  BY <1>3 DEF TxqRec, SameList
<1> HIDE DEF d
<1>7. Schedules(d, StopIfFull(d))
  <2>1. {} \in SUBSET StopReason
    OBVIOUS
  <2> QED
    BY <1>6, <2>1, StatusOps
<1> QED
  BY <1>4, <1>5, <1>6, <1>7 DEF Schedules, SameList

\* The credits change, and retry frames may be dropped.
LEMMA CreditUpdateEffect ==
    ASSUME Shapes, ListInv, NEW q \in Txq, NEW b \in BaCredits, CreditUpdate(q, b),
           txq[q].pktPushed <= HwqSize
    PROVE  /\ Shapes'
           /\ \A p \in Txq \ {q} : txq'[p] = txq[p]
           /\ txq'[q].active = txq[q].active /\ txq'[q].pktPushed = txq[q].pktPushed
           /\ ~Pcie /\ txq[q].credits + txq[q].pktPushed <= HwqSize
                => txq'[q].credits + txq'[q].pktPushed <= HwqSize
           /\ "NDEV_FLOW_CTRL" \in txq'[q].status <=> "NDEV_FLOW_CTRL" \in txq[q].status
           /\ \E n \in 0..txq[q].nbRetry :
                 /\ Cut(txq[q], txq'[q], 0, n)
                 /\ where' = [f \in Frame |->
                                IF f \in {txq[q].list[i] : i \in 1..n} THEN "done" ELSE where[f]]
<1> DEFINE t == txq[q]
           u == IF ba[q] = 0 THEN b ELSE -ba[q]
           v == IF ~Pcie /\ u > InitialCredits /\ t.active THEN HwqSize - InitialCredits ELSE u
           n == IF v < InitialCredits THEN NbDropped(t) ELSE 0
           t1 == IF t.active THEN Updated(t, v) ELSE t
           t2 == DropRetries(t1, n)
<1>1. t \in TxqRec /\ RetryOk(t) /\ t.nbRetry \in Nat /\ t.list \in Seq(Frame)
  <2>1. t \in TxqRec /\ RetryOk(t)
    BY DEF Shapes, ListInv, ListGood
  <2> QED
    BY <2>1 DEF TxqRec
<1>2. v \in Int
  BY TxqAssumption DEF Shapes
<1>3. /\ txq' = [txq EXCEPT ![q] = t2]
      /\ ba' = [ba EXCEPT ![q] = IF @ = 0 THEN b ELSE 0]
      /\ where' = [f \in Frame |-> IF f \in AsFrames(SubSeq(t.list, 1, n)) THEN "done" ELSE where[f]]
      /\ Indication /\ UNCHANGED <<ps, ndevStopped, chanOn, owed>>
  BY DEF CreditUpdate, SetTxq
<1> HIDE DEF v
<1>4. n \in 0..t.nbRetry
  BY <1>1 DEF NbDropped
<1> HIDE DEF n, t
<1>5. /\ t1 \in TxqRec /\ SameList(t, t1) /\ t1.pktPushed = t.pktPushed
      /\ ~Pcie /\ t.credits + t.pktPushed <= HwqSize => t1.credits + t1.pktPushed <= HwqSize
      /\ "NDEV_FLOW_CTRL" \in t1.status <=> "NDEV_FLOW_CTRL" \in t.status
  <2>1. CASE t.active
    <3>1. t.pktPushed <= HwqSize
      BY DEF t
    <3> QED
      BY <1>1, <1>2, <2>1, <3>1, UpdatedCredits
  <2>2. CASE ~t.active
    BY <1>1, <2>2 DEF SameList
  <2> QED
    BY <2>1, <2>2
<1> HIDE DEF t1
<1>6. RetryOk(t1) /\ n \in 0..t1.nbRetry
  BY <1>1, <1>4, <1>5 DEF RetryOk, SameList
<1>7. /\ Cut(t1, t2, 0, n) /\ t2.active = t1.active /\ t2.status = t1.status
      /\ t2.credits = t1.credits /\ t2.pktPushed = t1.pktPushed
  BY <1>5, <1>6, DropRetriesCuts
<1> HIDE DEF t2
<1>8. Cut(t, t2, 0, n) /\ t2 \in TxqRec /\ t2.active = t.active
  BY <1>5, <1>7 DEF Cut, SameList
<1>9. txq' \in [Txq -> TxqRec] /\ txq'[q] = t2 /\ \A p \in Txq \ {q} : txq'[p] = txq[p]
  BY <1>3, <1>8, OneTxq
<1>10. n \in 0..Len(t.list)
  BY <1>1, <1>4 DEF RetryOk
<1>11. AsFrames(SubSeq(t.list, 1, n)) = {t.list[i] : i \in 1..n}
  BY <1>1, <1>10, DropFirst
<1>12. where' = [f \in Frame |-> IF f \in {t.list[i] : i \in 1..n} THEN "done" ELSE where[f]]
  BY <1>3, <1>11
<1>13. where' \in [Frame -> Place]
  BY <1>12 DEF Shapes, Place
<1>14. ba' \in [Txq -> Nat]
  BY SMTT(40), <1>3, TxqAssumption DEF Shapes
<1>15. Shapes'
  BY <1>3, <1>9, <1>13, <1>14 DEF Shapes, Indication
<1>16. /\ t2.pktPushed = t.pktPushed
       /\ ~Pcie /\ t.credits + t.pktPushed <= HwqSize => t2.credits + t2.pktPushed <= HwqSize
       /\ "NDEV_FLOW_CTRL" \in t2.status <=> "NDEV_FLOW_CTRL" \in t.status
  BY <1>5, <1>7
<1> QED
  BY <1>4, <1>8, <1>9, <1>12, <1>15, <1>16 DEF t

\* Old frames are dropped.
LEMMA CleanupEffect ==
    ASSUME Shapes, ListInv, NEW q \in Txq, NEW n \in 0..NbFrames, CleanupTimer(q, n)
    PROVE  /\ Shapes'
           /\ \A p \in Txq \ {q} : txq'[p] = txq[p]
           /\ txq'[q].active /\ txq'[q].pktPushed = txq[q].pktPushed
           /\ txq'[q].credits = txq[q].credits
           /\ txq[q].nbRetry + n <= Len(txq[q].list)
           /\ Cut(txq[q], txq'[q], txq[q].nbRetry, n)
           /\ where' = [f \in Frame |->
                          IF f \in {txq[q].list[i] : i \in (txq[q].nbRetry + 1)..(txq[q].nbRetry + n)}
                          THEN "done" ELSE where[f]]
           /\ ps[StaOf[q]].active =>
                \A s \in Sta, id \in PsId :
                   /\ ps'[s].active = ps[s].active
                   /\ ps'[s].pktReady[id] = IF s = StaOf[q] /\ id = PsIdOf[q]
                                            THEN U16(ps[s].pktReady[id] - n) ELSE ps[s].pktReady[id]
           /\ ~ps[StaOf[q]].active => ps' = ps
           /\ \/ Restarted(q)
              \/ /\ FlowKept(q)
                 /\ \/ cleanup'.step # "none" /\ cleanup'.of = q
                    \/ "NDEV_FLOW_CTRL" \in txq[q].status => txq'[q].list # <<>>
<1> DEFINE t  == txq[q]
           s  == StaOf[q]
           id == PsIdOf[q]
           k  == t.nbRetry
           inSp == IF ps[s].active THEN Lower(n, ps[s].spCnt[id]) ELSE 0
           t0 == DropOld(t, n)
           ts == ShortenSp(t0, inSp)
           t1 == Unschedule(ts)
           wake == Drained(t1) /\ "race" \notin features
           t2 == IF wake THEN [t1 EXCEPT !.status = @ \ {"NDEV_FLOW_CTRL"}] ELSE t1
<1>1. n \in Nat /\ t \in TxqRec /\ RetryOk(t) /\ t.active /\ s \in Sta /\ id \in PsId
  <2>1. t.active
    BY DEF CleanupTimer
  <2>2. t \in TxqRec /\ RetryOk(t)
    BY DEF Shapes, ListInv, ListGood
  <2>3. n \in Nat /\ s \in Sta /\ id \in PsId
    BY TxqAssumption
  <2> QED
    BY <2>1, <2>2, <2>3
<1>2. k \in Nat /\ t.list \in Seq(Frame) /\ k + n <= Len(t.list)
  <2>1. k \in Nat /\ t.list \in Seq(Frame) /\ Len(t.list) \in Nat
    BY <1>1 DEF TxqRec
  <2>2. n <= Len(t.list) - k
    BY DEF CleanupTimer
  <2> QED
    BY <1>1, <2>1, <2>2
<1>3. /\ txq' = [txq EXCEPT ![q] = t2]
      /\ ndevStopped' = (IF wake THEN ndevStopped \ {q} ELSE ndevStopped)
      /\ ps' = IF ps[s].active
               THEN [ps EXCEPT ![s].pktReady[id] = U16(@ - n), ![s].spCnt[id] = @ - inSp]
               ELSE ps
      /\ where' = [f \in Frame |-> IF f \in AsFrames(SubSeq(t.list, k + 1, k + n)) THEN "done" ELSE where[f]]
      /\ cleanup' = IF "race" \in features
                    THEN [step |-> "read", of |-> q, status |-> {}] ELSE NoTail
      /\ UNCHANGED <<hwqCredits, valid, ba, owed, frameTxq, cfms, toConfirm, pushed>>
  BY DEF CleanupTimer, SetTxq
<1>4. ps[s] \in PsRec /\ inSp \in Int
  <2>1. ps[s] \in PsRec
    BY <1>1 DEF Shapes
  <2>2. ps[s].spCnt[id] \in Int
    BY <1>1, <2>1 DEF PsRec
  <2> QED
    BY <1>1, <2>1, <2>2 DEF Lower
<1>5. /\ Cut(t, t0, k, n) /\ t0.active = t.active /\ t0.status = t.status
      /\ t0.credits = t.credits /\ t0.pktPushed = t.pktPushed
  BY <1>1, <1>2, DropOldCuts
<1>6. /\ ps' \in [Sta -> PsRec]
      /\ ps[s].active =>
           \A r \in Sta, i \in PsId :
              /\ ps'[r].active = ps[r].active
              /\ ps'[r].pktReady[i] = IF r = s /\ i = id
                                      THEN U16(ps[r].pktReady[i] - n) ELSE ps[r].pktReady[i]
      /\ ~ps[s].active => ps' = ps
  <2>1. CASE ps[s].active
    <3> DEFINE x == U16(ps[s].pktReady[id] - n)
               y == ps[s].spCnt[id] - inSp
               a == [ps[s].pktReady EXCEPT ![id] = x]
               b == [ps[s].spCnt EXCEPT ![id] = y]
               c == [ps[s] EXCEPT !.pktReady = a, !.spCnt = b]
    <3>1. /\ ps[s].pktReady \in [PsId -> Int] /\ ps[s].spCnt \in [PsId -> Int]
          /\ ps[s].pktReady[id] \in Int /\ ps[s].spCnt[id] \in Int
      BY <1>1, <1>4 DEF PsRec
    <3>2. ps' = [ps EXCEPT ![s].pktReady[id] = x, ![s].spCnt[id] = y]
      BY <1>1, <1>3, <2>1 DEF Shapes, PsRec
    <3> HIDE DEF s, id, inSp
    <3>3. x \in Int /\ y \in Int
      BY <1>1, <1>4, <3>1 DEF U16
    <3> HIDE DEF x, y
    <3>4. ps' = [ps EXCEPT ![s] = c]
      BY <1>1, <1>4, <3>2 DEF Shapes, PsRec
    <3>5. a \in [PsId -> Int] /\ b \in [PsId -> Int]
      BY <1>1, <3>1, <3>3
    <3> HIDE DEF a, b
    <3>6. c \in PsRec /\ c.active = ps[s].active /\ c.pktReady = a
      BY <1>4, <3>5 DEF PsRec
    <3> HIDE DEF c
    <3>7. c.pktReady = [ps[s].pktReady EXCEPT ![id] = x]
      BY <3>6 DEF a
    <3>8. ps \in [Sta -> PsRec] /\ s \in Sta /\ id \in PsId
      BY <1>1 DEF Shapes
    <3>9. c \in PsRec /\ x \in Int /\ ps' = [ps EXCEPT ![s] = c] /\ c.active = ps[s].active
      BY <3>3, <3>4, <3>6
    <3>10. /\ ps' \in [Sta -> PsRec]
           /\ \A r \in Sta : ps'[r].active = ps[r].active
           /\ \A r \in Sta, i \in PsId :
               ps'[r].pktReady[i] = IF r = s /\ i = id THEN x ELSE ps[r].pktReady[i]
      <4>1. ps' \in [Sta -> PsRec] /\ ps'[s] = c /\ \A r \in Sta \ {s} : ps'[r] = ps[r]
        BY <3>8, <3>9
      <4>2. \A i \in PsId : c.pktReady[i] = IF i = id THEN x ELSE ps[s].pktReady[i]
        BY <3>1, <3>7, <3>8
      <4> QED
        BY <3>9, <4>1, <4>2
    <3> QED
      BY <2>1, <3>10 DEF x
  <2>2. CASE ~ps[s].active
    BY <1>3, <2>2 DEF Shapes
  <2> QED
    BY <2>1, <2>2
<1> HIDE DEF inSp, t0, t, k
<1>7. Schedules(t0, ts)
  <2>1. t0 \in TxqRec /\ LimitAfter(t0, inSp) \in Nat
    <3>1. t0 \in TxqRec
      BY <1>5 DEF Cut
    <3> QED
      BY <1>4, <3>1 DEF LimitAfter, Higher, TxqRec
  <2> QED
    BY <2>1, LimitStays DEF ShortenSp
<1>8. ts \in TxqRec
  BY <1>7 DEF Schedules
<1> HIDE DEF ts
<1>9. Schedules(ts, t1)
  <2>1. {} \in SUBSET StopReason
    OBVIOUS
  <2>2. Schedules(ts, ts) /\ Schedules(ts, DelFromHwList(ts))
    BY <1>8, <2>1, StatusOps
  <2>3. DelFromHwList(ts) \in TxqRec
    BY <2>2 DEF Schedules
  <2>4. Schedules(DelFromHwList(ts), [DelFromHwList(ts) EXCEPT !.pktSent = 0])
    BY <2>3, LimitStays
  <2>5. Schedules(ts, [DelFromHwList(ts) EXCEPT !.pktSent = 0])
    BY <2>2, <2>4, SchedulesTwice
  <2> QED
    BY <2>2, <2>5 DEF Unschedule
<1>9a. wake <=> "NDEV_FLOW_CTRL" \in t1.status /\ t1.list = <<>> /\ "race" \notin features
  BY DEF Drained
<1> HIDE DEF t1, wake
<1>10. Schedules(t0, t1)
  BY <1>7, <1>9, SchedulesTwice
<1>11. /\ t2 \in TxqRec /\ SameList(t1, t2) /\ t2.credits = t1.credits /\ t2.pktPushed = t1.pktPushed
       /\ t2.status = IF wake THEN t1.status \ {"NDEV_FLOW_CTRL"} ELSE t1.status
  BY <1>10 DEF Schedules, SameList, TxqRec
<1> HIDE DEF t2
<1>12. /\ Cut(t, t2, k, n) /\ t2.active = t.active /\ t2.credits = t.credits
       /\ t2.pktPushed = t.pktPushed
  BY <1>5, <1>10, <1>11 DEF Cut, Schedules, SameList
<1>13. txq' \in [Txq -> TxqRec] /\ txq'[q] = t2 /\ \A p \in Txq \ {q} : txq'[p] = txq[p]
  BY <1>3, <1>11, OneTxq
<1>13a. \/ Restarted(q)
        \/ /\ FlowKept(q)
           /\ \/ cleanup'.step # "none" /\ cleanup'.of = q
              \/ "NDEV_FLOW_CTRL" \in txq[q].status => txq'[q].list # <<>>
  <2>1. "NDEV_FLOW_CTRL" \in t1.status <=> "NDEV_FLOW_CTRL" \in txq[q].status
    BY <1>5, <1>10 DEF Schedules, t
  <2>2. txq'[q].list = t1.list
    BY <1>11, <1>13 DEF SameList
  <2>3. CASE wake
    BY <1>3, <1>11, <1>13, <2>3 DEF Restarted
  <2>4. CASE ~wake
    <3>1. FlowKept(q)
      BY <1>3, <1>11, <1>13, <2>1, <2>4 DEF FlowKept
    <3>2. CASE "race" \in features
      BY <1>3, <3>1, <3>2
    <3>3. CASE "race" \notin features
      BY <1>9a, <2>1, <2>2, <2>4, <3>1, <3>3
    <3> QED
      BY <3>2, <3>3
  <2> QED
    BY <2>3, <2>4
<1>14. AsFrames(SubSeq(t.list, k + 1, k + n)) = {t.list[i] : i \in (k + 1)..(k + n)}
  <2> DEFINE l == t.list
  <2>1. l \in Seq(Frame) /\ k \in Nat /\ n \in Nat /\ k + n <= Len(l)
    BY <1>1, <1>2
  <2> HIDE DEF l
  <2>2. AsFrames(SubSeq(l, k + 1, k + n)) = {l[i] : i \in (k + 1)..(k + n)}
    BY <2>1, CutOff
  <2> QED
    BY <2>2 DEF l
<1>15. where' = [f \in Frame |-> IF f \in {t.list[i] : i \in (k + 1)..(k + n)} THEN "done" ELSE where[f]]
  BY <1>3, <1>14
<1>16. where' \in [Frame -> Place]
  BY <1>15 DEF Shapes, Place
<1>17. cleanup' \in [step : {"none", "read", "write"}, of : Txq, status : SUBSET Status]
  <2>1. NoTail \in [step : {"none", "read", "write"}, of : Txq, status : SUBSET Status]
    BY FewQueues DEF NoTail
  <2> QED
    BY <1>3, <2>1
<1>18. ndevStopped' \subseteq Txq
  BY <1>3 DEF Shapes
<1>19. Shapes'
  BY <1>3, <1>6, <1>13, <1>16, <1>17, <1>18 DEF Shapes
<1> QED
  BY <1>1, <1>2, <1>6, <1>12, <1>13, <1>13a, <1>15, <1>19 DEF t, k

\* Every frame of the queue is dropped.
LEMMA TxqDeinitEffect ==
    ASSUME Shapes, ListInv, NEW q \in Txq, TxqDeinit(q)
    PROVE  /\ Shapes'
           /\ \A p \in Txq \ {q} : txq'[p] = txq[p]
           /\ ~txq'[q].active /\ txq'[q].list = <<>>
           /\ txq'[q].credits = txq[q].credits /\ txq'[q].pktPushed = txq[q].pktPushed
           /\ Cut(txq[q], txq'[q], 0, Len(txq[q].list))
           /\ where' = [f \in Frame |->
                          IF f \in {txq[q].list[i] : i \in 1..Len(txq[q].list)} THEN "done" ELSE where[f]]
<1> DEFINE t == txq[q]
           d == DelFromHwList(t)
           u == [d EXCEPT !.active = FALSE, !.list = <<>>, !.nbRetry = 0, !.lastRetry = NoFrame]
<1>1. t \in TxqRec /\ RetryOk(t)
  BY DEF Shapes, ListInv, ListGood
<1>2. t.list \in Seq(Frame) /\ Len(t.list) \in Nat /\ t.nbRetry \in Nat
  BY <1>1 DEF TxqRec
<1>3. Schedules(t, d) /\ d \in TxqRec
  <2>1. {} \in SUBSET StopReason
    OBVIOUS
  <2> HIDE DEF d
  <2>2. Schedules(t, DelFromHwList(t))
    BY <1>1, <2>1, StatusOps
  <2> QED
    BY <2>2 DEF d, Schedules
<1>4. txq' = [txq EXCEPT ![q] = u]
  BY DEF TxqDeinit, SetTxq
<1>5. where' = [f \in Frame |-> IF f \in AsFrames(t.list) THEN "done" ELSE where[f]]
  BY DEF TxqDeinit
<1> HIDE DEF d, t
<1>6. /\ u \in TxqRec /\ ~u.active /\ u.list = <<>> /\ u.nbRetry = 0 /\ u.lastRetry = NoFrame
      /\ u.credits = d.credits /\ u.pktPushed = d.pktPushed
  <2>1. <<>> \in Seq(Frame)
    OBVIOUS
  <2> QED
    BY <1>3, <2>1 DEF TxqRec
<1> HIDE DEF u
<1>7. Cut(t, u, 0, Len(t.list))
  <2>1. Higher(t.nbRetry - Len(t.list), 0) = 0
    BY <1>1, <1>2 DEF RetryOk, Higher
  <2>2. Len(u.list) = 0 /\ 1..(Len(t.list) - Len(t.list)) = {} /\ Len(t.list) - Len(t.list) = 0
    BY <1>2, <1>6
  <2> QED
    BY <1>6, <2>1, <2>2 DEF Cut
<1>8. txq' \in [Txq -> TxqRec] /\ txq'[q] = u /\ \A p \in Txq \ {q} : txq'[p] = txq[p]
  BY <1>4, <1>6, OneTxq
<1>9. AsFrames(t.list) = {t.list[i] : i \in 1..Len(t.list)}
  BY <1>2 DEF AsFrames
<1>10. where' = [f \in Frame |-> IF f \in {t.list[i] : i \in 1..Len(t.list)} THEN "done" ELSE where[f]]
  BY <1>5, <1>9
<1>11. where' \in [Frame -> Place]
  BY <1>10 DEF Shapes, Place
<1>12. Shapes'
  BY <1>8, <1>11 DEF Shapes, TxqDeinit
<1>13. u.credits = t.credits /\ u.pktPushed = t.pktPushed
  BY <1>3, <1>6 DEF Schedules
<1> QED
  BY <1>6, <1>7, <1>8, <1>10, <1>12, <1>13 DEF t

\* The queues of the station start again.
LEMMA StaAddEffect ==
    ASSUME Shapes, ListInv, NEW s \in Sta, StaAdd(s)
    PROVE  /\ Shapes'
           /\ \A q \in Txq :
                 IF StaOf[q] = s
                 THEN /\ ~txq[q].active /\ txq'[q].list = <<>> /\ txq'[q].pktPushed = 0
                      /\ txq'[q].credits = InitialCredits /\ txq'[q].nbRetry = 0
                      /\ txq'[q].lastRetry = NoFrame
                      /\ "NDEV_FLOW_CTRL" \notin txq'[q].status
                      /\ \A f \in Frame : where[f] = "fw" => frameTxq[f] # q
                 ELSE txq'[q] = txq[q]
<1>1. PICK asleep \in BOOLEAN :
         LET status == (IF chanOn THEN {} ELSE {"STOP_CHAN"})
                       \cup (IF asleep THEN {"STOP_STA_PS"} ELSE {})
         IN /\ txq' = [q \in Txq |-> IF StaOf[q] = s THEN InitTxq(status) ELSE txq[q]]
            /\ ps' = [ps EXCEPT ![s] =
                        IF asleep THEN [active |-> TRUE, pktReady |-> [id \in PsId |-> 0],
                                        spCnt |-> [id \in PsId |-> 0]]
                        ELSE @]
  BY DEF StaAdd
<1> DEFINE status == (IF chanOn THEN {} ELSE {"STOP_CHAN"})
                     \cup (IF asleep THEN {"STOP_STA_PS"} ELSE {})
           t == InitTxq(status)
           p == [active |-> TRUE, pktReady |-> [id \in PsId |-> 0], spCnt |-> [id \in PsId |-> 0]]
<1>2. txq' = [q \in Txq |-> IF StaOf[q] = s THEN t ELSE txq[q]]
  BY <1>1
<1>3. ps' = [ps EXCEPT ![s] = IF asleep THEN p ELSE ps[s]]
  BY <1>1 DEF Shapes
<1>4. status \in SUBSET Status /\ "NDEV_FLOW_CTRL" \notin status
  BY DEF Status, StopReason
<1> HIDE DEF status
<1>5. /\ t \in TxqRec /\ t.list = <<>> /\ t.pktPushed = 0 /\ t.credits = InitialCredits
      /\ t.nbRetry = 0 /\ t.lastRetry = NoFrame /\ t.status = status
  <2>1. <<>> \in Seq(Frame) /\ InitialCredits \in Int
    BY TxqAssumption
  <2> QED
    BY <1>4, <2>1 DEF InitTxq, TxqRec
<1>6. p \in PsRec
  BY DEF PsRec
<1> HIDE DEF t, p
<1>7. txq' \in [Txq -> TxqRec]
  BY <1>2, <1>5 DEF Shapes
<1>8. ps' \in [Sta -> PsRec]
  BY <1>3, <1>6 DEF Shapes
<1>9. /\ valid' = [valid EXCEPT ![s] = TRUE]
      /\ ba' = [q \in Txq |-> IF StaOf[q] = s THEN 0 ELSE ba[q]]
      /\ owed' = [q \in Txq |-> IF StaOf[q] = s THEN 0 ELSE owed[q]]
      /\ UNCHANGED <<hwqCredits, ndevStopped, where, frameTxq, cfms, toConfirm, cleanup, pushed>>
      /\ \A q \in StaTxqs(s) : ~txq[q].active
      /\ ~\E f \in Frame : where[f] = "fw" /\ StaOf[frameTxq[f]] = s
  BY DEF StaAdd
<1>10. Shapes'
  BY <1>7, <1>8, <1>9 DEF Shapes
<1>11. \A q \in Txq : StaOf[q] = s => ~txq[q].active /\ \A f \in Frame : where[f] = "fw" => frameTxq[f] # q
  BY <1>9 DEF StaTxqs
<1> QED
  BY <1>2, <1>4, <1>5, <1>10, <1>11

\* The other steps leave the queues alone.
LEMMA OtherShapes ==
    ASSUME Shapes,
           (\E f \in Frame : FwConfirm(f)) \/ Irq \/ IrqProcess \/ (\E s \in Sta : StaDel(s))
    PROVE  Shapes' /\ txq' = txq
<1>1. ASSUME NEW f \in Frame, FwConfirm(f) PROVE Shapes' /\ txq' = txq
  <2>1. frameTxq[f] \in Txq
    BY DEF Shapes
  <2> DEFINE q == frameTxq[f]
  <2>2. owed[q] \in Nat
    BY <2>1 DEF Shapes
  <2>3. \/ cfms' = Append(cfms, [frame |-> f, retry |-> TRUE, credits |-> 0]) /\ owed' = owed
        \/ \E n \in {owed[q] + 1, 0} :
              /\ cfms' = Append(cfms, [frame |-> f, retry |-> FALSE, credits |-> n])
              /\ owed' = [owed EXCEPT ![q] = owed[q] + 1 - n]
    BY <1>1, <2>1 DEF FwConfirm, Shapes
  <2> HIDE DEF q
  <2>4. cfms' \in Seq(CfmRec) /\ owed' \in [Txq -> Nat]
    <3>1. CASE cfms' = Append(cfms, [frame |-> f, retry |-> TRUE, credits |-> 0]) /\ owed' = owed
      <4>1. [frame |-> f, retry |-> TRUE, credits |-> 0] \in CfmRec
        BY DEF CfmRec
      <4> QED
        BY <3>1, <4>1 DEF Shapes
    <3>2. ASSUME NEW n \in {owed[q] + 1, 0},
                 cfms' = Append(cfms, [frame |-> f, retry |-> FALSE, credits |-> n]),
                 owed' = [owed EXCEPT ![q] = owed[q] + 1 - n]
          PROVE  cfms' \in Seq(CfmRec) /\ owed' \in [Txq -> Nat]
      <4>1. n \in Nat /\ owed[q] + 1 - n \in Nat
        BY <2>2
      <4>2. [frame |-> f, retry |-> FALSE, credits |-> n] \in CfmRec
        BY <4>1 DEF CfmRec
      <4>3. cfms' \in Seq(CfmRec)
        BY <3>2, <4>2 DEF Shapes
      <4>4. owed' \in [Txq -> Nat]
        BY <3>2, <4>1 DEF Shapes
      <4> QED
        BY <4>3, <4>4
    <3> QED
      BY <2>3, <3>1, <3>2
  <2> QED
    BY <1>1, <2>4 DEF Shapes, FwConfirm, drvVars
<1>2. CASE Irq
  BY <1>2 DEF Shapes, Irq, drvVars
<1>3. CASE IrqProcess
  BY <1>3 DEF Shapes, IrqProcess
<1>4. ASSUME NEW s \in Sta, StaDel(s) PROVE Shapes' /\ txq' = txq
  <2>1. ps[s] \in PsRec
    BY DEF Shapes
  <2>2. [ps[s] EXCEPT !.active = FALSE] \in PsRec
    BY <2>1 DEF PsRec
  <2>3. ps' = [ps EXCEPT ![s] = [ps[s] EXCEPT !.active = FALSE]]
    BY <1>4 DEF StaDel
  <2>4. ps' \in [Sta -> PsRec]
    BY <2>2, <2>3 DEF Shapes
  <2> QED
    BY <1>4, <2>4 DEF Shapes, StaDel
<1> QED
  BY <1>1, <1>2, <1>3, <1>4

-----------------------------------------------------------------------------
(* Confirmations and credits                                               *)

\* The confirmations on their way, the oldest first.
Waiting == toConfirm \o cfms

\* Each is for another frame in the firmware, and on SDIO and USB worth one credit.
CfmInv ==
    /\ \A i \in 1..Len(Waiting) : where[Waiting[i].frame] = "fw"
    /\ \A i, j \in 1..Len(Waiting) : i < j => Waiting[i].frame # Waiting[j].frame
    /\ ~Pcie => /\ \A q \in Txq : owed[q] = 0
                /\ \A i \in 1..Len(Waiting) : Waiting[i].credits = IF Waiting[i].retry THEN 0 ELSE 1

\* The frames of queue q in the firmware.
FwOf(q) == { f \in InFirmware : frameTxq[f] = q }

\* CreditsConserved, also of the queues that are not active.
CreditInv ==
    /\ hwqCredits + Cardinality(InFirmware) = HwqSize
    /\ \A q \in Txq : /\ txq[q].pktPushed = Cardinality(FwOf(q))
                      /\ ~Pcie => txq[q].credits + txq[q].pktPushed <= HwqSize

Inv == Shapes /\ ListInv /\ CfmInv /\ CreditInv

\* The sets of frames are finite, and no queue has more frames in the firmware than
\* the hardware queue has credits.
LEMMA FewFrames ==
    ASSUME Inv
    PROVE  /\ IsFiniteSet(InFirmware) /\ \A q \in Txq : IsFiniteSet(FwOf(q))
           /\ Cardinality(InFirmware) \in Nat /\ Cardinality(InFirmware) <= HwqSize
           /\ \A q \in Txq : Cardinality(FwOf(q)) \in Nat /\ txq[q].pktPushed <= HwqSize
<1>1. IsFiniteSet(Frame)
  <2>1. 1 \in Int /\ NbFrames \in Int
    BY TxqAssumption
  <2> QED
    BY <2>1, FS_Interval DEF Frame
<1>2. IsFiniteSet(InFirmware)
  BY <1>1, FS_Subset DEF InFirmware
<1>3. ASSUME NEW q \in Txq
      PROVE  IsFiniteSet(FwOf(q)) /\ Cardinality(FwOf(q)) <= Cardinality(InFirmware)
  <2>1. FwOf(q) \in SUBSET InFirmware
    BY DEF FwOf
  <2> QED
    BY <1>2, <2>1, FS_Subset
<1>4. Cardinality(InFirmware) \in Nat /\ \A q \in Txq : Cardinality(FwOf(q)) \in Nat
  BY <1>2, <1>3, FS_CardinalityType
<1>5. Cardinality(InFirmware) <= HwqSize
  <2>1. hwqCredits \in Nat /\ hwqCredits + Cardinality(InFirmware) = HwqSize /\ HwqSize \in Nat
    BY TxqAssumption DEF Inv, Shapes, CreditInv
  <2> QED
    BY <1>4, <2>1
<1>6. \A q \in Txq : txq[q].pktPushed = Cardinality(FwOf(q))
  BY DEF Inv, CreditInv
<1>7. HwqSize \in Nat
  BY TxqAssumption
<1> QED
  BY <1>2, <1>3, <1>4, <1>5, <1>6, <1>7

\* What the confirmations are is not disturbed by steps that leave them and the
\* firmware's frames alone.
LEMMA WaitingKept ==
    ASSUME Shapes, CfmInv, bus' = bus, Waiting' = Waiting,
           \A f \in Frame : where[f] = "fw" => where'[f] = "fw",
           ~Pcie => \A q \in Txq : owed'[q] = 0
    PROVE  CfmInv'
<1>1. \A i \in 1..Len(Waiting) : Waiting[i].frame \in Frame
  <2>1. Waiting \in Seq(CfmRec)
    BY DEF Shapes, Waiting
  <2>2. \A i \in 1..Len(Waiting) : Waiting[i] \in CfmRec
    BY <2>1
  <2> QED
    BY <2>2 DEF CfmRec
<1>2. Pcie' = Pcie
  BY DEF Pcie
<1> QED
  BY <1>1, <1>2 DEF CfmInv

\* Nor the credits.
LEMMA CreditsKept ==
    ASSUME Inv, bus' = bus, hwqCredits' = hwqCredits,
           \A f \in Frame : where'[f] = "fw" <=> where[f] = "fw",
           \A f \in Frame : where[f] = "fw" => frameTxq'[f] = frameTxq[f],
           \A q \in Txq : /\ txq'[q].pktPushed = txq[q].pktPushed
                          /\ ~Pcie => txq'[q].credits + txq'[q].pktPushed <= HwqSize
    PROVE  CreditInv'
<1>1. InFirmware' = InFirmware
  BY DEF InFirmware
<1>2. \A q \in Txq : FwOf(q)' = FwOf(q)
  BY <1>1 DEF FwOf, InFirmware
<1>3. Pcie' = Pcie
  BY DEF Pcie
<1>4. hwqCredits' + Cardinality(InFirmware)' = HwqSize
  BY <1>1 DEF Inv, CreditInv
<1>5. \A q \in Txq : txq'[q].pktPushed = Cardinality(FwOf(q)')
  BY <1>2 DEF Inv, CreditInv
<1> QED
  BY <1>3, <1>4, <1>5 DEF CreditInv

-----------------------------------------------------------------------------
(* Every step keeps the invariant                                          *)

\* Steps that move no frame and no credit.
LEMMA SteadyStep ==
    ASSUME Inv, Shapes', bus' = bus, \A q \in Txq : Steady(txq[q], txq'[q]),
           UNCHANGED <<where, frameTxq, pushed, cfms, toConfirm, hwqCredits, owed>>
    PROVE  Inv'
<1>1. ListInv'
  <2>1. \A p \in Txq : /\ txq'[p].list = txq[p].list /\ txq'[p].nbRetry = txq[p].nbRetry
                       /\ txq'[p].lastRetry = txq[p].lastRetry
                       /\ ~txq'[p].active => txq'[p].list = <<>>
    BY DEF Steady, SameList, Inv, ListInv, ListGood
  <2> QED
    BY <2>1, SameKeepsLists DEF Inv
<1>2. CfmInv'
  <2>1. Waiting' = Waiting
    BY DEF Waiting
  <2> QED
    BY <2>1, WaitingKept DEF Inv, CfmInv
<1>3. CreditInv'
  <2>1. \A q \in Txq : /\ txq'[q].pktPushed = txq[q].pktPushed
                       /\ ~Pcie => txq'[q].credits + txq'[q].pktPushed <= HwqSize
    BY DEF Steady, Inv, CreditInv
  <2> QED
    BY <2>1, CreditsKept
<1> QED
  BY <1>1, <1>2, <1>3 DEF Inv

\* The firmware confirms a frame.
LEMMA FwConfirmStep ==
    ASSUME Inv, NEW f \in Frame, FwConfirm(f), bus' = bus
    PROVE  Inv'
<1>1. Shapes' /\ txq' = txq
  BY OtherShapes DEF Inv
<1>2. UNCHANGED <<where, frameTxq, pushed, toConfirm, hwqCredits>>
  BY DEF FwConfirm, drvVars
<1>3. ListInv'
  <2>1. \A p \in Txq : ~txq'[p].active => txq'[p].list = <<>>
    BY <1>1 DEF Inv, ListInv, ListGood
  <2> QED
    BY <1>1, <1>2, <2>1, SameKeepsLists DEF Inv
<1>4. CreditInv'
  BY <1>1, <1>2, CreditsKept DEF Inv, CreditInv
<1>5. CfmInv'
  <2>1. /\ where[f] = "fw" /\ ~Confirmed(f) /\ frameTxq[f] \in Txq
        /\ toConfirm \in Seq(CfmRec) /\ cfms \in Seq(CfmRec) /\ owed \in [Txq -> Nat]
    BY DEF FwConfirm, Inv, Shapes
  <2>2. PICK c \in CfmRec : /\ c.frame = f /\ cfms' = Append(cfms, c)
                            /\ ~Pcie => /\ c.credits = (IF c.retry THEN 0 ELSE 1)
                                        /\ \A q \in Txq : owed'[q] = 0
    <3> DEFINE q == frameTxq[f]
    <3>1. owed[q] \in Nat /\ (~Pcie => owed[q] = 0)
      BY <2>1 DEF Inv, CfmInv
    <3>2. \/ cfms' = Append(cfms, [frame |-> f, retry |-> TRUE, credits |-> 0]) /\ owed' = owed
          \/ \E n \in {owed[q] + 1} \cup (IF Pcie THEN {0} ELSE {}) :
                /\ cfms' = Append(cfms, [frame |-> f, retry |-> FALSE, credits |-> n])
                /\ owed' = [owed EXCEPT ![q] = owed[q] + 1 - n]
      BY <2>1 DEF FwConfirm
    <3> HIDE DEF q
    <3>3. CASE cfms' = Append(cfms, [frame |-> f, retry |-> TRUE, credits |-> 0]) /\ owed' = owed
      <4> DEFINE c == [frame |-> f, retry |-> TRUE, credits |-> 0]
      <4>1. c \in CfmRec /\ c.frame = f /\ c.retry /\ c.credits = 0
        BY DEF CfmRec
      <4>2. ~Pcie => \A p \in Txq : owed'[p] = 0
        BY <3>3 DEF Inv, CfmInv
      <4>3. cfms' = Append(cfms, c)
        BY <3>3
      <4> HIDE DEF c
      <4> QED
        BY <4>1, <4>2, <4>3
    <3>4. ASSUME NEW n \in {owed[q] + 1} \cup (IF Pcie THEN {0} ELSE {}),
                 cfms' = Append(cfms, [frame |-> f, retry |-> FALSE, credits |-> n]),
                 owed' = [owed EXCEPT ![q] = owed[q] + 1 - n]
          PROVE  \E c \in CfmRec : /\ c.frame = f /\ cfms' = Append(cfms, c)
                                   /\ ~Pcie => /\ c.credits = (IF c.retry THEN 0 ELSE 1)
                                               /\ \A p \in Txq : owed'[p] = 0
      <4> DEFINE c == [frame |-> f, retry |-> FALSE, credits |-> n]
      <4>1. n \in Nat
        BY <3>1, <3>4
      <4>2. c \in CfmRec /\ c.frame = f /\ ~c.retry /\ c.credits = n
        BY <4>1 DEF CfmRec
      <4>3. ~Pcie => n = 1 /\ \A p \in Txq : owed'[p] = 0
        BY <2>1, <3>1, <3>4 DEF Inv, CfmInv
      <4>4. cfms' = Append(cfms, c)
        BY <3>4
      <4> HIDE DEF c
      <4> QED
        BY <4>2, <4>3, <4>4
    <3> QED
      BY <3>2, <3>3, <3>4
  <2> DEFINE w == Waiting
             v == Waiting'
  <2>3. w \in Seq(CfmRec) /\ v \in Seq(CfmRec) /\ v = Append(w, c)
    BY <1>2, <2>1, <2>2 DEF Waiting
  <2>4. \A i \in 1..Len(w) : w[i].frame # f
    <3> SUFFICES ASSUME NEW i \in 1..Len(w), w[i].frame = f PROVE FALSE
      OBVIOUS
    <3>1. CASE i <= Len(toConfirm)
      <4>1. w[i] = toConfirm[i] /\ i \in DOMAIN toConfirm
        BY <2>1, <3>1 DEF Waiting
      <4> QED
        BY <2>1, <4>1 DEF Confirmed
    <3>2. CASE i > Len(toConfirm)
      <4>1. w[i] = cfms[i - Len(toConfirm)] /\ i - Len(toConfirm) \in DOMAIN cfms
        BY <2>1, <3>2 DEF Waiting
      <4> QED
        BY <2>1, <4>1 DEF Confirmed
    <3> QED
      BY <2>1, <3>1, <3>2
  <2>5. /\ Len(v) = Len(w) + 1 /\ \A i \in 1..Len(v) : v[i] = IF i <= Len(w) THEN w[i] ELSE c
        /\ Len(w) \in Nat
    BY <2>3
  <2>6. Pcie' = Pcie
    BY DEF Pcie
  <2>7. /\ \A i \in 1..Len(w) : where[w[i].frame] = "fw"
        /\ \A i, j \in 1..Len(w) : i < j => w[i].frame # w[j].frame
        /\ ~Pcie => \A i \in 1..Len(w) : w[i].credits = IF w[i].retry THEN 0 ELSE 1
    BY DEF Inv, CfmInv
  <2> HIDE DEF w, v
  <2>8. /\ \A i \in 1..Len(v) : where'[v[i].frame] = "fw"
        /\ \A i, j \in 1..Len(v) : i < j => v[i].frame # v[j].frame
        /\ ~Pcie => \A i \in 1..Len(v) : v[i].credits = IF v[i].retry THEN 0 ELSE 1
    <3>1. ASSUME NEW i \in 1..Len(v) PROVE where'[v[i].frame] = "fw"
      <4>1. CASE i <= Len(w)
        BY <1>2, <2>5, <2>7, <4>1
      <4>2. CASE i > Len(w)
        <5>1. v[i] = c
          BY <2>5, <4>2
        <5> QED
          BY <1>2, <2>1, <2>2, <5>1
      <4> QED
        BY <2>5, <4>1, <4>2
    <3>2. ASSUME NEW i \in 1..Len(v), NEW j \in 1..Len(v), i < j PROVE v[i].frame # v[j].frame
      <4>1. i \in 1..Len(w) /\ v[i] = w[i]
        BY <2>5, <3>2
      <4>2. CASE j <= Len(w)
        BY <2>5, <2>7, <3>2, <4>1, <4>2
      <4>3. CASE j > Len(w)
        BY <2>2, <2>4, <2>5, <4>1, <4>3
      <4> QED
        BY <2>5, <4>2, <4>3
    <3>3. ~Pcie => \A i \in 1..Len(v) : v[i].credits = IF v[i].retry THEN 0 ELSE 1
      BY <2>2, <2>5, <2>7
    <3> QED
      BY <3>1, <3>2, <3>3
  <2> QED
    BY <2>2, <2>6, <2>8 DEF CfmInv, v
<1> QED
  BY <1>1, <1>3, <1>4, <1>5 DEF Inv

\* The interrupt task reads the confirmations.
LEMMA IrqStep ==
    ASSUME Inv, Irq, bus' = bus
    PROVE  Inv'
<1>1. Shapes' /\ txq' = txq
  BY OtherShapes DEF Inv
<1>2. UNCHANGED <<where, frameTxq, pushed, hwqCredits, owed>>
  BY DEF Irq, drvVars
<1>3. ListInv'
  <2>1. \A p \in Txq : ~txq'[p].active => txq'[p].list = <<>>
    BY <1>1 DEF Inv, ListInv, ListGood
  <2> QED
    BY <1>1, <1>2, <2>1, SameKeepsLists DEF Inv
<1>4. CreditInv'
  BY <1>1, <1>2, CreditsKept DEF Inv, CreditInv
<1>5. CfmInv'
  <2>1. toConfirm \in Seq(CfmRec) /\ cfms \in Seq(CfmRec) /\ toConfirm' = toConfirm \o cfms /\ cfms' = <<>>
    BY DEF Irq, Inv, Shapes
  <2>2. Waiting' = Waiting
    BY <2>1 DEF Waiting
  <2> QED
    BY <1>2, <2>2, WaitingKept DEF Inv, CfmInv
<1> QED
  BY <1>1, <1>3, <1>4, <1>5 DEF Inv

\* A frame is queued.
LEMMA XmitStep ==
    ASSUME Inv, NEW q \in Txq, NEW f \in Frame, Xmit(q, f), bus' = bus
    PROVE  Inv'
<1>1. /\ Shapes'
      /\ \/ ~txq[q].active /\ where' = [where EXCEPT ![f] = "done"] /\ txq' = txq
         \/ /\ txq[q].active /\ where' = [where EXCEPT ![f] = "queued"]
            /\ Queued(txq[q], txq'[q], f, FALSE)
            /\ txq'[q].credits = txq[q].credits /\ txq'[q].pktPushed = txq[q].pktPushed
            /\ \A p \in Txq \ {q} : txq'[p] = txq[p]
  BY XmitEffect DEF Inv
<1>2. /\ where[f] = "new" /\ \A g \in 1..(f - 1) : where[g] # "new"
      /\ frameTxq' = [frameTxq EXCEPT ![f] = q]
      /\ UNCHANGED <<hwqCredits, owed, cfms, toConfirm, pushed>>
  BY DEF Xmit
<1>3. ListInv'
  <2>1. CASE ~txq[q].active
    <3>1. \A p \in Txq : SameList(txq[p], txq'[p])
      BY <1>1, <2>1 DEF SameList
    <3> QED
      BY <1>1, <1>2, <2>1, <3>1, DoneKeepsLists DEF Inv
  <2>2. CASE txq[q].active
    <3>1. \A p \in Txq \ {q} : SameList(txq[p], txq'[p])
      BY <1>1, <2>2 DEF SameList
    <3>2. FALSE \in BOOLEAN
      OBVIOUS
    <3> QED
      BY <1>1, <1>2, <2>2, <3>1, <3>2, QueuedKeepsLists DEF Inv
  <2> QED
    BY <2>1, <2>2
<1>4. where \in [Frame -> Place] /\ frameTxq \in [Frame -> Txq]
  BY DEF Inv, Shapes
<1>5. \A g \in Frame : where'[g] = "fw" <=> where[g] = "fw"
  BY <1>1, <1>2, <1>4
<1>6. \A g \in Frame : where[g] = "fw" => frameTxq'[g] = frameTxq[g]
  BY <1>2, <1>4
<1>7. CfmInv'
  <2>1. Waiting' = Waiting
    BY <1>2 DEF Waiting
  <2> QED
    BY <1>2, <1>5, <2>1, WaitingKept DEF Inv, CfmInv
<1>8. CreditInv'
  <2>1. \A p \in Txq : txq'[p].credits = txq[p].credits /\ txq'[p].pktPushed = txq[p].pktPushed
    BY <1>1
  <2>2. \A p \in Txq : ~Pcie => txq'[p].credits + txq'[p].pktPushed <= HwqSize
    BY <2>1 DEF Inv, CreditInv
  <2> QED
    BY <1>2, <1>5, <1>6, <2>1, <2>2, CreditsKept
<1> QED
  BY <1>1, <1>3, <1>7, <1>8 DEF Inv

\* Frames leave a queue, but not for the firmware.
LEMMA DropStep ==
    ASSUME Inv, Shapes', bus' = bus, NEW q \in Txq, NEW k \in {0, txq[q].nbRetry}, NEW n \in Nat,
           k + n <= Len(txq[q].list), Cut(txq[q], txq'[q], k, n),
           ~txq'[q].active => txq'[q].list = <<>>,
           \A p \in Txq \ {q} : txq'[p] = txq[p],
           txq'[q].pktPushed = txq[q].pktPushed,
           ~Pcie => txq'[q].credits + txq'[q].pktPushed <= HwqSize,
           where' = [f \in Frame |-> IF f \in {txq[q].list[i] : i \in (k + 1)..(k + n)}
                                     THEN "done" ELSE where[f]],
           UNCHANGED <<frameTxq, pushed, cfms, toConfirm, hwqCredits, owed>>
    PROVE  Inv'
<1> DEFINE C == {txq[q].list[i] : i \in (k + 1)..(k + n)}
<1>1. where' = [f \in Frame |-> IF f \in C THEN "done" ELSE where[f]]
  OBVIOUS
<1>2. \A f \in C : where[f] = "queued"
  <2> SUFFICES ASSUME NEW i \in (k + 1)..(k + n) PROVE where[txq[q].list[i]] = "queued"
    OBVIOUS
  <2>1. txq[q] \in TxqRec /\ ListGood(q)
    BY DEF Inv, Shapes, ListInv
  <2>2. k \in Nat /\ Len(txq[q].list) \in Nat
    BY <2>1 DEF TxqRec
  <2>3. i \in 1..Len(txq[q].list)
    BY <2>2
  <2> QED
    BY <2>1, <2>3 DEF ListGood
<1>3. ListInv'
  <2>1. \A p \in Txq \ {q} : SameList(txq[p], txq'[p])
    BY DEF SameList
  <2> DEFINE place == "done"
  <2>2. /\ place \in {"fw", "done"} /\ pushed' = (IF place = "fw" THEN pushed \cup C ELSE pushed)
        /\ where' = [f \in Frame |-> IF f \in C THEN place ELSE where[f]]
        /\ frameTxq' = frameTxq
    BY <1>1
  <2>3. C = {txq[q].list[i] : i \in (k + 1)..(k + n)}
    OBVIOUS
  <2>4. Shapes /\ ListInv
    BY DEF Inv
  <2>5. /\ k \in {0, txq[q].nbRetry} /\ n \in Nat /\ q \in Txq /\ k + n <= Len(txq[q].list)
        /\ Cut(txq[q], txq'[q], k, n) /\ (~txq'[q].active => txq'[q].list = <<>>)
    OBVIOUS
  <2> HIDE DEF C, place
  <2> QED
    BY ONLY ZenonT(40), <2>1, <2>2, <2>3, <2>4, <2>5, CutKeepsLists
<1> HIDE DEF C
<1>4. \A f \in Frame : where'[f] = "fw" <=> where[f] = "fw"
  BY <1>1, <1>2
<1>5. CfmInv'
  <2>1. Waiting' = Waiting
    BY DEF Waiting
  <2> QED
    BY <1>4, <2>1, WaitingKept DEF Inv, CfmInv
<1>6. CreditInv'
  <2>1. \A p \in Txq : /\ txq'[p].pktPushed = txq[p].pktPushed
                       /\ ~Pcie => txq'[p].credits + txq'[p].pktPushed <= HwqSize
    BY DEF Inv, CreditInv
  <2> QED
    BY <1>4, <2>1, CreditsKept
<1> QED
  BY <1>3, <1>5, <1>6 DEF Inv

\* An update of the credits.
LEMMA CreditUpdateStep ==
    ASSUME Inv, NEW q \in Txq, NEW b \in BaCredits, CreditUpdate(q, b), bus' = bus
    PROVE  Inv'
<1>1. txq[q].pktPushed <= HwqSize
  BY FewFrames
<1>2. ~Pcie => txq[q].credits + txq[q].pktPushed <= HwqSize
  BY DEF Inv, CreditInv
<1>3. txq[q] \in TxqRec /\ RetryOk(txq[q]) /\ (~txq[q].active => txq[q].list = <<>>)
  BY DEF Inv, Shapes, ListInv, ListGood
<1>4. /\ Shapes'
      /\ \A p \in Txq \ {q} : txq'[p] = txq[p]
      /\ txq'[q].active = txq[q].active /\ txq'[q].pktPushed = txq[q].pktPushed
      /\ ~Pcie /\ txq[q].credits + txq[q].pktPushed <= HwqSize
           => txq'[q].credits + txq'[q].pktPushed <= HwqSize
  BY <1>1, CreditUpdateEffect DEF Inv
<1>5. PICK n \in 0..txq[q].nbRetry :
         /\ Cut(txq[q], txq'[q], 0, n)
         /\ where' = [f \in Frame |->
                        IF f \in {txq[q].list[i] : i \in 1..n} THEN "done" ELSE where[f]]
  BY <1>1, CreditUpdateEffect DEF Inv
<1>6. n \in Nat /\ n <= Len(txq[q].list) /\ Len(txq[q].list) \in Nat
  BY <1>3 DEF RetryOk, TxqRec
<1>7. UNCHANGED <<frameTxq, pushed, cfms, toConfirm, hwqCredits, owed>>
  BY DEF CreditUpdate, Indication
<1>8. ~txq'[q].active => txq'[q].list = <<>>
  <2> HAVE ~txq'[q].active
  <2>1. Len(txq[q].list) = 0
    BY <1>3, <1>4
  <2>2. txq'[q].list \in Seq(Frame) /\ Len(txq'[q].list) = 0
    BY <1>5, <1>6, <2>1 DEF Cut, TxqRec
  <2> QED
    BY <2>2
<1>9. 0 + n = n /\ 0 + 1 = 1
  BY <1>6
<1>10. where' = [f \in Frame |-> IF f \in {txq[q].list[i] : i \in (0 + 1)..(0 + n)}
                                 THEN "done" ELSE where[f]]
  BY <1>5, <1>9
<1> QED
  BY <1>2, <1>4, <1>5, <1>6, <1>7, <1>8, <1>9, <1>10, DropStep

\* The clean-up timer.
LEMMA CleanupStep ==
    ASSUME Inv, NEW q \in Txq, NEW n \in 0..NbFrames, CleanupTimer(q, n), bus' = bus
    PROVE  Inv'
<1>1. n \in Nat
  BY TxqAssumption
<1>2. /\ Shapes'
      /\ \A p \in Txq \ {q} : txq'[p] = txq[p]
      /\ txq'[q].active /\ txq'[q].pktPushed = txq[q].pktPushed
      /\ txq'[q].credits = txq[q].credits
      /\ txq[q].nbRetry + n <= Len(txq[q].list)
      /\ Cut(txq[q], txq'[q], txq[q].nbRetry, n)
      /\ where' = [f \in Frame |->
                     IF f \in {txq[q].list[i] : i \in (txq[q].nbRetry + 1)..(txq[q].nbRetry + n)}
                     THEN "done" ELSE where[f]]
  BY CleanupEffect DEF Inv
<1>3. ~Pcie => txq'[q].credits + txq'[q].pktPushed <= HwqSize
  BY <1>2 DEF Inv, CreditInv
<1>4. UNCHANGED <<frameTxq, pushed, cfms, toConfirm, hwqCredits, owed>>
  BY DEF CleanupTimer
<1> QED
  BY <1>1, <1>2, <1>3, <1>4, DropStep

\* The queues of a station that leaves.
LEMMA TxqDeinitStep ==
    ASSUME Inv, NEW q \in Txq, TxqDeinit(q), bus' = bus
    PROVE  Inv'
<1> DEFINE n == Len(txq[q].list)
<1>1. /\ Shapes'
      /\ \A p \in Txq \ {q} : txq'[p] = txq[p]
      /\ ~txq'[q].active /\ txq'[q].list = <<>>
      /\ txq'[q].credits = txq[q].credits /\ txq'[q].pktPushed = txq[q].pktPushed
      /\ Cut(txq[q], txq'[q], 0, n)
      /\ where' = [f \in Frame |->
                     IF f \in {txq[q].list[i] : i \in 1..n} THEN "done" ELSE where[f]]
  BY TxqDeinitEffect DEF Inv
<1>2. n \in Nat
  <2>1. txq[q] \in TxqRec
    BY DEF Inv, Shapes
  <2> QED
    BY <2>1 DEF TxqRec
<1>3. ~Pcie => txq'[q].credits + txq'[q].pktPushed <= HwqSize
  BY <1>1 DEF Inv, CreditInv
<1>4. UNCHANGED <<frameTxq, pushed, cfms, toConfirm, hwqCredits, owed>>
  BY DEF TxqDeinit
<1>5. n <= Len(txq[q].list)
  BY <1>2
<1> HIDE DEF n
<1>6. 0 + n = n /\ 0 + 1 = 1
  BY <1>2
<1>7. where' = [f \in Frame |-> IF f \in {txq[q].list[i] : i \in (0 + 1)..(0 + n)}
                                THEN "done" ELSE where[f]]
  BY <1>1, <1>6
<1> QED
  BY <1>1, <1>2, <1>3, <1>4, <1>5, <1>6, <1>7, DropStep

\* A station comes.
LEMMA StaAddStep ==
    ASSUME Inv, NEW s \in Sta, StaAdd(s), bus' = bus
    PROVE  Inv'
<1>1. /\ Shapes'
      /\ \A q \in Txq :
            IF StaOf[q] = s
            THEN /\ ~txq[q].active /\ txq'[q].list = <<>> /\ txq'[q].pktPushed = 0
                 /\ txq'[q].credits = InitialCredits /\ txq'[q].nbRetry = 0
                 /\ txq'[q].lastRetry = NoFrame
                 /\ \A f \in Frame : where[f] = "fw" => frameTxq[f] # q
            ELSE txq'[q] = txq[q]
  BY StaAddEffect DEF Inv
<1>2. /\ UNCHANGED <<frameTxq, pushed, where, cfms, toConfirm, hwqCredits>>
      /\ owed' = [q \in Txq |-> IF StaOf[q] = s THEN 0 ELSE owed[q]]
  BY DEF StaAdd
<1>3. ListInv'
  <2>1. ASSUME NEW p \in Txq
        PROVE  /\ txq'[p].list = txq[p].list /\ txq'[p].nbRetry = txq[p].nbRetry
               /\ txq'[p].lastRetry = txq[p].lastRetry
               /\ ~txq'[p].active => txq'[p].list = <<>>
    <3>1. txq[p] \in TxqRec /\ RetryOk(txq[p]) /\ (~txq[p].active => txq[p].list = <<>>)
      BY DEF Inv, Shapes, ListInv, ListGood
    <3>2. CASE StaOf[p] = s
      <4>1. txq[p].list = <<>> /\ txq[p].nbRetry \in Nat
        BY <1>1, <3>1, <3>2 DEF TxqRec
      <4>2. txq[p].nbRetry = 0
        BY <3>1, <4>1 DEF RetryOk
      <4>3. txq[p].lastRetry = NoFrame
        BY <3>1, <4>2 DEF RetryOk
      <4> QED
        BY <1>1, <3>2, <4>1, <4>2, <4>3
    <3>3. CASE StaOf[p] # s
      BY <1>1, <3>1, <3>3
    <3> QED
      BY <3>2, <3>3
  <2> QED
    BY <1>2, <2>1, SameKeepsLists DEF Inv
<1>4. CfmInv'
  <2>1. Waiting' = Waiting
    BY <1>2 DEF Waiting
  <2> QED
    BY <1>2, <2>1, WaitingKept DEF Inv, CfmInv
<1>5. CreditInv'
  <2>1. ASSUME NEW p \in Txq
        PROVE  /\ txq'[p].pktPushed = txq[p].pktPushed
               /\ ~Pcie => txq'[p].credits + txq'[p].pktPushed <= HwqSize
    <3>1. txq[p].pktPushed = Cardinality(FwOf(p)) /\ (~Pcie => txq[p].credits + txq[p].pktPushed <= HwqSize)
      BY DEF Inv, CreditInv
    <3>2. CASE StaOf[p] = s
      <4>1. FwOf(p) = {}
        BY <1>1, <3>2 DEF FwOf, InFirmware
      <4>2. Cardinality(FwOf(p)) = 0
        BY <4>1, FS_EmptySet
      <4>3. InitialCredits <= HwqSize /\ InitialCredits \in Int
        BY TxqAssumption
      <4> QED
        BY <1>1, <3>1, <3>2, <4>2, <4>3
    <3>3. CASE StaOf[p] # s
      BY <1>1, <3>1, <3>3
    <3> QED
      BY <3>2, <3>3
  <2> QED
    BY <1>2, <2>1, CreditsKept
<1> QED
  BY <1>1, <1>3, <1>4, <1>5 DEF Inv

\* A push: each frame costs the hardware queue a credit.
LEMMA PushStep ==
    ASSUME Inv, NEW q \in Txq, Pushable(txq[q]), hwqCredits > 0, PushTxq(q), bus' = bus, Shapes',
           UNCHANGED <<owed, frameTxq, cfms, toConfirm>>
    PROVE  Inv'
<1>1. PICK n \in 0..Len(txq[q].list) :
         /\ n <= hwqCredits /\ hwqCredits' = hwqCredits - n
         /\ Cut(txq[q], txq'[q], 0, n)
         /\ txq'[q].active /\ txq'[q].credits = txq[q].credits - n
         /\ txq'[q].pktPushed = U8(txq[q].pktPushed + n)
         /\ \A p \in Txq \ {q} : txq'[p] = txq[p]
         /\ where' = [f \in Frame |->
                        IF f \in {txq[q].list[i] : i \in 1..n} THEN "fw" ELSE where[f]]
         /\ pushed' = pushed \cup {txq[q].list[i] : i \in 1..n}
  BY VisitPushes DEF Inv
<1> DEFINE l == txq[q].list
           C == {l[i] : i \in 1..n}
<1>2. txq[q] \in TxqRec /\ ListGood(q) /\ hwqCredits \in Nat /\ Shapes /\ ListInv
  BY DEF Inv, Shapes, ListInv
<1>3. l \in Seq(Frame) /\ Len(l) \in Nat /\ n \in Nat /\ n <= Len(l) /\ txq[q].credits \in Int
  BY <1>2 DEF TxqRec
<1>4. /\ \A i \in 1..n : i \in 1..Len(l)
      /\ \A f \in C : f \in Frame /\ where[f] = "queued" /\ frameTxq[f] = q
  <2>1. \A i \in 1..n : i \in 1..Len(l)
    BY <1>3
  <2>2. \A i \in 1..Len(l) : l[i] \in Frame /\ where[l[i]] = "queued" /\ frameTxq[l[i]] = q
    BY <1>2, <1>3 DEF ListGood
  <2> QED
    BY <2>1, <2>2
<1>5. IsFiniteSet(C) /\ Cardinality(C) = n
  <2> DEFINE g == [i \in 1..n |-> l[i]]
  <2>1. g \in Surjection(1..n, C)
    BY DEF Surjection
  <2>2. \A i, j \in 1..n : i # j => l[i] # l[j]
    <3> SUFFICES ASSUME NEW i \in 1..n, NEW j \in 1..n, i < j PROVE l[i] # l[j]
      BY <1>3
    <3> QED
      BY <1>2, <1>4 DEF ListGood
  <2>3. g \in Injection(1..n, C)
    BY <2>2 DEF Injection, IsInjective
  <2>4. IsFiniteSet(1..n) /\ Cardinality(1..n) = n
    <3>1. 1 \in Int /\ n \in Int
      BY <1>3
    <3>2. IsFiniteSet(1..n) /\ Cardinality(1..n) = IF 1 > n THEN 0 ELSE n - 1 + 1
      BY <3>1, FS_Interval
    <3> QED
      BY <1>3, <3>2
  <2> HIDE DEF g, C
  <2> QED
    BY <2>1, <2>3, <2>4, FS_Surjection
<1>6. C = {txq[q].list[i] : i \in 1..n}
  OBVIOUS
<1> HIDE DEF C
<1>7. InFirmware' = InFirmware \cup C /\ InFirmware \cap C = {}
  BY <1>1, <1>4, <1>6 DEF InFirmware
<1>8. FwOf(q)' = FwOf(q) \cup C /\ FwOf(q) \cap C = {}
  BY <1>4, <1>7 DEF FwOf
<1>9. \A p \in Txq \ {q} : FwOf(p)' = FwOf(p)
  BY <1>4, <1>7 DEF FwOf
<1>10. /\ IsFiniteSet(InFirmware) /\ IsFiniteSet(FwOf(q)) /\ Cardinality(InFirmware) \in Nat
       /\ Cardinality(FwOf(q)) \in Nat /\ Cardinality(FwOf(q)) <= Cardinality(InFirmware)
  <2>1. FwOf(q) \in SUBSET InFirmware
    BY DEF FwOf
  <2> QED
    BY <2>1, FewFrames, FS_Subset
<1>11. /\ Cardinality(InFirmware \cup C) = Cardinality(InFirmware) + n
       /\ Cardinality(FwOf(q) \cup C) = Cardinality(FwOf(q)) + n
  <2>1. /\ Cardinality(InFirmware \cup C) = Cardinality(InFirmware) + Cardinality(C) - Cardinality({})
        /\ Cardinality(FwOf(q) \cup C) = Cardinality(FwOf(q)) + Cardinality(C) - Cardinality({})
    BY <1>5, <1>7, <1>8, <1>10, FS_Union
  <2> QED
    BY <1>3, <1>5, <1>10, <2>1, FS_EmptySet
<1>12. CreditInv'
  <2>1. hwqCredits + Cardinality(InFirmware) = HwqSize /\ HwqSize \in 1..124
    BY TxqAssumption DEF Inv, CreditInv
  <2>2. hwqCredits' + Cardinality(InFirmware') = HwqSize
    BY <1>1, <1>2, <1>3, <1>7, <1>10, <1>11, <2>1
  <2>3. txq[q].pktPushed = Cardinality(FwOf(q)) /\ (~Pcie => txq[q].credits + txq[q].pktPushed <= HwqSize)
    BY DEF Inv, CreditInv
  <2>4. txq[q].pktPushed + n \in 0..124
    <3>1. n <= hwqCredits
      BY <1>1
    <3>2. Cardinality(FwOf(q)) + n <= HwqSize
      BY <1>2, <1>3, <1>10, <2>1, <3>1
    <3>3. Cardinality(FwOf(q)) + n \in 0..124
      <4>1. \A x, y \in Nat : \A h \in 1..124 : x + y <= h => x + y \in 0..124
        OBVIOUS
      <4>2. Cardinality(FwOf(q)) \in Nat /\ n \in Nat /\ HwqSize \in 1..124
        BY <1>3, <1>10, <2>1
      <4> QED
        BY ONLY <3>2, <4>1, <4>2
    <3>4. txq[q].pktPushed = Cardinality(FwOf(q))
      BY <2>3
    <3>5. txq[q].pktPushed + n = Cardinality(FwOf(q)) + n
      BY <3>4
    <3> QED
      BY ONLY <3>3, <3>5
  <2>5. U8(txq[q].pktPushed + n) = txq[q].pktPushed + n
    <3>1. ASSUME NEW x \in 0..124 PROVE U8(x) = x
      BY DEF U8
    <3> QED
      BY <2>4, <3>1
  <2>6. txq'[q].pktPushed = Cardinality(FwOf(q)')
    BY <1>1, <1>8, <1>11, <2>3, <2>5
  <2>7. ~Pcie => txq'[q].credits + txq'[q].pktPushed <= HwqSize
    <3>1. txq'[q].credits = txq[q].credits - n /\ txq'[q].pktPushed = txq[q].pktPushed + n
      BY <1>1, <2>5
    <3>2. txq[q].pktPushed \in Nat
      BY <1>10, <2>3
    <3> QED
      BY <1>3, <2>1, <2>3, <3>1, <3>2
  <2>8. \A p \in Txq \ {q} : /\ txq'[p].pktPushed = Cardinality(FwOf(p)')
                             /\ ~Pcie => txq'[p].credits + txq'[p].pktPushed <= HwqSize
    BY <1>1, <1>9 DEF Inv, CreditInv
  <2>9. Pcie' = Pcie
    BY DEF Pcie
  <2> QED
    BY <2>2, <2>6, <2>7, <2>8, <2>9 DEF CreditInv
<1>13. ListInv'
  <2> DEFINE place == "fw"
             k == 0
  <2>1. \A p \in Txq \ {q} : SameList(txq[p], txq'[p])
    BY <1>1 DEF SameList
  <2>2. /\ place \in {"fw", "done"} /\ pushed' = (IF place = "fw" THEN pushed \cup C ELSE pushed)
        /\ where' = [f \in Frame |-> IF f \in C THEN place ELSE where[f]]
        /\ frameTxq' = frameTxq
    BY <1>1, <1>6
  <2>3. C = {txq[q].list[i] : i \in (k + 1)..(k + n)}
    BY <1>3, <1>6
  <2>4. k \in {0, txq[q].nbRetry} /\ k + n <= Len(txq[q].list) /\ Cut(txq[q], txq'[q], k, n)
    BY <1>1, <1>3
  <2>5. ~txq'[q].active => txq'[q].list = <<>>
    BY <1>1
  <2> HIDE DEF place, k, l
  <2> QED
    BY ZenonT(40), <1>2, <1>3, <2>1, <2>2, <2>3, <2>4, <2>5, CutKeepsLists
<1>14. CfmInv'
  <2>1. Waiting' = Waiting
    BY DEF Waiting
  <2>2. \A f \in Frame : where[f] = "fw" => where'[f] = "fw"
    BY <1>1
  <2> QED
    BY <2>1, <2>2, WaitingKept DEF Inv, CfmInv
<1> QED
  BY <1>12, <1>13, <1>14 DEF Inv

\* A confirmation: the credit comes back.
LEMMA ConfirmStep ==
    ASSUME Inv, Confirm, bus' = bus
    PROVE  Inv'
<1> SUFFICES ASSUME NEW c, c = Head(toConfirm), NEW f, f = c.frame, NEW q, q = frameTxq[f]
             PROVE  Inv'
  OBVIOUS
<1> DEFINE again == txq[q].active /\ c.retry
<1>1. /\ Shapes' /\ c \in CfmRec /\ f \in Frame /\ q \in Txq
      /\ hwqCredits' = hwqCredits + 1
      /\ \A p \in Txq \ {q} : txq'[p] = txq[p]
      /\ txq'[q].pktPushed = Higher(txq[q].pktPushed - 1, 0)
      /\ again => /\ Queued(txq[q], txq'[q], f, TRUE) /\ txq'[q].credits = txq[q].credits + 1
                  /\ where' = [where EXCEPT ![f] = "queued"]
      /\ ~again => /\ txq'[q].credits = IF txq[q].active THEN txq[q].credits + c.credits
                                        ELSE txq[q].credits
                   /\ SameList(txq[q], txq'[q])
                   /\ where' = [where EXCEPT ![f] = "done"]
  BY ConfirmEffect DEF Inv
<1>2. /\ toConfirm # <<>> /\ toConfirm' = Tail(toConfirm)
      /\ UNCHANGED <<owed, frameTxq, cfms, pushed>>
  BY DEF Confirm
<1>3. /\ toConfirm \in Seq(CfmRec) /\ cfms \in Seq(CfmRec) /\ where \in [Frame -> Place]
      /\ frameTxq \in [Frame -> Txq] /\ hwqCredits \in Nat /\ txq[q] \in TxqRec
  BY <1>1 DEF Inv, Shapes
<1> DEFINE w == Waiting
           v == Waiting'
<1>4. /\ w \in Seq(CfmRec) /\ Len(w) \in Nat /\ Len(w) >= 1 /\ w[1] = c
      /\ v = Tail(w)
  <2>1. w \in Seq(CfmRec) /\ Len(w) \in Nat /\ Len(w) = Len(toConfirm) + Len(cfms) /\ Len(toConfirm) >= 1
    BY <1>2, <1>3 DEF Waiting
  <2>2. w[1] = c
    BY <1>2, <1>3 DEF Waiting
  <2>3. v = Tail(toConfirm) \o cfms
    BY <1>2 DEF Waiting
  <2>4. Tail(toConfirm) \o cfms = Tail(toConfirm \o cfms)
    BY <1>2, <1>3, TailOfJoined
  <2> QED
    BY <1>3, <2>1, <2>2, <2>3, <2>4 DEF Waiting
<1>5. Len(v) = Len(w) - 1 /\ \A i \in 1..Len(v) : v[i] = w[i + 1] /\ i + 1 \in 1..Len(w)
  <2> HIDE DEF w, v
  <2> QED
    BY <1>4
<1>6. /\ \A i \in 1..Len(w) : where[w[i].frame] = "fw"
      /\ \A i, j \in 1..Len(w) : i < j => w[i].frame # w[j].frame
      /\ ~Pcie => /\ \A p \in Txq : owed[p] = 0
                  /\ \A i \in 1..Len(w) : w[i].credits = IF w[i].retry THEN 0 ELSE 1
  BY DEF Inv, CfmInv
<1>7. where[f] = "fw" /\ (~Pcie => c.credits = IF c.retry THEN 0 ELSE 1)
  BY <1>4, <1>6
<1> HIDE DEF w, v, again
<1>8. /\ \A g \in Frame \ {f} : where'[g] = where[g]
      /\ where'[f] = IF again THEN "queued" ELSE "done"
  BY <1>1, <1>3
<1>9. CfmInv'
  <2>1. \A i \in 1..Len(v) : v[i].frame # f /\ v[i].frame \in Frame
    <3> TAKE i \in 1..Len(v)
    <3>1. 1 \in 1..Len(w) /\ i + 1 \in 1..Len(w) /\ 1 < i + 1 /\ v[i] = w[i + 1]
      BY <1>4, <1>5
    <3>2. w[i + 1].frame # w[1].frame /\ w[i + 1] \in CfmRec
      BY <1>4, <1>6, <3>1
    <3> QED
      BY <1>4, <3>1, <3>2 DEF CfmRec
  <2>2. \A i \in 1..Len(v) : where'[v[i].frame] = "fw"
    BY <1>5, <1>6, <1>8, <2>1
  <2>3. \A i, j \in 1..Len(v) : i < j => v[i].frame # v[j].frame
    <3> SUFFICES ASSUME NEW i \in 1..Len(v), NEW j \in 1..Len(v), i < j PROVE v[i].frame # v[j].frame
      OBVIOUS
    <3>1. /\ i + 1 \in 1..Len(w) /\ j + 1 \in 1..Len(w) /\ i + 1 < j + 1
          /\ v[i] = w[i + 1] /\ v[j] = w[j + 1]
      BY <1>5
    <3>2. w[i + 1].frame # w[j + 1].frame
      BY <1>6, <3>1
    <3> QED
      BY <3>1, <3>2
  <2>4. ~Pcie => \A i \in 1..Len(v) : v[i].credits = IF v[i].retry THEN 0 ELSE 1
    BY <1>5, <1>6
  <2>5. Pcie' = Pcie /\ (~Pcie => \A p \in Txq : owed'[p] = 0)
    BY <1>2, <1>6 DEF Pcie
  <2> QED
    BY <2>2, <2>3, <2>4, <2>5 DEF CfmInv, v
<1>10. CreditInv'
  <2>1. InFirmware' = InFirmware \ {f} /\ f \in InFirmware
    BY <1>1, <1>7, <1>8 DEF InFirmware
  <2>2. FwOf(q)' = FwOf(q) \ {f} /\ f \in FwOf(q) /\ \A p \in Txq \ {q} : FwOf(p)' = FwOf(p)
    BY <1>2, <2>1 DEF FwOf
  <2>3. /\ IsFiniteSet(InFirmware) /\ IsFiniteSet(FwOf(q))
        /\ Cardinality(InFirmware) \in Nat /\ Cardinality(FwOf(q)) \in Nat
    BY <1>1, FewFrames
  <2>4. /\ Cardinality(InFirmware') = Cardinality(InFirmware) - 1
        /\ Cardinality(FwOf(q)') = Cardinality(FwOf(q)) - 1
    <3>1. Cardinality(InFirmware \ {f}) = Cardinality(InFirmware) - 1
      BY <2>1, <2>3, FS_RemoveElement
    <3>2. Cardinality(FwOf(q) \ {f}) = Cardinality(FwOf(q)) - 1
      BY <2>2, <2>3, FS_RemoveElement
    <3> QED
      BY <2>1, <2>2, <3>1, <3>2
  <2>5. Cardinality(FwOf(q)) >= 1
    <3>1. FwOf(q) # {}
      BY <2>2
    <3>2. Cardinality(FwOf(q)) # 0
      BY <2>3, <3>1, FS_EmptySet
    <3> QED
      BY <2>3, <3>2
  <2>6. /\ hwqCredits + Cardinality(InFirmware) = HwqSize
        /\ txq[q].pktPushed = Cardinality(FwOf(q))
        /\ ~Pcie => txq[q].credits + txq[q].pktPushed <= HwqSize
    BY <1>1 DEF Inv, CreditInv
  <2>7. txq'[q].pktPushed = txq[q].pktPushed - 1
    BY <1>1, <2>3, <2>5, <2>6 DEF Higher
  <2>8. ~Pcie => txq'[q].credits <= txq[q].credits + 1 /\ txq'[q].credits \in Int
    <3>1. txq[q].credits \in Int /\ c.credits \in Nat
      BY <1>1, <1>3 DEF TxqRec, CfmRec
    <3>2. CASE again
      BY <1>1, <3>1, <3>2
    <3>3. CASE ~again
      <4>1. txq'[q].credits = IF txq[q].active THEN txq[q].credits + c.credits ELSE txq[q].credits
        BY <1>1, <3>3
      <4>2. ~Pcie => c.credits <= 1
        BY <1>7
      <4> QED
        BY <3>1, <4>1, <4>2
    <3> QED
      BY <3>2, <3>3
  <2>9. ~Pcie => txq'[q].credits + txq'[q].pktPushed <= HwqSize
    <3> HAVE ~Pcie
    <3>1. txq[q].credits \in Int /\ HwqSize \in Int /\ txq[q].pktPushed \in Int
      BY <1>3, <2>3, <2>6, TxqAssumption DEF TxqRec
    <3>2. /\ txq'[q].credits <= txq[q].credits + 1 /\ txq'[q].credits \in Int
          /\ txq'[q].pktPushed = txq[q].pktPushed - 1
          /\ txq[q].credits + txq[q].pktPushed <= HwqSize
      BY <2>6, <2>7, <2>8
    <3> QED
      BY ONLY <3>1, <3>2
  <2>10. hwqCredits' + Cardinality(InFirmware') = HwqSize
    BY <1>1, <1>3, <2>3, <2>4, <2>6
  <2>11. txq'[q].pktPushed = Cardinality(FwOf(q)')
    BY <2>4, <2>6, <2>7
  <2>12. \A p \in Txq \ {q} : /\ txq'[p].pktPushed = Cardinality(FwOf(p)')
                              /\ ~Pcie => txq'[p].credits + txq'[p].pktPushed <= HwqSize
    BY <1>1, <2>2 DEF Inv, CreditInv
  <2>13. Pcie' = Pcie
    BY DEF Pcie
  <2> QED
    BY <2>9, <2>10, <2>11, <2>12, <2>13 DEF CreditInv
<1>11. ListInv'
  <2>1. frameTxq' = [frameTxq EXCEPT ![f] = q]
    BY <1>1, <1>2, <1>3
  <2>2. Shapes /\ ListInv
    BY DEF Inv
  <2>3. CASE again
    <3> DEFINE retry == TRUE
    <3>1. txq[q].active
      BY <2>3 DEF again
    <3>2. /\ retry \in BOOLEAN /\ Queued(txq[q], txq'[q], f, retry)
          /\ IF retry THEN where[f] = "fw" /\ frameTxq[f] = q
                      ELSE where[f] = "new" /\ \A g \in 1..(f - 1) : where[g] # "new"
      BY <1>1, <1>7, <2>3
    <3>3. where' = [where EXCEPT ![f] = "queued"] /\ pushed' = pushed
      BY <1>1, <1>2, <2>3
    <3>4. \A p \in Txq \ {q} : SameList(txq[p], txq'[p])
      BY <1>1 DEF SameList
    <3> HIDE DEF retry
    <3> QED
      BY ZenonT(40), <1>1, <2>1, <2>2, <3>1, <3>2, <3>3, <3>4, QueuedKeepsLists
  <2>4. CASE ~again
    <3>1. \A p \in Txq : SameList(txq[p], txq'[p])
      BY <1>1, <2>4 DEF SameList
    <3>2. where[f] = "fw" /\ frameTxq[f] = q
      BY <1>7
    <3> QED
      BY <1>1, <1>2, <2>1, <2>2, <2>4, <3>1, <3>2, DoneKeepsLists
  <2> QED
    BY <2>3, <2>4
<1> QED
  BY <1>1, <1>9, <1>10, <1>11 DEF Inv

\* One iteration of aml_hwq_process.
LEMMA VisitStep ==
    ASSUME Inv, VisitTxq, bus' = bus
    PROVE  Inv'
<1>1. PICK q \in Txq :
         IF Pushable(txq[q]) /\ hwqCredits > 0
         THEN PushTxq(q)
         ELSE UNCHANGED <<txq, hwList, hwqCredits, ps, ndevStopped, where, pushed>>
  BY DEF VisitTxq
<1>2. UNCHANGED <<valid, ba, owed, frameTxq, cfms, toConfirm, cleanup>>
  BY DEF VisitTxq
<1>3. CASE Pushable(txq[q]) /\ hwqCredits > 0
  <2>1. PushTxq(q)
    BY <1>1, <1>3
  <2>2. PICK n \in 0..Len(txq[q].list) :
           /\ n <= hwqCredits /\ hwqCredits' = hwqCredits - n
           /\ where' = [f \in Frame |->
                          IF f \in {txq[q].list[i] : i \in 1..n} THEN "fw" ELSE where[f]]
           /\ pushed' = pushed \cup {txq[q].list[i] : i \in 1..n}
           /\ txq' \in [Txq -> TxqRec] /\ ps' \in [Sta -> PsRec] /\ ndevStopped' \subseteq Txq
    BY <1>3, <2>1, VisitPushes DEF Inv
  <2>3. txq[q] \in TxqRec /\ hwqCredits \in Nat /\ Shapes
    BY DEF Inv, Shapes
  <2>4. \A i \in 1..n : txq[q].list[i] \in Frame
    BY <2>3 DEF TxqRec
  <2>5. hwqCredits' \in Nat
    <3>1. Len(txq[q].list) \in Nat
      BY <2>3 DEF TxqRec
    <3>2. n \in Nat /\ n <= hwqCredits /\ hwqCredits' = hwqCredits - n
      BY <2>2, <3>1
    <3> QED
      BY <2>3, <3>2
  <2>6. where' \in [Frame -> Place] /\ pushed' \subseteq Frame
    BY <2>2, <2>3, <2>4 DEF Shapes, Place
  <2>7. Shapes'
    BY <1>2, <2>2, <2>3, <2>5, <2>6 DEF Shapes
  <2> QED
    BY <1>2, <1>3, <2>1, <2>7, PushStep
<1>4. CASE ~(Pushable(txq[q]) /\ hwqCredits > 0)
  <2>1. UNCHANGED <<txq, hwqCredits, ps, ndevStopped, where, pushed>>
    BY <1>1, <1>4
  <2>2. Shapes'
    BY <1>2, <2>1 DEF Inv, Shapes
  <2>3. \A p \in Txq : Steady(txq[p], txq'[p])
    BY <2>1 DEF Inv, Shapes, Steady, SameList
  <2> QED
    BY <1>2, <2>1, <2>2, <2>3, SteadyStep
<1> QED
  BY <1>3, <1>4

\* A step that only schedules the queues.
LEMMA SchedulingStep ==
    ASSUME Inv, bus' = bus,
           \/ ChanSwitch
           \/ \E s \in Sta : PsOn(s) \/ PsOff(s) \/ SpInterrupted(s)
           \/ \E s \in Sta, id \in PsId, n \in 0..MaxReq : TrafficReq(s, id, n)
    PROVE  Inv'
<1>1. Shapes
  BY DEF Inv
<1>2. Shapes' /\ \A q \in Txq : Schedules(txq[q], txq'[q])
  BY <1>1, ChanSwitchSchedules, PsOnSchedules, PsOffSchedules, TrafficReqSchedules,
     SpInterruptedSchedules
<1>3. \A q \in Txq : Steady(txq[q], txq'[q])
  BY <1>2, SchedulesIsSteady
<1>4. UNCHANGED <<where, frameTxq, pushed, cfms, toConfirm, hwqCredits, owed>>
  <2>1. CASE ChanSwitch
    BY <2>1 DEF ChanSwitch, Indication
  <2>2. ASSUME NEW s \in Sta, PsOn(s) \/ PsOff(s) \/ SpInterrupted(s)
        PROVE  UNCHANGED <<where, frameTxq, pushed, cfms, toConfirm, hwqCredits, owed>>
    BY <2>2 DEF PsOn, PsOff, SpInterrupted, Indication
  <2>3. ASSUME NEW s \in Sta, NEW id \in PsId, NEW n \in 0..MaxReq, TrafficReq(s, id, n)
        PROVE  UNCHANGED <<where, frameTxq, pushed, cfms, toConfirm, hwqCredits, owed>>
    BY <2>3 DEF TrafficReq, Indication
  <2> QED
    BY <2>1, <2>2, <2>3
<1> QED
  BY <1>2, <1>3, <1>4, SteadyStep

\* A step that leaves the queues alone.
LEMMA QuietStep ==
    ASSUME Inv, bus' = bus, IrqProcess \/ (\E s \in Sta : StaDel(s)) \/ TailRead \/ TailWrite
    PROVE  Inv'
<1>1. Shapes /\ txq \in [Txq -> TxqRec]
  BY DEF Inv, Shapes
<1>2. Shapes' /\ \A q \in Txq : Steady(txq[q], txq'[q])
  <2>1. CASE IrqProcess \/ \E s \in Sta : StaDel(s)
    <3>1. Shapes' /\ txq' = txq
      BY <1>1, <2>1, OtherShapes
    <3> QED
      BY <1>1, <3>1 DEF Steady, SameList
  <2>2. CASE TailRead \/ TailWrite
    BY <1>1, <2>2, TailsAreSteady
  <2> QED
    BY <2>1, <2>2
<1>3. UNCHANGED <<where, frameTxq, pushed, cfms, toConfirm, hwqCredits, owed>>
  BY DEF IrqProcess, StaDel, TailRead, TailWrite, drvVars
<1> QED
  BY <1>2, <1>3, SteadyStep

-----------------------------------------------------------------------------
(* The theorems                                                            *)

\* The invariant holds in the beginning: every queue is empty and has all its credits.
LEMMA InitInv == Init => Inv
<1> SUFFICES ASSUME Init PROVE Inv
  OBVIOUS
<1> DEFINE t == InitTxq({})
           p == [active |-> FALSE, pktReady |-> [id \in PsId |-> 0], spCnt |-> [id \in PsId |-> 0]]
<1>1. /\ txq = [q \in Txq |-> t] /\ hwqCredits = HwqSize /\ ps = [s \in Sta |-> p]
      /\ valid = [s \in Sta |-> TRUE] /\ ba = [q \in Txq |-> 0] /\ owed = [q \in Txq |-> 0]
      /\ ndevStopped = {} /\ where = [f \in Frame |-> "new"]
      /\ frameTxq = [f \in Frame |-> TxqSeq[1]] /\ cfms = <<>> /\ toConfirm = <<>>
      /\ cleanup = NoTail /\ pushed = {}
  BY DEF Init
<1>2. /\ t \in TxqRec /\ t.list = <<>> /\ t.pktPushed = 0 /\ t.credits = InitialCredits
      /\ t.nbRetry = 0 /\ t.lastRetry = NoFrame
  <2>1. <<>> \in Seq(Frame) /\ InitialCredits \in Int
    BY TxqAssumption
  <2> QED
    BY <2>1 DEF InitTxq, TxqRec
<1>3. p \in PsRec
  BY DEF PsRec
<1>4. TxqSeq[1] \in Txq
  <2>1. Len(TxqSeq) \in Nat /\ Len(TxqSeq) >= 1
    BY TxqAssumption
  <2> QED
    BY <2>1, TxqAssumption
<1> HIDE DEF t, p
<1>5. Shapes
  <2>1. <<>> \in Seq(CfmRec) /\ HwqSize \in Nat
    BY TxqAssumption
  <2>2. NoTail \in [step : {"none", "read", "write"}, of : Txq, status : SUBSET Status]
    BY <1>4 DEF NoTail
  <2> QED
    BY <1>1, <1>2, <1>3, <1>4, <2>1, <2>2 DEF Shapes, Place
<1>6. \A q \in Txq : txq[q] = t
  BY <1>1
<1>7. ListInv
  <2>1. \A q \in Txq : ListGood(q)
    <3> TAKE q \in Txq
    <3>1. txq[q].list = <<>> /\ Len(txq[q].list) = 0 /\ txq[q].nbRetry = 0 /\ txq[q].lastRetry = NoFrame
      BY <1>2, <1>6
    <3> QED
      BY <3>1 DEF ListGood, RetryOk
  <2>2. FramesGood
    BY <1>1 DEF FramesGood
  <2> QED
    BY <2>1, <2>2 DEF ListInv
<1>8. CfmInv
  <2>1. Waiting = <<>> /\ Len(Waiting) = 0
    BY <1>1 DEF Waiting
  <2> QED
    BY <1>1, <2>1 DEF CfmInv
<1>9. CreditInv
  <2>1. InFirmware = {} /\ \A q \in Txq : FwOf(q) = {}
    BY <1>1 DEF InFirmware, FwOf
  <2>2. Cardinality({}) = 0
    BY FS_EmptySet
  <2>3. HwqSize + 0 = HwqSize /\ InitialCredits + 0 <= HwqSize
    BY TxqAssumption
  <2> QED
    BY <1>1, <1>2, <1>6, <2>1, <2>2, <2>3 DEF CreditInv
<1> QED
  BY <1>5, <1>7, <1>8, <1>9 DEF Inv

\* Each step keeps the invariant.
LEMMA NextInv == Inv /\ [Next]_<<vars, conf>> => Inv'
<1> SUFFICES ASSUME Inv, [Next]_<<vars, conf>> PROVE Inv'
  OBVIOUS
<1>1. CASE Next
  <2>1. bus' = bus /\ Step
    BY <1>1 DEF Next, conf
  <2>2. ASSUME NEW q \in Txq, NEW f \in Frame, Xmit(q, f) PROVE Inv'
    BY <2>1, <2>2, XmitStep
  <2>3. CASE VisitTxq
    BY <2>1, <2>3, VisitStep
  <2>4. ASSUME NEW f \in Frame, FwConfirm(f) PROVE Inv'
    BY <2>1, <2>4, FwConfirmStep
  <2>5. CASE Irq
    BY <2>1, <2>5, IrqStep
  <2>6. CASE IrqProcess \/ (\E s \in Sta : StaDel(s)) \/ TailRead \/ TailWrite
    BY <2>1, <2>6, QuietStep
  <2>7. CASE Confirm
    BY <2>1, <2>7, ConfirmStep
  <2>8. CASE \/ ChanSwitch
             \/ \E s \in Sta : PsOn(s) \/ PsOff(s) \/ SpInterrupted(s)
             \/ \E s \in Sta, id \in PsId, n \in 0..MaxReq : TrafficReq(s, id, n)
    BY <2>1, <2>8, SchedulingStep
  <2>9. ASSUME NEW q \in Txq, NEW n \in BaCredits, CreditUpdate(q, n) PROVE Inv'
    BY <2>1, <2>9, CreditUpdateStep
  <2>10. ASSUME NEW q \in Txq, NEW n \in 0..NbFrames, CleanupTimer(q, n) PROVE Inv'
    BY <2>1, <2>10, CleanupStep
  <2>11. ASSUME NEW s \in Sta, StaAdd(s) PROVE Inv'
    BY <2>1, <2>11, StaAddStep
  <2>12. ASSUME NEW q \in Txq, TxqDeinit(q) PROVE Inv'
    BY <2>1, <2>12, TxqDeinitStep
  <2> QED
    BY <2>1, <2>2, <2>3, <2>4, <2>5, <2>6, <2>7, <2>8, <2>9, <2>10, <2>11, <2>12 DEF Step
<1>2. CASE UNCHANGED <<vars, conf>>
  <2>1. /\ UNCHANGED <<txq, hwqCredits, ps, valid, where, frameTxq, cfms, toConfirm, ba, owed>>
        /\ UNCHANGED <<ndevStopped, pushed, cleanup, bus>>
    BY <1>2 DEF vars, drvVars, conf
  <2>2. Shapes'
    BY <2>1 DEF Inv, Shapes
  <2>3. \A p \in Txq : Steady(txq[p], txq'[p])
    BY <2>1 DEF Inv, Shapes, Steady, SameList
  <2> QED
    BY <2>1, <2>2, <2>3, SteadyStep
<1> QED
  BY <1>1, <1>2

\* The invariant of the transmit queues holds throughout.
THEOREM InvHolds == Spec => []Inv
<1> QED
  BY InitInv, NextInv, PTL DEF Spec

\* The credits of the hardware queue and pkt_pushed agree with the frames in the
\* firmware, whatever is confirmed, retried, updated, dropped or deleted meanwhile.
THEOREM CreditsAreConserved == Spec => []CreditsConserved
<1>1. Inv => CreditsConserved
  BY DEF Inv, CreditInv, CreditsConserved, FwOf
<1> QED
  BY <1>1, InvHolds, PTL

\* The retry frames come first, and the others are pushed in the order in which the
\* network stack sent them.
THEOREM PushesAreInOrder == Spec => []PushOrder
<1>1. Inv => PushOrder
  <2> SUFFICES ASSUME Inv PROVE PushOrder
    OBVIOUS
  <2>1. ASSUME NEW q \in Txq
        PROVE  LET t == txq[q] IN
               /\ t.nbRetry <= Len(t.list)
               /\ t.lastRetry = IF t.nbRetry = 0 THEN NoFrame ELSE t.list[t.nbRetry]
               /\ \A i \in DOMAIN t.list : t.list[i] \in pushed <=> i <= t.nbRetry
    <3>1. txq[q] \in TxqRec /\ ListGood(q)
      BY DEF Inv, Shapes, ListInv
    <3>2. DOMAIN txq[q].list = 1..Len(txq[q].list)
      BY <3>1 DEF TxqRec
    <3> QED
      BY <3>1, <3>2 DEF ListGood, RetryOk
  <2>2. ASSUME NEW f \in Frame, NEW g \in Frame, f < g, frameTxq[f] = frameTxq[g], g \in pushed
        PROVE  f \in pushed \/ where[f] \in {"new", "done"}
    <3>1. CASE where[f] = "queued" /\ f \notin pushed
      <4>1. g < f
        BY <2>2, <3>1 DEF Inv, ListInv, FramesGood
      <4>2. f \in Int /\ g \in Int
        BY TxqAssumption DEF Frame
      <4> QED
        BY <2>2, <4>1, <4>2
    <3>2. CASE where[f] # "queued"
      <4>1. where[f] \in Place /\ (where[f] = "fw" => f \in pushed)
        BY DEF Inv, Shapes, ListInv, FramesGood
      <4> QED
        BY <3>2, <4>1 DEF Place
    <3> QED
      BY <3>1, <3>2
  <2> QED
    BY <2>1, <2>2 DEF PushOrder
<1> QED
  BY <1>1, InvHolds, PTL
=============================================================================
