--------------------------- MODULE TcpAck_proofs ---------------------------
(* Theorems about the filter of TCP acknowledgements, for any connections, *)
(* threads, sessions, sequence numbers and bounds.                         *)
EXTENDS TcpAck, TLAPS, FiniteSetTheorems, WellFoundedInduction

-----------------------------------------------------------------------------
(* What is held has a timer                                                *)

\* All that the argument needs to know of the types
Session(s) == "skb" \in DOMAIN s
InfoType == DOMAIN info = Slot /\ \A i \in Slot : Session(info[i])

HeldInv == InfoType /\ HeldHasTimer

\* No session holds anything at first.
LEMMA InitHeld == Init => HeldInv
  BY DEF Init, HeldInv, InfoType, Session, HeldHasTimer

\* A replaced acknowledgement leaves the session with a timer or with nothing held.
LEMMA ReplacedHeld ==
  ASSUME NEW p \in Thread, NEW type \in {1, 2}, Session(info[thr[p].i])
  PROVE  /\ Session(Replaced(p, type))
         /\ ~Newer(p) => Replaced(p, type) = info[thr[p].i]
         /\ Passes(p, type) => Replaced(p, type).skb = Nobody
  BY DEF Replaced, Passes, Session

\* Every step keeps a timer for whatever is held.
LEMMA StepHeld == HeldInv /\ [Next]_vars => HeldInv'
<1>. SUFFICES ASSUME HeldInv, [Next]_vars PROVE HeldInv'
  OBVIOUS
<1>. USE DEF HeldInv, HeldHasTimer, InfoType
<1>1. CASE UNCHANGED vars
  BY <1>1 DEF vars, sessVars
<1>2. ASSUME NEW p \in Thread, NEW f \in Flow, NEW q \in 0..MaxSeq, Xmit(p, f, q) PROVE HeldInv'
  BY <1>2 DEF Xmit, sessVars
<1>3. ASSUME NEW p \in Thread, Age(p) PROVE HeldInv'
  BY <1>3 DEF Age, Session
<1>4. ASSUME NEW p \in Thread, NEW type \in {1, 2}, Replace(p, type) PROVE HeldInv'
  <2>. DEFINE i == thr[p].i
  <2>1. CASE i \notin Slot
    BY <1>4, <2>1 DEF Replace
  <2>2. CASE i \in Slot
    <3>1. /\ Session(Replaced(p, type))
          /\ ~Newer(p) => Replaced(p, type) = info[i]
          /\ Passes(p, type) => Replaced(p, type).skb = Nobody
      BY <2>2, ReplacedHeld
    <3>2. info' = [info EXCEPT ![i] = Replaced(p, type)]
      BY <1>4 DEF Replace
    <3>3. InfoType'
      BY <2>2, <3>1, <3>2
    <3>4. ASSUME NEW j \in Slot, j # i, info'[j].skb # Nobody, j \notin missed' PROVE j \in timer'
      BY <1>4, <3>2, <3>4 DEF Replace
    <3>5. ASSUME info'[i].skb # Nobody, i \notin missed' PROVE i \in timer'
      <4>1. info'[i] = Replaced(p, type)
        BY <2>2, <3>2
      <4>2. ~Passes(p, type)
        BY <3>1, <3>5, <4>1
      <4>3. CASE Newer(p)
        BY <1>4, <4>2, <4>3 DEF Replace
      <4>4. CASE ~Newer(p)
        BY <1>4, <2>2, <3>1, <3>5, <4>1, <4>4 DEF Replace
      <4>. QED  BY <4>3, <4>4
    <3>. QED  BY <3>3, <3>4, <3>5
  <2>. QED  BY <2>1, <2>2
<1>5. ASSUME NEW p \in Thread, Alloc(p) PROVE HeldInv'
  BY <1>5 DEF Alloc, sessVars
<1>6. ASSUME NEW p \in Thread, Setup(p) PROVE HeldInv'
  BY <1>6 DEF Setup, Session
<1>7. ASSUME NEW p \in Thread, Queue(p) PROVE HeldInv'
  BY <1>7 DEF Queue, sessVars
<1>8. ASSUME NEW i \in Slot, Timeout(i) PROVE HeldInv'
  <2>1. timer' = timer \ {i}
    BY <1>8 DEF Timeout
  <2>2. CASE info[i].busy /\ info[i].skb # Nobody /\ info[i].in_txq_skb = Nobody
    <3>1. missed' = missed /\ info' = [info EXCEPT ![i] =
              [@ EXCEPT !.skb = Nobody, !.drop_cnt = 0, !.in_txq_skb = info[i].skb]]
      BY <1>8, <2>2 DEF Timeout
    <3>. QED  BY <2>1, <3>1 DEF Session
  <2>3. CASE ~(info[i].busy /\ info[i].skb # Nobody /\ info[i].in_txq_skb = Nobody)
    <3>1. info' = info /\ missed' = IF info[i].skb # Nobody THEN missed \cup {i} ELSE missed
      BY <1>8, <2>3, Zenon DEF Timeout
    <3>. QED  BY <2>1, <3>1
  <2>. QED  BY <2>2, <2>3
<1>9. ASSUME NEW i \in Slot, Send(i) \/ Silence(i) PROVE HeldInv'
  BY <1>9 DEF Send, Silence
<1>10. CASE Push
  BY <1>10 DEF Push, Session
<1>11. CASE Flush \/ Switch
  BY <1>11 DEF Flush, Switch, sessVars
<1>12. CASE Deinit
  BY <1>12 DEF Deinit, Session
<1>. QED  BY <1>1, <1>2, <1>3, <1>4, <1>5, <1>6, <1>7, <1>8, <1>9, <1>10, <1>11, <1>12
          DEF Next, Step

\* An acknowledgement that a session holds has a timer that will send it, unless that timer has
\* expired in vain (aml_tcp_ack_timeout), however the connections share the sessions.
THEOREM HeldAcksHaveTimers == Spec => []HeldHasTimer
<1>1. HeldInv => HeldHasTimer
  BY DEF HeldInv
<1>. QED  BY InitHeld, StepHeld, <1>1, PTL DEF Spec

-----------------------------------------------------------------------------
(* Every acknowledgement has one owner                                     *)

\* The shapes of the variables, with the acknowledgements that exist as numbers
Known   == 0..Len(acks)
SessionShape == [busy: BOOLEAN, flow: Flow \cup {None}, seq: 0..MaxSeq, drop_cnt: Nat,
             skb: Known, in_txq_skb: Known]
Working == {"age", "replace", "alloc", "setup", "queue"}
Shapes ==
    /\ acks \in Seq([flow: Flow, seq: 0..MaxSeq])
    /\ info \in [Slot -> SessionShape]
    /\ sending \in [Slot -> Known]
    /\ thr \in [Thread -> [pc: {"idle"} \cup Working, ack: Known, i: Slot]]
    /\ \A p \in Thread : thr[p].pc = "idle" <=> thr[p].ack = Nobody
    /\ txq \in Seq(Known \ {Nobody})
    /\ dropped \subseteq Known \ {Nobody} /\ lost \subseteq Known \ {Nobody}
    /\ pushed \subseteq Known \ {Nobody}
    /\ old \subseteq Slot /\ free_index \in Slot \cup {-1}

Single(a) == \E x : Places(a) = {x}
OnceInv == Shapes /\ \A a \in DOMAIN acks : Single(a)

\* The minimum of some slots is one of them: Found, Age and Alloc choose it.
LEMMA MinIsSlot == ASSUME NEW S \in SUBSET Slot, S # {} PROVE Min(S) \in S
<1>. DEFINE R == OpToRel(<, Nat)
<1>1. S \subseteq Nat
  BY TcpAckAssumption DEF Slot
<1>2. IsWellFoundedOn(R, Nat)
  BY NatLessThanWellFounded
<1>3. \A y, x \in S : y < x => <<y, x>> \in R
  BY <1>1 DEF OpToRel
<1>. HIDE DEF R
<1>4. PICK x \in S : \A y \in S : ~(<<y, x>> \in R)
  BY <1>1, <1>2, WFMin, Zenon
<1>5. ASSUME NEW y \in S PROVE x <= y
  <2>1. ~(y < x)
    BY <1>3, <1>4
  <2>2. x \in Nat /\ y \in Nat
    BY <1>1
  <2>. QED  BY <2>1, <2>2
<1>. QED  BY <1>5 DEF Min

\* Whether something is where a is
LEMMA InPlaces ==
  ASSUME NEW a, NEW x
  PROVE  x \in Places(a) <=>
           \/ \E p \in Thread : x = <<"thread", p>> /\ thr[p].ack = a
           \/ \E i \in Slot : x = <<"held", i>> /\ info[i].skb = a
           \/ \E i \in Slot : x = <<"timer", i>> /\ sending[i] = a
           \/ \E k \in DOMAIN txq : x = <<"txq", k>> /\ txq[k] = a
           \/ x = <<"end", "dropped">> /\ a \in dropped
           \/ x = <<"end", "lost">> /\ a \in lost
           \/ x = <<"end", "pushed">> /\ a \in pushed
  BY DEF Places

\* The same after a step
LEMMA InPlacesNext ==
  ASSUME NEW a, NEW x
  PROVE  x \in Places(a)' <=>
           \/ \E p \in Thread : x = <<"thread", p>> /\ thr'[p].ack = a
           \/ \E i \in Slot : x = <<"held", i>> /\ info'[i].skb = a
           \/ \E i \in Slot : x = <<"timer", i>> /\ sending'[i] = a
           \/ \E k \in DOMAIN txq' : x = <<"txq", k>> /\ txq'[k] = a
           \/ x = <<"end", "dropped">> /\ a \in dropped'
           \/ x = <<"end", "lost">> /\ a \in lost'
           \/ x = <<"end", "pushed">> /\ a \in pushed'
  BY DEF Places

\* What owns a alone, nothing else does.
LEMMA Alone ==
  ASSUME NEW a, Single(a)
  PROVE  /\ \A p \in Thread : thr[p].ack = a =>
               /\ \A q \in Thread : thr[q].ack = a => q = p
               /\ \A i \in Slot : info[i].skb # a /\ sending[i] # a
               /\ \A k \in DOMAIN txq : txq[k] # a
               /\ a \notin dropped /\ a \notin lost /\ a \notin pushed
         /\ \A i \in Slot : info[i].skb = a =>
               /\ \A j \in Slot : info[j].skb = a => j = i
               /\ \A j \in Slot : sending[j] # a
               /\ \A k \in DOMAIN txq : txq[k] # a
               /\ a \notin dropped /\ a \notin lost /\ a \notin pushed
         /\ \A i \in Slot : sending[i] = a =>
               /\ \A j \in Slot : sending[j] = a => j = i
               /\ \A k \in DOMAIN txq : txq[k] # a
               /\ a \notin dropped /\ a \notin lost /\ a \notin pushed
         /\ \A k \in DOMAIN txq : txq[k] = a =>
               /\ \A l \in DOMAIN txq : txq[l] = a => l = k
               /\ a \notin dropped /\ a \notin lost /\ a \notin pushed
         /\ ~(a \in dropped /\ a \in lost) /\ ~(a \in dropped /\ a \in pushed)
         /\ ~(a \in lost /\ a \in pushed)
<1>1. PICK x : \A y : y \in Places(a) <=> y = x
  BY DEF Single
<1>2. \A p \in Thread : thr[p].ack = a => x = <<"thread", p>>
  BY <1>1, InPlaces
<1>3. \A i \in Slot : info[i].skb = a => x = <<"held", i>>
  BY <1>1, InPlaces
<1>4. \A i \in Slot : sending[i] = a => x = <<"timer", i>>
  BY <1>1, InPlaces
<1>5. \A k \in DOMAIN txq : txq[k] = a => x = <<"txq", k>>
  BY <1>1, InPlaces
<1>6. /\ a \in dropped => x = <<"end", "dropped">>
      /\ a \in lost => x = <<"end", "lost">>
      /\ a \in pushed => x = <<"end", "pushed">>
  BY <1>1, InPlaces
<1>. QED  BY <1>2, <1>3, <1>4, <1>5, <1>6

\* An acknowledgement that nothing has touched keeps its owner.
LEMMA Stays ==
  ASSUME NEW a, Single(a),
         \A p \in Thread : thr'[p].ack = a <=> thr[p].ack = a,
         \A i \in Slot : info'[i].skb = a <=> info[i].skb = a,
         \A i \in Slot : sending'[i] = a <=> sending[i] = a,
         \A k : k \in DOMAIN txq' /\ txq'[k] = a <=> k \in DOMAIN txq /\ txq[k] = a,
         a \in dropped' <=> a \in dropped, a \in lost' <=> a \in lost,
         a \in pushed' <=> a \in pushed
  PROVE  Single(a)'
<1>1. PICK x : Places(a) = {x}
  BY DEF Single
<1>2. Places(a)' = Places(a)
  BY DEF Places
<1>. QED  BY <1>1, <1>2 DEF Single

\* Whoever alone owns a after a step is its owner.
LEMMA Owned ==
  ASSUME NEW a
  PROVE  /\ \A p \in Thread :
               /\ \A q \in Thread : thr'[q].ack = a <=> q = p
               /\ \A i \in Slot : info'[i].skb # a /\ sending'[i] # a
               /\ \A k \in DOMAIN txq' : txq'[k] # a
               /\ a \notin dropped' /\ a \notin lost' /\ a \notin pushed'
               => Single(a)'
         /\ \A i \in Slot :
               /\ \A q \in Thread : thr'[q].ack # a
               /\ \A j \in Slot : (info'[j].skb = a <=> j = i) /\ sending'[j] # a
               /\ \A k \in DOMAIN txq' : txq'[k] # a
               /\ a \notin dropped' /\ a \notin lost' /\ a \notin pushed'
               => Single(a)'
         /\ \A i \in Slot :
               /\ \A q \in Thread : thr'[q].ack # a
               /\ \A j \in Slot : info'[j].skb # a /\ (sending'[j] = a <=> j = i)
               /\ \A k \in DOMAIN txq' : txq'[k] # a
               /\ a \notin dropped' /\ a \notin lost' /\ a \notin pushed'
               => Single(a)'
         /\ \A k \in DOMAIN txq' :
               /\ \A q \in Thread : thr'[q].ack # a
               /\ \A j \in Slot : info'[j].skb # a /\ sending'[j] # a
               /\ \A l \in DOMAIN txq' : txq'[l] = a <=> l = k
               /\ a \notin dropped' /\ a \notin lost' /\ a \notin pushed'
               => Single(a)'
         /\ /\ \A q \in Thread : thr'[q].ack # a
            /\ \A j \in Slot : info'[j].skb # a /\ sending'[j] # a
            /\ \A k \in DOMAIN txq' : txq'[k] # a
            /\ \/ a \in dropped' /\ a \notin lost' /\ a \notin pushed'
               \/ a \notin dropped' /\ a \in lost' /\ a \notin pushed'
               \/ a \notin dropped' /\ a \notin lost' /\ a \in pushed'
            => Single(a)'
<1>2. ASSUME NEW p \in Thread, \A q \in Thread : thr'[q].ack = a <=> q = p,
             \A i \in Slot : info'[i].skb # a /\ sending'[i] # a,
             \A k \in DOMAIN txq' : txq'[k] # a,
             a \notin dropped', a \notin lost', a \notin pushed'
      PROVE  Single(a)'
  <2>1. Places(a)' = {<<"thread", p>>}
    BY <1>2, InPlacesNext
  <2>. QED  BY <2>1 DEF Single
<1>3. ASSUME NEW i \in Slot, \A q \in Thread : thr'[q].ack # a,
             \A j \in Slot : (info'[j].skb = a <=> j = i) /\ sending'[j] # a,
             \A k \in DOMAIN txq' : txq'[k] # a,
             a \notin dropped', a \notin lost', a \notin pushed'
      PROVE  Single(a)'
  <2>1. Places(a)' = {<<"held", i>>}
    BY <1>3, InPlacesNext
  <2>. QED  BY <2>1 DEF Single
<1>4. ASSUME NEW i \in Slot, \A q \in Thread : thr'[q].ack # a,
             \A j \in Slot : info'[j].skb # a /\ (sending'[j] = a <=> j = i),
             \A k \in DOMAIN txq' : txq'[k] # a,
             a \notin dropped', a \notin lost', a \notin pushed'
      PROVE  Single(a)'
  <2>1. Places(a)' = {<<"timer", i>>}
    BY <1>4, InPlacesNext
  <2>. QED  BY <2>1 DEF Single
<1>5. ASSUME NEW k \in DOMAIN txq', \A q \in Thread : thr'[q].ack # a,
             \A j \in Slot : info'[j].skb # a /\ sending'[j] # a,
             \A l \in DOMAIN txq' : txq'[l] = a <=> l = k,
             a \notin dropped', a \notin lost', a \notin pushed'
      PROVE  Single(a)'
  <2>1. Places(a)' = {<<"txq", k>>}
    BY <1>5, InPlacesNext
  <2>. QED  BY <2>1 DEF Single
<1>6. ASSUME \A q \in Thread : thr'[q].ack # a,
             \A j \in Slot : info'[j].skb # a /\ sending'[j] # a,
             \A k \in DOMAIN txq' : txq'[k] # a,
             \/ a \in dropped' /\ a \notin lost' /\ a \notin pushed'
             \/ a \notin dropped' /\ a \in lost' /\ a \notin pushed'
             \/ a \notin dropped' /\ a \notin lost' /\ a \in pushed'
      PROVE  Single(a)'
  <2>1. \/ Places(a)' = {<<"end", "dropped">>}
       \/ Places(a)' = {<<"end", "lost">>}
       \/ Places(a)' = {<<"end", "pushed">>}
    BY <1>6, InPlacesNext
  <2>. QED  BY <2>1 DEF Single
<1>. QED  BY <1>2, <1>3, <1>4, <1>5, <1>6

\* Nothing has been sent at first.
LEMMA InitOnce == Init => OnceInv
<1>. SUFFICES ASSUME Init PROVE OnceInv
  OBVIOUS
<1>1. Len(acks) = 0 /\ DOMAIN acks = {}
  BY DEF Init
<1>2. 0 \in Slot /\ 0 \in 0..MaxSeq /\ 0 \in Known
  BY <1>1, TcpAckAssumption DEF Slot, Known
<1>3. Shapes
  BY <1>1, <1>2 DEF Init, Shapes, SessionShape, Idle, Nobody, Working
<1>. QED  BY <1>1, <1>3 DEF OnceInv

\* Where a thread goes after it has looked for the session of its connection
LEMMA FoundIs ==
  ASSUME NEW S \in SUBSET Slot
  PROVE  Found(S).pc \in {"alloc", "replace"} /\ Found(S).i \in Slot
<1>1. 0 \in Slot
  BY TcpAckAssumption DEF Slot
<1>. QED  BY <1>1, MinIsSlot DEF Found

\* A step that leaves the acknowledgements where they are keeps the owners.
LEMMA NoneMoves ==
  ASSUME OnceInv, Shapes', acks' = acks, UNCHANGED <<sending, txq, ends>>,
         \A p \in Thread : thr'[p].ack = thr[p].ack,
         \A i \in Slot : info'[i].skb = info[i].skb
  PROVE  OnceInv'
<1>1. ASSUME NEW a \in DOMAIN acks PROVE Single(a)'
  BY Stays, <1>1 DEF OnceInv, ends
<1>. QED  BY <1>1 DEF OnceInv

\* A new acknowledgement is in the hands of its thread.
LEMMA XmitOnce ==
  ASSUME OnceInv, NEW p \in Thread, NEW f \in Flow, NEW q \in 0..MaxSeq, Xmit(p, f, q)
  PROVE  OnceInv'
<1>. USE DEF OnceInv
<1>0. PICK n : n = Len(acks) + 1
  OBVIOUS
<1>1. /\ acks' = Append(acks, [flow |-> f, seq |-> q])
      /\ UNCHANGED <<info, old, sending, txq, dropped, lost, pushed, free_index>>
      /\ thr[p].pc = "idle"
  BY DEF Xmit, sessVars, ends
<1>2. /\ acks' \in Seq([flow: Flow, seq: 0..MaxSeq]) /\ Len(acks) \in Nat /\ Len(acks') = n
      /\ DOMAIN acks = 1..Len(acks) /\ DOMAIN acks' = 1..n
  BY <1>0, <1>1 DEF Shapes
<1>3. Known \subseteq Known' /\ n \in Known' /\ n \notin Known /\ n # Nobody
  BY <1>0, <1>2 DEF Known, Nobody
<1>4. PICK l \in Working, j \in Slot : thr' = [thr EXCEPT ![p] = [ack |-> n, pc |-> l, i |-> j]]
  <2>1. 0 \in Slot
    BY TcpAckAssumption DEF Slot
  <2>2. Matching(f) \in SUBSET Slot
    BY DEF Matching
  <2>. DEFINE next == IF ~enable THEN [pc |-> "queue", i |-> 0]
                      ELSE IF due THEN [pc |-> "age", i |-> 0] ELSE Found(Matching(f))
  <2>3. next.pc \in Working /\ next.i \in Slot
    BY <2>1, <2>2, FoundIs DEF Working
  <2>4. thr' = [thr EXCEPT ![p] = [ack |-> n, pc |-> next.pc, i |-> next.i]]
    BY <1>0 DEF Xmit
  <2>. HIDE DEF next
  <2>. QED  BY <2>3, <2>4
<1>5. Shapes'
  <2>1. /\ info' \in [Slot -> SessionShape]'
        /\ sending' \in [Slot -> Known']
        /\ txq' \in Seq(Known' \ {Nobody})
    BY <1>1, <1>3 DEF Shapes, SessionShape
  <2>2. /\ thr' \in [Thread -> [pc: {"idle"} \cup Working, ack: Known', i: Slot]]
        /\ \A r \in Thread : thr'[r].pc = "idle" <=> thr'[r].ack = Nobody
    BY <1>3, <1>4 DEF Shapes, Working
  <2>. QED  BY <1>1, <1>2, <1>3, <2>1, <2>2 DEF Shapes
<1>6. ASSUME NEW a \in DOMAIN acks PROVE Single(a)'
  <2>1. \A r \in Thread : thr'[r].ack = a <=> thr[r].ack = a
    BY <1>0, <1>1, <1>2, <1>3, <1>4, <1>6 DEF Shapes, Nobody
  <2>. QED  BY <1>1, <1>6, <2>1, Stays
<1>7. Single(n)'
  <2>1. /\ \A r \in Thread : thr'[r].ack = n <=> r = p
        /\ \A i \in Slot : info'[i].skb # n /\ sending'[i] # n
        /\ \A k \in DOMAIN txq' : txq'[k] # n
        /\ n \notin dropped' /\ n \notin lost' /\ n \notin pushed'
    BY <1>1, <1>3, <1>4 DEF Shapes, SessionShape
  <2>. QED  BY <2>1, Owned
<1>. QED  BY <1>0, <1>2, <1>5, <1>6, <1>7

\* A thread that goes on to another step is still at work.
LEMMA GotoShape ==
  ASSUME OnceInv, NEW p \in Thread, thr[p].pc # "idle",
         NEW l \in Working, NEW i \in Slot, Goto(p, l, i), acks' = acks
  PROVE  /\ thr' \in [Thread -> [pc: {"idle"} \cup Working, ack: Known', i: Slot]]
         /\ \A r \in Thread : thr'[r].pc = "idle" <=> thr'[r].ack = Nobody
         /\ \A r \in Thread : thr'[r].ack = thr[r].ack
<1>1. thr' = [thr EXCEPT ![p].pc = l, ![p].i = i] /\ l # "idle"
  BY DEF Goto, Working
<1>2. Known' = Known
  BY DEF Known
<1>. QED  BY ZenonT(40), <1>1, <1>2 DEF OnceInv, Shapes

\* An element of a sequence is of the sequence's set.
LEMMA ElementOfSeq ==
  ASSUME NEW S, NEW s \in Seq(S), NEW k \in 1..Len(s) PROVE s[k] \in S
  OBVIOUS

\* What a thread at work carries is an acknowledgement.
LEMMA CarriedAck ==
  ASSUME OnceInv, NEW p \in Thread, thr[p].pc # "idle"
  PROVE  thr[p].ack \in DOMAIN acks /\ Mine(p) \in [flow: Flow, seq: 0..MaxSeq]
<1>1. /\ acks \in Seq([flow: Flow, seq: 0..MaxSeq])
      /\ thr[p].ack \in 0..Len(acks) /\ thr[p].ack # 0
  BY DEF OnceInv, Shapes, Known, Nobody
<1>2. Len(acks) \in Nat /\ DOMAIN acks = 1..Len(acks)
  BY <1>1
<1>3. thr[p].ack \in 1..Len(acks)
  BY <1>1, <1>2
<1>4. acks[thr[p].ack] \in [flow: Flow, seq: 0..MaxSeq]
  BY <1>1, <1>3, ElementOfSeq
<1>. QED  BY <1>2, <1>3, <1>4 DEF Mine

\* Looking for a session, finding or setting one up moves nothing.
LEMMA SearchOnce ==
  ASSUME OnceInv, NEW p \in Thread, Age(p) \/ Alloc(p) \/ Setup(p)
  PROVE  OnceInv'
<1>1. 0 \in Slot
  BY TcpAckAssumption DEF Slot
<1>2. /\ acks' = acks /\ UNCHANGED <<sending, txq, ends>> /\ thr[p].pc # "idle"
      /\ Known' = Known /\ SessionShape' = SessionShape
  BY DEF Age, Alloc, Setup, sessVars, Known, SessionShape
<1>3. /\ \E l \in Working, i \in Slot : Goto(p, l, i)
      /\ info' \in [Slot -> SessionShape] /\ \A i \in Slot : info'[i].skb = info[i].skb
      /\ old' \subseteq Slot /\ free_index' \in Slot \cup {-1}
  <2>1. CASE Age(p)
    <3>. DEFINE aged == {i \in old : info[i].busy}
                found == Matching(Mine(p).flow) \ aged
    <3>1. /\ info' = [i \in Slot |-> [info[i] EXCEPT !.busy = @ /\ i \notin aged]]
          /\ free_index' = IF aged = {} THEN free_index ELSE Min(aged)
          /\ Goto(p, Found(found).pc, Found(found).i) /\ old' = old
      BY <2>1 DEF Age
    <3>2. aged \in SUBSET Slot /\ found \in SUBSET Slot
      BY DEF Matching, OnceInv, Shapes
    <3>. HIDE DEF aged, found
    <3>3. Found(found).pc \in Working /\ Found(found).i \in Slot
      BY <3>2, FoundIs DEF Working
    <3>4. free_index' \in Slot \cup {-1}
      BY <3>1, <3>2, MinIsSlot DEF OnceInv, Shapes
    <3>5. info' \in [Slot -> SessionShape] /\ \A i \in Slot : info'[i].skb = info[i].skb
      <4>1. ASSUME NEW i \in Slot
            PROVE  /\ [info[i] EXCEPT !.busy = @ /\ i \notin aged] \in SessionShape
                   /\ [info[i] EXCEPT !.busy = @ /\ i \notin aged].skb = info[i].skb
        <5>1. info[i] \in SessionShape /\ (info[i].busy /\ i \notin aged) \in BOOLEAN
          BY DEF OnceInv, Shapes
        <5>. QED  BY <5>1 DEF SessionShape
      <4>. QED  BY <3>1, <4>1
    <3>. QED  BY <3>1, <3>3, <3>4, <3>5 DEF OnceInv, Shapes
  <2>2. CASE Alloc(p)
    <3>1. FreeSlots \in SUBSET Slot
      BY DEF FreeSlots
    <3>2. /\ info' = info /\ old' = old
          /\ \/ Goto(p, "queue", 0) /\ free_index' = free_index
             \/ Goto(p, "setup", free_index) /\ free_index >= 0 /\ free_index' = -1
             \/ Goto(p, "setup", Min(FreeSlots)) /\ FreeSlots # {} /\ free_index' = -1
      BY <2>2 DEF Alloc, sessVars
    <3>3. free_index >= 0 => free_index \in Slot
      BY DEF OnceInv, Shapes
    <3>4. FreeSlots # {} => Min(FreeSlots) \in Slot
      BY <3>1, MinIsSlot
    <3>. HIDE DEF Goto
    <3>. QED  BY <1>1, <3>2, <3>3, <3>4 DEF OnceInv, Shapes, Working
  <2>3. CASE Setup(p)
    <3>1. /\ info' = [info EXCEPT ![thr[p].i] =
                        [@ EXCEPT !.busy = TRUE, !.drop_cnt = MaxDrop,
                                  !.flow = Mine(p).flow, !.seq = Mine(p).seq]]
          /\ old' = old \ {thr[p].i} /\ free_index' = free_index /\ Goto(p, "queue", 0)
      BY <2>3 DEF Setup, mgrVars
    <3>2. Mine(p) \in [flow: Flow, seq: 0..MaxSeq]
      BY <1>2, CarriedAck
    <3>3. info' \in [Slot -> SessionShape] /\ \A i \in Slot : info'[i].skb = info[i].skb
      <4>1. info \in [Slot -> SessionShape] /\ MaxDrop \in Nat /\ thr[p].i \in Slot
        BY TcpAckAssumption DEF OnceInv, Shapes
      <4>2. PICK s : s = info[thr[p].i]
        OBVIOUS
      <4>3. PICK t : t = [s EXCEPT !.busy = TRUE, !.drop_cnt = MaxDrop,
                                   !.flow = Mine(p).flow, !.seq = Mine(p).seq]
        OBVIOUS
      <4>4. s \in SessionShape
        BY <4>1, <4>2
      <4>5. t \in SessionShape /\ t.skb = s.skb
        BY <3>2, <4>1, <4>3, <4>4 DEF SessionShape
      <4>6. info' = [info EXCEPT ![thr[p].i] = t]
        BY <3>1, <4>2, <4>3
      <4>. QED  BY <4>1, <4>2, <4>5, <4>6
    <3>. QED  BY <1>1, <3>1, <3>3 DEF OnceInv, Shapes, Working
  <2>. QED  BY <2>1, <2>2, <2>3
<1>4. PICK l \in Working, i \in Slot : Goto(p, l, i)
  BY <1>3
<1>5. /\ thr' \in [Thread -> [pc: {"idle"} \cup Working, ack: Known', i: Slot]]
      /\ \A r \in Thread : thr'[r].pc = "idle" <=> thr'[r].ack = Nobody
      /\ \A r \in Thread : thr'[r].ack = thr[r].ack
  BY <1>2, <1>4, GotoShape
<1>6. Shapes'
  BY <1>2, <1>3, <1>5 DEF OnceInv, Shapes, ends
<1>. QED  BY <1>2, <1>3, <1>5, <1>6, NoneMoves

\* What aml_replace_tcp_ack does: the acknowledgement that comes is thrown away, takes the place of
\* the one that is held, or passes.
LEMMA ReplacedIs ==
  ASSUME OnceInv, NEW p \in Thread, thr[p].pc = "replace", NEW type \in {1, 2},
         NEW s, s = info[thr[p].i], NEW r, r = Replaced(p, type)
  PROVE  /\ s \in SessionShape /\ r \in SessionShape
         /\ ~Newer(p) => r = s /\ ~Passes(p, type)
         /\ Newer(p) => /\ r.flow = s.flow /\ r.seq = Mine(p).seq
                        /\ s.seq <= Mine(p).seq
                        /\ ~Passes(p, type) => r.skb = thr[p].ack /\ r.in_txq_skb = s.in_txq_skb
                        /\ Passes(p, type) => r.skb = Nobody /\ r.in_txq_skb \in {Nobody, thr[p].ack}
<1>1. /\ s \in SessionShape /\ MaxDrop \in Nat /\ Nobody \in Known
      /\ thr[p].ack \in Known /\ Mine(p).seq \in 0..MaxSeq
  <2>1. thr[p].ack \in DOMAIN acks /\ Mine(p) \in [flow: Flow, seq: 0..MaxSeq]
    BY CarriedAck
  <2>. QED  BY <2>1, TcpAckAssumption DEF OnceInv, Shapes, Known, Nobody
<1>2. Passes(p, type) => Newer(p)
  BY DEF Passes
<1>3. CASE ~Newer(p)
  BY <1>1, <1>2, <1>3 DEF Replaced
<1>4. CASE Newer(p)
  <2>1. s.seq <= Mine(p).seq
    BY <1>4 DEF Newer
  <2>2. PICK q, c, d : q = Mine(p).seq /\ c = thr[p].ack /\ d = s.drop_cnt + 1
    OBVIOUS
  <2>3. q \in 0..MaxSeq /\ c \in Known /\ d \in Nat
    BY <1>1, <2>2 DEF SessionShape
  <2>4. CASE ~Passes(p, type)
    <3>1. r = [[s EXCEPT !.seq = q] EXCEPT !.skb = c, !.drop_cnt = d]
      BY <1>1, <1>4, <2>2, <2>4 DEF Replaced, SessionShape
    <3>2. /\ r \in SessionShape /\ r.flow = s.flow /\ r.seq = q /\ r.skb = c
          /\ r.in_txq_skb = s.in_txq_skb
      BY <1>1, <2>3, <3>1 DEF SessionShape
    <3>. QED  BY <1>1, <1>4, <2>1, <2>2, <2>4, <3>2
  <2>5. CASE Passes(p, type) /\ type = 2
    <3>1. r = [[s EXCEPT !.seq = q] EXCEPT !.skb = Nobody, !.in_txq_skb = Nobody,
                                           !.drop_cnt = MaxDrop]
      BY <1>4, <2>2, <2>5 DEF Replaced
    <3>2. /\ r \in SessionShape /\ r.flow = s.flow /\ r.seq = q /\ r.skb = Nobody
          /\ r.in_txq_skb = Nobody
      BY <1>1, <2>3, <3>1 DEF SessionShape
    <3>. QED  BY <1>1, <1>4, <2>1, <2>2, <2>5, <3>2
  <2>6. CASE Passes(p, type) /\ type # 2
    <3>1. r = [[s EXCEPT !.seq = q] EXCEPT !.skb = Nobody, !.in_txq_skb = c, !.drop_cnt = 0]
      BY <1>4, <2>2, <2>6 DEF Replaced
    <3>2. PICK t : t = [s EXCEPT !.seq = q]
      OBVIOUS
    <3>3. t \in SessionShape /\ t.flow = s.flow /\ t.seq = q
      BY <1>1, <2>3, <3>2 DEF SessionShape
    <3>4. PICK z \in Nat : z = 0
      OBVIOUS
    <3>5. r = [t EXCEPT !.skb = Nobody, !.in_txq_skb = c, !.drop_cnt = z]
      BY <3>1, <3>2, <3>4
    <3>6. Nobody \in Known
      BY <1>1
    <3>7. r \in SessionShape /\ r.flow = t.flow /\ r.seq = t.seq
      BY <2>3, <3>3, <3>5, <3>6 DEF SessionShape
    <3>8. r.skb = Nobody /\ r.in_txq_skb = c
      BY <3>3, <3>5 DEF SessionShape
    <3>. QED  BY <1>1, <1>4, <2>1, <2>2, <2>6, <3>3, <3>7, <3>8
  <2>. QED  BY <2>4, <2>5, <2>6
<1>. QED  BY <1>3, <1>4

\* Whichever of the two is thrown away, it has no other owner any more, and the other has one.
LEMMA ReplaceOnce ==
  ASSUME OnceInv, NEW p \in Thread, NEW type \in {1, 2}, Replace(p, type)
  PROVE  OnceInv'
<1>1. PICK i, c, h, s, r : /\ i = thr[p].i /\ c = thr[p].ack /\ s = info[i] /\ h = s.skb
                           /\ r = Replaced(p, type)
  OBVIOUS
<1>2. thr[p].pc = "replace" /\ UNCHANGED <<free_index, sending, acks, txq, lost, pushed>>
      /\ Known' = Known /\ SessionShape' = SessionShape
  BY DEF Replace, mgrVars, Known, SessionShape
<1>3. /\ i \in Slot /\ c \in DOMAIN acks /\ s \in SessionShape /\ r \in SessionShape /\ h \in Known
      /\ c # Nobody /\ Single(c) /\ Nobody \notin DOMAIN acks /\ DOMAIN acks = Known \ {Nobody}
      /\ info \in [Slot -> SessionShape]
  <2>1. c \in DOMAIN acks
    BY <1>1, <1>2, CarriedAck
  <2>2. s \in SessionShape /\ r \in SessionShape
    BY <1>1, <1>2, ReplacedIs
  <2>3. h \in Known
    BY <1>1, <2>2 DEF SessionShape
  <2>4. DOMAIN acks = Known \ {Nobody}
    <3>1. Len(acks) \in Nat /\ DOMAIN acks = 1..Len(acks)
      BY DEF OnceInv, Shapes
    <3>. QED  BY <3>1 DEF Known, Nobody
  <2>. QED  BY <1>1, <2>1, <2>2, <2>3, <2>4 DEF OnceInv, Shapes
<1>4. h # c
  BY <1>1, <1>3, Alone
<1>5. /\ info' = [info EXCEPT ![i] = r] /\ old' = old \ {i}
      /\ \/ /\ r.skb = h /\ dropped' = dropped \cup {c} /\ thr' = [thr EXCEPT ![p] = Idle]
         \/ /\ r.skb = c /\ dropped' = dropped \cup ({h} \ {Nobody})
            /\ thr' = [thr EXCEPT ![p] = Idle]
         \/ /\ r.skb = Nobody /\ dropped' = dropped \cup ({h} \ {Nobody})
            /\ Goto(p, "queue", 0)
  <2>1. /\ info' = [info EXCEPT ![i] = r] /\ old' = old \ {i}
        /\ dropped' = dropped \cup ({IF Newer(p) THEN h ELSE c} \ {Nobody})
        /\ IF Passes(p, type) THEN Goto(p, "queue", 0) ELSE thr' = [thr EXCEPT ![p] = Idle]
    BY <1>1 DEF Replace
  <2>2. /\ ~Newer(p) => r = s /\ ~Passes(p, type)
        /\ Newer(p) => /\ ~Passes(p, type) => r.skb = c
                       /\ Passes(p, type) => r.skb = Nobody
    BY <1>1, <1>2, ReplacedIs
  <2>. QED  BY <1>1, <1>3, <2>1, <2>2
<1>6. /\ \A q \in Thread : q # p => thr'[q] = thr[q]
      /\ \/ thr'[p] = Idle
         \/ thr'[p] = [pc |-> "queue", ack |-> c, i |-> 0]
  BY <1>1, <1>5 DEF OnceInv, Shapes, Goto
<1>7. Shapes'
  <2>1. 0 \in Slot /\ Nobody \in Known
    BY <1>3, TcpAckAssumption DEF Slot, Known, Nobody, OnceInv, Shapes
  <2>2. /\ thr' \in [Thread -> [pc: {"idle"} \cup Working, ack: Known', i: Slot]]
        /\ \A q \in Thread : thr'[q].pc = "idle" <=> thr'[q].ack = Nobody
    <3>1. CASE thr' = [thr EXCEPT ![p] = Idle]
      <4>1. Idle \in [pc: {"idle"} \cup Working, ack: Known, i: Slot]
            /\ Idle.pc = "idle" /\ Idle.ack = Nobody
        BY <2>1 DEF Idle
      <4>. QED  BY <1>2, <3>1, <4>1 DEF OnceInv, Shapes
    <3>2. CASE Goto(p, "queue", 0)
      BY <1>2, <2>1, <3>2, GotoShape DEF Working
    <3>. QED  BY <1>5, <3>1, <3>2
  <2>3. /\ info' \in [Slot -> SessionShape]
        /\ dropped' \subseteq Known \ {Nobody} /\ old' \subseteq Slot
    BY <1>3, <1>5 DEF OnceInv, Shapes
  <2>. QED  BY <1>2, <2>2, <2>3 DEF OnceInv, Shapes
<1>8. ASSUME NEW a \in DOMAIN acks PROVE Single(a)'
  <2>1. Single(a) /\ a # Nobody
    BY <1>3 DEF OnceInv
  <2>2. CASE a # c /\ a # h
    BY <1>1, <1>2, <1>3, <1>5, <1>6, <2>1, <2>2, Stays DEF Idle
  <2>3. CASE a = h
    <3>1. /\ \A q \in Thread : thr[q].ack # a
          /\ \A j \in Slot : (info[j].skb = a => j = i) /\ sending[j] # a
          /\ \A k \in DOMAIN txq : txq[k] # a
          /\ a \notin dropped /\ a \notin lost /\ a \notin pushed
      BY <1>1, <1>3, <2>1, <2>3, Alone
    <3>2. \A q \in Thread : thr'[q].ack # a
      BY <1>4, <1>6, <2>1, <2>3, <3>1 DEF Idle
    <3>3. CASE r.skb = h
      <4>1. a \notin dropped'
        BY <1>3, <1>4, <1>5, <2>1, <2>3, <3>1, <3>3
      <4>. QED  BY <1>1, <1>2, <1>3, <1>5, <2>3, <3>1, <3>2, <3>3, <4>1, Owned
    <3>4. CASE r.skb # h
      <4>1. a \in dropped' /\ \A j \in Slot : info'[j].skb # a
        BY <1>1, <1>3, <1>5, <2>1, <2>3, <3>1, <3>4
      <4>. QED  BY <1>2, <3>1, <3>2, <4>1, Owned
    <3>. QED  BY <3>3, <3>4
  <2>4. CASE a = c
    <3>1. /\ \A q \in Thread : thr[q].ack = a => q = p
          /\ \A j \in Slot : info[j].skb # a /\ sending[j] # a
          /\ \A k \in DOMAIN txq : txq[k] # a
          /\ a \notin dropped /\ a \notin lost /\ a \notin pushed
      BY <1>1, <2>1, <2>4, Alone
    <3>2. /\ \A j \in Slot : sending'[j] # a
          /\ \A k \in DOMAIN txq' : txq'[k] # a
          /\ a \notin lost' /\ a \notin pushed'
      BY <1>2, <3>1
    <3>3. CASE r.skb = h /\ dropped' = dropped \cup {c} /\ thr' = [thr EXCEPT ![p] = Idle]
      <4>1. /\ \A q \in Thread : thr'[q].ack # a
            /\ \A j \in Slot : info'[j].skb # a
            /\ a \in dropped'
        BY <1>3, <1>4, <1>5, <1>6, <2>1, <2>4, <3>1, <3>3 DEF Idle, OnceInv, Shapes
      <4>. QED  BY <3>2, <4>1, Owned
    <3>4. CASE /\ r.skb = c /\ dropped' = dropped \cup ({h} \ {Nobody})
               /\ thr' = [thr EXCEPT ![p] = Idle]
      <4>1. /\ \A q \in Thread : thr'[q].ack # a
            /\ \A j \in Slot : info'[j].skb = a <=> j = i
            /\ a \notin dropped'
        BY <1>3, <1>4, <1>5, <1>6, <2>1, <2>4, <3>1, <3>4 DEF Idle, OnceInv, Shapes
      <4>. QED  BY <1>3, <3>2, <4>1, Owned
    <3>5. CASE /\ r.skb = Nobody /\ dropped' = dropped \cup ({h} \ {Nobody})
               /\ Goto(p, "queue", 0)
      <4>1. /\ \A q \in Thread : thr'[q].ack = a <=> q = p
            /\ \A j \in Slot : info'[j].skb # a
            /\ a \notin dropped'
        BY <1>1, <1>3, <1>4, <1>5, <2>1, <2>4, <3>1, <3>5 DEF Goto, OnceInv, Shapes
      <4>. QED  BY <3>2, <4>1, Owned
    <3>. QED  BY <1>5, <3>3, <3>4, <3>5
  <2>. QED  BY <2>2, <2>3, <2>4
<1>. QED  BY <1>2, <1>7, <1>8 DEF OnceInv

\* What stands in a sequence that has grown by one, or lost its head
LEMMA Appended ==
  ASSUME NEW S, NEW s \in Seq(S), NEW c \in S
  PROVE  /\ Append(s, c) \in Seq(S) /\ Len(s) + 1 \in DOMAIN Append(s, c)
         /\ \A k, a : k \in DOMAIN Append(s, c) /\ Append(s, c)[k] = a <=>
                         (k \in DOMAIN s /\ s[k] = a) \/ (k = Len(s) + 1 /\ a = c)
<1>1. /\ Append(s, c) \in Seq(S) /\ Len(s) \in Nat /\ DOMAIN s = 1..Len(s)
      /\ DOMAIN Append(s, c) = 1..Len(s) + 1
  OBVIOUS
<1>2. \A k \in 1..Len(s) + 1 : Append(s, c)[k] = IF k = Len(s) + 1 THEN c ELSE s[k]
  OBVIOUS
<1>. QED  BY <1>1, <1>2
LEMMA Tailed ==
  ASSUME NEW S, NEW s \in Seq(S), s # <<>>
  PROVE  /\ Tail(s) \in Seq(S) /\ Head(s) \in S /\ 1 \in DOMAIN s /\ s[1] = Head(s)
         /\ \A k \in DOMAIN Tail(s) : k + 1 \in DOMAIN s /\ Tail(s)[k] = s[k + 1] /\ k + 1 # 1
         /\ \A k \in DOMAIN s : k # 1 => k - 1 \in DOMAIN Tail(s) /\ Tail(s)[k - 1] = s[k]
<1>1. /\ Tail(s) \in Seq(S) /\ Head(s) = s[1] /\ Len(s) \in Nat \ {0} /\ DOMAIN s = 1..Len(s)
      /\ DOMAIN Tail(s) = 1..Len(s) - 1
  OBVIOUS
<1>2. \A k \in 1..Len(s) - 1 : Tail(s)[k] = s[k + 1]
  OBVIOUS
<1>3. Head(s) \in S
  OBVIOUS
<1>. QED  BY <1>1, <1>2, <1>3

\* The acknowledgements that exist
LEMMA AcksAre ==
  ASSUME OnceInv
  PROVE  DOMAIN acks = Known \ {Nobody} /\ Nobody \in Known /\ Nobody \notin DOMAIN acks
<1>1. Len(acks) \in Nat /\ DOMAIN acks = 1..Len(acks)
  BY DEF OnceInv, Shapes
<1>. QED  BY <1>1 DEF Known, Nobody

\* A thread that is done carries nothing.
LEMMA IdleShape ==
  ASSUME OnceInv, NEW p \in Thread, thr' = [thr EXCEPT ![p] = Idle], acks' = acks
  PROVE  /\ thr' \in [Thread -> [pc: {"idle"} \cup Working, ack: Known', i: Slot]]
         /\ \A r \in Thread : thr'[r].pc = "idle" <=> thr'[r].ack = Nobody
         /\ \A r \in Thread : thr'[r].ack = IF r = p THEN Nobody ELSE thr[r].ack
<1>1. 0 \in Slot /\ Known' = Known
  BY TcpAckAssumption DEF Slot, Known
<1>2. /\ Idle \in [pc: {"idle"} \cup Working, ack: Known, i: Slot]
      /\ Idle.pc = "idle" /\ Idle.ack = Nobody
  BY <1>1, AcksAre DEF Idle
<1>. QED  BY <1>1, <1>2 DEF OnceInv, Shapes

\* The end of a transmission: the frame stands in the queue, once, or has been freed.
LEMMA QueuedOrFreed ==
  ASSUME OnceInv, NEW c \in DOMAIN acks, c \notin lost, \A k \in DOMAIN txq : txq[k] # c,
         \/ txq' = Append(txq, c) /\ lost' = lost
         \/ txq' = txq /\ lost' = lost \cup {c}
  PROVE  /\ txq' \in Seq(Known \ {Nobody}) /\ lost' \subseteq Known \ {Nobody}
         /\ \A a \in DOMAIN acks : a # c =>
               /\ \A k : k \in DOMAIN txq' /\ txq'[k] = a <=> k \in DOMAIN txq /\ txq[k] = a
               /\ a \in lost' <=> a \in lost
         /\ \/ c \notin lost' /\ \E k \in DOMAIN txq' : \A l \in DOMAIN txq' : txq'[l] = c <=> l = k
            \/ c \in lost' /\ \A k \in DOMAIN txq' : txq'[k] # c
<1>1. c \in Known \ {Nobody} /\ txq \in Seq(Known \ {Nobody})
  BY AcksAre DEF OnceInv, Shapes
<1>2. CASE txq' = Append(txq, c) /\ lost' = lost
  <2>1. /\ txq' \in Seq(Known \ {Nobody}) /\ Len(txq) + 1 \in DOMAIN txq'
        /\ \A k, a : k \in DOMAIN txq' /\ txq'[k] = a <=>
                       (k \in DOMAIN txq /\ txq[k] = a) \/ (k = Len(txq) + 1 /\ a = c)
    BY <1>1, <1>2, Appended
  <2>2. \A l \in DOMAIN txq' : txq'[l] = c <=> l = Len(txq) + 1
    BY <2>1
  <2>. QED  BY <1>2, <2>1, <2>2 DEF OnceInv, Shapes
<1>3. CASE txq' = txq /\ lost' = lost \cup {c}
  BY <1>1, <1>3 DEF OnceInv, Shapes
<1>. QED  BY <1>2, <1>3

\* A thread hands its acknowledgement to the transmit queue, or it is freed.
LEMMA QueueOnce == ASSUME OnceInv, NEW p \in Thread, Queue(p) PROVE OnceInv'
<1>1. PICK c : c = thr[p].ack
  OBVIOUS
<1>2. /\ UNCHANGED <<acks, info, old, free_index, sending, dropped, pushed>>
      /\ thr' = [thr EXCEPT ![p] = Idle]
      /\ thr[p].pc = "queue" /\ Known' = Known /\ SessionShape' = SessionShape
      /\ \/ txq' = Append(txq, c) /\ lost' = lost
         \/ txq' = txq /\ lost' = lost \cup {c}
  BY <1>1 DEF Queue, mgrVars, sessVars, Known, SessionShape
<1>3. /\ c \in DOMAIN acks /\ Single(c) /\ c # Nobody /\ c \in Known \ {Nobody}
      /\ txq \in Seq(Known \ {Nobody})
  BY <1>1, <1>2, CarriedAck, AcksAre DEF OnceInv, Shapes
<1>4. /\ \A q \in Thread : q # p => thr[q].ack # c
      /\ \A j \in Slot : info[j].skb # c /\ sending[j] # c
      /\ \A k \in DOMAIN txq : txq[k] # c
      /\ c \notin dropped /\ c \notin lost /\ c \notin pushed
  BY <1>1, <1>3, Alone
<1>5. /\ thr' \in [Thread -> [pc: {"idle"} \cup Working, ack: Known', i: Slot]]
      /\ \A r \in Thread : thr'[r].pc = "idle" <=> thr'[r].ack = Nobody
      /\ \A r \in Thread : thr'[r].ack = IF r = p THEN Nobody ELSE thr[r].ack
  BY <1>2, IdleShape
<1>6. /\ txq' \in Seq(Known \ {Nobody}) /\ lost' \subseteq Known \ {Nobody}
      /\ \A a \in DOMAIN acks : a # c =>
            /\ \A k : k \in DOMAIN txq' /\ txq'[k] = a <=> k \in DOMAIN txq /\ txq[k] = a
            /\ a \in lost' <=> a \in lost
      /\ \/ c \notin lost' /\ \E k \in DOMAIN txq' : \A l \in DOMAIN txq' : txq'[l] = c <=> l = k
         \/ c \in lost' /\ \A k \in DOMAIN txq' : txq'[k] # c
  BY <1>2, <1>3, <1>4, QueuedOrFreed
<1>7. Shapes'
  BY <1>2, <1>5, <1>6 DEF OnceInv, Shapes
<1>8. ASSUME NEW a \in DOMAIN acks PROVE Single(a)'
  <2>1. CASE a = c
    <3>1. /\ \A q \in Thread : thr'[q].ack # a
          /\ \A j \in Slot : info'[j].skb # a /\ sending'[j] # a
          /\ a \notin dropped' /\ a \notin pushed'
      BY <1>2, <1>3, <1>4, <1>5, <2>1
    <3>. QED  BY <1>6, <2>1, <3>1, Owned
  <2>2. CASE a # c
    <3>1. \A q \in Thread : thr'[q].ack = a <=> thr[q].ack = a
      BY <1>1, <1>5, <2>2, AcksAre
    <3>. QED  BY <1>2, <1>6, <2>2, <3>1, Stays DEF OnceInv
  <2>. QED  BY <2>1, <2>2
<1>. QED  BY <1>2, <1>7, <1>8 DEF OnceInv

\* The callback of the timer takes what its session holds.
LEMMA TimeoutOnce == ASSUME OnceInv, NEW i \in Slot, Timeout(i) PROVE OnceInv'
<1>1. /\ UNCHANGED <<acks, old, free_index, thr, txq, dropped, lost, pushed>> /\ sending[i] = Nobody
      /\ Known' = Known /\ SessionShape' = SessionShape
  BY DEF Timeout, mgrVars, ends, Known, SessionShape
<1>2. CASE UNCHANGED <<sending, info>>
  <2>1. Shapes'
    BY <1>1, <1>2 DEF OnceInv, Shapes
  <2>. QED  BY <1>1, <1>2, <2>1, NoneMoves DEF ends
<1>3. CASE ~UNCHANGED <<sending, info>>
  <2>1. PICK h : h = info[i].skb
    OBVIOUS
  <2>2. /\ sending' = [sending EXCEPT ![i] = h] /\ h # Nobody
        /\ info' = [info EXCEPT ![i] = [@ EXCEPT !.skb = Nobody, !.drop_cnt = 0,
                                                 !.in_txq_skb = h]]
    BY <1>3, <2>1 DEF Timeout
  <2>3. info[i] \in SessionShape /\ h \in DOMAIN acks /\ Nobody \in Known /\ h \in Known
    BY <2>1, <2>2, AcksAre DEF OnceInv, Shapes, SessionShape
  <2>4. PICK s, t : /\ s = info[i]
                    /\ t = [s EXCEPT !.skb = Nobody, !.drop_cnt = 0, !.in_txq_skb = h]
    OBVIOUS
  <2>5. t \in SessionShape /\ t.skb = Nobody /\ info' = [info EXCEPT ![i] = t]
    <3>1. info' = [info EXCEPT ![i] = t]
      BY <2>2, <2>4
    <3>2. s \in SessionShape
      BY <2>3, <2>4
    <3>3. t \in SessionShape /\ t.skb = Nobody
      BY <2>3, <2>4, <3>2 DEF SessionShape
    <3>. QED  BY <3>1, <3>3
  <2>6. Shapes'
    BY <1>1, <2>2, <2>3, <2>5 DEF OnceInv, Shapes
  <2>7. Single(h)
    BY <2>3 DEF OnceInv
  <2>8. /\ \A q \in Thread : thr[q].ack # h
        /\ \A j \in Slot : (info[j].skb = h => j = i) /\ sending[j] # h
        /\ \A k \in DOMAIN txq : txq[k] # h
        /\ h \notin dropped /\ h \notin lost /\ h \notin pushed
    BY <2>1, <2>7, Alone
  <2>9. ASSUME NEW a \in DOMAIN acks PROVE Single(a)'
    <3>1. a # Nobody
      BY AcksAre
    <3>2. CASE a = h
      <4>1. \A j \in Slot : info'[j].skb # a /\ (sending'[j] = a <=> j = i)
        BY <2>2, <2>5, <2>8, <3>1, <3>2 DEF OnceInv, Shapes
      <4>. QED  BY <1>1, <2>8, <3>2, <4>1, Owned
    <3>3. CASE a # h
      <4>1. \A j \in Slot : (info'[j].skb = a <=> info[j].skb = a)
                            /\ (sending'[j] = a <=> sending[j] = a)
        BY <1>1, <2>1, <2>2, <2>5, <3>1, <3>3 DEF OnceInv, Shapes
      <4>. QED  BY <1>1, <4>1, Stays DEF OnceInv
    <3>. QED  BY <3>2, <3>3
  <2>. QED  BY <1>1, <2>6, <2>9 DEF OnceInv
<1>. QED  BY <1>2, <1>3

\* It hands it to the transmit queue, or it is freed.
LEMMA SendOnce == ASSUME OnceInv, NEW i \in Slot, Send(i) PROVE OnceInv'
<1>1. PICK c : c = sending[i]
  OBVIOUS
<1>2. /\ UNCHANGED <<acks, info, old, free_index, thr, dropped, pushed>>
      /\ sending' = [sending EXCEPT ![i] = Nobody] /\ c # Nobody
      /\ Known' = Known /\ SessionShape' = SessionShape
      /\ \/ txq' = Append(txq, c) /\ lost' = lost
         \/ txq' = txq /\ lost' = lost \cup {c}
  BY <1>1 DEF Send, mgrVars, Known, SessionShape
<1>3. c \in DOMAIN acks /\ Single(c) /\ Nobody \in Known
  BY <1>1, <1>2, AcksAre DEF OnceInv, Shapes
<1>4. /\ \A q \in Thread : thr[q].ack # c
      /\ \A j \in Slot : info[j].skb # c /\ (sending[j] = c => j = i)
      /\ \A k \in DOMAIN txq : txq[k] # c
      /\ c \notin dropped /\ c \notin lost /\ c \notin pushed
  BY <1>1, <1>3, Alone
<1>6. /\ txq' \in Seq(Known \ {Nobody}) /\ lost' \subseteq Known \ {Nobody}
      /\ \A a \in DOMAIN acks : a # c =>
            /\ \A k : k \in DOMAIN txq' /\ txq'[k] = a <=> k \in DOMAIN txq /\ txq[k] = a
            /\ a \in lost' <=> a \in lost
      /\ \/ c \notin lost' /\ \E k \in DOMAIN txq' : \A l \in DOMAIN txq' : txq'[l] = c <=> l = k
         \/ c \in lost' /\ \A k \in DOMAIN txq' : txq'[k] # c
  BY <1>2, <1>3, <1>4, QueuedOrFreed
<1>7. Shapes'
  BY <1>2, <1>3, <1>6 DEF OnceInv, Shapes
<1>8. ASSUME NEW a \in DOMAIN acks PROVE Single(a)'
  <2>1. CASE a = c
    <3>1. /\ \A q \in Thread : thr'[q].ack # a
          /\ \A j \in Slot : info'[j].skb # a /\ sending'[j] # a
          /\ a \notin dropped' /\ a \notin pushed'
      BY <1>2, <1>3, <1>4, <2>1 DEF OnceInv, Shapes
    <3>. QED  BY <1>6, <2>1, <3>1, Owned
  <2>2. CASE a # c
    <3>1. \A j \in Slot : sending'[j] = a <=> sending[j] = a
      BY <1>1, <1>2, <2>2, AcksAre DEF OnceInv, Shapes
    <3>. QED  BY <1>2, <1>6, <2>2, <3>1, Stays DEF OnceInv
  <2>. QED  BY <2>1, <2>2
<1>. QED  BY <1>2, <1>7, <1>8 DEF OnceInv

\* The frame at the head of the queue goes to the firmware; the others move up.
LEMMA PushOnce == ASSUME OnceInv, Push PROVE OnceInv'
<1>1. /\ UNCHANGED <<acks, old, free_index, sending, thr, dropped, lost>>
      /\ txq # <<>> /\ txq' = Tail(txq) /\ pushed' = pushed \cup {Head(txq)}
      /\ Known' = Known /\ SessionShape' = SessionShape
  BY DEF Push, mgrVars, Known, SessionShape
<1>2. /\ info' \in [Slot -> SessionShape] /\ \A i \in Slot : info'[i].skb = info[i].skb
  <2>1. info' = [i \in Slot |->
                   IF enable /\ info[i].busy /\ info[i].in_txq_skb = Head(txq)
                   THEN [info[i] EXCEPT !.in_txq_skb = Nobody] ELSE info[i]]
    BY DEF Push
  <2>2. ASSUME NEW s \in SessionShape
        PROVE  /\ [s EXCEPT !.in_txq_skb = Nobody] \in SessionShape
               /\ [s EXCEPT !.in_txq_skb = Nobody].skb = s.skb
    BY AcksAre DEF SessionShape
  <2>3. \A i \in Slot : info[i] \in SessionShape
    BY DEF OnceInv, Shapes
  <2>. QED  BY <2>1, <2>2, <2>3
<1>3. PICK c : c = Head(txq)
  OBVIOUS
<1>4. /\ txq' \in Seq(Known \ {Nobody}) /\ c \in Known \ {Nobody} /\ 1 \in DOMAIN txq /\ txq[1] = c
      /\ \A k \in DOMAIN txq' : k + 1 \in DOMAIN txq /\ txq'[k] = txq[k + 1] /\ k + 1 # 1
      /\ \A k \in DOMAIN txq : k # 1 => k - 1 \in DOMAIN txq' /\ txq'[k - 1] = txq[k]
  BY <1>1, <1>3, Tailed DEF OnceInv, Shapes
<1>5. Shapes'
  BY <1>1, <1>2, <1>3, <1>4 DEF OnceInv, Shapes
<1>6. ASSUME NEW a \in DOMAIN acks PROVE Single(a)'
  <2>1. Single(a) /\ DOMAIN txq \subseteq Nat /\ DOMAIN txq' \subseteq Nat
    BY <1>4 DEF OnceInv, Shapes
  <2>2. CASE a = c
    <3>1. /\ \A q \in Thread : thr[q].ack # a
          /\ \A j \in Slot : info[j].skb # a /\ sending[j] # a
          /\ \A k \in DOMAIN txq : txq[k] = a => k = 1
          /\ a \notin dropped /\ a \notin lost /\ a \notin pushed
      BY <1>4, <2>1, <2>2, Alone
    <3>2. \A k \in DOMAIN txq' : txq'[k] # a
      BY <1>4, <3>1
    <3>. QED  BY <1>1, <1>2, <1>3, <2>2, <3>1, <3>2, Owned
  <2>3. CASE a # c /\ \A k \in DOMAIN txq : txq[k] # a
    <3>1. \A k : k \in DOMAIN txq' /\ txq'[k] = a <=> k \in DOMAIN txq /\ txq[k] = a
      BY <1>4, <2>3
    <3>. QED  BY <1>1, <1>2, <1>3, <2>1, <2>3, <3>1, Stays
  <2>4. ASSUME a # c, NEW k \in DOMAIN txq, txq[k] = a PROVE Single(a)'
    <3>1. /\ \A q \in Thread : thr[q].ack # a
          /\ \A j \in Slot : info[j].skb # a /\ sending[j] # a
          /\ \A l \in DOMAIN txq : txq[l] = a => l = k
          /\ a \notin dropped /\ a \notin lost /\ a \notin pushed
      BY <2>1, <2>4, Alone
    <3>2. \E m \in DOMAIN txq' : \A l \in DOMAIN txq' : txq'[l] = a <=> l = m
      <4>1. k # 1 /\ k \in Nat
        BY <1>4, <2>1, <2>4
      <4>2. PICK m : m = k - 1
        OBVIOUS
      <4>3. \A l \in DOMAIN txq' : txq'[l] = a => l = m
        <5>1. ASSUME NEW l \in DOMAIN txq', txq'[l] = a PROVE l = m
          <6>1. l + 1 \in DOMAIN txq /\ txq[l + 1] = a
            BY <1>4, <5>1
          <6>2. l + 1 = k
            BY <3>1, <6>1
          <6>. QED  BY <2>1, <4>1, <4>2, <6>2
        <5>. QED  BY <5>1
      <4>4. m \in DOMAIN txq' /\ txq'[m] = a
        BY <1>4, <2>4, <4>1, <4>2
      <4>. QED  BY <4>3, <4>4
    <3>. QED  BY SMTT(40), <1>1, <1>2, <1>3, <2>4, <3>1, <3>2, Owned
  <2>. QED  BY <2>2, <2>3, <2>4
<1>. QED  BY <1>1, <1>5, <1>6 DEF OnceInv

\* A flush frees all that is queued.
LEMMA FlushOnce == ASSUME OnceInv, Flush PROVE OnceInv'
<1>1. /\ UNCHANGED <<acks, info, old, free_index, sending, thr, dropped, pushed>>
      /\ txq' = <<>> /\ lost' = lost \cup {txq[k] : k \in DOMAIN txq}
      /\ Known' = Known /\ SessionShape' = SessionShape
  BY DEF Flush, mgrVars, sessVars, Known, SessionShape, Range
<1>2. DOMAIN txq' = {} /\ txq' \in Seq(Known \ {Nobody})
  BY <1>1
<1>3. {txq[k] : k \in DOMAIN txq} \subseteq Known \ {Nobody}
  BY DEF OnceInv, Shapes
<1>4. Shapes'
  BY <1>1, <1>2, <1>3 DEF OnceInv, Shapes
<1>5. ASSUME NEW a \in DOMAIN acks PROVE Single(a)'
  <2>1. Single(a)
    BY DEF OnceInv
  <2>2. CASE \A k \in DOMAIN txq : txq[k] # a
    BY <1>1, <1>2, <2>1, <2>2, Stays
  <2>3. ASSUME NEW k \in DOMAIN txq, txq[k] = a PROVE Single(a)'
    <3>1. /\ \A q \in Thread : thr[q].ack # a
          /\ \A j \in Slot : info[j].skb # a /\ sending[j] # a
          /\ a \notin dropped /\ a \notin lost /\ a \notin pushed
      BY <2>1, <2>3, Alone
    <3>. QED  BY <1>1, <1>2, <2>3, <3>1, Owned
  <2>. QED  BY <2>2, <2>3
<1>. QED  BY <1>1, <1>4, <1>5 DEF OnceInv

\* The end of the filter frees all that is held.
LEMMA DeinitOnce == ASSUME OnceInv, Deinit PROVE OnceInv'
<1>1. /\ UNCHANGED <<acks, old, free_index, sending, thr, txq, dropped, pushed>>
      /\ lost' = lost \cup ({info[i].skb : i \in Slot} \ {Nobody})
      /\ Known' = Known /\ SessionShape' = SessionShape
  BY DEF Deinit, Known, SessionShape
<1>2. /\ info' \in [Slot -> SessionShape] /\ \A i \in Slot : info'[i].skb = Nobody
  <2>1. info' = [i \in Slot |-> [info[i] EXCEPT !.skb = Nobody]]
    BY DEF Deinit
  <2>2. ASSUME NEW s \in SessionShape
        PROVE  /\ [s EXCEPT !.skb = Nobody] \in SessionShape
               /\ [s EXCEPT !.skb = Nobody].skb = Nobody
    BY AcksAre DEF SessionShape
  <2>3. \A i \in Slot : info[i] \in SessionShape
    BY DEF OnceInv, Shapes
  <2>. QED  BY <2>1, <2>2, <2>3
<1>3. \A i \in Slot : info[i].skb \in Known
  BY DEF OnceInv, Shapes, SessionShape
<1>4. Shapes'
  BY <1>1, <1>2, <1>3 DEF OnceInv, Shapes
<1>5. ASSUME NEW a \in DOMAIN acks PROVE Single(a)'
  <2>1. Single(a) /\ a # Nobody
    BY AcksAre DEF OnceInv
  <2>2. CASE \A i \in Slot : info[i].skb # a
    BY <1>1, <1>2, <2>1, <2>2, Stays
  <2>3. ASSUME NEW i \in Slot, info[i].skb = a PROVE Single(a)'
    <3>1. /\ \A q \in Thread : thr[q].ack # a
          /\ \A j \in Slot : sending[j] # a
          /\ \A k \in DOMAIN txq : txq[k] # a
          /\ a \notin dropped /\ a \notin lost /\ a \notin pushed
      BY <2>1, <2>3, Alone
    <3>. QED  BY <1>1, <1>2, <2>1, <2>3, <3>1, Owned
  <2>. QED  BY <2>2, <2>3
<1>. QED  BY <1>1, <1>4, <1>5 DEF OnceInv

\* Every step keeps one owner for every acknowledgement.
LEMMA StepOnce == OnceInv /\ [Next]_vars => OnceInv'
<1>. SUFFICES ASSUME OnceInv, [Next]_vars PROVE OnceInv'
  OBVIOUS
<1>1. CASE \E p \in Thread, f \in Flow, q \in 0..MaxSeq : Xmit(p, f, q)
  BY <1>1, XmitOnce
<1>2. CASE \E p \in Thread : Step(p)
  BY <1>2, SearchOnce, ReplaceOnce, QueueOnce DEF Step
<1>3. CASE \E i \in Slot : Timeout(i) \/ Send(i)
  BY <1>3, TimeoutOnce, SendOnce
<1>4. CASE Push \/ Flush \/ Deinit
  BY <1>4, PushOnce, FlushOnce, DeinitOnce
<1>5. CASE Switch \/ (\E i \in Slot : Silence(i)) \/ UNCHANGED vars
  <2>1. UNCHANGED <<acks, info, free_index, sending, thr, txq, ends>> /\ old' \subseteq Slot
    BY <1>5 DEF Switch, Silence, vars, mgrVars, sessVars, OnceInv, Shapes
  <2>2. Shapes'
    BY <2>1 DEF OnceInv, Shapes, SessionShape, Known, ends
  <2>. QED  BY <2>1, <2>2, NoneMoves
<1>. QED  BY <1>1, <1>2, <1>3, <1>4, <1>5 DEF Next

\* At any time an acknowledgement that the stack has sent is in exactly one place: with a thread,
\* a session, the callback of its timer or the transmit queue, or it has been thrown away, lost or
\* pushed.  No path of the filter frees or queues one twice, or forgets one, even when a session
\* is taken from one connection for another while a thread or the timer is using it.
THEOREM AcksHaveOneOwner == Spec => []AckOnce
<1>1. OnceInv => AckOnce
  <2>. SUFFICES ASSUME OnceInv, NEW a \in DOMAIN acks PROVE Cardinality(Places(a)) = 1
    BY DEF AckOnce
  <2>1. PICK x : Places(a) = {x}
    BY DEF OnceInv, Single
  <2>. QED  BY <2>1, FS_Singleton
<1>. QED  BY InitOnce, StepOnce, <1>1, PTL DEF Spec

-----------------------------------------------------------------------------
(* What is thrown away is made good                                        *)

\* An acknowledgement of f that reaches q is not thrown away.
Alive(f, q) == \E b \in DOMAIN acks \ dropped : FlowOf(b) = f /\ acks[b].seq >= q

\* What a session holds is of its connection and no newer than what it has seen, and what it has
\* seen is not thrown away.
Honest ==
    /\ \A a \in dropped : Alive(FlowOf(a), acks[a].seq)
    /\ \A i \in Slot : info[i].skb # Nobody =>
          FlowOf(info[i].skb) = info[i].flow /\ acks[info[i].skb].seq <= info[i].seq
    /\ \A i \in Slot : info[i].flow # None => Alive(info[i].flow, info[i].seq)

SupersededInv == OnceInv /\ (~mixed => Honest)

\* Nothing has been thrown away at first, and no session has a connection.
LEMMA InitSuperseded == Init => SupersededInv
<1>. SUFFICES ASSUME Init PROVE Honest
  BY InitOnce DEF SupersededInv
<1>. QED  BY DEF Init, Honest, Nobody

\* A step that throws nothing away and only empties sessions keeps the promise.
LEMMA QuietHonest ==
  ASSUME OnceInv, Honest, dropped' = dropped,
         \A b \in DOMAIN acks : b \in DOMAIN acks' /\ acks'[b] = acks[b],
         \A i \in Slot : /\ info'[i].skb \in {Nobody, info[i].skb}
                         /\ info'[i].flow = info[i].flow /\ info'[i].seq = info[i].seq
  PROVE  Honest'
<1>1. ASSUME NEW f, NEW q, Alive(f, q) PROVE Alive(f, q)'
  BY <1>1 DEF Alive, FlowOf
<1>2. \A b \in DOMAIN acks : FlowOf(b)' = FlowOf(b) /\ acks'[b] = acks[b]
  BY DEF FlowOf
<1>3. dropped \subseteq DOMAIN acks /\ \A i \in Slot : info[i].skb # Nobody => info[i].skb \in DOMAIN acks
  BY AcksAre DEF OnceInv, Shapes, SessionShape
<1>4. ASSUME NEW a \in dropped' PROVE Alive(FlowOf(a), acks[a].seq)'
  <2>1. PICK f, q : f = FlowOf(a) /\ q = acks[a].seq
    OBVIOUS
  <2>2. Alive(f, q)'
    BY <1>1, <1>4, <2>1 DEF Honest
  <2>3. FlowOf(a)' = f /\ acks'[a].seq = q
    BY <1>2, <1>3, <1>4, <2>1
  <2>. QED  BY <2>2, <2>3
<1>5. ASSUME NEW i \in Slot, info'[i].skb # Nobody
      PROVE  FlowOf(info[i].skb)' = info'[i].flow /\ acks'[info'[i].skb].seq <= info'[i].seq
  <2>1. info'[i].skb = info[i].skb /\ info[i].skb # Nobody
    BY <1>5
  <2>2. FlowOf(info[i].skb)' = acks'[info'[i].skb].flow
    BY DEF FlowOf
  <2>. QED  BY <1>3, <2>1, <2>2 DEF Honest, FlowOf
<1>6. ASSUME NEW i \in Slot, info'[i].flow # None PROVE Alive(info[i].flow, info[i].seq)'
  <2>1. PICK f, q : f = info[i].flow /\ q = info[i].seq
    OBVIOUS
  <2>2. Alive(f, q)' /\ info'[i].flow = f /\ info'[i].seq = q
    BY <1>1, <1>6, <2>1 DEF Honest
  <2>. QED  BY <2>2
<1>. QED  BY <1>4, <1>5, <1>6 DEF Honest

\* A session is set up for a connection with the acknowledgement its thread carries.
LEMMA SetupHonest ==
  ASSUME OnceInv, Honest, NEW p \in Thread, Setup(p), ~mixed' PROVE Honest'
<1>1. PICK i, c, s, f, q : /\ i = thr[p].i /\ c = thr[p].ack /\ s = info[i]
                           /\ f = Mine(p).flow /\ q = Mine(p).seq
  OBVIOUS
<1>2. /\ info' = [info EXCEPT ![i] = [s EXCEPT !.busy = TRUE, !.drop_cnt = MaxDrop,
                                               !.flow = f, !.seq = q]]
      /\ UNCHANGED <<acks, dropped>> /\ thr[p].pc = "setup" /\ s.skb = Nobody
  BY <1>1 DEF Setup, ends
<1>3. /\ i \in Slot /\ c \in DOMAIN acks /\ c \notin dropped /\ f = FlowOf(c) /\ q = acks[c].seq
      /\ q \in 0..MaxSeq /\ s \in SessionShape
  <2>1. c \in DOMAIN acks /\ Mine(p) \in [flow: Flow, seq: 0..MaxSeq] /\ Single(c)
    BY <1>1, <1>2, CarriedAck DEF OnceInv
  <2>2. c \notin dropped
    BY <1>1, <2>1, Alone
  <2>. QED  BY <1>1, <2>1, <2>2 DEF Mine, FlowOf, OnceInv, Shapes
<1>4. PICK t : t = [s EXCEPT !.busy = TRUE, !.drop_cnt = MaxDrop, !.flow = f, !.seq = q]
  OBVIOUS
<1>5. t.skb = Nobody /\ t.flow = f /\ t.seq = q
  BY <1>2, <1>3, <1>4 DEF SessionShape
<1>6. /\ info'[i] = t /\ \A j \in Slot : j # i => info'[j] = info[j]
  BY <1>2, <1>3, <1>4 DEF OnceInv, Shapes
<1>7. \A g, r : Alive(g, r)' <=> Alive(g, r)
  BY <1>2 DEF Alive, FlowOf
<1>8. Alive(f, q)
  BY <1>3 DEF Alive
<1>9. \A a : FlowOf(a)' = FlowOf(a)
  BY <1>2 DEF FlowOf
<1>10. \A a \in dropped' : Alive(FlowOf(a), acks[a].seq)'
  BY <1>2, <1>7 DEF Honest, FlowOf, Alive
<1>11. \A j \in Slot : info'[j].skb # Nobody =>
          FlowOf(info[j].skb)' = info'[j].flow /\ acks'[info'[j].skb].seq <= info'[j].seq
  BY <1>2, <1>5, <1>6 DEF Honest, FlowOf
<1>12. \A j \in Slot : info'[j].flow # None => Alive(info[j].flow, info[j].seq)'
  BY <1>2, <1>5, <1>6, <1>8 DEF Honest, FlowOf, Alive
<1>. QED  BY <1>10, <1>11, <1>12 DEF Honest

\* Throwing one away leaves alive what another that is no older, of its connection, reaches.
LEMMA DropFor ==
  ASSUME OnceInv, acks' = acks, NEW d \in DOMAIN acks, NEW b \in DOMAIN acks, b \notin dropped, b # d,
         FlowOf(b) = FlowOf(d), acks[b].seq >= acks[d].seq, dropped' = dropped \cup {d}
  PROVE  /\ \A f : \A q \in Nat : Alive(f, q) => Alive(f, q)'
         /\ Alive(FlowOf(d), acks[d].seq)'
<1>1. \A a \in DOMAIN acks : acks[a].seq \in Nat
  <2>1. /\ acks \in Seq([flow: Flow, seq: 0..MaxSeq]) /\ DOMAIN acks = 1..Len(acks)
    BY DEF OnceInv, Shapes
  <2>2. \A a \in DOMAIN acks : acks[a] \in [flow: Flow, seq: 0..MaxSeq]
    BY <2>1, ElementOfSeq
  <2>. QED  BY <2>2
<1>2. ASSUME NEW f, NEW q \in Nat, Alive(f, q) PROVE Alive(f, q)'
  <2>1. PICK a \in DOMAIN acks \ dropped : FlowOf(a) = f /\ acks[a].seq >= q
    BY <1>2 DEF Alive
  <2>2. CASE a = d
    <3>1. FlowOf(b) = f /\ acks[b].seq >= q
      BY <1>1, <2>1, <2>2
    <3>. QED  BY <3>1 DEF Alive, FlowOf
  <2>3. CASE a # d
    BY <2>1, <2>3 DEF Alive, FlowOf
  <2>. QED  BY <2>2, <2>3
<1>3. Alive(FlowOf(d), acks[d].seq)'
  BY DEF Alive, FlowOf
<1>. QED  BY <1>2, <1>3

\* Of the two acknowledgements the filter throws away the one that the other makes good.
LEMMA ReplaceHonest ==
  ASSUME OnceInv, Honest, NEW p \in Thread, NEW type \in {1, 2}, Replace(p, type), ~mixed'
  PROVE  Honest'
<1>1. PICK i, c, h, s, r, f, q : /\ i = thr[p].i /\ c = thr[p].ack /\ s = info[i] /\ h = s.skb
                                 /\ r = Replaced(p, type) /\ f = Mine(p).flow /\ q = Mine(p).seq
  OBVIOUS
<1>2. /\ info' = [info EXCEPT ![i] = r] /\ acks' = acks /\ s.flow = f /\ thr[p].pc = "replace"
      /\ dropped' = dropped \cup ({IF Newer(p) THEN h ELSE c} \ {Nobody})
  BY <1>1 DEF Replace
<1>3. /\ i \in Slot /\ c \in DOMAIN acks /\ c \notin dropped /\ f = FlowOf(c) /\ q = acks[c].seq
      /\ q \in 0..MaxSeq /\ f \in Flow /\ c # Nobody /\ h # c
      /\ s \in SessionShape /\ r \in SessionShape /\ MaxSeq \in Nat
  <2>1. c \in DOMAIN acks /\ Mine(p) \in [flow: Flow, seq: 0..MaxSeq] /\ Single(c)
    BY <1>1, <1>2, CarriedAck DEF OnceInv
  <2>2. c \notin dropped /\ i \in Slot /\ h # c
    BY <1>1, <2>1, Alone DEF OnceInv, Shapes
  <2>3. s \in SessionShape /\ r \in SessionShape
    BY <1>1, <1>2, ReplacedIs
  <2>. QED  BY <1>1, <2>1, <2>2, <2>3, AcksAre, TcpAckAssumption DEF Mine, FlowOf
<1>4. /\ info'[i] = r /\ \A j \in Slot : j # i => info'[j] = info[j]
  BY <1>2, <1>3 DEF OnceInv, Shapes
<1>5. /\ ~Newer(p) => r = s
      /\ Newer(p) => /\ r.flow = f /\ r.seq = q /\ s.seq <= q /\ r.skb \in {c, Nobody}
  BY <1>1, <1>2, ReplacedIs
<1>6. /\ \A a \in DOMAIN acks : acks[a].seq \in Nat /\ FlowOf(a)' = FlowOf(a)
      /\ \A j \in Slot : info[j].seq \in Nat
      /\ dropped \subseteq DOMAIN acks
  <2>1. /\ acks \in Seq([flow: Flow, seq: 0..MaxSeq]) /\ DOMAIN acks = 1..Len(acks)
    BY DEF OnceInv, Shapes
  <2>2. \A a \in DOMAIN acks : acks[a] \in [flow: Flow, seq: 0..MaxSeq]
    BY <2>1, ElementOfSeq
  <2>. QED  BY <1>2, <2>2, AcksAre DEF OnceInv, Shapes, SessionShape, FlowOf
<1>7. s.seq \in Nat /\ Alive(f, s.seq) /\ q \in Nat
  <2>1. f # None
    BY <1>3, TcpAckAssumption
  <2>. QED  BY <1>1, <1>2, <1>3, <1>6, <2>1 DEF Honest
<1>8. \/ /\ dropped' = dropped /\ (Newer(p) => Alive(f, q)')
      \/ \E d \in DOMAIN acks :
            /\ dropped' = dropped \cup {d}
            /\ \A g : \A x \in Nat : Alive(g, x) => Alive(g, x)'
            /\ Alive(FlowOf(d), acks[d].seq)'
            /\ Newer(p) => Alive(f, q)'
  <2>1. CASE ~Newer(p)
    <3>1. ~(s.seq <= q)
      BY <1>1, <2>1 DEF Newer
    <3>2. PICK b \in DOMAIN acks \ dropped : FlowOf(b) = f /\ acks[b].seq >= s.seq
      BY <1>7 DEF Alive
    <3>3. acks[b].seq >= acks[c].seq /\ b # c
      BY <1>3, <1>6, <1>7, <3>1, <3>2
    <3>4. dropped' = dropped \cup {c}
      BY <1>2, <1>3, <2>1
    <3>. QED  BY <1>2, <1>3, <2>1, <3>2, <3>3, <3>4, DropFor
  <2>2. CASE Newer(p) /\ h = Nobody
    <3>1. dropped' = dropped
      BY <1>2, <2>2
    <3>2. Alive(f, q)'
      BY <1>2, <1>3, <3>1 DEF Alive, FlowOf
    <3>. QED  BY <3>1, <3>2
  <2>3. CASE Newer(p) /\ h # Nobody
    <3>1. h \in DOMAIN acks /\ FlowOf(h) = f /\ acks[h].seq <= s.seq
      BY <1>1, <1>2, <1>3, <2>3, AcksAre DEF Honest, OnceInv, Shapes, SessionShape
    <3>2. acks[c].seq >= acks[h].seq
      BY <1>3, <1>5, <1>6, <1>7, <2>3, <3>1
    <3>3. dropped' = dropped \cup {h}
      BY <1>2, <2>3
    <3>4. /\ \A g : \A x \in Nat : Alive(g, x) => Alive(g, x)'
          /\ Alive(FlowOf(h), acks[h].seq)'
      BY <1>2, <1>3, <3>1, <3>2, <3>3, DropFor
    <3>5. Alive(f, q)
      BY <1>3, <1>6 DEF Alive
    <3>. QED  BY <1>7, <3>1, <3>3, <3>4, <3>5
  <2>. QED  BY <2>1, <2>2, <2>3
<1>9. \A g : \A x \in Nat : Alive(g, x) => Alive(g, x)'
  BY <1>2, <1>8 DEF Alive, FlowOf
<1>10. ASSUME NEW a \in dropped' PROVE Alive(FlowOf(a), acks[a].seq)'
  <2>1. CASE a \in dropped
    <3>1. Alive(FlowOf(a), acks[a].seq) /\ acks[a].seq \in Nat /\ a \in DOMAIN acks
      BY <1>6, <2>1 DEF Honest
    <3>2. PICK g, x : g = FlowOf(a) /\ x = acks[a].seq
      OBVIOUS
    <3>3. Alive(g, x)'
      BY <1>9, <3>1, <3>2
    <3>4. FlowOf(a)' = g /\ acks'[a].seq = x
      BY <1>2, <1>6, <3>1, <3>2
    <3>. QED  BY <3>3, <3>4
  <2>2. CASE a \notin dropped
    BY <1>8, <1>10, <2>2
  <2>. QED  BY <2>1, <2>2
<1>11. ASSUME NEW j \in Slot, info'[j].skb # Nobody
       PROVE  FlowOf(info[j].skb)' = info'[j].flow /\ acks'[info'[j].skb].seq <= info'[j].seq
  <2>1. CASE info'[j] = info[j]
    BY <1>2, <1>11, <2>1 DEF Honest, FlowOf
  <2>2. CASE j = i /\ Newer(p)
    <3>1. info'[j].skb = c /\ info'[j].flow = f /\ info'[j].seq = q
      BY <1>4, <1>5, <1>11, <2>2
    <3>2. acks'[c].flow = f /\ acks'[c].seq <= q
      BY <1>2, <1>3, <1>7 DEF FlowOf
    <3>. QED  BY <3>1, <3>2 DEF FlowOf
  <2>. QED  BY <1>1, <1>4, <1>5, <2>1, <2>2
<1>12. ASSUME NEW j \in Slot, info'[j].flow # None PROVE Alive(info[j].flow, info[j].seq)'
  <2>1. CASE info'[j] = info[j]
    <3>1. PICK g, x : g = info[j].flow /\ x = info[j].seq
      OBVIOUS
    <3>2. Alive(g, x)'
      BY <1>6, <1>9, <1>12, <2>1, <3>1 DEF Honest
    <3>. QED  BY <2>1, <3>1, <3>2
  <2>2. CASE j = i /\ Newer(p)
    <3>1. info'[j].flow = f /\ info'[j].seq = q
      BY <1>4, <1>5, <2>2
    <3>2. Alive(f, q)'
      BY <1>8, <2>2, <1>7, <1>3, <1>6, <1>9
    <3>. QED  BY <3>1, <3>2
  <2>. QED  BY <1>1, <1>4, <1>5, <2>1, <2>2
<1>. QED  BY <1>10, <1>11, <1>12 DEF Honest

\* Every step keeps the promise.
LEMMA StepSuperseded == SupersededInv /\ [Next]_vars => SupersededInv'
<1>. SUFFICES ASSUME SupersededInv, [Next]_vars, ~mixed' PROVE Honest'
  BY StepOnce DEF SupersededInv
<1>1. OnceInv /\ OnceInv'
  BY StepOnce DEF SupersededInv
<1>2. Honest
  BY ZenonT(40) DEF SupersededInv, Next, Step, Xmit, Age, Replace, Alloc, Setup, Queue, Timeout, Send, Push, Flush,
         Switch, Deinit, Silence, vars
<1>3. CASE \E p \in Thread, type \in {1, 2} : Replace(p, type)
  BY <1>1, <1>2, <1>3, ReplaceHonest
<1>4. CASE \E p \in Thread : Setup(p)
  BY <1>1, <1>2, <1>4, SetupHonest
<1>5. CASE \E p \in Thread, f \in Flow, q \in 0..MaxSeq : Xmit(p, f, q)
  <2>1. PICK a : acks' = Append(acks, a)
    BY <1>5 DEF Xmit
  <2>2. \A b \in DOMAIN acks : b \in DOMAIN acks' /\ acks'[b] = acks[b]
    BY <1>1, <2>1 DEF OnceInv, Shapes
  <2>3. info' = info /\ dropped' = dropped
    BY <1>5 DEF Xmit, sessVars, ends
  <2>. QED  BY <1>1, <1>2, <2>2, <2>3, QuietHonest
<1>6. CASE \/ \E p \in Thread : Age(p) \/ Alloc(p) \/ Queue(p)
           \/ \E i \in Slot : Timeout(i) \/ Send(i) \/ Silence(i)
           \/ Push \/ Flush \/ Switch \/ Deinit \/ UNCHANGED vars
  <2>1. acks' = acks /\ dropped' = dropped
    BY <1>6 DEF Age, Alloc, Queue, Timeout, Send, Silence, Push, Flush, Switch, Deinit, vars, ends
  <2>2. ASSUME NEW i \in Slot
        PROVE  /\ info'[i].skb \in {Nobody, info[i].skb}
               /\ info'[i].flow = info[i].flow /\ info'[i].seq = info[i].seq
    <3>1. info \in [Slot -> SessionShape]
      BY <1>1 DEF OnceInv, Shapes
    <3>. HIDE DEF SessionShape
    <3>2. CASE info' = info
      BY <3>2
    <3>3. CASE \E p \in Thread : Age(p)
      <4>1. PICK b : info'[i] = [info[i] EXCEPT !.busy = b]
        BY <3>3 DEF Age
      <4>. QED  BY <3>1, <4>1 DEF SessionShape
    <3>4. CASE \E j \in Slot : Timeout(j)
      <4>1. \/ info' = info
            \/ \E h : info'[i] = [info[i] EXCEPT !.skb = Nobody, !.drop_cnt = 0, !.in_txq_skb = h]
            \/ info'[i] = info[i]
        BY ZenonT(40), <3>1, <3>4 DEF Timeout
      <4>. QED  BY <3>1, <4>1 DEF SessionShape
    <3>5. CASE Push
      <4>1. info'[i] = [info[i] EXCEPT !.in_txq_skb = Nobody] \/ info'[i] = info[i]
        BY <3>5 DEF Push
      <4>. QED  BY <3>1, <4>1 DEF SessionShape
    <3>6. CASE Deinit
      <4>1. info'[i] = [info[i] EXCEPT !.skb = Nobody]
        BY <3>6 DEF Deinit
      <4>. QED  BY <3>1, <4>1 DEF SessionShape
    <3>. QED  BY <1>6, <3>2, <3>3, <3>4, <3>5, <3>6
              DEF Alloc, Queue, Send, Silence, Flush, Switch, vars, sessVars
  <2>. QED  BY <1>1, <1>2, <2>1, <2>2, QuietHonest
<1>. QED  BY <1>3, <1>4, <1>5, <1>6 DEF Next, Step

\* As long as no session has changed hands while in use, the peer misses nothing by the filter:
\* for all it throws away there is an acknowledgement of the same connection, at least as new,
\* that it has not thrown away.
THEOREM NothingDroppedInVain == Spec => []DroppedIsSuperseded
<1>1. SupersededInv => DroppedIsSuperseded
  BY DEF SupersededInv, Honest, Alive, DroppedIsSuperseded
<1>. QED  BY InitSuperseded, StepSuperseded, <1>1, PTL DEF Spec

-----------------------------------------------------------------------------
(* What is in the transmit queue is tracked                                *)

\* No session takes what a thread still carries about for queued, the filter is on without a fault
TrackedInv ==
    /\ OnceInv /\ InTxqIsTracked
    /\ faults \in Nat /\ (faults = 0 => enable)
    /\ \A p \in Thread : thr[p].pc \in {"age", "replace", "alloc", "setup"} =>
          \A i \in Slot : info[i].in_txq_skb # thr[p].ack

\* Whether a is on its way to the transmit queue, or in it, for session i
OnItsWay(a, i) ==
    (\E k \in DOMAIN txq : txq[k] = a) \/ a = sending[i] \/ \E p \in Thread : thr[p].ack = a
Searching == {"age", "replace", "alloc", "setup"}

\* The parts of the invariant
LEMMA TrackedIs ==
  TrackedInv <=>
    /\ OnceInv
    /\ ~mixed /\ faults = 0 =>
         \A i \in Slot : info[i].busy /\ info[i].in_txq_skb # Nobody => OnItsWay(info[i].in_txq_skb, i)
    /\ faults \in Nat /\ (faults = 0 => enable)
    /\ \A p \in Thread : thr[p].pc \in Searching => \A i \in Slot : info[i].in_txq_skb # thr[p].ack
<1>1. InTxqIsTracked <=>
        (~mixed /\ faults = 0 =>
          \A i \in Slot : info[i].busy /\ info[i].in_txq_skb # Nobody => OnItsWay(info[i].in_txq_skb, i))
  BY DEF InTxqIsTracked, OnItsWay, Range
<1>. QED  BY <1>1 DEF TrackedInv, Searching

\* The same after a step
LEMMA TrackedNext ==
  ASSUME OnceInv',
         ~mixed' /\ faults' = 0 =>
           \A i \in Slot : info'[i].busy /\ info'[i].in_txq_skb # Nobody =>
              \/ \E k \in DOMAIN txq' : txq'[k] = info'[i].in_txq_skb
              \/ info'[i].in_txq_skb = sending'[i]
              \/ \E p \in Thread : thr'[p].ack = info'[i].in_txq_skb,
         faults' \in Nat, faults' = 0 => enable',
         \A p \in Thread : thr'[p].pc \in Searching => \A i \in Slot : info'[i].in_txq_skb # thr'[p].ack
  PROVE  TrackedInv'
<1>1. InTxqIsTracked'
  BY DEF InTxqIsTracked, Range
<1>. QED  BY <1>1 DEF TrackedInv, Searching

\* No session has anything in the queue at first.
LEMMA InitTracked == Init => TrackedInv
<1>. SUFFICES ASSUME Init PROVE TrackedInv
  OBVIOUS
<1>1. OnceInv
  BY InitOnce
<1>2. Idle.pc \notin Searching
  BY DEF Idle, Searching
<1>. QED  BY <1>1, <1>2, TrackedIs DEF Init, Nobody

\* The faults of a step, and the filter's switch
LEMMA Faultless ==
  ASSUME TrackedInv, Next
  PROVE  /\ faults' \in Nat /\ (faults' = 0 => faults = 0 /\ enable')
         /\ ~mixed' => ~mixed
         /\ faults' = 0 => ~Flush /\ ~Switch /\ ~Deinit
<1>1. faults \in Nat /\ (faults = 0 => enable)
  BY TrackedIs
<1>2. Flush \/ Switch \/ Deinit => faults' = faults + 1
  BY DEF Flush, Switch, Deinit, Fault
<1>3. (faults' = faults /\ enable' = enable) \/ faults' = faults + 1
  <2>1. CASE \E p \in Thread, f \in Flow, q \in 0..MaxSeq : Xmit(p, f, q)
    BY <2>1 DEF Xmit
  <2>2. CASE \E p \in Thread : Step(p)
    BY ZenonT(40), <2>2 DEF Step, Age, Replace, Alloc, Setup, Queue, Fault, mgrVars
  <2>3. CASE \E i \in Slot : Timeout(i) \/ Send(i) \/ Silence(i)
    BY <2>3 DEF Timeout, Send, Silence, Fault, mgrVars
  <2>4. CASE Push \/ Flush \/ Switch \/ Deinit
    BY <1>2, <2>4 DEF Push, mgrVars
  <2>. QED  BY <2>1, <2>2, <2>3, <2>4 DEF Next
<1>4. ~mixed' => ~mixed
  <2>1. CASE \E p \in Thread : Step(p)
    BY ZenonT(40), <2>1 DEF Step, Age, Replace, Alloc, Setup, Queue
  <2>. QED  BY <2>1 DEF Next, Xmit, Timeout, Send, Silence, Push, Flush, Switch, Deinit
<1>. QED  BY <1>1, <1>2, <1>3, <1>4

\* A step that sends nothing off and changes no session's claim keeps track.
LEMMA QuietTracked ==
  ASSUME TrackedInv, Next, OnceInv',
         \A i \in Slot : /\ info'[i].in_txq_skb = info[i].in_txq_skb
                         /\ ~mixed' /\ info'[i].busy => info[i].busy \/ info[i].in_txq_skb = Nobody,
         ~mixed' /\ faults' = 0 => \A i \in Slot : \A a \in DOMAIN acks : OnItsWay(a, i) =>
              \/ \E k \in DOMAIN txq' : txq'[k] = a
              \/ a = sending'[i]
              \/ \E p \in Thread : thr'[p].ack = a,
         \A p \in Thread : thr'[p].pc \in Searching =>
            (thr[p].pc \in Searching /\ thr'[p].ack = thr[p].ack) \/ thr'[p].ack \notin Known
  PROVE  TrackedInv'
<1>1. \A i \in Slot : info[i].in_txq_skb \in Known
                      /\ (info[i].in_txq_skb # Nobody => info[i].in_txq_skb \in DOMAIN acks)
  <2>1. OnceInv /\ info \in [Slot -> SessionShape]
    BY TrackedIs DEF OnceInv, Shapes
  <2>. QED  BY <2>1, AcksAre DEF SessionShape
<1>2. faults' \in Nat /\ (faults' = 0 => faults = 0 /\ enable') /\ (~mixed' => ~mixed)
  BY Faultless
<1>3. ~mixed' /\ faults' = 0 =>
        \A i \in Slot : info'[i].busy /\ info'[i].in_txq_skb # Nobody =>
           \/ \E k \in DOMAIN txq' : txq'[k] = info'[i].in_txq_skb
           \/ info'[i].in_txq_skb = sending'[i]
           \/ \E p \in Thread : thr'[p].ack = info'[i].in_txq_skb
  <2>. SUFFICES ASSUME ~mixed', faults' = 0, NEW i \in Slot, info'[i].busy,
                       info'[i].in_txq_skb # Nobody
                PROVE  \/ \E k \in DOMAIN txq' : txq'[k] = info'[i].in_txq_skb
                       \/ info'[i].in_txq_skb = sending'[i]
                       \/ \E p \in Thread : thr'[p].ack = info'[i].in_txq_skb
    OBVIOUS
  <2>1. PICK a : a = info[i].in_txq_skb
    OBVIOUS
  <2>2. a \in DOMAIN acks /\ OnItsWay(a, i)
    BY <1>1, <1>2, <2>1, TrackedIs
  <2>. QED  BY <2>1, <2>2
<1>4. ASSUME NEW p \in Thread, thr'[p].pc \in Searching, NEW i \in Slot
      PROVE  info'[i].in_txq_skb # thr'[p].ack
  <2>1. info'[i].in_txq_skb \in Known /\ info'[i].in_txq_skb = info[i].in_txq_skb
    BY <1>1
  <2>2. thr[p].pc \in Searching => info[i].in_txq_skb # thr[p].ack
    BY TrackedIs
  <2>. QED  BY <1>4, <2>1, <2>2
<1>. QED  BY <1>2, <1>3, <1>4, TrackedNext

\* Threads that look for a session, or set one up
LEMMA SearchTracked ==
  ASSUME TrackedInv, NEW p \in Thread, Age(p) \/ Alloc(p) \/ Setup(p)
  PROVE  TrackedInv'
<1>1. /\ OnceInv /\ OnceInv' /\ Next /\ thr[p].pc \in Searching
      /\ txq' = txq /\ sending' = sending
  BY TrackedIs, SearchOnce DEF Next, Step, Age, Alloc, Setup, sessVars, Searching
<1>2. \A q \in Thread : thr'[q].ack = thr[q].ack /\ (q # p => thr'[q] = thr[q])
  <2>1. \E l, i : Goto(p, l, i)
    BY DEF Age, Alloc, Setup
  <2>. QED  BY <1>1, <2>1 DEF Goto, OnceInv, Shapes
<1>3. ASSUME NEW i \in Slot
      PROVE  /\ info'[i].in_txq_skb = info[i].in_txq_skb
             /\ ~mixed' /\ info'[i].busy => info[i].busy \/ info[i].in_txq_skb = Nobody
  <2>1. info[i] \in SessionShape
    BY <1>1 DEF OnceInv, Shapes
  <2>2. CASE Age(p)
    <3>1. PICK b : info'[i] = [info[i] EXCEPT !.busy = info[i].busy /\ b]
      BY <2>2 DEF Age
    <3>. QED  BY <2>1, <3>1 DEF SessionShape
  <2>3. CASE Alloc(p)
    BY <2>3 DEF Alloc, sessVars
  <2>4. CASE Setup(p)
    <3>1. /\ info' = [info EXCEPT ![thr[p].i] =
                        [@ EXCEPT !.busy = TRUE, !.drop_cnt = MaxDrop,
                                  !.flow = Mine(p).flow, !.seq = Mine(p).seq]]
          /\ ~mixed' => info[thr[p].i].in_txq_skb = Nobody
      BY <2>4 DEF Setup
    <3>2. CASE i = thr[p].i
      <4>1. PICK f, q : info'[i] = [info[i] EXCEPT !.busy = TRUE, !.drop_cnt = MaxDrop,
                                                   !.flow = f, !.seq = q]
        BY <1>1, <3>1, <3>2 DEF OnceInv, Shapes
      <4>. QED  BY <2>1, <3>1, <3>2, <4>1 DEF SessionShape
    <3>3. CASE i # thr[p].i
      BY <1>1, <3>1, <3>3 DEF OnceInv, Shapes
    <3>. QED  BY <3>2, <3>3
  <2>. QED  BY <2>2, <2>3, <2>4
<1>. QED  BY <1>1, <1>2, <1>3, QuietTracked DEF OnItsWay

\* The acknowledgement that passes becomes what the session takes to be on its way; the one thrown
\* away, no session has taken for queued.
LEMMA ReplaceTracked ==
  ASSUME TrackedInv, NEW p \in Thread, NEW type \in {1, 2}, Replace(p, type)
  PROVE  TrackedInv'
<1>1. PICK i, c, s, r : /\ i = thr[p].i /\ c = thr[p].ack /\ s = info[i] /\ r = Replaced(p, type)
  OBVIOUS
<1>2. /\ OnceInv /\ OnceInv' /\ Next /\ thr[p].pc = "replace"
      /\ UNCHANGED <<txq, sending, faults, enable>>
      /\ info' = [info EXCEPT ![i] = r]
      /\ IF Passes(p, type) THEN Goto(p, "queue", 0) ELSE thr' = [thr EXCEPT ![p] = Idle]
      /\ ~mixed' => ~mixed
  BY <1>1, TrackedIs, ReplaceOnce DEF Next, Step, Replace, mgrVars
<1>3. /\ i \in Slot /\ c \in DOMAIN acks /\ c # Nobody /\ Single(c) /\ s \in SessionShape
      /\ info \in [Slot -> SessionShape]
  BY <1>1, <1>2, CarriedAck, AcksAre DEF OnceInv, Shapes
<1>4. /\ \A q \in Thread : q # p => thr[q].ack # c
      /\ \A j \in Slot : info[j].in_txq_skb # c
  <2>1. thr[p].pc \in Searching
    BY <1>2 DEF Searching
  <2>. QED  BY <1>1, <1>3, <2>1, Alone, TrackedIs
<1>5. /\ ~Passes(p, type) => r.in_txq_skb = s.in_txq_skb
      /\ Passes(p, type) => r.in_txq_skb \in {Nobody, c}
  BY <1>1, <1>2, ReplacedIs
<1>6. r.busy = s.busy
  <2>1. PICK q, d, e : q = Mine(p).seq /\ d = s.drop_cnt + 1 /\ e = thr[p].ack
    OBVIOUS
  <2>2. \/ r = s
        \/ r = [[s EXCEPT !.seq = q] EXCEPT !.skb = e, !.drop_cnt = d]
        \/ r = [[s EXCEPT !.seq = q] EXCEPT !.skb = Nobody, !.in_txq_skb = Nobody,
                                            !.drop_cnt = MaxDrop]
        \/ r = [[s EXCEPT !.seq = q] EXCEPT !.skb = Nobody, !.in_txq_skb = e, !.drop_cnt = 0]
    BY <1>1, <1>3, <2>1 DEF Replaced, SessionShape
  <2>. QED  BY <1>3, <2>2 DEF SessionShape
<1>7. \A j \in Slot : info'[j] = IF j = i THEN r ELSE info[j]
  BY <1>2, <1>3
<1>8. /\ \A q \in Thread : q # p => thr'[q] = thr[q]
      /\ Passes(p, type) => thr'[p].ack = c /\ thr'[p].pc = "queue"
      /\ ~Passes(p, type) => thr'[p] = Idle
  BY <1>1, <1>2 DEF Goto, OnceInv, Shapes
<1>9. ASSUME NEW q \in Thread, thr'[q].pc \in Searching, NEW j \in Slot
      PROVE  info'[j].in_txq_skb # thr'[q].ack
  <2>1. q # p /\ thr'[q] = thr[q]
    BY <1>8, <1>9 DEF Idle, Searching
  <2>2. thr[q].ack # c /\ info[j].in_txq_skb # thr[q].ack /\ thr[q].ack # Nobody
    BY <1>2, <1>4, <1>9, <2>1, TrackedIs DEF OnceInv, Shapes, Searching
  <2>. QED  BY <1>1, <1>5, <1>7, <2>1, <2>2
<1>10. ASSUME ~mixed', faults' = 0, NEW j \in Slot, info'[j].busy, info'[j].in_txq_skb # Nobody
       PROVE  \/ \E k \in DOMAIN txq' : txq'[k] = info'[j].in_txq_skb
              \/ info'[j].in_txq_skb = sending'[j]
              \/ \E q \in Thread : thr'[q].ack = info'[j].in_txq_skb
  <2>1. PICK a : a = info'[j].in_txq_skb
    OBVIOUS
  <2>2. CASE a = c
    <3>1. Passes(p, type)
      BY <1>1, <1>4, <1>5, <1>7, <2>1, <2>2
    <3>. QED  BY <1>8, <2>1, <2>2, <3>1
  <2>3. CASE a # c
    <3>1. a = info[j].in_txq_skb /\ info[j].busy
      BY <1>1, <1>5, <1>6, <1>7, <1>10, <2>1, <2>3
    <3>2. OnItsWay(a, j)
      BY <1>2, <1>10, <2>1, <3>1, TrackedIs
    <3>3. \A q \in Thread : thr[q].ack = a => thr'[q].ack = a
      BY <1>1, <1>8, <2>3
    <3>. QED  BY <1>2, <2>1, <3>2, <3>3 DEF OnItsWay
  <2>. QED  BY <2>2, <2>3
<1>11. faults' \in Nat /\ (faults' = 0 => enable')
  BY <1>2, TrackedIs
<1>. QED  BY <1>2, <1>9, <1>10, <1>11, TrackedNext

\* What has been queued by a thread or a callback is in the queue.
LEMMA QueueTracked ==
  ASSUME TrackedInv, (\E p \in Thread : Queue(p)) \/ (\E i \in Slot : Send(i))
  PROVE  TrackedInv'
<1>1. /\ OnceInv /\ OnceInv' /\ Next /\ info' = info
  BY TrackedIs, StepOnce DEF Next, Step, Queue, Send, sessVars
<1>2. faults' = 0 => faults = 0
  BY <1>1, Faultless
<1>3. PICK c : /\ faults' = 0 => txq' = Append(txq, c)
               /\ \/ \E p \in Thread : /\ c = thr[p].ack /\ thr' = [thr EXCEPT ![p] = Idle]
                                       /\ sending' = sending /\ thr[p].pc # "idle"
                  \/ \E i \in Slot : /\ c = sending[i] /\ sending' = [sending EXCEPT ![i] = Nobody]
                                     /\ thr' = thr /\ sending[i] # Nobody
  <2>1. CASE \E p \in Thread : Queue(p)
    <3>1. PICK p \in Thread : Queue(p)
      BY <2>1
    <3>2. PICK c : c = thr[p].ack
      OBVIOUS
    <3>3. faults' = 0 => txq' = Append(txq, c)
      BY <1>2, <3>1, <3>2 DEF Queue, Fault
    <3>. QED  BY <3>1, <3>2, <3>3 DEF Queue, sessVars
  <2>2. CASE \E i \in Slot : Send(i)
    <3>1. PICK i \in Slot : Send(i)
      BY <2>2
    <3>2. PICK c : c = sending[i]
      OBVIOUS
    <3>3. faults' = 0 => txq' = Append(txq, c)
      BY <1>2, <3>1, <3>2 DEF Send, Fault
    <3>. QED  BY <3>1, <3>2, <3>3 DEF Send
  <2>. QED  BY <2>1, <2>2
<1>4. c \in Known \ {Nobody} /\ txq \in Seq(Known \ {Nobody})
  BY <1>1, <1>3 DEF OnceInv, Shapes, Nobody
<1>5. faults' = 0 => \A a : (a = c \/ \E k \in DOMAIN txq : txq[k] = a) =>
                               \E k \in DOMAIN txq' : txq'[k] = a
  BY <1>3, <1>4, Appended
<1>6. ASSUME faults' = 0, NEW i \in Slot, NEW a \in DOMAIN acks, OnItsWay(a, i)
      PROVE  \/ \E k \in DOMAIN txq' : txq'[k] = a
             \/ a = sending'[i]
             \/ \E p \in Thread : thr'[p].ack = a
  <2>1. CASE a = c \/ \E k \in DOMAIN txq : txq[k] = a
    BY <1>5, <1>6, <2>1
  <2>2. CASE a # c
    BY <1>1, <1>3, <1>5, <1>6, <2>2 DEF OnItsWay, OnceInv, Shapes
  <2>. QED  BY <2>1, <2>2
<1>7. ASSUME NEW p \in Thread, thr'[p].pc \in Searching PROVE thr'[p] = thr[p]
  BY <1>1, <1>3, <1>7 DEF Idle, Searching, OnceInv, Shapes
<1>. QED  BY <1>1, <1>6, <1>7, QuietTracked

\* What the timer's callback takes is what its session takes to be on its way.
LEMMA TimeoutTracked == ASSUME TrackedInv, NEW i \in Slot, Timeout(i) PROVE TrackedInv'
<1>1. /\ OnceInv /\ OnceInv' /\ Next /\ UNCHANGED <<thr, txq, faults, enable, mixed>> /\ sending[i] = Nobody
  BY TrackedIs, TimeoutOnce DEF Next, Timeout, mgrVars
<1>2. CASE info' = info /\ sending' = sending
  BY <1>1, <1>2, QuietTracked DEF OnItsWay
<1>3. CASE ~(info' = info /\ sending' = sending)
  <2>1. PICK h, s, t : /\ h = s.skb /\ s = info[i]
                       /\ t = [s EXCEPT !.skb = Nobody, !.drop_cnt = 0, !.in_txq_skb = h]
    OBVIOUS
  <2>2. /\ sending' = [sending EXCEPT ![i] = h] /\ h # Nobody
        /\ info' = [info EXCEPT ![i] = t]
    BY <1>3, <2>1 DEF Timeout
  <2>3. s \in SessionShape /\ h \in DOMAIN acks
    BY <1>1, <2>1, <2>2, AcksAre DEF OnceInv, Shapes, SessionShape
  <2>4. t.in_txq_skb = h /\ Single(h)
    BY <1>1, <2>1, <2>3 DEF OnceInv, SessionShape
  <2>5. \A p \in Thread : thr[p].ack # h
    BY <1>1, <2>1, <2>4, Alone
  <2>6. \A j \in Slot : /\ j # i => info'[j] = info[j] /\ sending'[j] = sending[j]
                        /\ info'[i].in_txq_skb = h /\ sending'[i] = h
    BY <1>1, <2>2, <2>4 DEF OnceInv, Shapes
  <2>7. ASSUME NEW p \in Thread, thr'[p].pc \in Searching, NEW j \in Slot
        PROVE  info'[j].in_txq_skb # thr'[p].ack
    BY <1>1, <2>5, <2>6, <2>7, TrackedIs
  <2>8. ASSUME ~mixed', faults' = 0, NEW j \in Slot, info'[j].busy, info'[j].in_txq_skb # Nobody
        PROVE  \/ \E k \in DOMAIN txq' : txq'[k] = info'[j].in_txq_skb
               \/ info'[j].in_txq_skb = sending'[j]
               \/ \E p \in Thread : thr'[p].ack = info'[j].in_txq_skb
    <3>1. CASE j = i
      BY <2>6, <3>1
    <3>2. CASE j # i
      <4>1. OnItsWay(info[j].in_txq_skb, j)
        BY <1>1, <2>6, <2>8, <3>2, TrackedIs
      <4>. QED  BY <1>1, <2>6, <3>2, <4>1 DEF OnItsWay
    <3>. QED  BY <3>1, <3>2
  <2>9. faults' \in Nat /\ (faults' = 0 => enable')
    BY <1>1, TrackedIs
  <2>. QED  BY <1>1, <2>7, <2>8, <2>9, TrackedNext
<1>. QED  BY <1>2, <1>3

\* The session hears of the push of what it has queued.
LEMMA PushTracked == ASSUME TrackedInv, Push PROVE TrackedInv'
<1>1. /\ OnceInv /\ OnceInv' /\ Next /\ UNCHANGED <<thr, sending, faults, enable, mixed>>
      /\ txq # <<>> /\ txq' = Tail(txq)
  BY TrackedIs, PushOnce DEF Next, Push, mgrVars
<1>2. PICK c : c = Head(txq)
  OBVIOUS
<1>3. \A k \in DOMAIN txq : txq[k] # c => \E l \in DOMAIN txq' : txq'[l] = txq[k]
  <2>1. txq \in Seq(Known \ {Nobody})
    BY <1>1 DEF OnceInv, Shapes
  <2>. QED  BY <1>1, <1>2, <2>1, Tailed
<1>4. ASSUME NEW i \in Slot
      PROVE  /\ info'[i].in_txq_skb \in {Nobody, info[i].in_txq_skb} /\ info'[i].busy = info[i].busy
             /\ enable /\ info[i].busy /\ info[i].in_txq_skb = c => info'[i].in_txq_skb = Nobody
  <2>1. info[i] \in SessionShape
    BY <1>1 DEF OnceInv, Shapes
  <2>2. info'[i] = IF enable /\ info[i].busy /\ info[i].in_txq_skb = c
                   THEN [info[i] EXCEPT !.in_txq_skb = Nobody] ELSE info[i]
    BY <1>2 DEF Push
  <2>3. CASE enable /\ info[i].busy /\ info[i].in_txq_skb = c
    <3>1. info'[i] = [info[i] EXCEPT !.in_txq_skb = Nobody]
      BY <2>2, <2>3
    <3>. QED  BY <2>1, <3>1 DEF SessionShape
  <2>4. CASE ~(enable /\ info[i].busy /\ info[i].in_txq_skb = c)
    BY <2>2, <2>4
  <2>. QED  BY <2>3, <2>4
<1>5. faults' \in Nat /\ (faults' = 0 => enable')
  BY <1>1, TrackedIs
<1>6. ASSUME NEW p \in Thread, thr'[p].pc \in Searching, NEW i \in Slot
      PROVE  info'[i].in_txq_skb # thr'[p].ack
  <2>1. thr[p].ack # Nobody /\ info[i].in_txq_skb # thr[p].ack
    BY <1>1, <1>6, TrackedIs DEF OnceInv, Shapes, Searching
  <2>. QED  BY <1>1, <1>4, <2>1
<1>7. ASSUME ~mixed', faults' = 0, NEW i \in Slot, info'[i].busy, info'[i].in_txq_skb # Nobody
      PROVE  \/ \E k \in DOMAIN txq' : txq'[k] = info'[i].in_txq_skb
             \/ info'[i].in_txq_skb = sending'[i]
             \/ \E p \in Thread : thr'[p].ack = info'[i].in_txq_skb
  <2>1. PICK a : a = info[i].in_txq_skb
    OBVIOUS
  <2>2. info'[i].in_txq_skb = a /\ info[i].busy /\ a # c /\ a # Nobody
    BY <1>1, <1>4, <1>5, <1>7, <2>1
  <2>3. OnItsWay(a, i)
    BY <1>1, <1>7, <2>1, <2>2, TrackedIs
  <2>. QED  BY <1>1, <1>3, <2>2, <2>3 DEF OnItsWay
<1>. QED  BY <1>1, <1>5, <1>6, <1>7, TrackedNext

\* Every step keeps track.
LEMMA StepTracked == TrackedInv /\ [Next]_vars => TrackedInv'
<1>. SUFFICES ASSUME TrackedInv, [Next]_vars PROVE TrackedInv'
  OBVIOUS
<1>1. OnceInv /\ OnceInv'
  BY StepOnce, TrackedIs
<1>2. CASE \E p \in Thread : Step(p)
  BY <1>2, SearchTracked, ReplaceTracked, QueueTracked DEF Step
<1>3. CASE \E i \in Slot : Timeout(i) \/ Send(i)
  BY <1>3, TimeoutTracked, QueueTracked
<1>4. CASE Push
  BY <1>4, PushTracked
<1>5. CASE \E p \in Thread, f \in Flow, q \in 0..MaxSeq : Xmit(p, f, q)
  <2>1. PICK p \in Thread, f \in Flow, q \in 0..MaxSeq : Xmit(p, f, q)
    BY <1>5
  <2>2. PICK n, l, j : /\ thr' = [thr EXCEPT ![p] = [ack |-> n, pc |-> l, i |-> j]]
                       /\ n = Len(acks) + 1
    BY <2>1 DEF Xmit
  <2>3. n \notin Known /\ thr[p].ack = Nobody
    BY <1>1, <2>1, <2>2 DEF Xmit, OnceInv, Shapes, Known
  <2>4. \A r \in Thread : IF r = p THEN thr'[r].ack = n ELSE thr'[r] = thr[r]
    BY <1>1, <2>2 DEF OnceInv, Shapes
  <2>5. Next /\ UNCHANGED <<info, sending, txq>>
    BY <2>1 DEF Next, Xmit, sessVars
  <2>. QED  BY <1>1, <2>3, <2>4, <2>5, QuietTracked, AcksAre DEF OnItsWay
<1>6. CASE Flush \/ Switch \/ Deinit
  <2>1. Next /\ faults' # 0 /\ thr' = thr
    BY <1>6, Faultless DEF Next, Flush, Switch, Deinit
  <2>2. ASSUME NEW i \in Slot
        PROVE  info'[i].in_txq_skb = info[i].in_txq_skb /\ info'[i].busy = info[i].busy
    <3>1. info'[i] = info[i] \/ info'[i] = [info[i] EXCEPT !.skb = Nobody]
      BY <1>6 DEF Flush, Switch, Deinit, sessVars
    <3>2. info[i] \in SessionShape
      BY <1>1 DEF OnceInv, Shapes
    <3>. QED  BY <3>1, <3>2 DEF SessionShape
  <2>. QED  BY <1>1, <2>1, <2>2, QuietTracked
<1>7. CASE \E i \in Slot : Silence(i)
  <2>1. Next /\ UNCHANGED <<info, sending, txq, thr>>
    BY <1>7 DEF Next, Silence
  <2>. QED  BY <1>1, <2>1, QuietTracked DEF OnItsWay
<1>8. CASE UNCHANGED vars
  <2>1. UNCHANGED <<info, sending, txq, thr, mixed, faults, enable>>
    BY <1>8 DEF vars, sessVars, mgrVars
  <2>. QED  BY <1>1, <2>1, TrackedNext, TrackedIs DEF OnItsWay
<1>. QED  BY <1>2, <1>3, <1>4, <1>5, <1>6, <1>7, <1>8 DEF Next

\* What a session takes to be in the transmit queue is there, or with a thread or a callback that
\* will queue it, so that the session hears of its push; as long as nothing fails and no session
\* has changed hands while in use.
THEOREM SessionsHearOfPushes == Spec => []InTxqIsTracked
<1>1. TrackedInv => InTxqIsTracked
  BY DEF TrackedInv
<1>. QED  BY InitTracked, StepTracked, <1>1, PTL DEF Spec
=============================================================================
