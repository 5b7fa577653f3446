------------------------------- MODULE TcpAck -------------------------------
(***************************************************************************)
(* The filter of TCP acknowledgements, aml_tcp_ack.c.  An acknowledgement  *)
(* that only moves a connection forward is held back in the connection's   *)
(* session; a newer one replaces it, and every max_drop_cnt-th, or the one *)
(* held when the timer expires, is queued.  The transmit path tells the    *)
(* session when the one it queued has been pushed to the firmware.         *)
(*                                                                         *)
(* Each thread is a transmission of the stack on its own netdev queue; the *)
(* acknowledgements of a connection go through one queue, so that no two   *)
(* threads carry the same connection.  The steps of a thread end where the *)
(* code leaves a lock.                                                     *)
(*                                                                         *)
(* Abstracted: the four addresses of a connection, its station and its     *)
(* interface are Flow; the window scale only decides about the type; a     *)
(* session is old when more than its timeout (5 s) has passed since        *)
(* last_time, long after its timer (30 ms) has expired.                    *)
(*                                                                         *)
(* A definition D_Variant is D with a plausible mistake, used only to see  *)
(* that the properties notice it.                                          *)
(***************************************************************************)
EXTENDS Integers, Sequences, FiniteSets, SequencesExt, FiniteSetsExt

CONSTANTS
    Thread, Flow,
    None,
    Slots,     \* AML_TCP_SESS_NUM
    MaxDrop,   \* max_drop_cnt
    MaxSeq,    \* bound on sequence numbers
    Bounds     \* what to explore: records of bounds on the acknowledgements of the stack, on the
               \* threads at work at once, and on the faults: frames lost, queues flushed, the
               \* filter switched or taken down

ASSUME TcpAckAssumption ==
    /\ None \notin Flow
    /\ Slots \in Nat \ {0} /\ MaxDrop \in Nat \ {0}
    /\ MaxSeq \in Nat /\ \A b \in Bounds : {b.acks, b.threads, b.faults} \subseteq Nat

Slot == 0..Slots - 1
Nobody == 0                \* no acknowledgement; they are numbered from 1

VARIABLES
    bound,     \* the bounds
    enable, used_num, free_index,
    due,       \* the table has not been aged for its timeout
    info,      \* tcp_info: the sessions
    old,       \* sessions whose last_time is more than timeout ago
    timer,     \* sessions whose timer is pending
    sending,   \* sending[i]: what the callback of i has taken and not yet queued
    thr,       \* the threads: where they are, what they carry, and the index they found
    acks,      \* the acknowledgements so far: connection and sequence number
    txq,       \* acknowledgements in the transmit queues
    dropped,   \* history: replaced by the filter
    lost,      \* history: freed by a failing transmission or by a flush
    pushed,    \* history: given to the firmware
    missed,    \* history: sessions whose timer expired while it could do nothing
    mixed,     \* history: a session changed hands while it was in use
    faults

sessVars == <<info, old, timer, sending>>
mgrVars  == <<enable, used_num, free_index, due>>
ends     == <<dropped, lost, pushed>>
vars == <<bound, mgrVars, sessVars, thr, acks, txq, ends, missed, mixed, faults>>

Idle == [pc |-> "idle", ack |-> Nobody, i |-> 0]

TypeOK ==
    /\ bound \in Bounds
    /\ enable \in BOOLEAN /\ due \in BOOLEAN /\ used_num \in Int /\ free_index \in Slot \cup {-1}
    /\ info \in [Slot -> [busy: BOOLEAN, flow: Flow \cup {None}, seq: 0..MaxSeq, drop_cnt: Nat,
                          skb: 0..bound.acks, in_txq_skb: 0..bound.acks]]
    /\ old \subseteq Slot /\ timer \subseteq Slot /\ missed \subseteq Slot
    /\ sending \in [Slot -> 0..bound.acks]
    /\ thr \in [Thread -> [pc: {"idle", "age", "replace", "alloc", "setup", "queue"},
                           ack: 0..bound.acks, i: Slot]]
    /\ acks \in Seq([flow: Flow, seq: 0..MaxSeq]) /\ Len(acks) <= bound.acks
    /\ txq \in Seq(1..bound.acks) /\ dropped \cup lost \cup pushed \subseteq 1..bound.acks
    /\ mixed \in BOOLEAN /\ faults \in 0..bound.faults

Init ==
    /\ bound \in Bounds
    /\ enable = TRUE /\ used_num = 0 /\ free_index = 0 /\ due = FALSE
    /\ info = [i \in Slot |-> [busy |-> FALSE, flow |-> None, seq |-> 0, drop_cnt |-> 0,
                               skb |-> Nobody, in_txq_skb |-> Nobody]]
    /\ old = {} /\ timer = {} /\ sending = [i \in Slot |-> Nobody]
    /\ thr = [p \in Thread |-> Idle] /\ acks = <<>> /\ txq = <<>>
    /\ dropped = {} /\ lost = {} /\ pushed = {} /\ missed = {} /\ mixed = FALSE /\ faults = 0

Fault == faults < bound.faults /\ faults' = faults + 1
FlowOf(a) == acks[a].flow
Mine(p)   == acks[thr[p].ack]
Goto(p, l, i) == thr' = [thr EXCEPT ![p].pc = l, ![p].i = i]
Carried(f) == \E p \in Thread : thr[p].pc # "idle" /\ Mine(p).flow = f

-----------------------------------------------------------------------------
\* aml_filter_tx_tcp_ack

Matching(f) == {i \in Slot : info[i].busy /\ info[i].flow = f}
Found(S) == IF S = {} THEN [pc |-> "alloc", i |-> 0] ELSE [pc |-> "replace", i |-> Min(S)]

Xmit(p, f, q) ==
    /\ thr[p].pc = "idle" /\ Len(acks) < bound.acks /\ ~Carried(f)
    /\ Cardinality({u \in Thread : thr[u].pc # "idle"}) < bound.threads
    /\ acks' = Append(acks, [flow |-> f, seq |-> q])
    /\ due' = (due /\ ~enable)
    /\ LET next == IF ~enable THEN [pc |-> "queue", i |-> 0]
                   ELSE IF due THEN [pc |-> "age", i |-> 0]
                   ELSE Found(Matching(f))
       IN thr' = [thr EXCEPT ![p] = [ack |-> Len(acks) + 1, pc |-> next.pc, i |-> next.i]]
    /\ UNCHANGED <<bound, enable, used_num, free_index, sessVars, txq, ends, missed, mixed, faults>>

\* aml_tcp_sess_ageout, then aml_tcp_sess_find.  used_num is not under the lock of the table here:
\* if another thread changes it too, an update may be lost.
Age(p) ==
    /\ thr[p].pc = "age"
    /\ LET aged == {i \in old : info[i].busy}
       IN /\ info' = [i \in Slot |-> [info[i] EXCEPT !.busy = @ /\ i \notin aged]]
          /\ free_index' = IF aged = {} THEN free_index ELSE Min(aged)
          /\ used_num' \in {used_num - Cardinality(aged)} \cup
                 IF \E q \in Thread \ {p} : thr[q].pc \in {"age", "alloc"} THEN {used_num} ELSE {}
          /\ LET next == Found(Matching(Mine(p).flow) \ aged) IN Goto(p, next.pc, next.i)
    /\ UNCHANGED <<bound, enable, due, old, timer, sending, acks, txq, ends, missed, mixed, faults>>

\* What aml_replace_tcp_ack does to the session, and whether the new acknowledgement passes; one
\* of type 2 carries more than an acknowledgement, or a small window, and always does
Newer_Older(p) == info[thr[p].i].seq >= Mine(p).seq
Newer(p) == info[thr[p].i].seq <= Mine(p).seq     \* AML_U32_BEFORE
Passes(p, type) ==
    LET s == info[thr[p].i]
    IN Newer(p) /\ (type = 2 \/ (s.in_txq_skb = Nobody /\ s.drop_cnt + 1 >= MaxDrop))

Replaced_Keeps(p, type) ==
    LET s == info[thr[p].i]
        new == [s EXCEPT !.seq = Mine(p).seq]
    IN IF ~Newer(p) THEN s
       ELSE IF ~Passes(p, type) THEN [new EXCEPT !.skb = thr[p].ack, !.drop_cnt = @ + 1]
       ELSE IF type = 2
            THEN [new EXCEPT !.skb = Nobody, !.in_txq_skb = Nobody, !.drop_cnt = MaxDrop]
       ELSE [new EXCEPT !.in_txq_skb = thr[p].ack, !.drop_cnt = 0]
Replaced(p, type) ==
    LET s == info[thr[p].i]
        new == [s EXCEPT !.seq = Mine(p).seq]
    IN IF ~Newer(p) THEN s
       ELSE IF ~Passes(p, type) THEN [new EXCEPT !.skb = thr[p].ack, !.drop_cnt = @ + 1]
       ELSE IF type = 2
            THEN [new EXCEPT !.skb = Nobody, !.in_txq_skb = Nobody, !.drop_cnt = MaxDrop]
       ELSE [new EXCEPT !.skb = Nobody, !.in_txq_skb = thr[p].ack, !.drop_cnt = 0]

Replace_Unarmed(p, type) ==
    /\ thr[p].pc = "replace"
    /\ LET i == thr[p].i
       IN /\ info' = [info EXCEPT ![i] = Replaced(p, type)]
          /\ old' = old \ {i}
          /\ dropped' = dropped \cup ({IF Newer(p) THEN info[i].skb ELSE thr[p].ack} \ {Nobody})
          /\ timer' = IF ~Newer(p) THEN timer
                      ELSE IF ~Passes(p, type) THEN timer
                      ELSE IF type = 1 \/ info[i].skb # Nobody THEN timer \ {i} ELSE timer
          /\ missed' = IF ~Newer(p) \/ i \in timer THEN missed ELSE missed \ {i}
          /\ mixed' = (mixed \/ info[i].flow # Mine(p).flow)
    /\ IF Passes(p, type) THEN Goto(p, "queue", 0) ELSE thr' = [thr EXCEPT ![p] = Idle]
    /\ UNCHANGED <<bound, mgrVars, sending, acks, txq, lost, pushed, faults>>
Replace(p, type) ==
    /\ thr[p].pc = "replace"
    /\ LET i == thr[p].i
       IN /\ info' = [info EXCEPT ![i] = Replaced(p, type)]
          /\ old' = old \ {i}
          /\ dropped' = dropped \cup ({IF Newer(p) THEN info[i].skb ELSE thr[p].ack} \ {Nobody})
          /\ timer' = IF ~Newer(p) THEN timer
                      ELSE IF ~Passes(p, type) THEN timer \cup {i}
                      ELSE IF type = 1 \/ info[i].skb # Nobody THEN timer \ {i} ELSE timer
          /\ missed' = IF ~Newer(p) \/ i \in timer THEN missed ELSE missed \ {i}
          /\ mixed' = (mixed \/ info[i].flow # Mine(p).flow)
    /\ IF Passes(p, type) THEN Goto(p, "queue", 0) ELSE thr' = [thr EXCEPT ![p] = Idle]
    /\ UNCHANGED <<bound, mgrVars, sending, acks, txq, lost, pushed, faults>>

\* aml_alloc_tcp_sess does not mark the session it returns, and a writer of a session may make
\* the scan read it, and count it, once more
FreeSlots == {i \in Slot : ~info[i].busy}
Alloc(p) ==
    /\ thr[p].pc = "alloc"
    /\ LET writes == \E q \in Thread \ {p} : thr[q].pc \in {"age", "setup", "replace"}
       IN \/ /\ used_num = Slots
             /\ Goto(p, "queue", 0) /\ UNCHANGED <<used_num, free_index>>
          \/ /\ used_num # Slots /\ free_index >= 0
             /\ Goto(p, "setup", free_index) /\ free_index' = -1
             /\ used_num' = used_num + 1
          \/ /\ used_num # Slots /\ free_index < 0 /\ FreeSlots # {}
             /\ Goto(p, "setup", Min(FreeSlots)) /\ free_index' = -1
             /\ used_num' \in {used_num + 1} \cup (IF writes THEN {used_num + 2} ELSE {})
          \/ /\ used_num # Slots /\ free_index < 0 /\ FreeSlots = {}
             /\ Goto(p, "queue", 0) /\ UNCHANGED <<used_num, free_index>>
    /\ UNCHANGED <<bound, enable, due, sessVars, acks, txq, ends, missed, mixed, faults>>

Setup(p) ==
    /\ thr[p].pc = "setup"
    /\ LET i == thr[p].i
       IN /\ info' = [info EXCEPT ![i] = [@ EXCEPT !.busy = TRUE, !.drop_cnt = MaxDrop,
                                                   !.flow = Mine(p).flow, !.seq = Mine(p).seq]]
          /\ old' = old \ {i} /\ timer' = timer \cup {i}
          /\ missed' = missed \ {i}
          /\ mixed' = (mixed \/ info[i].skb # Nobody \/ info[i].in_txq_skb # Nobody)
    /\ Goto(p, "queue", 0)
    /\ UNCHANGED <<bound, mgrVars, sending, acks, txq, ends, faults>>

\* The rest of aml_start_xmit: the frame is queued, or freed
Queue(p) ==
    /\ thr[p].pc = "queue" /\ thr' = [thr EXCEPT ![p] = Idle]
    /\ \/ txq' = Append(txq, thr[p].ack) /\ UNCHANGED <<lost, faults>>
       \/ Fault /\ lost' = lost \cup {thr[p].ack} /\ UNCHANGED txq
    /\ UNCHANGED <<bound, mgrVars, sessVars, acks, dropped, pushed, missed, mixed>>

-----------------------------------------------------------------------------
\* aml_tcp_ack_timeout, and aml_send_tcp_ack after the lock is released

Timeout(i) ==
    /\ i \in timer /\ sending[i] = Nobody
    /\ timer' = timer \ {i}
    /\ IF info[i].busy /\ info[i].skb # Nobody /\ info[i].in_txq_skb = Nobody
       THEN /\ sending' = [sending EXCEPT ![i] = info[i].skb]
            /\ info' = [info EXCEPT ![i] = [@ EXCEPT !.skb = Nobody, !.drop_cnt = 0,
                                                     !.in_txq_skb = info[i].skb]]
            /\ UNCHANGED missed
       ELSE /\ missed' = IF info[i].skb # Nobody THEN missed \cup {i} ELSE missed
            /\ UNCHANGED <<sending, info>>
    /\ UNCHANGED <<bound, mgrVars, old, thr, acks, txq, ends, mixed, faults>>

Send(i) ==
    /\ sending[i] # Nobody /\ sending' = [sending EXCEPT ![i] = Nobody]
    /\ \/ txq' = Append(txq, sending[i]) /\ UNCHANGED <<lost, faults>>
       \/ Fault /\ lost' = lost \cup {sending[i]} /\ UNCHANGED txq
    /\ UNCHANGED <<bound, mgrVars, info, old, timer, thr, acks, dropped, pushed, missed, mixed>>

-----------------------------------------------------------------------------
\* The transmit path: aml_hwq_process pushes a frame and calls aml_check_tcpack_skb

Push_Keeps ==
    /\ txq # <<>> /\ txq' = Tail(txq) /\ pushed' = pushed \cup {Head(txq)}
    /\ UNCHANGED <<bound, mgrVars, sessVars, thr, acks, dropped, lost, missed, mixed, faults>>
Push ==
    /\ txq # <<>> /\ txq' = Tail(txq) /\ pushed' = pushed \cup {Head(txq)}
    /\ info' = [i \in Slot |->
                  IF enable /\ info[i].busy /\ info[i].in_txq_skb = Head(txq)
                  THEN [info[i] EXCEPT !.in_txq_skb = Nobody] ELSE info[i]]
    /\ UNCHANGED <<bound, mgrVars, old, timer, sending, thr, acks, dropped, lost, missed, mixed,
                   faults>>

Flush ==
    /\ txq # <<>> /\ Fault
    /\ txq' = <<>> /\ lost' = lost \cup Range(txq)
    /\ UNCHANGED <<bound, mgrVars, sessVars, thr, acks, dropped, pushed, missed, mixed>>

\* A second interface switches the filter off, without a look at what is held, and its end on
Switch ==
    /\ Fault /\ enable' = ~enable
    /\ UNCHANGED <<bound, used_num, free_index, due, sessVars, thr, acks, txq, ends, missed, mixed>>

\* aml_tcp_delay_ack_deinit
Deinit ==
    /\ Fault /\ enable' = FALSE /\ timer' = {}
    /\ info' = [i \in Slot |-> [info[i] EXCEPT !.skb = Nobody]]
    /\ lost' = lost \cup ({info[i].skb : i \in Slot} \ {Nobody})
    /\ UNCHANGED <<bound, used_num, free_index, due, old, sending, thr, acks, txq, dropped, pushed, missed,
                   mixed>>

\* Time: five seconds without an acknowledgement of a connection, or since the last ageing
Silence(i) ==
    /\ i \notin old \cup timer /\ sending[i] = Nobody /\ info[i].busy
    /\ ~Carried(info[i].flow) /\ \A p \in Thread : thr[p].pc \notin {"replace", "setup"} \/ thr[p].i # i
    /\ old' = old \cup {i} /\ due' = TRUE
    /\ UNCHANGED <<bound, enable, used_num, free_index, info, timer, sending, thr, acks, txq, ends, missed,
                   mixed, faults>>

Step(p) ==
    Age(p) \/ (\E type \in {1, 2} : Replace(p, type)) \/ Alloc(p) \/ Setup(p) \/ Queue(p)

Next ==
    \/ \E p \in Thread :
         \/ \E f \in Flow, q \in 0..MaxSeq : Xmit(p, f, q)
         \/ Step(p)
    \/ \E i \in Slot : Timeout(i) \/ Send(i) \/ Silence(i)
    \/ Push \/ Flush \/ Switch \/ Deinit

Spec == Init /\ [][Next]_vars

-----------------------------------------------------------------------------
\* Properties

\* Wherever an acknowledgement can be
Places(a) ==
    {<<"thread", p>> : p \in {p \in Thread : thr[p].ack = a}}
    \cup {<<"held", i>> : i \in {i \in Slot : info[i].skb = a}}
    \cup {<<"timer", i>> : i \in {i \in Slot : sending[i] = a}}
    \cup {<<"txq", k>> : k \in {k \in DOMAIN txq : txq[k] = a}}
    \cup {<<"end", s>> : s \in {s \in {"dropped", "lost", "pushed"} :
             a \in CASE s = "dropped" -> dropped [] s = "lost" -> lost [] OTHER -> pushed}}

\* Every acknowledgement is in one place: a session, its timer, a thread and the transmit path
\* never own one at the same time, none is freed twice, and none is left without an owner.
AckOnce == \A a \in DOMAIN acks : Cardinality(Places(a)) = 1

\* An acknowledgement that the filter threw away is made good by one of the same connection that
\* is at least as new and was not thrown away, as long as no session changed hands while in use.
DroppedIsSuperseded ==
    ~mixed => \A a \in dropped : \E b \in DOMAIN acks \ dropped :
                  FlowOf(b) = FlowOf(a) /\ acks[b].seq >= acks[a].seq

\* A held acknowledgement has a timer that will send it, unless that timer has expired while
\* the session still had one in the transmit queue or was no longer in use.
HeldHasTimer == \A i \in Slot : info[i].skb # Nobody /\ i \notin missed => i \in timer

\* What a session takes to be in the transmit queue is on its way there, as long as nothing is
\* lost and the filter stays on; the session holds back all that follows until it hears of it.
InTxqIsTracked ==
    ~mixed /\ faults = 0 =>
        \A i \in Slot : info[i].busy /\ info[i].in_txq_skb # Nobody =>
            LET a == info[i].in_txq_skb
            IN \/ a \in Range(txq) \/ a = sending[i]
               \/ \E p \in Thread : thr[p].ack = a

=============================================================================
