---------------------------- MODULE CmdMgr_proofs ----------------------------
(* Theorems about the command manager, for any set of commands, any bus, any *)
(* bound of the list and any combination of faults.                          *)
EXTENDS CmdMgr, SequenceTheorems, TLAPS

-----------------------------------------------------------------------------
(* list_del                                                                 *)

\* list_del removes one element and keeps the others (cmd_complete).
LEMMA ListDelProperties ==
  ASSUME NEW S, NEW s \in Seq(S), NEW i \in DOMAIN s
  PROVE  /\ ListDel(s, i) \in Seq(S)
         /\ Len(ListDel(s, i)) = Len(s) - 1
         /\ DOMAIN ListDel(s, i) = 1..(Len(s) - 1)
         /\ \A k \in 1..(Len(s) - 1) :
               ListDel(s, i)[k] = IF k < i THEN s[k] ELSE s[k + 1]
<1>1. Len(s) \in Nat /\ DOMAIN s = 1..Len(s) /\ \A k \in 1..Len(s) : s[k] \in S
  BY LenProperties, ElementOfSeq
<1>2. \A k \in 1..(i - 1) : s[k] \in S
  BY <1>1
<1>3. \A k \in (i + 1)..Len(s) : s[k] \in S
  BY <1>1
<1> DEFINE a == SubSeq(s, 1, i - 1)
           b == SubSeq(s, i + 1, Len(s))
<1>4. /\ a \in Seq(S) /\ Len(a) = i - 1
      /\ \A k \in 1..(i - 1) : a[k] = s[k]
  BY <1>1, <1>2, SubSeqProperties
<1>5. /\ b \in Seq(S) /\ Len(b) = Len(s) - i
      /\ \A k \in 1..(Len(s) - i) : b[k] = s[i + k]
  BY <1>1, <1>3, SubSeqProperties
<1>6. /\ a \o b \in Seq(S) /\ Len(a \o b) = Len(s) - 1
      /\ \A k \in 1..(Len(s) - 1) : (a \o b)[k] = IF k <= i - 1 THEN a[k] ELSE b[k - (i - 1)]
  <2>1. Len(a) + Len(b) = Len(s) - 1
    BY <1>1, <1>4, <1>5
  <2> HIDE DEF a, b
  <2>2. /\ a \o b \in Seq(S) /\ Len(a \o b) = Len(a) + Len(b)
        /\ \A k \in 1..(Len(a) + Len(b)) :
              (a \o b)[k] = IF k <= Len(a) THEN a[k] ELSE b[k - Len(a)]
    BY <1>4, <1>5, ConcatProperties, Zenon
  <2>. QED  BY <1>4, <2>1, <2>2
<1>7. ASSUME NEW k \in 1..(Len(s) - 1)
      PROVE  (a \o b)[k] = IF k < i THEN s[k] ELSE s[k + 1]
  <2> HIDE DEF a, b
  <2>1. i \in 1..Len(s) /\ k \in Nat
    BY <1>1
  <2>2. CASE k < i
    <3>1. k <= i - 1 /\ k \in 1..(i - 1)
      BY <1>1, <2>1, <2>2
    <3>2. (a \o b)[k] = a[k] /\ a[k] = s[k]
      BY <1>4, <1>6, <3>1
    <3>. QED  BY <2>2, <3>2
  <2>3. CASE ~(k < i)
    <3> DEFINE m == k - (i - 1)
    <3>1. ~(k <= i - 1) /\ m \in 1..(Len(s) - i) /\ i + m = k + 1
      BY <1>1, <2>1, <2>3
    <3> HIDE DEF m
    <3>2. (a \o b)[k] = b[m] /\ b[m] = s[i + m]
      BY <1>5, <1>6, <3>1 DEF m
    <3>. QED  BY <2>3, <3>1, <3>2
  <2>. QED  BY <2>2, <2>3
<1>8. DOMAIN (a \o b) = 1..(Len(s) - 1)
  <2> HIDE DEF a, b
  <2>. QED  BY <1>6, LenProperties
<1>. QED  BY <1>6, <1>7, <1>8 DEF ListDel

-----------------------------------------------------------------------------
(* The inductive invariant of the list                                      *)

\* A command is in the list once and has passed cmd_mgr_queue, and aml_msg_task holds a
\* command from the moment it picked one until it freed the message.
EachOnce       == \A i, j \in DOMAIN cmds : cmds[i] = cmds[j] => i = j
ListedIsQueued == \A c \in Cmd : InList(c) => pc[c] \notin {"idle", "queue"}
TaskHolds      == taskPc # "idle" => taskCmd \in Cmd

ListInv == TypeOK /\ EachOnce /\ ListedIsQueued /\ TaskHolds

\* The list starts empty.
LEMMA InitListInv == Init => ListInv
<1>. SUFFICES ASSUME Init PROVE ListInv
  OBVIOUS
<1>. USE CmdAssumption
<1>1. TypeOK
  <2>1. MgrType
    BY DEF Init, MgrType, States
  <2>2. CmdType
    BY DEF Init, CmdType, Result, Mem
  <2>3. ControlType
    BY DEF Init, ControlType, CallPc
  <2>4. FwType
    <3>1. fwUp \in BOOLEAN /\ fwAckIrq \in BOOLEAN
      BY Zenon DEF Init
    <3>2. fwInbox \in Cmd \cup {NoCmd} /\ fwOwes \in Seq(Cmd) /\ e2a \in Seq(Cmd)
      BY EmptySeq DEF Init
    <3>. QED  BY <3>1, <3>2 DEF FwType
  <2>. QED  BY <2>1, <2>2, <2>3, <2>4 DEF TypeOK
<1>2. EachOnce
  BY DEF Init, EachOnce
<1>3. ListedIsQueued /\ TaskHolds
  BY DEF Init, ListedIsQueued, InList, TaskHolds
<1>. QED  BY <1>1, <1>2, <1>3 DEF ListInv

\* The list does not change.
LEMMA SameList ==
  ASSUME ListInv, UNCHANGED cmds,
         \A c \in Cmd : pc'[c] = pc[c] \/ pc'[c] \notin {"idle", "queue"}
                        \/ (pc[c] = "idle" /\ pc'[c] = "queue")
  PROVE  EachOnce' /\ ListedIsQueued'
BY DEF ListInv, EachOnce, ListedIsQueued, InList

\* queue_sz++ and queue_sz-- stay within a u32.
LEMMA Counted ==
  ASSUME NEW n \in 0..(Wrap - 1)
  PROVE  Inc(n) \in 0..(Wrap - 1) /\ Dec(n) \in 0..(Wrap - 1)
BY CmdAssumption DEF Inc, Dec

\* list_del keeps every command in the list once, and queue_sz-- its type.
LEMMA OneRemoved ==
  ASSUME ListInv, NEW i \in DOMAIN cmds,
         cmds' = ListDel(cmds, i), queue_sz' = Dec(queue_sz),
         \A c \in Cmd : pc'[c] = pc[c] \/ pc'[c] \notin {"idle", "queue"}
  PROVE  EachOnce' /\ ListedIsQueued' /\ (state' \in States => MgrType')
<1>1. cmds \in Seq(Cmd) /\ queue_sz \in 0..(Wrap - 1) /\ DOMAIN cmds = 1..Len(cmds) /\ Len(cmds) \in Nat
  BY LenProperties DEF ListInv, TypeOK, MgrType
<1>2. /\ cmds' \in Seq(Cmd)
      /\ Len(cmds') = Len(cmds) - 1
      /\ DOMAIN cmds' = 1..(Len(cmds) - 1)
      /\ \A k \in 1..(Len(cmds) - 1) :
            cmds'[k] = IF k < i THEN cmds[k] ELSE cmds[k + 1]
  BY <1>1, ListDelProperties
<1>3. \A a, b \in DOMAIN cmds : cmds[a] = cmds[b] => a = b
  BY DEF ListInv, EachOnce
<1>4. queue_sz' \in 0..(Wrap - 1)
  BY <1>1, Counted
<1> DEFINE was(k) == IF k < i THEN k ELSE k + 1
<1>5. \A k \in DOMAIN cmds' : was(k) \in DOMAIN cmds /\ cmds'[k] = cmds[was(k)]
  BY <1>1, <1>2
<1>6. EachOnce'
  <2>1. ASSUME NEW a \in DOMAIN cmds', NEW b \in DOMAIN cmds', cmds'[a] = cmds'[b]
        PROVE  a = b
    <3>1. was(a) = was(b)
      <4> HIDE DEF was
      <4>. QED  BY <1>3, <1>5, <2>1
    <3>. QED  BY <1>1, <1>2, <3>1
  <2>. QED  BY <2>1 DEF EachOnce
<1>7. ASSUME NEW c, InList(c)'
      PROVE  InList(c)
  <2> HIDE DEF was
  <2>. QED  BY <1>5, <1>7 DEF InList
<1>8. ListedIsQueued'
  BY <1>7 DEF ListInv, ListedIsQueued
<1>. QED  BY <1>2, <1>4, <1>6, <1>8 DEF MgrType

\* ipc_host_msg_push leaves the firmware with a command in its mailbox.
LEMMA MailboxTyped ==
  ASSUME FwType, NEW c \in Cmd, Mailbox(c)
  PROVE  FwType'
<1>1. fwOwes' \in Seq(Cmd)
  BY AppendProperties DEF FwType, Mailbox
<1>2. fwUp' \in BOOLEAN /\ fwAckIrq' \in BOOLEAN
  BY Zenon DEF FwType, Mailbox
<1>. QED  BY <1>1, <1>2 DEF FwType, Mailbox

-----------------------------------------------------------------------------
(* One lemma per action that leaves the list alone                           *)

\* aml_send_msg hands over or refuses a message.
LEMMA SendMsgStep ==
  ASSUME ListInv, NEW c \in Cmd, SendMsg(c)
  PROVE  ListInv'
<1>. USE CmdAssumption DEF ListInv, TypeOK, mgrVars, cmdVars, memVars, taskVars, fwVars
<1>1. MgrType'
  BY DEF MgrType, SendMsg
<1>2. CmdType'
  BY DEF CmdType, Result, Mem, Flag, SendMsg, Drop
<1>3. ControlType'
  BY DEF ControlType, CallPc, Err, SendMsg, Drop
<1>4. FwType'
  BY DEF FwType, SendMsg
<1>5. EachOnce' /\ ListedIsQueued'
  BY SameList DEF ControlType, SendMsg, Drop
<1>6. TaskHolds'
  BY DEF TaskHolds, SendMsg
<1>. QED  BY <1>1, <1>2, <1>3, <1>4, <1>5, <1>6

\* The manager refuses a command.
LEMMA QueueRefuseStep ==
  ASSUME ListInv, NEW c \in Cmd, QueueRefuse(c)
  PROVE  ListInv'
<1>. USE CmdAssumption DEF ListInv, TypeOK, mgrVars, cmdVars, memVars, taskVars, fwVars
<1>1. MgrType'
  BY DEF MgrType, QueueRefuse
<1>2. CmdType'
  BY DEF CmdType, Result, Mem, Flag, QueueRefuse
<1>3. ControlType'
  BY DEF ControlType, CallPc, Err, QueueRefuse, Leave
<1>4. FwType'
  BY DEF FwType, QueueRefuse
<1>5. EachOnce' /\ ListedIsQueued'
  BY SameList DEF ControlType, QueueRefuse, Leave
<1>6. TaskHolds'
  BY DEF TaskHolds, QueueRefuse
<1>. QED  BY <1>1, <1>2, <1>3, <1>4, <1>5, <1>6

\* The manager is gone when the caller reaches it.
LEMMA QueueGoneStep ==
  ASSUME ListInv, NEW c \in Cmd, QueueGone(c)
  PROVE  ListInv'
<1>. USE CmdAssumption DEF ListInv, TypeOK, mgrVars, cmdVars, memVars, taskVars, fwVars
<1>1. MgrType'
  BY DEF MgrType, QueueGone
<1>2. CmdType'
  BY DEF CmdType, Result, Mem, Flag, QueueGone
<1>3. ControlType'
  BY DEF ControlType, CallPc, Err, QueueGone
<1>4. FwType'
  BY DEF FwType, QueueGone
<1>5. EachOnce' /\ ListedIsQueued'
  BY SameList DEF ControlType, QueueGone
<1>6. TaskHolds'
  BY DEF TaskHolds, QueueGone
<1>. QED  BY <1>1, <1>2, <1>3, <1>4, <1>5, <1>6

\* The caller leaves its command to aml_msg_task.
LEMMA HandToTaskStep ==
  ASSUME ListInv, NEW c \in Cmd, HandToTask(c)
  PROVE  ListInv'
<1>. USE CmdAssumption DEF ListInv, TypeOK, mgrVars, cmdVars, memVars, taskVars, fwVars
<1>1. MgrType'
  BY DEF MgrType, HandToTask
<1>2. CmdType'
  BY DEF CmdType, Result, Mem, Flag, HandToTask
<1>3. ControlType'
  BY DEF ControlType, CallPc, Err, HandToTask, Touch
<1>4. FwType'
  BY DEF FwType, HandToTask
<1>5. EachOnce' /\ ListedIsQueued'
  BY SameList DEF ControlType, HandToTask
<1>6. TaskHolds'
  BY DEF TaskHolds, HandToTask
<1>. QED  BY <1>1, <1>2, <1>3, <1>4, <1>5, <1>6

\* The caller fills the mailbox.
LEMMA PushStep ==
  ASSUME ListInv, NEW c \in Cmd, Push(c)
  PROVE  ListInv'
<1>. USE CmdAssumption DEF ListInv, TypeOK, mgrVars, cmdVars, memVars, taskVars, fwVars
<1>1. MgrType'
  BY DEF MgrType, Push
<1>2. CmdType'
  BY DEF CmdType, Result, Mem, Flag, Push
<1>3. ControlType'
  BY DEF ControlType, CallPc, Err, Push, Touch, Mailbox
<1>4. FwType'
  <2>1. CASE Mailbox(c)
    BY <2>1, MailboxTyped
  <2>2. CASE UNCHANGED fwVars
    BY <2>2 DEF FwType
  <2>. QED  BY <2>1, <2>2 DEF Push
<1>5. EachOnce' /\ ListedIsQueued'
  BY SameList DEF ControlType, Push
<1>6. TaskHolds'
  BY DEF TaskHolds, Push
<1>. QED  BY <1>1, <1>2, <1>3, <1>4, <1>5, <1>6

\* The caller frees the message it pushed.
LEMMA FreeMsgStep ==
  ASSUME ListInv, NEW c \in Cmd, FreeMsg(c)
  PROVE  ListInv'
<1>. USE CmdAssumption DEF ListInv, TypeOK, mgrVars, cmdVars, memVars, taskVars, fwVars
<1>1. MgrType'
  BY DEF MgrType, FreeMsg
<1>2. CmdType'
  BY DEF CmdType, Result, Mem, Flag, FreeMsg
<1>3. ControlType'
  BY DEF ControlType, CallPc, Err, FreeMsg, Touch, FreeMsgOf
<1>4. FwType'
  BY DEF FwType, FreeMsg
<1>5. EachOnce' /\ ListedIsQueued'
  BY SameList DEF ControlType, FreeMsg
<1>6. TaskHolds'
  BY DEF TaskHolds, FreeMsg
<1>. QED  BY <1>1, <1>2, <1>3, <1>4, <1>5, <1>6

\* The wait of the caller ends.
LEMMA WaitEndsStep ==
  ASSUME ListInv, NEW c \in Cmd, WaitEnds(c)
  PROVE  ListInv'
<1>. USE CmdAssumption DEF ListInv, TypeOK, mgrVars, cmdVars, memVars, taskVars, fwVars
<1>1. MgrType'
  BY DEF MgrType, WaitEnds
<1>2. CmdType'
  BY DEF CmdType, Result, Mem, Flag, WaitEnds
<1>3. ControlType'
  BY DEF ControlType, CallPc, Err, WaitEnds, Touch
<1>4. FwType'
  BY DEF FwType, WaitEnds
<1>5. EachOnce' /\ ListedIsQueued'
  BY SameList DEF ControlType, WaitEnds
<1>6. TaskHolds'
  BY DEF TaskHolds, WaitEnds
<1>. QED  BY <1>1, <1>2, <1>3, <1>4, <1>5, <1>6

\* The polling of a killed caller ends.
LEMMA PollEndsStep ==
  ASSUME ListInv, NEW c \in Cmd, PollEnds(c)
  PROVE  ListInv'
<1>. USE CmdAssumption DEF ListInv, TypeOK, mgrVars, cmdVars, memVars, taskVars, fwVars
<1>1. MgrType'
  BY DEF MgrType, PollEnds
<1>2. CmdType'
  BY DEF CmdType, Result, Mem, Flag, PollEnds
<1>3. ControlType'
  BY DEF ControlType, CallPc, Err, PollEnds, Touch
<1>4. FwType'
  BY DEF FwType, PollEnds
<1>5. EachOnce' /\ ListedIsQueued'
  BY SameList DEF ControlType, PollEnds
<1>6. TaskHolds'
  BY DEF TaskHolds, PollEnds
<1>. QED  BY <1>1, <1>2, <1>3, <1>4, <1>5, <1>6

\* The caller frees its command.
LEMMA ReturnStep ==
  ASSUME ListInv, NEW c \in Cmd, Return(c)
  PROVE  ListInv'
<1>. USE CmdAssumption DEF ListInv, TypeOK, mgrVars, cmdVars, memVars, taskVars, fwVars
<1>1. MgrType'
  BY DEF MgrType, Return
<1>2. CmdType'
  BY DEF CmdType, Result, Mem, Flag, Return
<1>3. ControlType'
  BY DEF ControlType, CallPc, Err, Return, FreeCmd
<1>4. FwType'
  BY DEF FwType, Return
<1>5. EachOnce' /\ ListedIsQueued'
  BY SameList DEF ControlType, Return
<1>6. TaskHolds'
  BY DEF TaskHolds, Return
<1>. QED  BY <1>1, <1>2, <1>3, <1>4, <1>5, <1>6

\* The interrupt takes the command out of the mailbox.
LEMMA MsgAckStep ==
  ASSUME ListInv, MsgAck
  PROVE  ListInv'
<1>. USE CmdAssumption DEF ListInv, TypeOK, mgrVars, cmdVars, memVars, taskVars, fwVars
<1>1. MgrType'
  BY DEF MgrType, MsgAck
<1>2. CmdType'
  BY DEF CmdType, Result, Mem, Flag, MsgAck
<1>3. ControlType'
  BY DEF ControlType, CallPc, Err, MsgAck
<1>4. FwType'
  BY DEF FwType, MsgAck
<1>5. EachOnce' /\ ListedIsQueued'
  BY SameList DEF ControlType, MsgAck
<1>6. TaskHolds'
  BY DEF TaskHolds, MsgAck
<1>. QED  BY <1>1, <1>2, <1>3, <1>4, <1>5, <1>6

\* The acknowledged command is not in the list.
LEMMA AckLostStep ==
  ASSUME ListInv, AckLost
  PROVE  ListInv'
<1>. USE CmdAssumption DEF ListInv, TypeOK, mgrVars, cmdVars, memVars, taskVars, fwVars
<1>1. MgrType'
  BY DEF MgrType, AckLost
<1>2. CmdType'
  BY DEF CmdType, Result, Mem, Flag, AckLost
<1>3. ControlType'
  BY DEF ControlType, CallPc, Err, AckLost, Touch
<1>4. FwType'
  BY DEF FwType, AckLost
<1>5. EachOnce' /\ ListedIsQueued'
  BY SameList DEF ControlType, AckLost
<1>6. TaskHolds'
  BY DEF TaskHolds, AckLost
<1>. QED  BY <1>1, <1>2, <1>3, <1>4, <1>5, <1>6

\* The acknowledged command still waits for its confirmation.
LEMMA AckPartialStep ==
  ASSUME ListInv, AckPartial
  PROVE  ListInv'
<1>. USE CmdAssumption DEF ListInv, TypeOK, mgrVars, cmdVars, memVars, taskVars, fwVars
<1>1. MgrType'
  BY DEF MgrType, AckPartial
<1>2. CmdType'
  BY DEF CmdType, Result, Mem, Flag, AckPartial
<1>3. ControlType'
  BY DEF ControlType, CallPc, Err, AckPartial, Touch
<1>4. FwType'
  BY DEF FwType, AckPartial
<1>5. EachOnce' /\ ListedIsQueued'
  BY SameList DEF ControlType, AckPartial
<1>6. TaskHolds'
  BY DEF TaskHolds, AckPartial
<1>. QED  BY <1>1, <1>2, <1>3, <1>4, <1>5, <1>6

\* Nobody waits for the confirmation.
LEMMA CfmLostStep ==
  ASSUME ListInv, CfmLost
  PROVE  ListInv'
<1>. USE CmdAssumption DEF ListInv, TypeOK, mgrVars, cmdVars, memVars, taskVars, fwVars
<1>1. MgrType'
  BY DEF MgrType, CfmLost
<1>2. CmdType'
  BY DEF CmdType, Result, Mem, Flag, CfmLost
<1>3. ControlType'
  BY DEF ControlType, CallPc, Err, CfmLost
<1>4. FwType'
  BY DEF FwType, CfmLost
<1>5. EachOnce' /\ ListedIsQueued'
  BY SameList DEF ControlType, CfmLost
<1>6. TaskHolds'
  BY DEF TaskHolds, CfmLost
<1>. QED  BY <1>1, <1>2, <1>3, <1>4, <1>5, <1>6

\* aml_msg_task looks for a command to push.
LEMMA TaskPickStep ==
  ASSUME ListInv, TaskPick
  PROVE  ListInv'
<1>. USE CmdAssumption DEF ListInv, TypeOK, mgrVars, cmdVars, memVars, taskVars, fwVars
<1>1. MgrType' /\ CmdType' /\ FwType'
  BY DEF MgrType, CmdType, FwType, TaskPick
<1>2. \A i \in FirstWaitPush : cmds[i] \in Cmd
  <2>. SUFFICES ASSUME NEW i \in DOMAIN cmds PROVE cmds[i] \in Cmd
    BY DEF FirstWaitPush, NextIdx, WaitsPush
  <2>. QED  BY ElementOfSeq, LenProperties DEF MgrType
<1>3. ControlType' /\ TaskHolds'
  BY <1>2 DEF ControlType, TaskHolds, Err, TaskPick
<1>4. EachOnce' /\ ListedIsQueued'
  BY SameList DEF TaskPick
<1>. QED  BY <1>1, <1>3, <1>4

\* aml_msg_task fills the mailbox.
LEMMA TaskPushStep ==
  ASSUME ListInv, TaskPush
  PROVE  ListInv'
<1>. USE CmdAssumption DEF ListInv, TypeOK, mgrVars, cmdVars, memVars, taskVars, fwVars
<1>1. MgrType'
  BY DEF MgrType, TaskPush
<1>2. CmdType'
  BY DEF CmdType, Result, Mem, Flag, TaskPush
<1>3. ControlType'
  BY DEF ControlType, CallPc, Err, TaskPush, Touch, Mailbox
<1>4. FwType'
  BY MailboxTyped DEF TaskHolds, TaskPush
<1>5. EachOnce' /\ ListedIsQueued'
  BY SameList DEF ControlType, TaskPush
<1>6. TaskHolds'
  BY DEF TaskHolds, TaskPush
<1>. QED  BY <1>1, <1>2, <1>3, <1>4, <1>5, <1>6

\* aml_msg_task frees the message.
LEMMA TaskFreeStep ==
  ASSUME ListInv, TaskFree
  PROVE  ListInv'
<1>. USE CmdAssumption DEF ListInv, TypeOK, mgrVars, cmdVars, memVars, taskVars, fwVars
<1>1. MgrType'
  BY DEF MgrType, TaskFree
<1>2. CmdType'
  BY DEF CmdType, Result, Mem, Flag, TaskFree
<1>3. ControlType'
  BY DEF ControlType, CallPc, Err, TaskFree, Touch, FreeMsgOf
<1>4. FwType'
  BY DEF FwType, TaskFree
<1>5. EachOnce' /\ ListedIsQueued'
  BY SameList DEF ControlType, TaskFree
<1>6. TaskHolds'
  BY DEF TaskHolds, TaskFree
<1>. QED  BY <1>1, <1>2, <1>3, <1>4, <1>5, <1>6

\* The firmware acknowledges.
LEMMA FwAckStep ==
  ASSUME ListInv, FwAck
  PROVE  ListInv'
<1>. USE CmdAssumption DEF ListInv, TypeOK, mgrVars, cmdVars, memVars, taskVars, fwVars
<1>1. MgrType'
  BY DEF MgrType, FwAck
<1>2. CmdType'
  BY DEF CmdType, Result, Mem, Flag, FwAck
<1>3. ControlType'
  BY DEF ControlType, CallPc, Err, FwAck
<1>4. FwType'
  BY DEF FwType, FwAck
<1>5. EachOnce' /\ ListedIsQueued'
  BY SameList DEF ControlType, FwAck
<1>6. TaskHolds'
  BY DEF TaskHolds, FwAck
<1>. QED  BY <1>1, <1>2, <1>3, <1>4, <1>5, <1>6

\* The firmware falls silent.
LEMMA FwStopStep ==
  ASSUME ListInv, FwStop
  PROVE  ListInv'
<1>. USE CmdAssumption DEF ListInv, TypeOK, mgrVars, cmdVars, memVars, taskVars, fwVars
<1>1. MgrType'
  BY DEF MgrType, FwStop
<1>2. CmdType'
  BY DEF CmdType, Result, Mem, Flag, FwStop
<1>3. ControlType'
  BY DEF ControlType, CallPc, Err, FwStop
<1>4. FwType'
  BY DEF FwType, FwStop
<1>5. EachOnce' /\ ListedIsQueued'
  BY SameList DEF ControlType, FwStop
<1>6. TaskHolds'
  BY DEF TaskHolds, FwStop
<1>. QED  BY <1>1, <1>2, <1>3, <1>4, <1>5, <1>6

\* The IPC comes up.
LEMMA IpcInitStep ==
  ASSUME ListInv, IpcInit
  PROVE  ListInv'
<1>. USE CmdAssumption DEF ListInv, TypeOK, mgrVars, cmdVars, memVars, taskVars, fwVars
<1>1. MgrType'
  BY DEF MgrType, IpcInit, States
<1>2. CmdType'
  BY DEF CmdType, Result, Mem, Flag, IpcInit, States
<1>3. ControlType'
  BY DEF ControlType, CallPc, Err, IpcInit, States
<1>4. FwType'
  BY DEF FwType, IpcInit
<1>5. EachOnce' /\ ListedIsQueued'
  BY SameList DEF ControlType, IpcInit, States
<1>6. TaskHolds'
  BY DEF TaskHolds, IpcInit, States
<1>. QED  BY <1>1, <1>2, <1>3, <1>4, <1>5, <1>6

-----------------------------------------------------------------------------
(* The actions that change the list, or the sequences of the firmware        *)

\* cmd_mgr_queue appends a command that is in no list: it fits, and it is new.
LEMMA QueueAcceptStep ==
  ASSUME ListInv, NEW c \in Cmd, QueueAccept(c)
  PROVE  ListInv'
<1>. USE CmdAssumption DEF ListInv, TypeOK, mgrVars, cmdVars, memVars, taskVars, fwVars
<1>1. cmds \in Seq(Cmd) /\ Len(cmds) \in Nat /\ DOMAIN cmds = 1..Len(cmds)
  BY LenProperties DEF MgrType
<1>2. /\ cmds' \in Seq(Cmd) /\ Len(cmds') = Len(cmds) + 1
      /\ DOMAIN cmds' = 1..(Len(cmds) + 1)
      /\ \A k \in 1..Len(cmds) : cmds'[k] = cmds[k]
      /\ cmds'[Len(cmds) + 1] = c
  <2>1. cmds' = Append(cmds, c)
    BY DEF QueueAccept
  <2>. QED  BY <1>1, <2>1, AppendProperties, LenProperties
<1>3. MgrType'
  BY <1>2, Counted DEF MgrType, QueueAccept
<1>4. CmdType'
  BY DEF CmdType, Result, Flag, QueueAccept
<1>5. ControlType'
  BY DEF ControlType, CallPc, QueueAccept, NotDeferredPc
<1>6. FwType' /\ TaskHolds'
  BY DEF FwType, TaskHolds, QueueAccept
<1>7. EachOnce'
  <2>2. \A k \in DOMAIN cmds : cmds[k] # c
    BY DEF ListedIsQueued, InList, QueueAccept
  <2>3. \A i, j \in DOMAIN cmds' : cmds'[i] = cmds'[j] => i = j
    BY <1>1, <1>2, <2>2 DEF EachOnce
  <2>. QED  BY <2>3 DEF EachOnce
<1>8. ListedIsQueued'
  <2>1. \A d \in Cmd : InList(d)' => InList(d) \/ d = c
    BY <1>1, <1>2 DEF InList
  <2>2. pc'[c] \notin {"idle", "queue"} /\ \A d \in Cmd : d # c => pc'[d] = pc[d]
    BY DEF QueueAccept, ControlType, NotDeferredPc
  <2>. QED  BY <2>1, <2>2 DEF ListedIsQueued
<1>. QED  BY <1>3, <1>4, <1>5, <1>6, <1>7, <1>8

\* cmd_complete keeps every command in the list once, whoever it completes.
LEMMA UnlinkStep ==
  ASSUME ListInv, NEW c \in Cmd, Unlink(c), state' \in States,
         \A d \in Cmd : pc'[d] = pc[d] \/ pc'[d] \notin {"idle", "queue"}
  PROVE  MgrType' /\ EachOnce' /\ ListedIsQueued'
<1>1. CASE \E i \in DOMAIN cmds : cmds' = ListDel(cmds, i)
  BY <1>1, OneRemoved DEF Unlink
<1>2. CASE UNCHANGED cmds
  <2>1. queue_sz' \in 0..(Wrap - 1)
    BY Counted DEF Unlink, ListInv, TypeOK, MgrType
  <2>. QED  BY <1>2, <2>1, SameList DEF ListInv, TypeOK, MgrType
<1>. QED  BY <1>1, <1>2 DEF Unlink

\* The time-out crashes the manager and completes the command.
LEMMA ExpireStep ==
  ASSUME ListInv, NEW c \in Cmd, Expire(c)
  PROVE  ListInv'
<1>. USE CmdAssumption DEF ListInv, TypeOK, mgrVars, cmdVars, memVars, taskVars, fwVars
<1>1. CmdType'
  BY DEF CmdType, Result, Flag, Expire
<1>2. ControlType' /\ FwType' /\ TaskHolds'
  BY DEF ControlType, CallPc, Err, FwType, TaskHolds, Expire, Touch, UnlinkErr
<1>3. /\ state' \in States
      /\ \A d \in Cmd : pc'[d] = pc[d] \/ pc'[d] \notin {"idle", "queue"}
  BY DEF Expire, Crashed, States, ControlType, MgrType
<1>4. MgrType' /\ EachOnce' /\ ListedIsQueued'
  <2>1. CASE Unlink(c)
    BY <1>3, <2>1, UnlinkStep
  <2>2. CASE UNCHANGED <<cmds, queue_sz>>
    BY <1>3, <2>2, SameList DEF MgrType
  <2>. QED  BY <2>1, <2>2 DEF Expire
<1>. QED  BY <1>1, <1>2, <1>4

\* The time-out of a drained command may fault before it changes the list.
LEMMA ExpireFaultsStep ==
  ASSUME ListInv, NEW c \in Cmd, ExpireFaults(c)
  PROVE  ListInv'
<1>. USE CmdAssumption DEF ListInv, TypeOK, mgrVars, cmdVars, memVars, taskVars, fwVars
<1>1. CmdType'
  BY DEF CmdType, Result, ExpireFaults
<1>2. ControlType' /\ FwType' /\ TaskHolds'
  BY DEF ControlType, CallPc, Err, FwType, TaskHolds, ExpireFaults, Touch, UnlinkErr
<1>3. MgrType'
  BY DEF ExpireFaults, Crashed, States, MgrType
<1>4. EachOnce' /\ ListedIsQueued'
  BY SameList DEF ExpireFaults, ControlType
<1>. QED  BY <1>1, <1>2, <1>3, <1>4

\* cmd_complete leaves a well-typed command.
LEMMA FinishTyped ==
  ASSUME CmdType, NEW c \in Cmd, NEW f \in SUBSET Flag,
         NEW others \in [Cmd -> SUBSET Flag], Finish(c, f, others),
         req' = req, cfmFrom' \in [Cmd -> Cmd \cup {NoCmd}], msgMem' \in [Cmd -> Mem]
  PROVE  CmdType'
<1>1. flags' \in [Cmd -> SUBSET Flag]
  BY DEF Finish, Flag
<1>2. completion' \in [Cmd -> BOOLEAN]
  BY DEF Finish, CmdType
<1>3. result' \in [Cmd -> Result] /\ cmdMem' \in [Cmd -> Mem]
  BY DEF Finish, CmdType, Result, Mem
<1>. QED  BY <1>1, <1>2, <1>3 DEF CmdType

\* An acknowledgement that completes its command unlinks it, and on PCIe pushes
\* the first command that waits.
LEMMA AckLastStep ==
  ASSUME ListInv, AckLast
  PROVE  ListInv'
<1>. USE CmdAssumption DEF ListInv, TypeOK, mgrVars, cmdVars, memVars, taskVars, fwVars
<1> DEFINE f == flags[irqAck] \ {"WAIT_ACK"}
<1>1. irqAck \in Cmd /\ f \in SUBSET Flag
  BY DEF AckLast, ControlType, CmdType
<1>2. MgrType' /\ EachOnce' /\ ListedIsQueued'
  BY <1>1, UnlinkStep DEF AckLast, MgrType
<1>3. \A i \in NextIdx(irqAck) : cmds[i] \in Cmd
  <2>. SUFFICES ASSUME NEW i \in DOMAIN cmds PROVE cmds[i] \in Cmd
    BY DEF NextIdx, WaitsPush
  <2>. QED  BY ElementOfSeq, LenProperties DEF MgrType
<1>4. errs' \subseteq Err
  BY DEF AckLast, FinishErrs, Touch, Err, ControlType
<1>5. UNCHANGED <<state, req, cfmFrom, pc, taskPc, taskCmd>> /\ irqAck' = NoCmd
  BY DEF AckLast
<1>6. msgSem' \in Nat
  BY DEF AckLast, ControlType
<1>7. CASE \E i \in NextIdx(irqAck) :
              /\ Finish(irqAck, f, [flags EXCEPT ![cmds[i]] = @ \ {"WAIT_PUSH"}])
              /\ PushNext(cmds[i])
  <2>. PICK i \in NextIdx(irqAck) :
              /\ Finish(irqAck, f, [flags EXCEPT ![cmds[i]] = @ \ {"WAIT_PUSH"}])
              /\ PushNext(cmds[i])
    BY <1>7
  <2>1. cmds[i] \in Cmd /\ Mailbox(cmds[i])
    BY <1>3 DEF PushNext
  <2>2. FwType'
    BY <2>1, MailboxTyped
  <2>3. hostid' \in Cmd \cup {NoCmd}
    BY <2>1 DEF Mailbox
  <2>4. CmdType'
    <3>1. [flags EXCEPT ![cmds[i]] = @ \ {"WAIT_PUSH"}] \in [Cmd -> SUBSET Flag]
      BY <2>1 DEF CmdType
    <3>2. msgMem' \in [Cmd -> Mem]
      BY <2>1 DEF PushNext, CmdType, Mem
    <3>3. cfmFrom' \in [Cmd -> Cmd \cup {NoCmd}]
      BY <1>5 DEF CmdType
    <3> DEFINE others == [flags EXCEPT ![cmds[i]] = @ \ {"WAIT_PUSH"}]
    <3>4. Finish(irqAck, f, others) /\ others \in [Cmd -> SUBSET Flag]
      BY <3>1
    <3>5. req' = req /\ CmdType
      BY <1>5
    <3> HIDE DEF f, others
    <3>. QED  BY <1>1, <3>2, <3>3, <3>4, <3>5, FinishTyped
  <2>. QED  BY <1>2, <1>4, <1>5, <1>6, <2>2, <2>3, <2>4 DEF ControlType, TaskHolds
<1>8. CASE Finish(irqAck, f, flags) /\ UNCHANGED <<msgMem, hostid, fwVars>>
  <2>1. CmdType'
    BY ZenonT(40), <1>1, <1>5, <1>8, FinishTyped DEF CmdType
  <2>2. FwType'
    BY <1>8 DEF FwType
  <2>. QED  BY <1>2, <1>4, <1>5, <1>6, <1>8, <2>1, <2>2 DEF ControlType, TaskHolds
<1>. QED  BY <1>7, <1>8 DEF AckLast

\* The first confirmation credits a command of the list.
LEMMA CfmPartialStep ==
  ASSUME ListInv, CfmPartial
  PROVE  ListInv'
<1>. USE CmdAssumption DEF ListInv, TypeOK, mgrVars, cmdVars, memVars, taskVars, fwVars
<1>1. MgrType' /\ TaskHolds'
  BY DEF MgrType, TaskHolds, CfmPartial
<1>2. e2a' \in Seq(Cmd) /\ Head(e2a) \in Cmd
  BY HeadTailProperties DEF FwType, CfmPartial
<1>3. FwType'
  BY <1>2 DEF FwType, CfmPartial
<1>4. CmdType'
  <2>1. PICK i \in DOMAIN cmds :
          /\ flags' = [flags EXCEPT ![cmds[i]] = @ \ {"WAIT_CFM"}]
          /\ cfmFrom' = [cfmFrom EXCEPT ![cmds[i]] = Head(e2a)]
    BY DEF CfmPartial, CfmIdx, CfmMatches
  <2>2. cmds[i] \in Cmd
    BY ElementOfSeq, LenProperties DEF MgrType
  <2>. QED  BY <1>2, <2>1, <2>2 DEF CmdType, CfmPartial
<1>5. ControlType'
  <2>1. \A i \in DOMAIN cmds : cmds[i] \in Cmd
    BY ElementOfSeq, LenProperties DEF MgrType
  <2>2. errs' \subseteq Err
    BY <2>1 DEF ControlType, Err, CfmPartial, CfmIdx, CfmMatches, Touch
  <2>. QED  BY <2>2 DEF ControlType, CfmPartial
<1>6. EachOnce' /\ ListedIsQueued'
  BY SameList DEF CfmPartial
<1>. QED  BY <1>1, <1>3, <1>4, <1>5, <1>6

\* The confirmation that completes a command unlinks it, and on PCIe pushes its
\* successor.
LEMMA CfmLastStep ==
  ASSUME ListInv, CfmLast
  PROVE  ListInv'
<1>. USE CmdAssumption DEF ListInv, TypeOK, mgrVars, cmdVars, memVars, taskVars, fwVars
<1>1. /\ UNCHANGED <<state, req, pc, irqAck, taskVars, fwUp, fwAckIrq>>
      /\ e2a # <<>> /\ e2a' = Tail(e2a)
  BY DEF CfmLast
<1>2. e2a' \in Seq(Cmd) /\ Head(e2a) \in Cmd
  BY <1>1, HeadTailProperties DEF FwType
<1>3. PICK i \in CfmIdx(req[Head(e2a)].cfm) :
        LET c == cmds[i] IN
         /\ cfmFrom' = [cfmFrom EXCEPT ![c] = Head(e2a)]
         /\ cmds' = ListDel(cmds, i)
         /\ queue_sz' = Dec(queue_sz)
         /\ \E e \in FinishErrs(c) : errs' = errs \cup e
         /\ \/ \E k \in CfmPushes(i) :
                 /\ Finish(c, flags[c] \ {"WAIT_CFM"},
                           [flags EXCEPT ![cmds[k]] = @ \ {"WAIT_PUSH"}])
                 /\ msgMem' = [msgMem EXCEPT ![cmds[k]] = "freed"]
                 /\ hostid' = cmds[k]
                 /\ fwInbox' = cmds[k]
                 /\ fwOwes' = IF req[cmds[k]].cfm = NoCfm THEN fwOwes
                              ELSE Append(fwOwes, cmds[k])
            \/ /\ Finish(c, flags[c] \ {"WAIT_CFM"}, flags)
               /\ UNCHANGED <<msgMem, hostid, fwInbox, fwOwes>>
  BY DEF CfmLast
<1> DEFINE c == cmds[i]
<1>4. \A k \in DOMAIN cmds : cmds[k] \in Cmd
  BY ElementOfSeq, LenProperties DEF MgrType
<1>5. i \in DOMAIN cmds /\ c \in Cmd /\ flags[c] \in SUBSET Flag
  BY <1>3, <1>4 DEF CfmIdx, CfmMatches, CmdType
<1>6. MgrType' /\ EachOnce' /\ ListedIsQueued'
  BY <1>1, <1>3, <1>5, OneRemoved DEF MgrType
<1>7. errs' \subseteq Err /\ cfmFrom' \in [Cmd -> Cmd \cup {NoCmd}]
  BY <1>2, <1>3, <1>5 DEF FinishErrs, Touch, Err, ControlType, CmdType
<1>8. CASE \E k \in CfmPushes(i) :
             /\ Finish(c, flags[c] \ {"WAIT_CFM"},
                       [flags EXCEPT ![cmds[k]] = @ \ {"WAIT_PUSH"}])
             /\ msgMem' = [msgMem EXCEPT ![cmds[k]] = "freed"]
             /\ hostid' = cmds[k]
             /\ fwInbox' = cmds[k]
             /\ fwOwes' = IF req[cmds[k]].cfm = NoCfm THEN fwOwes
                          ELSE Append(fwOwes, cmds[k])
  <2>. PICK k \in CfmPushes(i) :
             /\ Finish(c, flags[c] \ {"WAIT_CFM"},
                       [flags EXCEPT ![cmds[k]] = @ \ {"WAIT_PUSH"}])
             /\ msgMem' = [msgMem EXCEPT ![cmds[k]] = "freed"]
             /\ hostid' = cmds[k]
             /\ fwInbox' = cmds[k]
             /\ fwOwes' = IF req[cmds[k]].cfm = NoCfm THEN fwOwes
                          ELSE Append(fwOwes, cmds[k])
    BY <1>8
  <2>1. cmds[k] \in Cmd
    BY <1>4 DEF CfmPushes
  <2>2. fwOwes' \in Seq(Cmd)
    BY <2>1, AppendProperties DEF FwType
  <2>3. FwType'
    BY <1>1, <1>2, <2>1, <2>2 DEF FwType
  <2>4. CmdType'
    <3>1. /\ [flags EXCEPT ![cmds[k]] = @ \ {"WAIT_PUSH"}] \in [Cmd -> SUBSET Flag]
          /\ msgMem' \in [Cmd -> Mem]
      BY <2>1 DEF CmdType, Mem
    <3> DEFINE f == flags[c] \ {"WAIT_CFM"}
               others == [flags EXCEPT ![cmds[k]] = @ \ {"WAIT_PUSH"}]
    <3>2. /\ Finish(c, f, others)
          /\ f \in SUBSET Flag /\ others \in [Cmd -> SUBSET Flag]
          /\ msgMem' \in [Cmd -> Mem]
      BY <1>5, <3>1
    <3>3. c \in Cmd /\ req' = req /\ CmdType /\ cfmFrom' \in [Cmd -> Cmd \cup {NoCmd}]
      BY <1>1, <1>5, <1>7
    <3> HIDE DEF c, f, others
    <3>. QED  BY <3>2, <3>3, FinishTyped
  <2>. QED  BY <1>1, <1>6, <1>7, <2>1, <2>3, <2>4 DEF ControlType, TaskHolds
<1>9. CASE /\ Finish(c, flags[c] \ {"WAIT_CFM"}, flags)
           /\ UNCHANGED <<msgMem, hostid, fwInbox, fwOwes>>
  <2>1. FwType'
    BY <1>1, <1>2, <1>9 DEF FwType
  <2>2. CmdType'
    <3> DEFINE f == flags[c] \ {"WAIT_CFM"}
    <3>1. /\ Finish(c, f, flags) /\ f \in SUBSET Flag
          /\ flags \in [Cmd -> SUBSET Flag] /\ msgMem' \in [Cmd -> Mem]
      BY <1>5, <1>9 DEF CmdType
    <3>2. c \in Cmd /\ req' = req /\ CmdType /\ cfmFrom' \in [Cmd -> Cmd \cup {NoCmd}]
      BY <1>1, <1>5, <1>7
    <3> HIDE DEF c, f
    <3>. QED  BY <3>1, <3>2, FinishTyped
  <2>. QED  BY <1>1, <1>6, <1>7, <1>9, <2>1, <2>2 DEF ControlType, TaskHolds
<1>. QED  BY <1>3, <1>8, <1>9

\* The firmware confirms a command.
LEMMA FwConfirmStep ==
  ASSUME ListInv, FwConfirm
  PROVE  ListInv'
<1>. USE CmdAssumption DEF ListInv, TypeOK, mgrVars, cmdVars, memVars, taskVars, fwVars
<1>1. PICK i \in DOMAIN fwOwes : e2a' = Append(e2a, fwOwes[i])
                                 /\ fwOwes' = ListDel(fwOwes, i)
  BY DEF FwConfirm
<1>2. fwOwes[i] \in Cmd
  BY <1>1, ElementOfSeq, LenProperties DEF FwType
<1>3. fwOwes' \in Seq(Cmd)
  BY <1>1, ListDelProperties DEF FwType
<1>4. e2a' \in Seq(Cmd)
  BY <1>1, <1>2, AppendProperties DEF FwType
<1>5. FwType'
  BY <1>3, <1>4 DEF FwType, FwConfirm
<1>6. MgrType' /\ CmdType' /\ ControlType' /\ TaskHolds'
  BY DEF MgrType, CmdType, ControlType, TaskHolds, FwConfirm
<1>7. EachOnce' /\ ListedIsQueued'
  BY SameList DEF FwConfirm
<1>. QED  BY <1>5, <1>6, <1>7

\* The IPC goes down and the list is drained.
LEMMA IpcDeinitStep ==
  ASSUME ListInv, IpcDeinit
  PROVE  ListInv'
<1>. USE CmdAssumption DEF ListInv, TypeOK, mgrVars, cmdVars, memVars, taskVars, fwVars
<1>1. MgrType' /\ FwType'
  <2>1. fwUp' \in BOOLEAN /\ fwAckIrq' \in BOOLEAN
    BY Zenon DEF IpcDeinit
  <2>. QED  BY <2>1, EmptySeq DEF MgrType, FwType, States, IpcDeinit
<1>2. CmdType'
  <2>1. completion' \in [Cmd -> BOOLEAN]
    BY Zenon DEF IpcDeinit
  <2>. QED  BY <2>1 DEF CmdType, Mem, IpcDeinit
<1>3. ControlType' /\ TaskHolds'
  BY DEF ControlType, TaskHolds, IpcDeinit
<1>4. EachOnce' /\ ListedIsQueued'
  BY DEF EachOnce, ListedIsQueued, InList, IpcDeinit
<1>. QED  BY <1>1, <1>2, <1>3, <1>4

-----------------------------------------------------------------------------
(* The theorems                                                             *)

\* Every step of the command manager keeps the list counted.
LEMMA NextListInv == ListInv /\ [Next]_<<vars, conf>> => ListInv'
<1>. SUFFICES ASSUME ListInv, [Next]_<<vars, conf>> PROVE ListInv'
  OBVIOUS
<1>1. ASSUME NEW c \in Cmd, SendMsg(c) \/ CallStep(c) PROVE ListInv'
  BY <1>1, SendMsgStep, QueueRefuseStep, QueueAcceptStep, QueueGoneStep,
     HandToTaskStep, PushStep, FreeMsgStep, WaitEndsStep, PollEndsStep,
     ExpireStep, ExpireFaultsStep, ReturnStep DEF CallStep
<1>2. CASE IrqStep
  BY <1>2, MsgAckStep, AckLostStep, AckPartialStep, AckLastStep, CfmLostStep,
     CfmPartialStep, CfmLastStep DEF IrqStep
<1>3. CASE TaskStep
  BY <1>3, TaskPickStep, TaskPushStep, TaskFreeStep DEF TaskStep
<1>4. CASE FwAck \/ FwConfirm \/ FwStop
  BY <1>4, FwAckStep, FwConfirmStep, FwStopStep
<1>5. CASE IpcDeinit \/ IpcInit
  BY <1>5, IpcDeinitStep, IpcInitStep
<1>6. CASE UNCHANGED vars
  BY <1>6 DEF vars, mgrVars, cmdVars, memVars, taskVars, fwVars, ListInv, TypeOK,
     MgrType, CmdType, ControlType, FwType, EachOnce, ListedIsQueued,
     InList, TaskHolds
<1>. QED  BY <1>1, <1>2, <1>3, <1>4, <1>5, <1>6 DEF Next, Step

\* The variables keep their types in every instance (aml_cmds.c, ipc_host.c).
THEOREM TypeCorrect == Spec => []TypeOK
<1>1. ListInv => TypeOK
  BY DEF ListInv
<1>. QED  BY <1>1, InitListInv, NextListInv, PTL DEF Spec

-----------------------------------------------------------------------------
(* The counter of the list, and what the stage of a call says of its command *)

\* The list as a function.
LEMMA ListFacts ==
  ASSUME ListInv
  PROVE  /\ cmds \in Seq(Cmd) /\ Len(cmds) \in Nat /\ DOMAIN cmds = 1..Len(cmds)
         /\ cmds # <<>> <=> Len(cmds) # 0
         /\ \A i \in DOMAIN cmds : cmds[i] \in Cmd
         /\ \A i, j \in DOMAIN cmds : cmds[i] = cmds[j] => i = j
<1>1. cmds \in Seq(Cmd)
  BY DEF ListInv, TypeOK, MgrType
<1>2. Len(cmds) \in Nat /\ DOMAIN cmds = 1..Len(cmds)
  BY <1>1, LenProperties
<1>3. cmds # <<>> <=> Len(cmds) # 0
  BY <1>1, EmptySeq
<1>4. \A i \in DOMAIN cmds : cmds[i] \in Cmd
  BY <1>1, <1>2, ElementOfSeq
<1>. QED  BY <1>1, <1>2, <1>3, <1>4 DEF ListInv, EachOnce

\* list_del on the list.
LEMMA Removed ==
  ASSUME ListInv, NEW i \in DOMAIN cmds, cmds' = ListDel(cmds, i)
  PROVE  /\ Len(cmds') = Len(cmds) - 1 /\ DOMAIN cmds' = 1..(Len(cmds) - 1)
         /\ cmds' # <<>> <=> Len(cmds) # 1
         /\ \A k \in 1..(Len(cmds) - 1) : cmds'[k] = IF k < i THEN cmds[k] ELSE cmds[k + 1]
         /\ \A d : InList(d)' <=> InList(d) /\ d # cmds[i]
<1>1. /\ cmds' \in Seq(Cmd) /\ Len(cmds') = Len(cmds) - 1 /\ DOMAIN cmds' = 1..(Len(cmds) - 1)
      /\ \A k \in 1..(Len(cmds) - 1) : cmds'[k] = IF k < i THEN cmds[k] ELSE cmds[k + 1]
  <2>1. cmds \in Seq(Cmd)
    BY ListFacts
  <2>. QED  BY <2>1, ListDelProperties
<1>2. cmds' # <<>> <=> Len(cmds) # 1
  BY <1>1, ListFacts, EmptySeq
<1>3. ASSUME NEW d, InList(d)' PROVE InList(d) /\ d # cmds[i]
  <2>1. PICK k \in 1..(Len(cmds) - 1) : cmds'[k] = d
    BY <1>1, <1>3 DEF InList
  <2>2. PICK m \in DOMAIN cmds : m # i /\ cmds[m] = d
    BY SMTT(40), <1>1, <2>1, ListFacts
  <2>. QED  BY <2>2, ListFacts DEF InList
<1>4. ASSUME NEW d, InList(d), d # cmds[i] PROVE InList(d)'
  <2>1. PICK k \in DOMAIN cmds : cmds[k] = d
    BY <1>4 DEF InList
  <2>2. CASE k < i
    <3>1. k \in 1..(Len(cmds) - 1) /\ cmds'[k] = d
      BY <1>1, <2>1, <2>2, ListFacts
    <3>. QED  BY <1>1, <3>1 DEF InList
  <2>3. CASE k > i
    <3>1. k - 1 \in 1..(Len(cmds) - 1) /\ ~(k - 1 < i) /\ (k - 1) + 1 = k
      BY <2>3, ListFacts
    <3>2. cmds'[k - 1] = d
      BY <1>1, <2>1, <3>1
    <3>. QED  BY <1>1, <3>1, <3>2 DEF InList
  <2>. QED  BY <1>4, <2>1, <2>2, <2>3, ListFacts
<1>. QED  BY <1>1, <1>2, <1>3, <1>4

\* The stages at which a call still relies on its command being completed.
Relying == {"push", "thread", "freeMsg", "wait", "poll", "expired"}

\* What is known of a call, whatever the faults: only blocking calls wait; unless
\* the IPC was torn down under it a blocking call's command is listed until it is
\* done; a call without a command neither waits nor is listed; and a success is
\* that of a completed command or of a call that made none.
KnownCall(c) ==
    /\ pc[c] \in {"wait", "poll", "expired", "return"} => Blocking(c)
    /\ "reload" \notin faults /\ Blocking(c) /\ pc[c] \in Relying
          => InList(c) \/ "DONE" \in flags[c]
    /\ cmdMem[c] = "none" => pc[c] \in {"idle", "end"} /\ ~InList(c)
    /\ pc[c] = "idle" => cmdMem[c] = "none"
    /\ pc[c] \in {"idle", "queue"} => result[c] = "EINTR"
    /\ result[c] = "OK" => cmdMem[c] = "none" \/ "DONE" \in flags[c]

CallInv == QueueAccounting /\ \A c \in Cmd : KnownCall(c)

\* The list starts empty and counted, and nothing is unlinked.
LEMMA InitCallInv == Init => CallInv
<1>. SUFFICES ASSUME Init PROVE CallInv
  OBVIOUS
<1>1. QueueAccounting
  BY CmdAssumption DEF Init, QueueAccounting, DoubleRemoved
<1>2. \A c \in Cmd : KnownCall(c)
  BY DEF Init, KnownCall, InList, Relying
<1>. QED  BY <1>1, <1>2 DEF CallInv

\* The list keeps its count, and no command is unlinked a second time.
LEMMA SameCount ==
  ASSUME CallInv, UNCHANGED <<cmds, queue_sz, faults>>, errs \subseteq errs',
         \A c \in Cmd : <<"doubleRemove", c>> \in errs' => <<"doubleRemove", c>> \in errs
  PROVE  QueueAccounting'
<1>1. DoubleRemoved' <=> DoubleRemoved
  BY DEF DoubleRemoved
<1>. QED  BY <1>1 DEF CallInv, QueueAccounting

\* A command removed from the list is counted out of it.
LEMMA CountedOut ==
  ASSUME ListInv, CallInv, NEW i \in DOMAIN cmds, cmds' = ListDel(cmds, i),
         queue_sz' = Dec(queue_sz), faults' = faults, EachOnce', errs \subseteq errs',
         \A c \in Cmd : <<"doubleRemove", c>> \in errs' => <<"doubleRemove", c>> \in errs
  PROVE  QueueAccounting'
<1>1. DoubleRemoved' <=> DoubleRemoved
  BY DEF DoubleRemoved
<1>2. CASE queue_sz = Len(cmds) /\ queue_sz <= MaxQueued /\ ~DoubleRemoved
  <2>1. Len(cmds) \in Nat /\ i \in 1..Len(cmds) /\ Len(cmds') = Len(cmds) - 1
    BY ListFacts, Removed
  <2>2. queue_sz' = Len(cmds') /\ queue_sz' <= MaxQueued
    BY <1>2, <2>1, CmdAssumption DEF Dec
  <2>. QED  BY <1>1, <1>2, <2>2 DEF QueueAccounting, EachOnce
<1>3. CASE "reload" \in faults /\ DoubleRemoved
  BY <1>1, <1>3 DEF QueueAccounting, EachOnce
<1>. QED  BY <1>2, <1>3 DEF CallInv, QueueAccounting

\* The steps that change neither the list nor a call.
LEMMA CallInvElsewhere ==
  ASSUME ListInv, CallInv, UNCHANGED conf,
         \/ MsgAck \/ AckLost \/ CfmLost \/ TaskPick \/ TaskFree
         \/ FwAck \/ FwConfirm \/ FwStop \/ IpcInit \/ UNCHANGED vars
  PROVE  CallInv'
<1>. USE DEF mgrVars, cmdVars, memVars, taskVars, fwVars
<1>1. UNCHANGED <<cmds, queue_sz, faults, req, pc, flags, result, cmdMem>>
  <2>1. CASE MsgAck \/ AckLost \/ CfmLost
    BY <2>1 DEF MsgAck, AckLost, CfmLost, conf
  <2>2. CASE TaskPick \/ TaskFree
    BY <2>2 DEF TaskPick, TaskFree, conf
  <2>3. CASE FwAck \/ FwConfirm \/ FwStop
    BY <2>3 DEF FwAck, FwConfirm, FwStop, conf
  <2>4. CASE IpcInit \/ UNCHANGED vars
    BY <2>4 DEF IpcInit, vars, conf
  <2>. QED  BY <2>1, <2>2, <2>3, <2>4
<1>2. /\ errs \subseteq errs'
      /\ \A c \in Cmd : <<"doubleRemove", c>> \in errs' => <<"doubleRemove", c>> \in errs
  BY DEF MsgAck, AckLost, CfmLost, TaskPick, TaskFree, FwAck, FwConfirm, FwStop,
     IpcInit, vars, Touch, FreeMsgOf
<1>3. QueueAccounting'
  BY <1>1, <1>2, SameCount
<1>4. \A c \in Cmd : KnownCall(c)'
  BY <1>1 DEF CallInv, KnownCall, InList, Blocking
<1>. QED  BY <1>3, <1>4 DEF CallInv

\* A command loses a WAIT flag.
LEMMA CallInvFlags ==
  ASSUME ListInv, CallInv, UNCHANGED conf, AckPartial \/ CfmPartial \/ TaskPush
  PROVE  CallInv'
<1>. USE DEF mgrVars, cmdVars, memVars, taskVars, fwVars
<1>1. UNCHANGED <<cmds, queue_sz, faults, req, pc, result, cmdMem>>
  BY DEF AckPartial, CfmPartial, TaskPush, conf
<1>2. /\ errs \subseteq errs'
      /\ \A c \in Cmd : <<"doubleRemove", c>> \in errs' => <<"doubleRemove", c>> \in errs
  BY DEF AckPartial, CfmPartial, TaskPush, Touch
<1>3. \A c \in Cmd : "DONE" \in flags[c] => "DONE" \in flags'[c]
  <2>1. CASE AckPartial
    BY <2>1 DEF AckPartial, ListInv, TypeOK, CmdType
  <2>2. CASE CfmPartial
    <3>1. PICK i : flags' = [flags EXCEPT ![cmds[i]] = @ \ {"WAIT_CFM"}]
      BY <2>2 DEF CfmPartial
    <3>. QED  BY <3>1 DEF ListInv, TypeOK, CmdType
  <2>3. CASE TaskPush
    BY <2>3 DEF TaskPush, ListInv, TypeOK, CmdType
  <2>. QED  BY <2>1, <2>2, <2>3
<1>4. QueueAccounting'
  BY <1>1, <1>2, SameCount
<1>5. \A c \in Cmd : KnownCall(c)'
  BY <1>1, <1>3 DEF CallInv, KnownCall, InList, Blocking
<1>. QED  BY <1>4, <1>5 DEF CallInv

\* The steps of a caller outside the list.
LEMMA CallInvCaller ==
  ASSUME ListInv, CallInv, UNCHANGED conf, NEW c \in Cmd,
         \/ SendMsg(c) \/ QueueRefuse(c) \/ QueueGone(c) \/ HandToTask(c) \/ Push(c)
         \/ FreeMsg(c) \/ WaitEnds(c) \/ PollEnds(c) \/ Return(c)
  PROVE  CallInv'
<1>. USE DEF mgrVars, cmdVars, memVars, taskVars, fwVars
<1>1. UNCHANGED <<cmds, queue_sz, faults, req>>
  <2>1. CASE SendMsg(c) \/ QueueRefuse(c) \/ QueueGone(c)
    BY <2>1 DEF SendMsg, QueueRefuse, QueueGone, conf
  <2>2. CASE HandToTask(c) \/ Push(c) \/ FreeMsg(c)
    BY <2>2 DEF HandToTask, Push, FreeMsg, conf
  <2>3. CASE WaitEnds(c) \/ PollEnds(c) \/ Return(c)
    BY <2>3 DEF WaitEnds, PollEnds, Return, conf
  <2>. QED  BY <2>1, <2>2, <2>3
<1>2. /\ errs \subseteq errs'
      /\ \A d \in Cmd : <<"doubleRemove", d>> \in errs' => <<"doubleRemove", d>> \in errs
  BY DEF SendMsg, QueueRefuse, QueueGone, HandToTask, Push, FreeMsg, WaitEnds,
     PollEnds, Return, Touch, FreeMsgOf, FreeCmd
<1>3. QueueAccounting'
  BY <1>1, <1>2, SameCount
<1>4. /\ \A d \in Cmd : d # c => UNCHANGED <<pc[d], flags[d], result[d], cmdMem[d]>>
      /\ "DONE" \in flags[c] => "DONE" \in flags'[c]
  <2>1. CASE SendMsg(c) \/ QueueRefuse(c) \/ QueueGone(c)
    BY <2>1 DEF SendMsg, Drop, QueueRefuse, QueueGone, ListInv, TypeOK, CmdType, ControlType
  <2>2. CASE HandToTask(c) \/ Push(c) \/ FreeMsg(c)
    BY <2>2 DEF HandToTask, Push, FreeMsg, ListInv, TypeOK, CmdType, ControlType
  <2>3. CASE WaitEnds(c) \/ PollEnds(c) \/ Return(c)
    BY <2>3 DEF WaitEnds, PollEnds, Return, ListInv, TypeOK, CmdType, ControlType
  <2>. QED  BY <2>1, <2>2, <2>3
<1>5. ASSUME NEW d \in Cmd, d # c PROVE KnownCall(d)'
  BY <1>1, <1>4, <1>5 DEF CallInv, KnownCall, InList, Blocking
<1>6. KnownCall(c)'
  <2>1. KnownCall(c) /\ (InList(c)' <=> InList(c)) /\ (Blocking(c)' <=> Blocking(c))
    BY <1>1 DEF CallInv, InList, Blocking
  <2>2. CASE SendMsg(c)
    BY <2>1, <2>2 DEF KnownCall, SendMsg, Drop, ListInv, TypeOK, CmdType, ControlType,
       ListedIsQueued, Relying
  <2>3. CASE QueueRefuse(c)
    BY <2>1, <2>3 DEF KnownCall, QueueRefuse, Leave, ListInv, TypeOK, CmdType,
       ControlType, Relying
  <2>4. CASE QueueGone(c) \/ Return(c)
    BY <1>1, <2>1, <2>4 DEF KnownCall, QueueGone, Return, ListInv, TypeOK, CmdType,
       ControlType, Relying
  <2>5. CASE HandToTask(c) \/ Push(c) \/ FreeMsg(c) \/ WaitEnds(c) \/ PollEnds(c)
    <3>1. /\ pc[c] \in Relying /\ pc'[c] \notin {"idle", "queue"}
          /\ pc'[c] \in {"wait", "poll", "expired", "return"} => Blocking(c)
          /\ UNCHANGED <<result, cmdMem>>
      BY <2>1, <2>5 DEF KnownCall, HandToTask, Push, FreeMsg, WaitEnds, PollEnds,
         ListInv, TypeOK, ControlType, Relying
    <3>. QED  BY <1>1, <1>4, <2>1, <3>1 DEF KnownCall, Relying
  <2>. QED  BY <2>2, <2>3, <2>4, <2>5
<1>. QED  BY <1>3, <1>5, <1>6 DEF CallInv

\* An accepted command is listed and counted.
LEMMA CallInvAccept ==
  ASSUME ListInv, ListInv', CallInv, UNCHANGED conf, NEW c \in Cmd, QueueAccept(c)
  PROVE  CallInv'
<1>. USE DEF mgrVars, cmdVars, memVars, taskVars, fwVars
<1>1. /\ UNCHANGED <<faults, req, errs, cmdMem>> /\ pc[c] = "queue"
      /\ cmds' = Append(cmds, c) /\ queue_sz' = Inc(queue_sz)
      /\ cmds = <<>> \/ queue_sz # MaxQueued
  BY DEF QueueAccept, Full, conf
<1>2. Len(cmds) \in Nat /\ Len(cmds') = Len(cmds) + 1 /\ DOMAIN cmds' = 1..(Len(cmds) + 1)
      /\ (\A k \in 1..Len(cmds) : cmds'[k] = cmds[k]) /\ cmds'[Len(cmds) + 1] = c
      /\ DOMAIN cmds = 1..Len(cmds) /\ (cmds = <<>> => Len(cmds) = 0)
  BY <1>1, ListFacts, AppendProperties, LenProperties
<1>3. DoubleRemoved' <=> DoubleRemoved
  BY <1>1 DEF DoubleRemoved
<1>4. QueueAccounting'
  <2>1. EachOnce'
    BY DEF ListInv
  <2>2. CASE queue_sz = Len(cmds) /\ queue_sz <= MaxQueued /\ ~DoubleRemoved
    <3>1. Len(cmds) < MaxQueued
      BY <1>1, <1>2, <2>2, CmdAssumption
    <3>2. queue_sz' = Inc(Len(cmds))
      BY <1>1, <2>2, ZenonT(40)
    <3>a. PICK n \in Nat : n = Len(cmds)
      BY <1>2
    <3>b. n < MaxQueued /\ n # Wrap - 1
      BY <3>1, <3>a, CmdAssumption, SMTT(40)
    <3>c. Inc(n) = n + 1
      BY <3>b DEF Inc
    <3>3. queue_sz' = Len(cmds') /\ queue_sz' <= MaxQueued
      BY <1>2, <3>2, <3>a, <3>b, <3>c, CmdAssumption, SMTT(40)
    <3>. QED  BY <1>3, <2>1, <2>2, <3>3 DEF QueueAccounting, EachOnce
  <2>3. CASE "reload" \in faults /\ DoubleRemoved
    BY <1>1, <1>3, <2>1, <2>3 DEF QueueAccounting, EachOnce
  <2>. QED  BY <2>2, <2>3 DEF CallInv, QueueAccounting
<1>5. \A d : InList(d)' <=> InList(d) \/ d = c
  BY <1>2 DEF InList
<1>6. /\ \A d \in Cmd : d # c => UNCHANGED <<pc[d], flags[d], result[d]>>
      /\ result'[c] = "EINTR" /\ pc'[c] \in {"push", "thread", "wait", "end"}
      /\ pc'[c] = "wait" => Blocking(c)
  BY DEF QueueAccept, NotDeferredPc, ListInv, TypeOK, CmdType, ControlType
<1>7. \A d \in Cmd : KnownCall(d)'
  BY <1>1, <1>5, <1>6 DEF CallInv, KnownCall, Blocking
<1>. QED  BY <1>4, <1>7 DEF CallInv

\* The time-out unlinks a listed command once.  Only a tear-down leaves one that is
\* not done out of the list, and then the second removal is recorded.
LEMMA CallInvExpire ==
  ASSUME ListInv, ListInv', CallInv, UNCHANGED conf, NEW c \in Cmd,
         Expire(c) \/ ExpireFaults(c)
  PROVE  CallInv'
<1>. USE DEF mgrVars, cmdVars, memVars, taskVars, fwVars
<1>1. /\ UNCHANGED <<faults, req, cmdMem>> /\ pc[c] = "expired" /\ errs \subseteq errs'
      /\ \A d \in Cmd : d # c => UNCHANGED <<pc[d], flags[d], result[d]>>
      /\ pc'[c] \in {"return", "oops"} /\ ("DONE" \in flags[c] => "DONE" \in flags'[c])
      /\ result'[c] = "OK" => result[c] = "OK"
  BY DEF Expire, ExpireFaults, ListInv, TypeOK, CmdType, ControlType, conf
<1>2. Blocking(c) /\ KnownCall(c)
  BY <1>1 DEF CallInv, KnownCall
<1>3. EachOnce'
  BY DEF ListInv
<1>4. CASE InList(c) /\ "DONE" \notin flags[c]
  <2>1. PICK i \in DOMAIN cmds : cmds[i] = c /\ cmds' = ListDel(cmds, i)
    BY <1>4 DEF Expire, ExpireFaults, Unlink
  <2>2. queue_sz' = Dec(queue_sz) /\ \A d \in Cmd :
           <<"doubleRemove", d>> \in errs' => <<"doubleRemove", d>> \in errs
    BY <1>4 DEF Expire, ExpireFaults, Unlink, UnlinkErr, Touch
  <2>3. QueueAccounting'
    BY <1>1, <1>3, <2>1, <2>2, CountedOut
  <2>4. \A d : InList(d)' <=> InList(d) /\ d # c
    BY <2>1, Removed
  <2>5. \A d \in Cmd : KnownCall(d)'
    BY <1>1, <1>2, <2>4 DEF CallInv, KnownCall, Blocking, Relying
  <2>. QED  BY <2>3, <2>5 DEF CallInv
<1>5. CASE ~InList(c) /\ "DONE" \notin flags[c]
  <2>1. "reload" \in faults
    BY <1>1, <1>2, <1>5 DEF KnownCall, Relying
  <2>2. cmds' = cmds /\ <<"doubleRemove", c>> \in errs'
    BY <1>5 DEF Expire, ExpireFaults, Unlink, UnlinkErr, InList
  <2>3. QueueAccounting'
    BY <1>1, <1>3, <2>1, <2>2 DEF QueueAccounting, DoubleRemoved, EachOnce
  <2>4. \A d \in Cmd : KnownCall(d)'
    BY <1>1, <1>2, <2>2 DEF CallInv, KnownCall, Blocking, Relying, InList
  <2>. QED  BY <2>3, <2>4 DEF CallInv
<1>6. CASE "DONE" \in flags[c]
  <2>1. UNCHANGED <<cmds, queue_sz>> /\ errs' = errs \cup Touch(c)
    BY <1>6 DEF Expire, ExpireFaults
  <2>2. QueueAccounting'
    BY <1>1, <2>1, SameCount DEF Touch
  <2>3. \A d \in Cmd : KnownCall(d)'
    BY <1>1, <1>2, <2>1 DEF CallInv, KnownCall, Blocking, Relying, InList
  <2>. QED  BY <2>2, <2>3 DEF CallInv
<1>. QED  BY <1>4, <1>5, <1>6

\* cmd_complete from the interrupt: f leaves the list, done.
LEMMA CallInvCompleted ==
  ASSUME ListInv, ListInv', CallInv, UNCHANGED <<faults, req, pc>>,
         NEW i \in DOMAIN cmds, NEW f \in Cmd, cmds[i] = f,
         cmds' = ListDel(cmds, i), queue_sz' = Dec(queue_sz),
         NEW E \in FinishErrs(f), errs' = errs \cup E,
         NEW g \in SUBSET Flag, NEW others \in [Cmd -> SUBSET Flag],
         \A d \in Cmd : "DONE" \in flags[d] => "DONE" \in others[d],
         Finish(f, g, others)
  PROVE  CallInv'
<1>1. EachOnce'
  BY DEF ListInv
<1>2. QueueAccounting'
  <2>1. /\ errs \subseteq errs'
        /\ \A d \in Cmd : <<"doubleRemove", d>> \in errs' => <<"doubleRemove", d>> \in errs
    BY DEF FinishErrs, Touch
  <2>. QED  BY <1>1, <2>1, CountedOut
<1>3. \A d : InList(d)' <=> InList(d) /\ d # f
  BY Removed
<1>4. /\ \A d \in Cmd : "DONE" \in flags[d] => "DONE" \in flags'[d]
      /\ \A d \in Cmd : d # f => UNCHANGED <<result[d], cmdMem[d]>>
      /\ "DONE" \in flags'[f]
      /\ cmdMem'[f] = "none" => cmdMem[f] = "none"
  BY <1>1 DEF Finish, ListInv, TypeOK, CmdType
<1>5. ASSUME NEW d \in Cmd, d # f PROVE KnownCall(d)'
  BY <1>3, <1>4, <1>5 DEF CallInv, KnownCall, Blocking
<1>6. KnownCall(f)'
  <2>1. InList(f) /\ pc[f] \notin {"idle", "queue"} /\ KnownCall(f)
    BY <1>1 DEF CallInv, InList, ListInv, ListedIsQueued
  <2>. QED  BY <1>1, <1>4, <2>1 DEF KnownCall, Blocking
<1>. QED  BY <1>2, <1>5, <1>6 DEF CallInv

\* The acknowledgement and the confirmation that complete a command.
LEMMA CallInvCompletes ==
  ASSUME ListInv, ListInv', CallInv, UNCHANGED conf, AckLast \/ CfmLast
  PROVE  CallInv'
<1>. USE DEF mgrVars, cmdVars, memVars, taskVars, fwVars
<1>1. \A k \in DOMAIN cmds : cmds[k] \in Cmd /\ flags[cmds[k]] \in SUBSET Flag
  BY ListFacts DEF ListInv, TypeOK, CmdType
<1>2. UNCHANGED <<faults, req, pc>>
  BY DEF AckLast, CfmLast, conf
<1>3. flags \in [Cmd -> SUBSET Flag]
  BY DEF ListInv, TypeOK, CmdType
<1> DEFINE Kept(o) == o \in [Cmd -> SUBSET Flag]
                     /\ \A d \in Cmd : "DONE" \in flags[d] => "DONE" \in o[d]
<1>4. /\ Kept(flags)
      /\ \A k \in DOMAIN cmds : Kept([flags EXCEPT ![cmds[k]] = @ \ {"WAIT_PUSH"}])
  BY <1>1, <1>3
<1>5. ASSUME NEW i \in DOMAIN cmds, cmds' = ListDel(cmds, i), queue_sz' = Dec(queue_sz),
             NEW E \in FinishErrs(cmds[i]), errs' = errs \cup E,
             NEW g \in SUBSET Flag, NEW o, Kept(o), Finish(cmds[i], g, o)
      PROVE  CallInv'
  BY <1>1, <1>2, <1>5, CallInvCompleted
<1>6. CASE AckLast
  <2>1. PICK i \in DOMAIN cmds : cmds[i] = irqAck
    BY <1>6 DEF AckLast, AckFinds
  <2>2. InList(irqAck) /\ Unlink(irqAck)
    BY <1>6, <2>1 DEF AckLast, InList
  <2>3. cmds' = ListDel(cmds, i) /\ queue_sz' = Dec(queue_sz)
    BY <2>1, <2>2, ListFacts DEF Unlink
  <2>4. PICK E \in FinishErrs(cmds[i]) : errs' = errs \cup E
    BY <1>6, <2>1 DEF AckLast
  <2>5. PICK g \in SUBSET Flag : g = flags[cmds[i]] \ {"WAIT_ACK"}
    BY <1>1
  <2>6. \/ \E k \in DOMAIN cmds : Finish(cmds[i], g, [flags EXCEPT ![cmds[k]] = @ \ {"WAIT_PUSH"}])
        \/ Finish(cmds[i], g, flags)
    BY <1>6, <2>1, <2>5 DEF AckLast, NextIdx, WaitsPush
  <2> HIDE DEF Kept
  <2>7. PICK o : Kept(o) /\ Finish(cmds[i], g, o)
    BY <1>4, <2>6
  <2>. QED  BY <1>5, <2>3, <2>4, <2>7
<1>7. CASE CfmLast
  <2>1. PICK i \in DOMAIN cmds :
          /\ cmds' = ListDel(cmds, i) /\ queue_sz' = Dec(queue_sz)
          /\ \E e \in FinishErrs(cmds[i]) : errs' = errs \cup e
          /\ \/ \E k \in DOMAIN cmds : Finish(cmds[i], flags[cmds[i]] \ {"WAIT_CFM"},
                                      [flags EXCEPT ![cmds[k]] = @ \ {"WAIT_PUSH"}])
             \/ Finish(cmds[i], flags[cmds[i]] \ {"WAIT_CFM"}, flags)
    BY <1>7 DEF CfmLast, CfmIdx, CfmMatches, CfmPushes
  <2>2. PICK E \in FinishErrs(cmds[i]) : errs' = errs \cup E
    BY <2>1
  <2>3. PICK g \in SUBSET Flag : g = flags[cmds[i]] \ {"WAIT_CFM"}
    BY <1>1
  <2> HIDE DEF Kept
  <2>4. PICK o : Kept(o) /\ Finish(cmds[i], g, o)
    BY <1>4, <2>1, <2>3
  <2>. QED  BY <1>5, <2>1, <2>2, <2>4
<1>. QED  BY <1>6, <1>7

\* The drain empties the list; without a tear-down under way no call relies on it.
LEMMA CallInvDeinit ==
  ASSUME ListInv, ListInv', CallInv, UNCHANGED conf, IpcDeinit
  PROVE  CallInv'
<1>. USE DEF mgrVars, cmdVars, memVars, taskVars, fwVars
<1>1. /\ cmds' = <<>> /\ queue_sz' = 0
      /\ UNCHANGED <<faults, req, pc, flags, result, errs>>
      /\ "reload" \in faults \/ \A c \in Cmd : pc[c] \in {"idle", "end"}
      /\ \A c \in Cmd : cmdMem'[c] = "none" => cmdMem[c] = "none"
      /\ \A c \in Cmd : cmdMem[c] = "none" => cmdMem'[c] = "none" \/ InList(c)
  BY DEF IpcDeinit, conf
<1>2. \A c : ~InList(c)'
  BY <1>1 DEF InList
<1>3. QueueAccounting'
  <2>1. DoubleRemoved' <=> DoubleRemoved
    BY <1>1 DEF DoubleRemoved
  <2>2. Len(cmds') = 0 /\ \A i, j \in DOMAIN cmds' : FALSE
    BY <1>1
  <2>. QED  BY <1>1, <2>1, <2>2, CmdAssumption DEF QueueAccounting, CallInv
<1>4. \A c \in Cmd : KnownCall(c)'
  BY <1>1, <1>2 DEF CallInv, KnownCall, Blocking, Relying
<1>. QED  BY <1>3, <1>4 DEF CallInv

\* Every step keeps the counter, or leaves a tear-down to be blamed.
LEMMA NextCallInv == ListInv /\ CallInv /\ [Next]_<<vars, conf>> => CallInv'
<1>. SUFFICES ASSUME ListInv, CallInv, [Next]_<<vars, conf>> PROVE CallInv'
  OBVIOUS
<1>1. ListInv' /\ UNCHANGED conf
  BY NextListInv DEF Next
<1>2. ASSUME NEW c \in Cmd, SendMsg(c) \/ CallStep(c) PROVE CallInv'
  BY <1>1, <1>2, CallInvCaller, CallInvAccept, CallInvExpire DEF CallStep
<1>3. CASE IrqStep
  BY <1>1, <1>3, CallInvElsewhere, CallInvFlags, CallInvCompletes DEF IrqStep
<1>4. CASE TaskStep
  BY <1>1, <1>4, CallInvElsewhere, CallInvFlags DEF TaskStep
<1>5. CASE FwAck \/ FwConfirm \/ FwStop \/ IpcInit \/ UNCHANGED vars
  BY <1>1, <1>5, CallInvElsewhere
<1>6. CASE IpcDeinit
  BY <1>1, <1>6, CallInvDeinit
<1>. QED  BY <1>2, <1>3, <1>4, <1>5, <1>6 DEF Next, Step

\* queue_sz counts the list and AML_CMD_MAX_QUEUED bounds it, and no command is
\* unlinked twice, whatever times out or is killed; only after a tear-down under
\* the calls in progress can a second removal have spoilt the count
\* (cmd_mgr_queue, cmd_complete, cmd_mgr_drain).
THEOREM ListAccounting == Spec => []QueueAccounting
<1>1. CallInv => QueueAccounting
  BY DEF CallInv
<1>. QED  BY <1>1, InitListInv, NextListInv, InitCallInv, NextCallInv, PTL DEF Spec

-----------------------------------------------------------------------------
(* PCIe: no fault but a firmware that falls silent                         *)

\* The mailbox holds a message that the firmware has still to take, or an
\* acknowledgement that the host has still to fetch.
Busy == fwAckIrq \/ (fwUp /\ fwInbox # NoCmd)

\* An acknowledgement of c is on its way, or will be.
InFlight(c) == irqAck = c \/ (hostid = c /\ Busy)

\* c has been neither acknowledged nor confirmed.
Fresh(c) == "WAIT_ACK" \in flags[c] /\ ("WAIT_CFM" \in flags[c] <=> req[c].cfm # NoCfm)

\* What is known of a call by where it stands.
Stages ==
    \A c \in Cmd :
       /\ pc[c] \notin {"thread", "poll"}
       /\ pc[c] \in {"wait", "expired", "return"} => Blocking(c)
       /\ pc[c] \in {"idle", "queue"} => ~completion[c] /\ "DONE" \notin flags[c]
       /\ pc[c] \in {"queue", "push", "freeMsg"} => msgMem[c] = "live"
       /\ pc[c] \in {"push", "freeMsg"} => "WAIT_PUSH" \notin flags[c]
       /\ pc[c] = "push" => InList(c) /\ Fresh(c) /\ ~InFlight(c)
       /\ Blocking(c) /\ pc[c] \in {"push", "freeMsg", "wait", "expired"}
            => InList(c) \/ ("DONE" \in flags[c] /\ completion[c])
       /\ Blocking(c) /\ cmdMem[c] = "freed" => pc[c] = "end"

\* What is known of a command in the list.
Listed ==
    \A c \in Cmd : InList(c) =>
       /\ ~completion[c] /\ "DONE" \notin flags[c]
       /\ "WAIT_ACK" \in flags[c] \/ "WAIT_CFM" \in flags[c]
       /\ "WAIT_PUSH" \in flags[c] => Fresh(c)
       /\ Blocking(c) => pc[c] \in {"push", "freeMsg", "wait", "expired"}
       /\ req[c].cfm # NoCfm => "WAIT_CFM" \in flags[c] \/ cfmFrom[c] = c

\* Only the first command of the list has been sent.
OneSent == \A i \in 2..Len(cmds) : "WAIT_PUSH" \in flags[cmds[i]]

\* One message is on its way at a time, and that of a listed command.
Flight ==
    /\ msgSem = 0 /\ taskPc = "idle"
    /\ Busy => hostid # NoCmd
    /\ ~(fwAckIrq /\ fwUp /\ fwInbox # NoCmd)
    /\ irqAck # NoCmd => ~Busy
    /\ \A c \in Cmd : InFlight(c) =>
          InList(c) /\ "WAIT_ACK" \in flags[c] /\ "WAIT_PUSH" \notin flags[c]

\* The first command waits for the confirmation l has room for.
OwedOnly(l) ==
    l # <<>> => /\ Len(l) = 1 /\ cmds # <<>> /\ l[1] = cmds[1]
                /\ "WAIT_CFM" \in flags[cmds[1]] /\ "WAIT_PUSH" \notin flags[cmds[1]]
                /\ pc[cmds[1]] # "push"

\* At most one confirmation is on its way or still to be sent.
Owed == OwedOnly(e2a) /\ (fwUp => OwedOnly(fwOwes) /\ (e2a = <<>> \/ fwOwes = <<>>))

\* While the firmware answers, something will happen to the first command.
Moving ==
    fwUp /\ cmds # <<>> =>
       /\ "WAIT_PUSH" \notin flags[cmds[1]]
       /\ "WAIT_ACK" \in flags[cmds[1]] => pc[cmds[1]] = "push" \/ InFlight(cmds[1])
       /\ "WAIT_CFM" \in flags[cmds[1]] => pc[cmds[1]] = "push" \/ e2a # <<>> \/ fwOwes # <<>>

\* Nothing is on its way while the IPC is down, or once a call has timed out.
Stilled ==
    /\ state = "DEINIT" =>
          /\ cmds = <<>> /\ fwInbox = NoCmd /\ fwOwes = <<>>
          /\ \A c \in Cmd : pc[c] \in {"idle", "end"}
    /\ state # "INITED" \/ (\E c \in Cmd : pc[c] = "expired") =>
          ~fwUp /\ ~fwAckIrq /\ irqAck = NoCmd /\ e2a = <<>>

\* No illegal operation met the command of a blocking call.
NoHarm == \A e \in errs : e[2] \in Cmd /\ ~Blocking(e[2])

\* A call that succeeded was acknowledged, and got its own confirmation.
Truthful ==
    \A c \in Cmd : result[c] = "OK" =>
        "WAIT_ACK" \notin flags[c] /\ (req[c].cfm # NoCfm => cfmFrom[c] = c)

\* The calls are neither killed nor overtaken by late answers or a tear-down.
Steady  == faults \subseteq {"silent", "buserr"}

\* What holds on PCIe as long as the only fault is silence.
Calm    == Pcie /\ Steady
Orderly == /\ Stages /\ Listed /\ OneSent /\ Flight /\ Owed
           /\ Moving /\ Stilled /\ NoHarm /\ Truthful

PcieInv == Calm => Orderly

-----------------------------------------------------------------------------
\* On PCIe the only command that was sent is the first.
LEMMA SentIsFirst ==
  ASSUME ListInv, OneSent, NEW c \in Cmd, InList(c), "WAIT_PUSH" \notin flags[c]
  PROVE  cmds # <<>> /\ 1 \in DOMAIN cmds /\ c = cmds[1]
BY ListFacts DEF OneSent, InList

\* Touching or freeing c harms no blocking call.
Harmless(E) == \A e \in E : e[2] \in Cmd /\ ~Blocking(e[2])

\* A call that has not ended still holds its command.
LEMMA TouchHarmless ==
  ASSUME Stages, NEW c \in Cmd, Blocking(c) => pc[c] # "end"
  PROVE  Harmless(Touch(c))
BY DEF Stages, Touch, Harmless

\* Harmless operations keep the record harmless.
LEMMA StillHarmless ==
  ASSUME NoHarm, NEW E, Harmless(E), errs' = errs \cup E, req' = req
  PROVE  NoHarm'
BY DEF NoHarm, Harmless, Blocking

\* A new call, or one refused while the IPC is down, holds nothing yet.
LEMMA PcieSendMsg ==
  ASSUME ListInv, ListInv', Calm, Orderly, NEW c \in Cmd, SendMsg(c)
  PROVE  Orderly'
<1>. USE CmdAssumption DEF Orderly, Calm, Steady, mgrVars, cmdVars, memVars, taskVars, fwVars
<1>1. Stages'
  BY DEF Stages, SendMsg, Drop, Fresh, InList, InFlight, Busy, Blocking, ListInv,
     TypeOK, CmdType, ControlType
<1>2. Listed'
  BY DEF Listed, SendMsg, Drop, Fresh, InList, Blocking, ListedIsQueued, ListInv,
     TypeOK, CmdType, ControlType
<1>3. OneSent'
  BY DEF OneSent, SendMsg
<1>4. Flight'
  BY DEF Flight, SendMsg, Drop, InList, InFlight, Busy
<1>5. Owed'
  BY ListFacts DEF Owed, SendMsg, Drop, OwedOnly, ListInv, TypeOK, CmdType,
     ControlType
<1>6. Moving'
  BY ListFacts DEF Moving, SendMsg, Drop, InFlight, Busy, ListInv, TypeOK,
     CmdType, ControlType
<1>7. Stilled'
  BY DEF Stilled, SendMsg, Drop, ListInv, TypeOK, CmdType, ControlType
<1>8. NoHarm'
  BY DEF NoHarm, SendMsg, Drop, Blocking
<1>9. Truthful'
  BY DEF Truthful, SendMsg, Drop, ListInv, TypeOK, CmdType, ControlType
<1>. QED  BY <1>1, <1>2, <1>3, <1>4, <1>5, <1>6, <1>7, <1>8, <1>9

\* The caller's push puts the only message in flight.
LEMMA PciePush ==
  ASSUME ListInv, ListInv', Calm, Orderly, NEW c \in Cmd, Push(c)
  PROVE  Orderly'
<1>. USE CmdAssumption DEF Orderly, Calm, Steady, mgrVars, cmdVars, memVars, taskVars, fwVars
<1>s. state # "DEINIT"
  BY DEF Push, Stilled
<1>a. /\ Mailbox(c) /\ errs' = errs \cup Touch(c) /\ req' = req
      /\ pc[c] = "push" /\ pc' = [pc EXCEPT ![c] = "freeMsg"]
      /\ UNCHANGED <<state, cmds, flags, cfmFrom, irqAck, msgSem, taskPc>>
  BY <1>s DEF Push
<1>b. InList(c) /\ Fresh(c) /\ "WAIT_PUSH" \notin flags[c] /\ ~InFlight(c)
  BY <1>a DEF Stages
<1>c. cmds # <<>> /\ 1 \in DOMAIN cmds /\ c = cmds[1]
  BY <1>b, SentIsFirst
<1>d. \A d \in Cmd : ~InFlight(d)
  BY <1>b, <1>c, SentIsFirst DEF Flight
<1>e. irqAck = NoCmd /\ ~Busy /\ ~fwAckIrq
  BY <1>d DEF InFlight, Flight, Busy, ListInv, TypeOK, ControlType
<1>f. e2a = <<>> /\ (fwUp => fwOwes = <<>>)
  BY <1>a, <1>c DEF Owed, OwedOnly
<1>g. fwUp => req[c].cfm # NoCfm \/ fwOwes' = <<>>
  BY <1>a, <1>f DEF Mailbox
<1>h. "WAIT_CFM" \in flags[c] <=> req[c].cfm # NoCfm
  BY <1>b DEF Fresh
<1>i. pc[c] = "push" /\ pc'[c] = "freeMsg"
  BY <1>a DEF ListInv, TypeOK, ControlType
<1>1. Stages'
  <2>1. UNCHANGED <<msgMem, cmdMem, completion, flags>>
    BY <1>s DEF Push
  <2>2. /\ \A d \in Cmd : d # c => pc'[d] = pc[d] /\ pc[d] # "push"
        /\ pc'[c] = "freeMsg"
    <3>1. \A d \in Cmd : pc[d] = "push" => d = c
      BY <1>c, SentIsFirst DEF Stages
    <3>. QED  BY <1>a, <3>1 DEF ListInv, TypeOK, ControlType
  <2>3. \A d \in Cmd : InList(d)' <=> InList(d)
    BY <1>a DEF InList
  <2>. QED  BY SMTT(40), <1>a, <1>b, <1>i, <2>1, <2>2, <2>3 DEF Stages, Blocking, Fresh
<1>2. Listed'
  <2>1. \A d \in Cmd : d # c => pc'[d] = pc[d]
    BY <1>a DEF ListInv, TypeOK, ControlType
  <2>2. UNCHANGED completion /\ \A d \in Cmd : InList(d)' <=> InList(d)
    BY <1>a DEF Push, InList
  <2>. QED  BY <1>a, <1>i, <2>1, <2>2 DEF Listed, Blocking, Fresh
<1>3. OneSent'
  BY DEF OneSent, Push, Mailbox
<1>4. Flight'
  BY <1>a, <1>b, <1>e DEF Fresh, Flight, Mailbox, InFlight, Busy, InList
<1>5. Owed'
  <2>1. fwUp => fwOwes' = <<>> \/ (Len(fwOwes') = 1 /\ fwOwes'[1] = c /\ req[c].cfm # NoCfm)
    <3>1. fwUp => fwOwes' = <<>> \/ (fwOwes' = Append(<<>>, c) /\ req[c].cfm # NoCfm)
      BY <1>a, <1>f DEF Mailbox
    <3>. QED  BY <3>1
  <2>2. e2a' = <<>> /\ fwUp' = fwUp /\ cmds' = cmds /\ flags' = flags /\ pc'[c] # "push"
    BY <1>a, <1>f DEF Mailbox, ListInv, TypeOK, ControlType
  <2>. QED  BY <1>b, <1>c, <1>h, <2>1, <2>2 DEF Owed, OwedOnly
<1>6. Moving'
  <2>1. /\ hostid' = c /\ fwInbox' = c /\ c # NoCmd
        /\ req[c].cfm # NoCfm => fwOwes' = Append(fwOwes, c)
    BY <1>a DEF Mailbox
  <2>2. req[c].cfm # NoCfm => fwOwes' # <<>>
    BY <2>1 DEF ListInv, TypeOK, FwType
  <2>3. fwUp' => InFlight(c)'
    BY <2>1 DEF InFlight, Busy
  <2>. QED  BY <1>a, <1>b, <1>c, <1>h, <2>2, <2>3 DEF Moving
<1>7. Stilled'
  BY SMTT(40), <1>s, <1>a DEF Stilled, Mailbox, ListInv, TypeOK, ControlType
<1>8. NoHarm'
  BY <1>a, TouchHarmless, StillHarmless
<1>9. Truthful'
  BY DEF Truthful, Push, Mailbox
<1>. QED  BY <1>1, <1>2, <1>3, <1>4, <1>5, <1>6, <1>7, <1>8, <1>9

\* The caller frees the message it pushed, and nobody else has.
LEMMA PcieFreeMsg ==
  ASSUME ListInv, ListInv', Calm, Orderly, NEW c \in Cmd, FreeMsg(c)
  PROVE  Orderly'
<1>. USE CmdAssumption DEF Orderly, Calm, Steady, mgrVars, cmdVars, memVars, taskVars, fwVars
<1>1. Stages'
  BY DEF Stages, FreeMsg, Fresh, InList, InFlight, Busy, Blocking, ListInv,
     TypeOK, CmdType, ControlType
<1>2. Listed'
  BY DEF Listed, FreeMsg, Fresh, InList, Blocking
<1>3. OneSent'
  BY DEF OneSent, FreeMsg
<1>4. Flight'
  BY DEF Flight, FreeMsg, InList, InFlight, Busy
<1>5. Owed'
  BY DEF Owed, FreeMsg, OwedOnly
<1>6. Moving'
  BY DEF Moving, FreeMsg, InFlight, Busy
<1>7. Stilled'
  BY DEF Stilled, FreeMsg
<1>8. NoHarm'
  <2>1. pc[c] # "end" /\ errs' = errs \cup Touch(c) /\ req' = req
    BY DEF FreeMsg, FreeMsgOf, Stages
  <2>. QED  BY <2>1, TouchHarmless, StillHarmless
<1>9. Truthful'
  BY DEF Truthful, FreeMsg
<1>. QED  BY <1>1, <1>2, <1>3, <1>4, <1>5, <1>6, <1>7, <1>8, <1>9

\* A wait ends because the call was completed, or because nothing will move any more.
LEMMA PcieWaitEnds ==
  ASSUME ListInv, ListInv', Calm, Orderly, NEW c \in Cmd, WaitEnds(c)
  PROVE  Orderly'
<1>. USE CmdAssumption DEF Orderly, Calm, Steady, mgrVars, cmdVars, memVars, taskVars, fwVars
<1>1. Stages'
  BY DEF Stages, WaitEnds, Fresh, InList, InFlight, Busy, Blocking,
     MayExpire, ListInv, TypeOK, CmdType, ControlType
<1>2. Listed'
  BY DEF Listed, WaitEnds, Fresh, InList, Blocking, MayExpire, ListInv,
     TypeOK, CmdType, ControlType
<1>3. OneSent'
  BY DEF OneSent, WaitEnds, MayExpire
<1>4. Flight'
  BY DEF Flight, WaitEnds, InList, InFlight, Busy, MayExpire
<1>5. Owed'
  BY ListFacts DEF Owed, WaitEnds, OwedOnly, MayExpire, ListInv, TypeOK,
     CmdType, ControlType
<1>6. Moving'
  BY ListFacts DEF Moving, WaitEnds, InFlight, Busy, MayExpire, ListInv,
     TypeOK, CmdType, ControlType
<1>7. Stilled'
  BY SMTT(40), ListFacts DEF Stilled, WaitEnds, MayExpire, Moving, Listed, Stages,
     ListInv, TypeOK, CmdType, ControlType, MgrType, FwType, Fresh, InList,
     InFlight, Busy, Blocking, OwedOnly
<1>8. NoHarm'
  <2>1. pc[c] # "end" /\ errs' = errs \cup Touch(c) /\ req' = req
    BY DEF WaitEnds
  <2>. QED  BY <2>1, TouchHarmless, StillHarmless
<1>9. Truthful'
  BY DEF Truthful, WaitEnds, MayExpire
<1>. QED  BY <1>1, <1>2, <1>3, <1>4, <1>5, <1>6, <1>7, <1>8, <1>9

\* The caller frees a command that is no longer in the list.
LEMMA PcieReturn ==
  ASSUME ListInv, ListInv', Calm, Orderly, NEW c \in Cmd, Return(c)
  PROVE  Orderly'
<1>. USE CmdAssumption DEF Orderly, Calm, Steady, mgrVars, cmdVars, memVars, taskVars, fwVars
<1>1. Stages'
  BY DEF Stages, Return, Fresh, InList, InFlight, Busy, Blocking, ListInv,
     TypeOK, CmdType, ControlType
<1>2. Listed'
  BY DEF Listed, Return, Fresh, InList, Blocking
<1>3. OneSent'
  BY DEF OneSent, Return
<1>4. Flight'
  BY DEF Flight, Return, InList, InFlight, Busy
<1>5. Owed'
  BY DEF Owed, Return, OwedOnly
<1>6. Moving'
  BY DEF Moving, Return, InFlight, Busy
<1>7. Stilled'
  BY DEF Stilled, Return
<1>8. NoHarm'
  <2>1. errs' = errs /\ req' = req
    BY DEF Return, FreeCmd, Stages
  <2>. QED  BY <2>1 DEF NoHarm, Blocking
<1>9. Truthful'
  BY DEF Truthful, Return
<1>. QED  BY <1>1, <1>2, <1>3, <1>4, <1>5, <1>6, <1>7, <1>8, <1>9

\* The acknowledgement arrives and the confirmation is still missing.
LEMMA PcieAckPartial ==
  ASSUME ListInv, ListInv', Calm, Orderly, AckPartial
  PROVE  Orderly'
<1>. USE CmdAssumption DEF Orderly, Calm, Steady, mgrVars, cmdVars, memVars, taskVars, fwVars
<1>1. Stages'
  BY DEF Stages, AckPartial, Fresh, InList, InFlight, Busy, Blocking,
     AckFinds, WaitComplete
<1>2. Listed'
  BY ListFacts DEF Listed, AckPartial, Fresh, InList, Blocking, AckFinds,
     WaitComplete, Flight, Stages, ListInv, TypeOK, CmdType, ControlType,
     MgrType, FwType, InFlight, Busy, OwedOnly
<1>3. OneSent'
  BY DEF OneSent, AckPartial, AckFinds, WaitComplete
<1>4. Flight'
  BY DEF Flight, AckPartial, InList, InFlight, Busy, AckFinds, WaitComplete
<1>5. Owed'
  BY DEF Owed, AckPartial, OwedOnly, AckFinds, WaitComplete
<1>6. Moving'
  BY DEF Moving, AckPartial, InFlight, Busy, AckFinds, WaitComplete,
     ListInv, TypeOK, CmdType, ControlType
<1>7. Stilled'
  BY DEF Stilled, AckPartial, AckFinds, WaitComplete
<1>8. NoHarm'
  <2>1. irqAck \in Cmd /\ InFlight(irqAck)
    BY DEF AckPartial, InFlight, ListInv, TypeOK, ControlType
  <2>2. Blocking(irqAck) => pc[irqAck] # "end"
    BY <2>1 DEF Flight, Listed
  <2>3. errs' = errs \cup Touch(irqAck) /\ req' = req
    BY DEF AckPartial
  <2>. QED  BY <2>1, <2>2, <2>3, TouchHarmless, StillHarmless
<1>9. Truthful'
  BY DEF Truthful, AckPartial, AckFinds, WaitComplete
<1>. QED  BY <1>1, <1>2, <1>3, <1>4, <1>5, <1>6, <1>7, <1>8, <1>9

\* The IPC goes down with no call in progress.
LEMMA PcieIpcDeinit ==
  ASSUME ListInv, ListInv', Calm, Orderly, IpcDeinit
  PROVE  Orderly'
<1>. USE CmdAssumption DEF Orderly, Calm, Steady, mgrVars, cmdVars, memVars, taskVars, fwVars
<1>1. Stages'
  BY ZenonT(40) DEF Stages, IpcDeinit, Fresh, InList, InFlight, Busy, Blocking, Listed,
     ListedIsQueued
<1>2. Listed'
  BY DEF Listed, IpcDeinit, Fresh, InList, Blocking
<1>3. OneSent'
  BY DEF OneSent, IpcDeinit
<1>4. Flight'
  BY DEF Flight, IpcDeinit, InList, InFlight, Busy
<1>5. Owed'
  BY DEF Owed, IpcDeinit, OwedOnly
<1>6. Moving'
  BY DEF Moving, IpcDeinit, InFlight, Busy
<1>7. Stilled'
  BY DEF Stilled, IpcDeinit
<1>8. NoHarm'
  BY DEF NoHarm, IpcDeinit, Blocking
<1>9. Truthful'
  BY DEF Truthful, IpcDeinit
<1>. QED  BY <1>1, <1>2, <1>3, <1>4, <1>5, <1>6, <1>7, <1>8, <1>9

\* The IPC comes back with nothing in flight.
LEMMA PcieIpcInit ==
  ASSUME ListInv, ListInv', Calm, Orderly, IpcInit
  PROVE  Orderly'
<1>. USE CmdAssumption DEF Orderly, Calm, Steady, mgrVars, cmdVars, memVars, taskVars, fwVars
<1>1. Stages'
  BY DEF Stages, IpcInit, Fresh, InList, InFlight, Busy, Blocking, Stilled
<1>2. Listed'
  BY DEF Listed, IpcInit, Fresh, InList, Blocking
<1>3. OneSent'
  BY DEF OneSent, IpcInit
<1>4. Flight'
  BY DEF Flight, IpcInit, InList, InFlight, Busy, Stilled
<1>5. Owed'
  BY DEF Owed, IpcInit, OwedOnly, Stilled
<1>6. Moving'
  BY DEF Moving, IpcInit, InFlight, Busy, Stilled
<1>7. Stilled'
  BY DEF Stilled, IpcInit
<1>8. NoHarm'
  BY DEF NoHarm, IpcInit, Blocking
<1>9. Truthful'
  BY DEF Truthful, IpcInit
<1>. QED  BY <1>1, <1>2, <1>3, <1>4, <1>5, <1>6, <1>7, <1>8, <1>9

\* A refused command was never listed.
LEMMA PcieQueueRefuse ==
  ASSUME ListInv, ListInv', Calm, Orderly, NEW c \in Cmd, QueueRefuse(c)
  PROVE  Orderly'
<1>. USE CmdAssumption DEF Orderly, Calm, Steady, mgrVars, cmdVars, memVars, taskVars, fwVars
<1>1. Stages'
  BY DEF Stages, QueueRefuse, Fresh, InList, InFlight, Busy, Blocking, Leave
<1>2. Listed'
  BY DEF Listed, QueueRefuse, Fresh, InList, Blocking, Leave
<1>3. OneSent'
  BY DEF OneSent, QueueRefuse, Leave
<1>4. Flight'
  BY DEF Flight, QueueRefuse, InList, InFlight, Busy, Leave
<1>5. Owed'
  BY DEF Owed, QueueRefuse, OwedOnly, Leave
<1>6. Moving'
  BY DEF Moving, QueueRefuse, InFlight, Busy, Leave
<1>7. Stilled'
  BY DEF Stilled, QueueRefuse, Leave
<1>8. NoHarm'
  BY DEF NoHarm, QueueRefuse, Blocking, Leave
<1>9. Truthful'
  BY DEF Truthful, QueueRefuse, Leave, ListInv, TypeOK, CmdType,
     ControlType
<1>. QED  BY <1>1, <1>2, <1>3, <1>4, <1>5, <1>6, <1>7, <1>8, <1>9

\* The interrupt takes the acknowledged command out of the mailbox.
LEMMA PcieMsgAck ==
  ASSUME ListInv, ListInv', Calm, Orderly, MsgAck
  PROVE  Orderly'
<1>. USE CmdAssumption DEF Orderly, Calm, Steady, mgrVars, cmdVars, memVars, taskVars, fwVars
<1>1. Stages'
  BY DEF Stages, MsgAck, Fresh, InList, InFlight, Busy, Blocking
<1>2. Listed'
  BY DEF Listed, MsgAck, Fresh, InList, Blocking
<1>3. OneSent'
  BY DEF OneSent, MsgAck
<1>4. Flight'
  BY DEF Flight, MsgAck, InList, InFlight, Busy
<1>5. Owed'
  BY DEF Owed, MsgAck, OwedOnly
<1>6. Moving'
  BY ListFacts DEF Moving, MsgAck, InFlight, Busy, ListInv, TypeOK, CmdType,
     ControlType
<1>7. Stilled'
  BY DEF Stilled, MsgAck
<1>8. NoHarm'
  BY DEF NoHarm, MsgAck, Blocking
<1>9. Truthful'
  BY DEF Truthful, MsgAck
<1>. QED  BY <1>1, <1>2, <1>3, <1>4, <1>5, <1>6, <1>7, <1>8, <1>9

\* The firmware acknowledges the message in the mailbox.
LEMMA PcieFwAck ==
  ASSUME ListInv, ListInv', Calm, Orderly, FwAck
  PROVE  Orderly'
<1>. USE CmdAssumption DEF Orderly, Calm, Steady, mgrVars, cmdVars, memVars, taskVars, fwVars
<1>1. Stages'
  BY DEF Stages, FwAck, Fresh, InList, InFlight, Busy, Blocking
<1>2. Listed'
  BY DEF Listed, FwAck, Fresh, InList, Blocking
<1>3. OneSent'
  BY DEF OneSent, FwAck
<1>4. Flight'
  BY DEF Flight, FwAck, InList, InFlight, Busy
<1>5. Owed'
  BY DEF Owed, FwAck, OwedOnly
<1>6. Moving'
  BY DEF Moving, FwAck, InFlight, Busy
<1>7. Stilled'
  BY DEF Stilled, FwAck
<1>8. NoHarm'
  BY DEF NoHarm, FwAck, Blocking
<1>9. Truthful'
  BY DEF Truthful, FwAck
<1>. QED  BY <1>1, <1>2, <1>3, <1>4, <1>5, <1>6, <1>7, <1>8, <1>9

\* The firmware falls silent.
LEMMA PcieFwStop ==
  ASSUME ListInv, ListInv', Calm, Orderly, FwStop
  PROVE  Orderly'
<1>. USE CmdAssumption DEF Orderly, Calm, Steady, mgrVars, cmdVars, memVars, taskVars, fwVars
<1>1. Stages'
  BY DEF Stages, FwStop, Fresh, InList, InFlight, Busy, Blocking
<1>2. Listed'
  BY DEF Listed, FwStop, Fresh, InList, Blocking
<1>3. OneSent'
  BY DEF OneSent, FwStop
<1>4. Flight'
  BY DEF Flight, FwStop, InList, InFlight, Busy
<1>5. Owed'
  BY DEF Owed, FwStop, OwedOnly
<1>6. Moving'
  BY DEF Moving, FwStop, InFlight, Busy
<1>7. Stilled'
  BY DEF Stilled, FwStop
<1>8. NoHarm'
  BY DEF NoHarm, FwStop, Blocking
<1>9. Truthful'
  BY DEF Truthful, FwStop
<1>. QED  BY <1>1, <1>2, <1>3, <1>4, <1>5, <1>6, <1>7, <1>8, <1>9

\* A call that timed out unlinks its command, which is still in the list.
LEMMA PcieExpire ==
  ASSUME ListInv, ListInv', Calm, Orderly, NEW c \in Cmd, Expire(c)
  PROVE  Orderly'
<1>. USE CmdAssumption DEF Orderly, Calm, Steady, mgrVars, cmdVars, memVars, taskVars, fwVars
<1>a. /\ pc[c] = "expired" /\ Blocking(c) /\ pc' = [pc EXCEPT ![c] = "return"]
      /\ ~fwUp /\ ~fwAckIrq /\ irqAck = NoCmd /\ e2a = <<>>
      /\ UNCHANGED <<req, completion, cfmFrom, memVars, hostid, irqAck, taskVars, fwVars>>
  BY DEF Expire, Stages, Stilled
<1>b. \A d \in Cmd : ~InFlight(d)
  BY <1>a DEF InFlight, Busy
<1>c. \/ /\ UNCHANGED <<cmds, flags, result>> /\ "DONE" \in flags[c]
         /\ \A d : InList(d)' <=> InList(d)
      \/ /\ \E i \in DOMAIN cmds : cmds[i] = c /\ cmds' = ListDel(cmds, i)
         /\ flags' = [flags EXCEPT ![c] = @ \cup {"DONE"}]
         /\ result' = [result EXCEPT ![c] = "ETIMEDOUT"]
         /\ InList(c) /\ \A d : InList(d)' <=> InList(d) /\ d # c
  <2>1. CASE "DONE" \in flags[c]
    BY <2>1 DEF Expire, InList
  <2>2. CASE "DONE" \notin flags[c]
    BY <1>a, <2>2, Removed DEF Expire, Unlink, Stages
  <2>. QED  BY <2>1, <2>2
<1>1. Stages'
  BY <1>a, <1>b, <1>c, ListFacts DEF Stages, Expire, Fresh, InFlight, Busy,
     Blocking, ListInv, TypeOK, CmdType, ControlType
<1>2. Listed'
  BY <1>a, <1>b, <1>c, ListFacts DEF Listed, Expire, Fresh, Blocking,
     ListInv, TypeOK, CmdType, ControlType
<1>3. OneSent'
  <2>1. CASE UNCHANGED <<cmds, flags, result>>
    BY <2>1 DEF OneSent
  <2>2. ASSUME NEW i \in DOMAIN cmds, cmds[i] = c, cmds' = ListDel(cmds, i),
               flags' = [flags EXCEPT ![c] = @ \cup {"DONE"}]
        PROVE  OneSent'
    <3>1. /\ Len(cmds') = Len(cmds) - 1
          /\ \A k \in 1..(Len(cmds) - 1) : cmds'[k] = IF k < i THEN cmds[k] ELSE cmds[k + 1]
      BY <2>2, Removed
    <3>2. \A k \in 2..(Len(cmds) - 1) : "WAIT_PUSH" \in flags[cmds'[k]]
      BY <3>1, ListFacts DEF OneSent
    <3>3. \A d \in Cmd : "WAIT_PUSH" \in flags[d] => "WAIT_PUSH" \in flags'[d]
      BY <2>2 DEF ListInv, TypeOK, CmdType
    <3>. QED  BY <3>1, <3>2, <3>3, ListFacts DEF OneSent
  <2>. QED  BY <1>c, <2>1, <2>2
<1>4. Flight'
  BY <1>a, <1>b, <1>c, ListFacts DEF Flight, Expire, InFlight, Busy
<1>5. Owed'
  BY <1>a, <1>b, <1>c, ListFacts DEF Owed, Expire, OwedOnly
<1>6. Moving'
  BY <1>a, <1>b, <1>c, ListFacts DEF Moving, Expire, InFlight, Busy
<1>7. Stilled'
  <2>1. state # "DEINIT" /\ state' = "CRASHED"
    BY <1>a DEF Stilled, Expire, Crashed
  <2>. QED  BY <1>a, <2>1 DEF Stilled
<1>8. NoHarm'
  <2>1. errs' = errs \cup Touch(c) /\ req' = req
    BY <1>a DEF Expire, UnlinkErr, Stages
  <2>. QED  BY <1>a, <2>1, TouchHarmless, StillHarmless
<1>9. Truthful'
  BY <1>a, <1>b, <1>c, ListFacts DEF Truthful, Expire, ListInv,
     TypeOK, CmdType, ControlType
<1>. QED  BY <1>1, <1>2, <1>3, <1>4, <1>5, <1>6, <1>7, <1>8, <1>9

\* A command behind another one is deferred, the first one goes to its push.
LEMMA PcieQueueAccept ==
  ASSUME ListInv, ListInv', Calm, Orderly, NEW c \in Cmd, QueueAccept(c)
  PROVE  Orderly'
<1>. USE CmdAssumption DEF Orderly, Calm, Steady, mgrVars, cmdVars, memVars, taskVars, fwVars
<1>a. /\ Len(cmds') = Len(cmds) + 1 /\ DOMAIN cmds' = 1..(Len(cmds) + 1) /\ cmds' # <<>>
      /\ \A k \in 1..Len(cmds) : cmds'[k] = cmds[k]
      /\ cmds'[Len(cmds) + 1] = c
  <2>1. cmds' = Append(cmds, c) /\ cmds \in Seq(Cmd)
    BY ListFacts DEF QueueAccept
  <2>. QED  BY <2>1, ListFacts, AppendProperties, LenProperties
<1>b. \A d : InList(d)' <=> InList(d) \/ d = c
  BY <1>a, ListFacts DEF InList
<1>c. ~InList(c) /\ ~InFlight(c) /\ pc[c] = "queue" /\ state = "INITED"
  BY DEF ListInv, ListedIsQueued, QueueAccept, Flight
<1>d. MustDefer <=> cmds # <<>>
  <2>1. cmds # <<>> => InList(cmds[Len(cmds)]) /\ cmds[Len(cmds)] \in Cmd
    BY ListFacts DEF InList
  <2>. QED  BY <2>1 DEF MustDefer, Listed
<1>e. /\ flags' = [flags EXCEPT ![c] =
           {"WAIT_ACK"} \cup (IF req[c].cfm # NoCfm THEN {"WAIT_CFM"} ELSE {})
                        \cup (IF cmds # <<>> THEN {"WAIT_PUSH"} ELSE {})]
      /\ pc' = [pc EXCEPT ![c] = IF cmds = <<>> THEN "push"
                                 ELSE IF Blocking(c) THEN "wait" ELSE "end"]
      /\ result' = [result EXCEPT ![c] = "EINTR"]
      /\ UNCHANGED <<state, req, completion, cfmFrom, memVars, hostid, irqAck,
                     taskVars, fwVars, errs>>
  BY <1>d DEF QueueAccept, NotDeferredPc
<1>1. Stages'
  BY <1>a, <1>b, <1>c, <1>d, <1>e, ListFacts DEF Stages, QueueAccept, Fresh,
     InFlight, Busy, Blocking, ListInv, TypeOK, CmdType, ControlType
<1>2. Listed'
  <2>1. ASSUME NEW d \in Cmd, InList(d)', d # c
        PROVE  InList(d) /\ flags'[d] = flags[d] /\ pc'[d] = pc[d]
    BY <1>b, <1>e, <2>1
  <2>2. Blocking(c) => pc'[c] \in {"push", "wait"}
    BY <1>e DEF ListInv, TypeOK, ControlType
  <2>3. /\ "DONE" \notin flags'[c] /\ "WAIT_ACK" \in flags'[c]
        /\ "WAIT_CFM" \in flags'[c] <=> req[c].cfm # NoCfm
        /\ ~completion[c]
    BY <1>c, <1>e DEF Stages, ListInv, TypeOK, CmdType
  <2>. QED  BY <1>b, <1>e, <2>1, <2>2, <2>3 DEF Listed, Fresh, Blocking
<1>3. OneSent'
  BY <1>a, <1>b, <1>c, <1>d, <1>e, ListFacts DEF OneSent, QueueAccept,
     ListInv, TypeOK, CmdType, ControlType
<1>4. Flight'
  BY <1>a, <1>b, <1>c, <1>d, <1>e, ListFacts DEF Flight, QueueAccept,
     InFlight, Busy
<1>5. Owed'
  BY SMTT(40), <1>a, <1>b, <1>c, <1>d, <1>e, ListFacts DEF Owed, QueueAccept,
     OwedOnly, ListInv, TypeOK, CmdType, ControlType, MgrType, FwType,
     Fresh, InList, InFlight, Busy, Blocking
<1>6. Moving'
  BY <1>a, <1>b, <1>c, <1>d, <1>e, ListFacts DEF Moving, QueueAccept,
     InFlight, Busy, ListInv, TypeOK, CmdType, ControlType, MgrType, FwType,
     Fresh, InList, Blocking, OwedOnly
<1>7. Stilled'
  BY <1>a, <1>b, <1>c, <1>d, <1>e, ListFacts DEF Stilled, QueueAccept
<1>8. NoHarm'
  BY <1>a, <1>b, <1>c, <1>d, <1>e, ListFacts DEF NoHarm, QueueAccept,
     Blocking
<1>9. Truthful'
  BY <1>a, <1>b, <1>c, <1>d, <1>e, ListFacts DEF Truthful,
     QueueAccept, ListInv, TypeOK, CmdType, ControlType
<1>. QED  BY <1>1, <1>2, <1>3, <1>4, <1>5, <1>6, <1>7, <1>8, <1>9

\* The firmware confirms the first command.
LEMMA PcieFwConfirm ==
  ASSUME ListInv, ListInv', Calm, Orderly, FwConfirm
  PROVE  Orderly'
<1>. USE CmdAssumption DEF Orderly, Calm, Steady, mgrVars, cmdVars, memVars, taskVars, fwVars
<1>a. fwUp /\ Len(fwOwes) = 1 /\ e2a = <<>> /\ OwedOnly(fwOwes)
  BY DEF FwConfirm, Owed, OwedOnly
<1>b. e2a' = <<cmds[1]>> /\ Len(e2a') = 1 /\ e2a'[1] = cmds[1] /\ fwOwes' = <<>>
  <2>1. PICK i \in DOMAIN fwOwes : e2a' = Append(e2a, fwOwes[i]) /\ fwOwes' = ListDel(fwOwes, i)
    BY DEF FwConfirm
  <2>2. fwOwes \in Seq(Cmd) /\ i = 1
    BY <1>a, <2>1, LenProperties DEF ListInv, TypeOK, FwType
  <2>3. fwOwes' \in Seq(Cmd) /\ Len(fwOwes') = 0
    BY <1>a, <2>1, <2>2, ListDelProperties
  <2>4. fwOwes' = <<>>
    BY <2>3, EmptySeq
  <2>5. e2a' = <<fwOwes[1]>> /\ fwOwes[1] = cmds[1]
    <3>1. e2a' = Append(<<>>, fwOwes[1])
      BY <1>a, <2>1, <2>2
    <3>. QED  BY <1>a, <3>1 DEF OwedOnly
  <2>. QED  BY <2>4, <2>5
<1>1. Stages'
  BY <1>a, <1>b, ListFacts DEF Stages, FwConfirm, Fresh, InList, InFlight,
     Busy, Blocking
<1>2. Listed'
  BY <1>a, <1>b, ListFacts DEF Listed, FwConfirm, Fresh, InList, Blocking
<1>3. OneSent'
  BY <1>a, <1>b, ListFacts DEF OneSent, FwConfirm
<1>4. Flight'
  BY <1>a, <1>b, ListFacts DEF Flight, FwConfirm, InList, InFlight, Busy
<1>5. Owed'
  <2>1. UNCHANGED <<cmds, flags, pc>>
    BY DEF FwConfirm
  <2>. QED  BY <1>a, <1>b, <2>1 DEF Owed, OwedOnly
<1>6. Moving'
  BY <1>a, <1>b, ListFacts DEF Moving, FwConfirm, InFlight, Busy
<1>7. Stilled'
  BY <1>a, <1>b, ListFacts DEF Stilled, FwConfirm
<1>8. NoHarm'
  BY <1>a, <1>b, ListFacts DEF NoHarm, FwConfirm, Blocking
<1>9. Truthful'
  BY <1>a, <1>b, ListFacts DEF Truthful, FwConfirm
<1>. QED  BY <1>1, <1>2, <1>3, <1>4, <1>5, <1>6, <1>7, <1>8, <1>9

\* A confirmation on its way is that of the first command.
LEMMA CreditsFirst ==
  ASSUME ListInv, Owed, e2a # <<>>
  PROVE  /\ 1 \in DOMAIN cmds /\ Head(e2a) = cmds[1] /\ Tail(e2a) = <<>>
         /\ InList(cmds[1]) /\ cmds[1] \in Cmd
         /\ "WAIT_CFM" \in flags[cmds[1]] /\ "WAIT_PUSH" \notin flags[cmds[1]]
         /\ pc[cmds[1]] # "push"
         /\ fwUp => fwOwes = <<>>
         /\ CfmIdx(req[Head(e2a)].cfm) = {1}
<1>1. /\ Len(e2a) = 1 /\ cmds # <<>> /\ e2a[1] = cmds[1]
      /\ "WAIT_CFM" \in flags[cmds[1]] /\ "WAIT_PUSH" \notin flags[cmds[1]]
      /\ pc[cmds[1]] # "push"
      /\ fwUp => fwOwes = <<>>
  BY DEF Owed, OwedOnly
<1>2. 1 \in DOMAIN cmds /\ InList(cmds[1]) /\ cmds[1] \in Cmd
  BY <1>1, ListFacts DEF InList
<1>3. e2a \in Seq(Cmd)
  BY DEF ListInv, TypeOK, FwType
<1>4. Head(e2a) = cmds[1]
  BY <1>1, <1>3
<1>5. Tail(e2a) \in Seq(Cmd) /\ Len(Tail(e2a)) = 0
  BY <1>1, <1>3, HeadTailProperties
<1>6. Tail(e2a) = <<>>
  BY <1>5, EmptySeq
<1>7. 1 \in CfmMatches(req[Head(e2a)].cfm)
  BY <1>1, <1>2, <1>4 DEF CfmMatches
<1>8. \A j \in DOMAIN cmds : 1 <= j /\ (j <= 1 => j = 1)
  BY ListFacts
<1>9. CfmIdx(req[Head(e2a)].cfm) = {1}
  BY <1>7, <1>8 DEF CfmIdx, CfmMatches
<1>. QED  BY <1>1, <1>2, <1>4, <1>6, <1>9

\* The confirmation arrives before the acknowledgement.
LEMMA PcieCfmPartial ==
  ASSUME ListInv, ListInv', Calm, Orderly, CfmPartial
  PROVE  Orderly'
<1>. USE CmdAssumption DEF Orderly, Calm, Steady, mgrVars, cmdVars, memVars, taskVars, fwVars
<1>a. /\ 1 \in DOMAIN cmds /\ cmds[1] \in Cmd /\ InList(cmds[1])
      /\ "WAIT_PUSH" \notin flags[cmds[1]] /\ pc[cmds[1]] # "push" /\ (fwUp => fwOwes = <<>>)
  BY CreditsFirst DEF CfmPartial
<1>b. /\ "WAIT_ACK" \in flags[cmds[1]] /\ errs' = errs \cup Touch(cmds[1]) /\ e2a' = <<>>
      /\ flags' = [flags EXCEPT ![cmds[1]] = @ \ {"WAIT_CFM"}]
      /\ cfmFrom' = [cfmFrom EXCEPT ![cmds[1]] = cmds[1]]
  <2>1. Head(e2a) = cmds[1] /\ Tail(e2a) = <<>> /\ CfmIdx(req[Head(e2a)].cfm) = {1}
    BY CreditsFirst DEF CfmPartial
  <2>2. /\ ~WaitComplete(flags[cmds[1]] \ {"WAIT_CFM"})
        /\ flags' = [flags EXCEPT ![cmds[1]] = @ \ {"WAIT_CFM"}]
        /\ cfmFrom' = [cfmFrom EXCEPT ![cmds[1]] = Head(e2a)]
        /\ errs' = errs \cup Touch(cmds[1]) /\ e2a' = Tail(e2a)
    <3>1. PICK i \in CfmIdx(req[Head(e2a)].cfm) :
            /\ ~WaitComplete(flags[cmds[i]] \ {"WAIT_CFM"})
            /\ flags' = [flags EXCEPT ![cmds[i]] = @ \ {"WAIT_CFM"}]
            /\ cfmFrom' = [cfmFrom EXCEPT ![cmds[i]] = Head(e2a)]
            /\ errs' = errs \cup Touch(cmds[i])
      BY DEF CfmPartial
    <3>2. i = 1
      BY <2>1, <3>1
    <3>. QED  BY <3>1, <3>2 DEF CfmPartial
  <2>3. "WAIT_ACK" \in flags[cmds[1]]
    BY <2>2 DEF WaitComplete
  <2>. QED  BY <2>1, <2>2, <2>3
<1>1. Stages'
  BY <1>a, <1>b, ListFacts DEF Stages, CfmPartial, Fresh, InList, InFlight,
     Busy, Blocking
<1>2. Listed'
  BY <1>a, <1>b, ListFacts DEF Listed, CfmPartial, Fresh, InList, Blocking,
     ListInv, TypeOK, CmdType, ControlType
<1>3. OneSent'
  BY <1>a, <1>b, ListFacts DEF OneSent, CfmPartial
<1>4. Flight'
  BY <1>a, <1>b, ListFacts DEF Flight, CfmPartial, InList, InFlight, Busy
<1>5. Owed'
  BY <1>a, <1>b, ListFacts DEF Owed, CfmPartial, OwedOnly
<1>6. Moving'
  BY <1>a, <1>b, ListFacts DEF Moving, CfmPartial, InFlight, Busy, ListInv,
     TypeOK, CmdType, ControlType
<1>7. Stilled'
  BY <1>a, <1>b, ListFacts DEF Stilled, CfmPartial
<1>8. NoHarm'
  <2>1. Blocking(cmds[1]) => pc[cmds[1]] # "end"
    BY <1>a DEF Listed
  <2>2. req' = req
    BY DEF CfmPartial
  <2>. QED  BY <1>a, <1>b, <2>1, <2>2, TouchHarmless, StillHarmless
<1>9. Truthful'
  BY <1>a, <1>b, ListFacts DEF Truthful, CfmPartial
<1>. QED  BY <1>1, <1>2, <1>3, <1>4, <1>5, <1>6, <1>7, <1>8, <1>9

\* The second command is the first that waits for its push.
LEMMA SecondIsNext ==
  ASSUME ListInv, OneSent, cmds # <<>>
  PROVE  /\ NextIdx(cmds[1]) = { k \in DOMAIN cmds : k = 2 }
         /\ \A j \in NextIdx(cmds[1]) : 1 < j
<1>1. WaitsPush(cmds[1]) = { k \in DOMAIN cmds : k # 1 }
  BY ListFacts DEF OneSent, WaitsPush
<1>2. \A k \in DOMAIN cmds : k # 1 => k >= 2 /\ 2 \in DOMAIN cmds
  BY ListFacts
<1>. QED  BY <1>1, <1>2, ListFacts DEF NextIdx

\* The acknowledgement of the first command finds it.
LEMMA AckOfFirst ==
  ASSUME ListInv, Orderly, irqAck # NoCmd
  PROVE  /\ irqAck \in Cmd /\ irqAck = cmds[1] /\ 1 \in DOMAIN cmds /\ cmds # <<>>
         /\ InList(irqAck) /\ "WAIT_ACK" \in flags[irqAck] /\ "WAIT_PUSH" \notin flags[irqAck]
         /\ ~Busy /\ AckFinds(irqAck)
<1>1. irqAck \in Cmd /\ InFlight(irqAck)
  BY DEF InFlight, ListInv, TypeOK, ControlType
<1>2. /\ InList(irqAck) /\ "WAIT_ACK" \in flags[irqAck] /\ "WAIT_PUSH" \notin flags[irqAck]
      /\ ~Busy
  BY <1>1 DEF Orderly, Flight
<1>3. irqAck = cmds[1] /\ 1 \in DOMAIN cmds /\ cmds # <<>>
  BY <1>1, <1>2, SentIsFirst DEF Orderly
<1>4. AckFinds(irqAck)
  BY <1>3, SecondIsNext DEF AckFinds, Orderly
<1>. QED  BY <1>1, <1>2, <1>3, <1>4

\* On PCIe no acknowledgement and no confirmation is lost, aml_msg_task has
\* nothing to do, and no caller is killed or drained.
LEMMA NeverOnPcie ==
  ASSUME ListInv, Calm, Orderly
  PROVE  /\ ~AckLost /\ ~CfmLost /\ ~TaskStep
         /\ \A c \in Cmd : ~QueueGone(c) /\ ~HandToTask(c) /\ ~PollEnds(c)
         /\ \A c \in Cmd : ~ExpireFaults(c)
<1>1. ~AckLost
  BY AckOfFirst DEF AckLost
<1>2. ~CfmLost
  BY CreditsFirst DEF CfmLost, Orderly
<1>3. ~TaskStep
  BY DEF TaskStep, TaskPick, TaskPush, TaskFree, Orderly, Flight
<1>4. \A c \in Cmd : ~QueueGone(c) /\ ~HandToTask(c) /\ ~PollEnds(c)
  BY DEF QueueGone, HandToTask, PollEnds, Orderly, Stages, Stilled
<1>5. \A c \in Cmd : ~ExpireFaults(c)
  BY DEF ExpireFaults, Orderly, Stages
<1>. QED  BY <1>1, <1>2, <1>3, <1>4, <1>5

\* The first command is completed, and its successor is pushed.
Advance ==
  LET c == cmds[1] IN
    /\ cmds # <<>> /\ cmds' = ListDel(cmds, 1)
    /\ irqAck' = NoCmd /\ e2a' = <<>>
    /\ cfmFrom' \in [Cmd -> Cmd \cup {NoCmd}]
    /\ \A d \in Cmd : d # c => cfmFrom'[d] = cfmFrom[d]
    /\ req[c].cfm # NoCfm => cfmFrom'[c] = c
    /\ \E e \in FinishErrs(c) : errs' = errs \cup e
    /\ \E f \in SUBSET {"DONE"} :
         \/ /\ Len(cmds) > 1
            /\ Finish(c, f, [flags EXCEPT ![cmds[2]] = @ \ {"WAIT_PUSH"}])
            /\ msgMem' = [msgMem EXCEPT ![cmds[2]] = "freed"]
            /\ hostid' = cmds[2] /\ fwInbox' = cmds[2]
            /\ fwOwes' = IF req[cmds[2]].cfm = NoCfm THEN fwOwes
                         ELSE Append(fwOwes, cmds[2])
         \/ /\ Len(cmds) = 1
            /\ Finish(c, f, flags)
            /\ UNCHANGED <<msgMem, hostid, fwInbox, fwOwes>>
    /\ UNCHANGED <<state, req, pc, taskVars, fwUp, fwAckIrq>>

\* The first command completes once nothing is on its way.
LEMMA PcieAdvance ==
  ASSUME ListInv, ListInv', Calm, Orderly, Advance, Stilled',
         ~Busy, fwUp => fwOwes = <<>>, pc[cmds[1]] # "push"
  PROVE  Orderly'
<1>. USE CmdAssumption DEF Orderly, Calm, Steady, mgrVars, cmdVars, memVars, taskVars, fwVars
<1>. PICK c, n : c = cmds[1] /\ n = cmds[2]
  OBVIOUS
<1>1. /\ 1 \in DOMAIN cmds /\ c \in Cmd /\ InList(c)
      /\ Len(cmds') = Len(cmds) - 1 /\ DOMAIN cmds' = 1..(Len(cmds) - 1)
      /\ cmds' # <<>> <=> Len(cmds) > 1
      /\ \A k \in 1..(Len(cmds) - 1) : cmds'[k] = cmds[k + 1]
      /\ \A d : InList(d)' <=> InList(d) /\ d # c
  <2>1. cmds # <<>> /\ cmds' = ListDel(cmds, 1)
    BY DEF Advance
  <2>2. 1 \in DOMAIN cmds
    BY <2>1, ListFacts
  <2>3. c \in Cmd /\ InList(c)
    BY <2>2, ListFacts DEF InList
  <2>4. /\ Len(cmds') = Len(cmds) - 1 /\ DOMAIN cmds' = 1..(Len(cmds) - 1)
        /\ cmds' # <<>> <=> Len(cmds) # 1
        /\ \A k \in 1..(Len(cmds) - 1) : cmds'[k] = IF k < 1 THEN cmds[k] ELSE cmds[k + 1]
        /\ \A d : InList(d)' <=> InList(d) /\ d # c
    BY <2>1, <2>2, Removed
  <2>5. Len(cmds) # 0 /\ Len(cmds) \in Nat
    BY <2>1, ListFacts
  <2>. QED  BY <2>2, <2>3, <2>4, <2>5
<1>2. PICK f \in SUBSET {"DONE"} :
         \/ /\ Len(cmds) > 1
            /\ Finish(c, f, [flags EXCEPT ![n] = @ \ {"WAIT_PUSH"}])
            /\ msgMem' = [msgMem EXCEPT ![n] = "freed"]
            /\ hostid' = n /\ fwInbox' = n
            /\ fwOwes' = IF req[n].cfm = NoCfm THEN fwOwes ELSE Append(fwOwes, n)
         \/ /\ Len(cmds) = 1
            /\ Finish(c, f, flags)
            /\ UNCHANGED <<msgMem, hostid, fwInbox, fwOwes>>
  BY DEF Advance
<1>3. /\ irqAck' = NoCmd /\ e2a' = <<>>
      /\ \A d \in Cmd : d # c => cfmFrom'[d] = cfmFrom[d]
      /\ req[c].cfm # NoCfm => cfmFrom'[c] = c
      /\ \E e \in FinishErrs(c) : errs' = errs \cup e
      /\ UNCHANGED <<state, req, pc, taskVars, fwUp, fwAckIrq>>
  BY SMTT(40) DEF Advance
<1>4. Len(cmds) > 1 => /\ n \in Cmd /\ n # c /\ InList(n) /\ n = cmds'[1]
                       /\ "WAIT_PUSH" \in flags[n] /\ Fresh(n)
                       /\ pc[n] \notin {"idle", "queue", "push", "freeMsg"}
  <2>. SUFFICES ASSUME Len(cmds) > 1
                PROVE  /\ n \in Cmd /\ n # c /\ InList(n) /\ n = cmds'[1]
                       /\ "WAIT_PUSH" \in flags[n] /\ Fresh(n)
                       /\ pc[n] \notin {"idle", "queue", "push", "freeMsg"}
    OBVIOUS
  <2>1. 2 \in DOMAIN cmds /\ 2 \in 2..Len(cmds) /\ 1 \in 1..(Len(cmds) - 1)
    BY ListFacts
  <2>2. n \in Cmd /\ n # c /\ InList(n) /\ n = cmds'[1]
    BY <1>1, <2>1, ListFacts DEF InList
  <2>3. "WAIT_PUSH" \in flags[n]
    BY <2>1 DEF OneSent
  <2>. QED  BY <2>2, <2>3 DEF Stages, Listed, ListInv, ListedIsQueued
<1>5. /\ flags'[c] = {"DONE"}
      /\ Blocking(c) => completion'[c] /\ cmdMem'[c] = cmdMem[c]
      /\ \A d \in Cmd : d # c =>
            /\ result'[d] = result[d] /\ completion'[d] = completion[d]
            /\ cmdMem'[d] = cmdMem[d]
  <2>1. f \cup {"DONE"} = {"DONE"}
    OBVIOUS
  <2>2. PICK others \in [Cmd -> SUBSET Flag] : Finish(c, f, others)
    <3>1. n \in Cmd => [flags EXCEPT ![n] = @ \ {"WAIT_PUSH"}] \in [Cmd -> SUBSET Flag]
      BY DEF ListInv, TypeOK, CmdType
    <3>. QED  BY <1>2, <1>4, <3>1 DEF ListInv, TypeOK, CmdType
  <2>. QED  BY <1>1, <2>1, <2>2 DEF Finish, ListInv, TypeOK, CmdType
<1>a. \A d \in Cmd : pc[d] # "push"
  BY SentIsFirst DEF Stages
<1>b. ~fwAckIrq /\ ~(fwUp /\ fwInbox # NoCmd)
  BY DEF Busy
<1>c. pc[c] \notin {"idle", "queue"}
  BY <1>1 DEF ListInv, ListedIsQueued
<1>d. NoHarm'
  <2>1. Blocking(c) => pc[c] \notin {"end", "poll"}
    BY <1>1 DEF Listed, Stages
  <2>2. errs' = errs \cup Touch(c) /\ req' = req
    BY <1>3, <2>1 DEF FinishErrs
  <2>. QED  BY <1>1, <2>1, <2>2, TouchHarmless, StillHarmless
<1>6. CASE Len(cmds) > 1
  <2>1. /\ flags'[n] = flags[n] \ {"WAIT_PUSH"}
        /\ hostid' = n /\ fwInbox' = n
        /\ \A d \in Cmd : d \notin {c, n} => flags'[d] = flags[d] /\ msgMem'[d] = msgMem[d]
        /\ msgMem'[c] = msgMem[c]
    BY <1>1, <1>2, <1>4, <1>6 DEF Finish, ListInv, TypeOK, CmdType
  <2>2. fwOwes' = IF req[n].cfm = NoCfm THEN fwOwes ELSE Append(fwOwes, n)
    BY <1>2, <1>6
  <2>3. \A d \in Cmd : InFlight(d)' => d = n
    BY <1>3, <2>1 DEF InFlight
  <2>4. Stages'
    BY SMTT(40), <1>1, <1>3, <1>4, <1>5, <1>6, <1>a, <1>c, <2>1 DEF Stages, Blocking
  <2>5. Listed'
    <3>. SUFFICES ASSUME NEW d \in Cmd, InList(d)'
                  PROVE  /\ ~completion'[d] /\ "DONE" \notin flags'[d]
                         /\ "WAIT_ACK" \in flags'[d] \/ "WAIT_CFM" \in flags'[d]
                         /\ "WAIT_PUSH" \in flags'[d] => Fresh(d)'
                         /\ Blocking(d) => pc'[d] \in {"push", "freeMsg", "wait", "expired"}
                         /\ req[d].cfm # NoCfm => "WAIT_CFM" \in flags'[d] \/ cfmFrom'[d] = d
      BY <1>3 DEF Listed, Blocking
    <3>1. InList(d) /\ d # c
      BY <1>1
    <3>2. CASE d = n
      BY <1>3, <1>4, <1>5, <1>6, <2>1, <3>1, <3>2 DEF Listed, Blocking, Fresh
    <3>3. CASE d # n
      BY <1>3, <1>5, <2>1, <3>1, <3>3 DEF Listed, Blocking, Fresh
    <3>. QED  BY <3>2, <3>3
  <2>6. OneSent'
    <3>1. ASSUME NEW k \in 2..(Len(cmds) - 1) PROVE "WAIT_PUSH" \in flags'[cmds'[k]]
      <4>1. /\ k + 1 \in DOMAIN cmds /\ k + 1 \in 2..Len(cmds) /\ k \in 1..(Len(cmds) - 1)
            /\ k + 1 # 1 /\ k + 1 # 2 /\ 2 \in DOMAIN cmds
        BY <1>6, ListFacts
      <4>2. cmds'[k] = cmds[k + 1] /\ cmds'[k] \in Cmd /\ cmds'[k] \notin {c, n}
        BY <1>1, <4>1, ListFacts
      <4>. QED  BY <2>1, <4>1, <4>2 DEF OneSent
    <3>. QED  BY <1>1, <3>1 DEF OneSent
  <2>7. Flight'
    <3>1. InList(n)' /\ "WAIT_ACK" \in flags'[n] /\ "WAIT_PUSH" \notin flags'[n] /\ n # NoCmd
      BY <1>1, <1>4, <1>6, <2>1 DEF Fresh
    <3>. QED  BY <1>3, <1>b, <2>1, <2>3, <3>1 DEF Flight, Busy
  <2>8. "WAIT_CFM" \in flags'[n] <=> req[n].cfm # NoCfm
    BY <1>4, <1>6, <2>1 DEF Fresh
  <2>9. fwUp => IF req[n].cfm = NoCfm THEN fwOwes' = <<>>
                                      ELSE Len(fwOwes') = 1 /\ fwOwes'[1] = n /\ fwOwes' # <<>>
    <3>1. fwUp /\ req[n].cfm # NoCfm => fwOwes' = Append(<<>>, n)
      BY <2>2
    <3>. QED  BY <2>2, <3>1
  <2>10. Owed'
    BY <1>1, <1>3, <1>4, <1>6, <1>a, <2>1, <2>8, <2>9 DEF Owed, OwedOnly
  <2>11. Moving'
    <3>1. fwUp => InFlight(n)'
      BY <1>3, <1>4, <2>1 DEF InFlight, Busy
    <3>. QED  BY <1>1, <1>3, <1>4, <2>1, <2>8, <2>9, <3>1 DEF Moving
  <2>12. Truthful'
    <3>. SUFFICES ASSUME NEW d \in Cmd, result'[d] = "OK"
                  PROVE  "WAIT_ACK" \notin flags'[d] /\ (req[d].cfm # NoCfm => cfmFrom'[d] = d)
      BY <1>3 DEF Truthful
    <3>1. CASE d = c
      BY <1>3, <1>5, <3>1
    <3>2. CASE d # c
      <4>1. "WAIT_ACK" \notin flags[d] /\ (req[d].cfm # NoCfm => cfmFrom[d] = d)
        BY <1>5, <3>2 DEF Truthful
      <4>2. d # n
        BY <1>4, <1>6, <4>1 DEF Fresh
      <4>. QED  BY <1>3, <2>1, <3>2, <4>1, <4>2
    <3>. QED  BY <3>1, <3>2
  <2>. QED  BY <1>d, <2>4, <2>5, <2>6, <2>7, <2>10, <2>11, <2>12
<1>7. CASE Len(cmds) = 1
  <2>1. /\ \A d \in Cmd : d # c => flags'[d] = flags[d]
        /\ UNCHANGED <<msgMem, hostid, fwInbox, fwOwes>>
    BY <1>1, <1>2, <1>7 DEF Finish, ListInv, TypeOK, CmdType
  <2>2. ~Busy' /\ \A d \in Cmd : ~InFlight(d)'
    <3>1. ~Busy'
      BY <1>3, <1>b, <2>1 DEF Busy
    <3>. QED  BY <1>3, <3>1 DEF InFlight
  <2>3. cmds' = <<>> /\ \A d \in Cmd : ~InList(d)'
    BY <1>1, <1>7, ListFacts DEF InList
  <2>4. Stages'
    BY <1>1, <1>3, <1>5, <1>a, <1>c, <2>1 DEF Stages, Blocking
  <2>5. Listed'
    BY <2>3 DEF Listed
  <2>6. OneSent' /\ Moving'
    BY <1>1, <1>7, <2>3 DEF OneSent, Moving
  <2>7. Flight'
    BY <1>3, <1>b, <2>2 DEF Flight
  <2>8. Owed'
    BY <1>3, <2>1 DEF Owed, OwedOnly
  <2>9. Truthful'
    BY <1>1, <1>3, <1>5, <2>1 DEF Truthful
  <2>. QED  BY <1>d, <2>4, <2>5, <2>6, <2>7, <2>8, <2>9
<1>. QED  BY <1>1, <1>6, <1>7, ListFacts

\* An acknowledgement that completes a command completes the first one.
LEMMA AckAdvances ==
  ASSUME ListInv, ListInv', Calm, Orderly, AckLast
  PROVE  /\ Advance /\ Stilled' /\ state = "INITED"
         /\ ~Busy /\ (fwUp => fwOwes = <<>>) /\ pc[cmds[1]] # "push"
         /\ irqAck # NoCmd
<1>. USE CmdAssumption DEF Orderly, Calm, Steady, mgrVars, cmdVars, memVars, taskVars, fwVars
<1>1. /\ irqAck \in Cmd /\ irqAck = cmds[1] /\ 1 \in DOMAIN cmds /\ cmds # <<>>
      /\ InList(irqAck) /\ "WAIT_ACK" \in flags[irqAck] /\ "WAIT_PUSH" \notin flags[irqAck]
      /\ ~Busy /\ InFlight(irqAck) /\ irqAck # NoCmd
  BY AckOfFirst DEF AckLast, InFlight
<1>2. pc[irqAck] # "push"
  BY <1>1 DEF Stages
<1> DEFINE f == flags[irqAck] \ {"WAIT_ACK"}
<1>3. f \in SUBSET {"DONE"} /\ "WAIT_CFM" \notin flags[irqAck]
  BY <1>1 DEF AckLast, WaitComplete, ListInv, TypeOK, CmdType, Flag
<1>4. e2a = <<>> /\ (fwUp => fwOwes = <<>>)
  BY <1>1, <1>3 DEF Owed, OwedOnly
<1>5. cmds' = ListDel(cmds, 1)
  BY <1>1, ListFacts DEF AckLast, Unlink
<1>6. Stilled'
  BY <1>1 DEF AckLast, Stilled
<1>7. /\ irqAck' = NoCmd /\ \E e \in FinishErrs(cmds[1]) : errs' = errs \cup e
      /\ UNCHANGED <<state, req, cfmFrom, pc, taskVars>>
  BY <1>1 DEF AckLast
<1>8. \/ /\ Len(cmds) > 1
         /\ Finish(cmds[1], f, [flags EXCEPT ![cmds[2]] = @ \ {"WAIT_PUSH"}])
         /\ PushNext(cmds[2])
      \/ /\ Len(cmds) = 1
         /\ Finish(cmds[1], f, flags)
         /\ UNCHANGED <<msgMem, hostid, fwVars>>
  <2>1. NextIdx(irqAck) = { k \in DOMAIN cmds : k = 2 }
    BY <1>1, SecondIsNext
  <2>2. CASE \E i \in NextIdx(irqAck) :
               /\ Finish(irqAck, f, [flags EXCEPT ![cmds[i]] = @ \ {"WAIT_PUSH"}])
               /\ PushNext(cmds[i])
    <3>1. 2 \in DOMAIN cmds /\ PushNext(cmds[2])
          /\ Finish(irqAck, f, [flags EXCEPT ![cmds[2]] = @ \ {"WAIT_PUSH"}])
      BY <2>1, <2>2
    <3>. QED  BY <1>1, <3>1, ListFacts
  <2>3. CASE /\ NextIdx(irqAck) = {}
             /\ Finish(irqAck, f, flags)
             /\ UNCHANGED <<msgMem, hostid, fwVars>>
    <3>1. 2 \notin DOMAIN cmds
      BY <2>1, <2>3
    <3>. QED  BY <1>1, <2>3, <3>1, ListFacts
  <2>. QED  BY <2>2, <2>3 DEF AckLast
<1>9. Advance
  <2>1. /\ cmds # <<>> /\ cmds' = ListDel(cmds, 1)
        /\ irqAck' = NoCmd /\ \E e \in FinishErrs(cmds[1]) : errs' = errs \cup e
        /\ UNCHANGED <<state, req, pc, taskVars>>
    BY <1>1, <1>5, <1>7
  <2>2. /\ cfmFrom' \in [Cmd -> Cmd \cup {NoCmd}] /\ cfmFrom' = cfmFrom
        /\ req[cmds[1]].cfm # NoCfm => cfmFrom'[cmds[1]] = cmds[1]
    BY <1>1, <1>3, <1>7 DEF Listed, ListInv, TypeOK, CmdType
  <2>3. e2a' = <<>> /\ UNCHANGED <<fwUp, fwAckIrq>>
    BY <1>4, <1>8 DEF PushNext, Mailbox
  <2>4. \E g \in SUBSET {"DONE"} :
         \/ /\ Len(cmds) > 1
            /\ Finish(cmds[1], g, [flags EXCEPT ![cmds[2]] = @ \ {"WAIT_PUSH"}])
            /\ msgMem' = [msgMem EXCEPT ![cmds[2]] = "freed"]
            /\ hostid' = cmds[2] /\ fwInbox' = cmds[2]
            /\ fwOwes' = IF req[cmds[2]].cfm = NoCfm THEN fwOwes
                         ELSE Append(fwOwes, cmds[2])
         \/ /\ Len(cmds) = 1
            /\ Finish(cmds[1], g, flags)
            /\ UNCHANGED <<msgMem, hostid, fwInbox, fwOwes>>
    <3> HIDE DEF f
    <3>. QED  BY <1>3, <1>8 DEF PushNext, Mailbox
  <2>. QED  BY <2>1, <2>2, <2>3, <2>4 DEF Advance
<1>10. state = "INITED"
  BY <1>1 DEF Stilled
<1>. QED  BY <1>1, <1>2, <1>4, <1>6, <1>9, <1>10

\* So does a confirmation.
LEMMA CfmAdvances ==
  ASSUME ListInv, ListInv', Calm, Orderly, CfmLast
  PROVE  /\ Advance /\ Stilled' /\ state = "INITED"
         /\ ~Busy /\ (fwUp => fwOwes = <<>>) /\ pc[cmds[1]] # "push"
         /\ "WAIT_ACK" \notin flags[cmds[1]]
<1>. USE CmdAssumption DEF Orderly, Calm, Steady, mgrVars, cmdVars, memVars, taskVars, fwVars
<1>1. /\ 1 \in DOMAIN cmds /\ Head(e2a) = cmds[1] /\ Tail(e2a) = <<>>
      /\ InList(cmds[1]) /\ cmds[1] \in Cmd
      /\ "WAIT_CFM" \in flags[cmds[1]] /\ "WAIT_PUSH" \notin flags[cmds[1]]
      /\ pc[cmds[1]] # "push"
      /\ fwUp => fwOwes = <<>>
      /\ CfmIdx(req[Head(e2a)].cfm) = {1}
  BY CreditsFirst DEF CfmLast
<1>2. /\ e2a # <<>> /\ irqAck = NoCmd /\ e2a' = Tail(e2a)
      /\ UNCHANGED <<state, req, pc, irqAck, taskVars, fwUp, fwAckIrq>>
  BY DEF CfmLast
<1> DEFINE c == cmds[1]
           f == flags[c] \ {"WAIT_CFM"}
<1>3. /\ WaitComplete(f)
      /\ cfmFrom' = [cfmFrom EXCEPT ![c] = Head(e2a)]
      /\ cmds' = ListDel(cmds, 1)
      /\ \E e \in FinishErrs(c) : errs' = errs \cup e
      /\ \/ \E k \in CfmPushes(1) :
              /\ Finish(c, f, [flags EXCEPT ![cmds[k]] = @ \ {"WAIT_PUSH"}])
              /\ msgMem' = [msgMem EXCEPT ![cmds[k]] = "freed"]
              /\ hostid' = cmds[k]
              /\ fwInbox' = cmds[k]
              /\ fwOwes' = IF req[cmds[k]].cfm = NoCfm THEN fwOwes
                           ELSE Append(fwOwes, cmds[k])
         \/ /\ CfmPushes(1) = {}
            /\ Finish(c, f, flags)
            /\ UNCHANGED <<msgMem, hostid, fwInbox, fwOwes>>
  BY <1>1 DEF CfmLast
<1>4. "WAIT_ACK" \notin flags[c] /\ f \in SUBSET {"DONE"}
  BY <1>1, <1>3 DEF WaitComplete, ListInv, TypeOK, CmdType, Flag
<1>5. ~Busy
  <2>1. Busy => hostid \in Cmd /\ InFlight(hostid)
    BY DEF Flight, InFlight, ListInv, TypeOK, ControlType
  <2>2. Busy => hostid = c
    BY <2>1, SentIsFirst DEF Flight
  <2>. QED  BY <1>4, <2>1, <2>2 DEF Flight
<1>6. Stilled'
  BY <1>1, <1>2 DEF Stilled
<1>7. CfmPushes(1) = { k \in DOMAIN cmds : k = 2 }
  BY ListFacts DEF CfmPushes, OneSent
<1>8. \/ /\ Len(cmds) > 1
         /\ Finish(c, f, [flags EXCEPT ![cmds[2]] = @ \ {"WAIT_PUSH"}])
         /\ msgMem' = [msgMem EXCEPT ![cmds[2]] = "freed"]
         /\ hostid' = cmds[2] /\ fwInbox' = cmds[2]
         /\ fwOwes' = IF req[cmds[2]].cfm = NoCfm THEN fwOwes
                      ELSE Append(fwOwes, cmds[2])
      \/ /\ Len(cmds) = 1
         /\ Finish(c, f, flags)
         /\ UNCHANGED <<msgMem, hostid, fwInbox, fwOwes>>
  <2>1. 2 \in DOMAIN cmds => Len(cmds) > 1
    BY ListFacts
  <2>2. 2 \notin DOMAIN cmds => Len(cmds) = 1
    BY <1>1, ListFacts
  <2> HIDE DEF c, f
  <2>3. CASE 2 \in DOMAIN cmds
    BY <1>3, <1>7, <2>1, <2>3
  <2>4. CASE 2 \notin DOMAIN cmds
    BY <1>3, <1>7, <2>2, <2>4
  <2>. QED  BY <2>3, <2>4
<1>9. Advance
  <2>1. /\ cmds # <<>> /\ cmds' = ListDel(cmds, 1)
        /\ irqAck' = NoCmd /\ e2a' = <<>>
        /\ \E e \in FinishErrs(cmds[1]) : errs' = errs \cup e
        /\ UNCHANGED <<state, req, pc, taskVars, fwUp, fwAckIrq>>
    BY <1>1, <1>2, <1>3, ListFacts
  <2>2. /\ cfmFrom' \in [Cmd -> Cmd \cup {NoCmd}]
        /\ cfmFrom'[cmds[1]] = cmds[1]
        /\ \A d \in Cmd : d # cmds[1] => cfmFrom'[d] = cfmFrom[d]
    BY <1>1, <1>3 DEF ListInv, TypeOK, CmdType
  <2> HIDE DEF f
  <2>. QED  BY <1>4, <1>8, <2>1, <2>2 DEF Advance
<1>10. state = "INITED"
  BY <1>2 DEF Stilled
<1>. QED  BY <1>1, <1>4, <1>5, <1>6, <1>9, <1>10

\* The command that is completed leaves the list in order.
LEMMA PcieCompletes ==
  ASSUME ListInv, ListInv', Calm, Orderly, AckLast \/ CfmLast
  PROVE  Orderly'
BY AckAdvances, CfmAdvances, PcieAdvance

-----------------------------------------------------------------------------
\* On PCIe the invariant holds before the first call.
LEMMA InitPcieInv == Init => PcieInv
<1>. SUFFICES ASSUME Init PROVE Orderly
  BY DEF PcieInv
<1>1. /\ cmds = <<>> /\ Len(cmds) = 0 /\ e2a = <<>> /\ fwOwes = <<>> /\ errs = {}
      /\ irqAck = NoCmd /\ fwInbox = NoCmd /\ ~fwAckIrq /\ state = "INITED"
      /\ msgSem = 0 /\ taskPc = "idle" /\ hostid = NoCmd
      /\ \A c \in Cmd : pc[c] = "idle" /\ ~completion[c] /\ flags[c] = {}
                        /\ result[c] = "EINTR" /\ cmdMem[c] = "none"
  BY DEF Init
<1>2. ~Busy /\ \A c \in Cmd : ~InList(c) /\ ~InFlight(c)
  BY <1>1, CmdAssumption DEF Busy, InList, InFlight
<1>3. Stages /\ Listed /\ Truthful
  BY <1>1, <1>2 DEF Stages, Listed, Truthful
<1>4. OneSent /\ Flight /\ Owed /\ Moving /\ Stilled /\ NoHarm
  BY <1>1, <1>2 DEF OneSent, Flight, Owed, OwedOnly, Moving, Stilled, NoHarm
<1>. QED  BY <1>3, <1>4 DEF Orderly

\* Every step keeps it.
LEMMA NextPcieInv == ListInv /\ PcieInv /\ [Next]_<<vars, conf>> => PcieInv'
<1>. SUFFICES ASSUME ListInv, PcieInv, [Next]_<<vars, conf>>, Calm' PROVE Orderly'
  BY DEF PcieInv
<1>1. ListInv'
  BY NextListInv
<1>2. UNCHANGED conf
  BY DEF Next
<1>3. Calm /\ Orderly
  BY <1>2 DEF Calm, Steady, Pcie, conf, PcieInv
<1>4. ASSUME NEW c \in Cmd, SendMsg(c) \/ CallStep(c) PROVE Orderly'
  BY <1>1, <1>3, <1>4, NeverOnPcie, PcieSendMsg, PcieQueueRefuse, PcieQueueAccept,
     PciePush, PcieFreeMsg, PcieWaitEnds, PcieExpire, PcieReturn DEF CallStep
<1>5. CASE IrqStep
  BY <1>1, <1>3, <1>5, NeverOnPcie, PcieMsgAck, PcieAckPartial,
     PcieCfmPartial, PcieCompletes DEF IrqStep
<1>6. CASE TaskStep
  BY <1>3, <1>6, NeverOnPcie
<1>7. CASE FwAck \/ FwConfirm \/ FwStop
  BY <1>1, <1>3, <1>7, PcieFwAck, PcieFwConfirm, PcieFwStop
<1>8. CASE IpcDeinit \/ IpcInit
  BY <1>1, <1>3, <1>8, PcieIpcDeinit, PcieIpcInit
<1>9. CASE UNCHANGED vars
  <2>. USE <1>3, <1>9 DEF vars, mgrVars, cmdVars, memVars, taskVars, fwVars, Orderly, InList,
     InFlight, Busy, Blocking, Fresh
  <2>1. Stages' /\ Listed' /\ OneSent'
    BY DEF Stages, Listed, OneSent
  <2>2. Flight' /\ Owed' /\ Moving'
    BY DEF Flight, Owed, OwedOnly, Moving
  <2>3. Stilled' /\ NoHarm' /\ Truthful'
    BY DEF Stilled, NoHarm, Truthful
  <2>. QED  BY <2>1, <2>2, <2>3
<1>. QED  BY <1>4, <1>5, <1>6, <1>7, <1>8, <1>9 DEF Next, Step

\* The faults and the bus are those of the start.
LEMMA CalmStays == Calm /\ [Next]_<<vars, conf>> => Calm'
BY DEF Next, Calm, Steady, Pcie, conf

\* On PCIe no blocking command is touched after it is freed, freed twice or
\* unlinked twice when the firmware falls silent and calls time out
\* (cmd_mgr_queue, cmd_complete, cmd_mgr_llind, cmd_mgr_msgind).
THEOREM PcieMemorySafe == Spec /\ Calm => []MemorySafe
<1>1. Calm /\ PcieInv => MemorySafe
  BY DEF PcieInv, Orderly, NoHarm, MemorySafe
<1>. QED  BY <1>1, InitListInv, NextListInv, InitPcieInv, NextPcieInv, CalmStays, PTL DEF Spec

-----------------------------------------------------------------------------
(* SDIO and USB: no fault but a firmware that falls silent                 *)

\* Membership and order in a sequence without repetitions.
In(s, c)        == \E k \in DOMAIN s : s[k] = c
Before(s, d, c) == \E i, j \in DOMAIN s : i < j /\ s[i] = d /\ s[j] = c
Distinct(s)     == \A i, j \in DOMAIN s : s[i] = s[j] => i = j

\* No call has timed out since the IPC came up.
Alive == state = "INITED" /\ \A c \in Cmd : pc[c] # "expired"

\* c has its turn: its caller or aml_msg_task is about to push it, or its
\* acknowledgement is on its way.
Turn(c) == \/ pc[c] \in {"push", "thread"}
           \/ taskPc = "push" /\ taskCmd = c
           \/ InFlight(c)

Unacked(c) == "WAIT_ACK" \in flags[c]

\* Everything in front of c is acknowledged.
First(c) == \A d \in Cmd : Before(cmds, d, c) => ~Unacked(d)

\* What is known of a call by where it stands.
SdStages ==
    \A c \in Cmd :
       /\ pc[c] # "poll"
       /\ pc[c] \in {"idle", "queue"} => "DONE" \notin flags[c]
       /\ pc[c] \in {"wait", "expired"} => Blocking(c)
       /\ Blocking(c) /\ pc[c] \in {"push", "thread", "freeMsg", "wait"}
            => In(cmds, c) \/ completion[c]

\* What is known of a command in the list.
SdListed ==
    \A c \in Cmd : In(cmds, c) =>
       /\ Unacked(c) \/ "WAIT_CFM" \in flags[c]
       /\ Unsent(c) => Fresh(c)
       /\ req[c].cfm # NoCfm => "WAIT_CFM" \in flags[c] \/ cfmFrom[c] = c

\* A command behind one that the firmware has not acknowledged waits for its push.
Behind == \A c, d \in Cmd : Before(cmds, d, c) /\ Unacked(d) => "WAIT_PUSH" \in flags[c]

\* One command has its turn at a time, the first that is not acknowledged.
Turns ==
    /\ \A c \in Cmd : Turn(c) => /\ In(cmds, c) /\ Unacked(c) /\ First(c)
                               /\ msgSem = 0 /\ pc[c] # "expired"
    /\ \A c \in Cmd : InFlight(c) => ~Unsent(c)
    /\ \A c \in Cmd : pc[c] \in {"push", "thread"} => "WAIT_PUSH" \notin flags[c]
    /\ taskPc = "push" => "WAIT_PUSH" \in flags[taskCmd]
    /\ Busy => hostid # NoCmd
    /\ ~(fwAckIrq /\ fwUp /\ fwInbox # NoCmd)
    /\ irqAck # NoCmd => ~Busy

\* The semaphore of aml_msg_task is up once, for the first command to push.
Wakeup ==
    /\ msgSem \in {0, 1}
    /\ msgSem = 1 /\ state # "DEINIT" =>
          \E c \in Cmd : /\ In(cmds, c) /\ "WAIT_PUSH" \in flags[c]
                         /\ First(c) /\ pc[c] # "expired"

\* The mailbox is full until its acknowledgement is fetched, and nobody is about to
\* push into it; the command it holds is not acknowledged.
Slot ==
    hostid # NoCmd =>
       /\ state # "DEINIT" /\ irqAck = NoCmd /\ msgSem = 0 /\ taskPc # "push"
       /\ \A c \in Cmd : pc[c] \notin {"push", "thread"}
       /\ "WAIT_PUSH" \notin flags[hostid]
       /\ state = "INITED" => In(cmds, hostid) /\ Unacked(hostid)

\* While the firmware answers, a command that is not acknowledged gets its turn.
SdMoving ==
    fwUp /\ (\E c \in Cmd : In(cmds, c) /\ Unacked(c)) => msgSem = 1 \/ \E c \in Cmd : Turn(c)

\* c is in the list and waits for its confirmation.
Awaits(c) == In(cmds, c) /\ "WAIT_CFM" \in flags[c]

\* The confirmations on their way, and those to come, are those the sent
\* commands wait for, each once.
Confirms ==
    /\ \A c \in Cmd : In(e2a, c) => Awaits(c) /\ ~Unsent(c) /\ ~In(fwOwes, c)
    /\ \A c \in Cmd : In(fwOwes, c) => Awaits(c) /\ ~Unsent(c)
    /\ Distinct(e2a) /\ Distinct(fwOwes)
    /\ \A c \in Cmd : Awaits(c) /\ ~Unsent(c) => In(e2a, c) \/ In(fwOwes, c)

\* d is in front of c in the list and waits for a confirmation of the same identifier.
Rival(d, c) == Awaits(d) /\ req[d].cfm = req[c].cfm /\ Before(cmds, d, c)

\* Confirmations of one identifier come in the order of the list.
InTurn ==
    \A c, d \in Cmd : Rival(d, c) =>
       /\ In(e2a, c) => Before(e2a, d, c)
       /\ In(fwOwes, c) => In(e2a, d) \/ Before(fwOwes, d, c)

\* Nothing is on its way while the IPC is down, or once a call has timed out.
SdStilled ==
    /\ state = "DEINIT" =>
          /\ cmds = <<>> /\ fwInbox = NoCmd /\ fwOwes = <<>> /\ taskPc = "idle"
          /\ \A c \in Cmd : pc[c] \in {"idle", "end"}
    /\ ~Alive => ~fwUp /\ ~fwAckIrq /\ irqAck = NoCmd /\ e2a = <<>>

\* A call whose command was completed with success was acknowledged, and got
\* its own confirmation.
DoneTruthful ==
    \A c \in Cmd : result[c] = "OK" /\ "DONE" \in flags[c] =>
        "WAIT_ACK" \notin flags[c] /\ (req[c].cfm # NoCfm => cfmFrom[c] = c)

\* What holds on SDIO and USB as long as the only faults are silence and bus errors.
Mild   == ~Pcie /\ Steady
SdBase == SdStages /\ SdStilled /\ DoneTruthful
SdFlow == SdListed /\ Behind /\ Turns /\ Wakeup /\ Slot
SdLive == SdMoving /\ Confirms /\ InTurn

SdInv == Mild => SdBase /\ SdFlow /\ (Alive => SdLive)

-----------------------------------------------------------------------------
(* Order in sequences                                                       *)

\* Append puts a new element behind the others.
LEMMA AppendOrder ==
  ASSUME NEW S, NEW s \in Seq(S), NEW x \in S
  PROVE  /\ \A c : In(Append(s, x), c) <=> In(s, c) \/ c = x
         /\ \A c, d : Before(Append(s, x), d, c) <=> Before(s, d, c) \/ (c = x /\ In(s, d))
         /\ Distinct(s) /\ ~In(s, x) => Distinct(Append(s, x))
<1>. PICK t : t = Append(s, x)
  OBVIOUS
<1>1. Len(s) \in Nat /\ DOMAIN s = 1..Len(s)
  BY LenProperties
<1>2. /\ DOMAIN t = 1..(Len(s) + 1) /\ t[Len(s) + 1] = x
      /\ \A k \in 1..Len(s) : t[k] = s[k]
  BY AppendProperties, LenProperties
<1>3. \A c : In(t, c) <=> In(s, c) \/ c = x
  BY <1>1, <1>2 DEF In
<1>4. ASSUME NEW c, NEW d
      PROVE  Before(t, d, c) <=> Before(s, d, c) \/ (c = x /\ In(s, d))
  <2>1. ASSUME Before(t, d, c) PROVE Before(s, d, c) \/ (c = x /\ In(s, d))
    BY <1>1, <1>2, <2>1 DEF Before, In
  <2>2. ASSUME Before(s, d, c) PROVE Before(t, d, c)
    BY <1>1, <1>2, <2>2 DEF Before
  <2>3. ASSUME c = x, In(s, d) PROVE Before(t, d, c)
    BY <1>1, <1>2, <2>3 DEF Before, In
  <2>. QED  BY <2>1, <2>2, <2>3
<1>5. Distinct(s) /\ ~In(s, x) => Distinct(t)
  BY <1>1, <1>2 DEF Distinct, In
<1>. QED  BY <1>3, <1>4, <1>5

\* list_del keeps the order of the others.
LEMMA DelOrder ==
  ASSUME NEW S, NEW s \in Seq(S), NEW i \in DOMAIN s, Distinct(s)
  PROVE  /\ \A c : In(ListDel(s, i), c) <=> In(s, c) /\ c # s[i]
         /\ \A c, d : Before(ListDel(s, i), d, c) <=> Before(s, d, c) /\ c # s[i] /\ d # s[i]
         /\ Distinct(ListDel(s, i))
<1>. PICK t : t = ListDel(s, i)
  OBVIOUS
<1>1. Len(s) \in Nat /\ DOMAIN s = 1..Len(s)
  BY LenProperties
<1>2. /\ DOMAIN t = 1..(Len(s) - 1)
      /\ \A k \in 1..(Len(s) - 1) : t[k] = IF k < i THEN s[k] ELSE s[k + 1]
  BY ListDelProperties
<1> DEFINE was(k) == IF k < i THEN k ELSE k + 1
           now(k) == IF k < i THEN k ELSE k - 1
<1>3. \A k \in DOMAIN t : was(k) \in DOMAIN s /\ was(k) # i /\ t[k] = s[was(k)]
  BY <1>1, <1>2
<1>4. \A k \in DOMAIN s : k # i => now(k) \in DOMAIN t /\ t[now(k)] = s[k]
  BY <1>1, <1>2
<1>5. \A j, k \in DOMAIN t : j < k <=> was(j) < was(k)
  BY <1>1, <1>2
<1>6. \A j, k \in DOMAIN t : was(j) = was(k) => j = k
  BY <1>1, <1>2
<1>7. \A j, k \in DOMAIN s : j # i /\ k # i /\ j < k => now(j) < now(k)
  BY <1>1
<1>8. \A k \in DOMAIN s : s[k] = s[i] => k = i
  BY DEF Distinct
<1> HIDE DEF was, now
<1>9. \A c : In(t, c) <=> In(s, c) /\ c # s[i]
  BY <1>3, <1>4, <1>8 DEF In
<1>10. ASSUME NEW c, NEW d
       PROVE  Before(t, d, c) <=> Before(s, d, c) /\ c # s[i] /\ d # s[i]
  <2>1. ASSUME Before(t, d, c) PROVE Before(s, d, c) /\ c # s[i] /\ d # s[i]
    BY <1>3, <1>5, <1>8, <2>1 DEF Before
  <2>2. ASSUME Before(s, d, c), c # s[i], d # s[i] PROVE Before(t, d, c)
    BY <1>4, <1>7, <2>2 DEF Before
  <2>. QED  BY <2>1, <2>2
<1>11. Distinct(t)
  BY <1>3, <1>6 DEF Distinct
<1>. QED  BY <1>9, <1>10, <1>11

\* Tail keeps the order of the others, and the head was before them.
LEMMA TailOrder ==
  ASSUME NEW S, NEW s \in Seq(S), s # <<>>, Distinct(s)
  PROVE  /\ Head(s) \in S /\ In(s, Head(s)) /\ \A d : ~Before(s, d, Head(s))
         /\ \A c : In(Tail(s), c) <=> In(s, c) /\ c # Head(s)
         /\ \A c, d : Before(Tail(s), d, c) <=> Before(s, d, c) /\ c # Head(s) /\ d # Head(s)
         /\ Distinct(Tail(s))
<1>1. Len(s) \in Nat /\ DOMAIN s = 1..Len(s) /\ Len(s) # 0
  BY LenProperties, EmptySeq
<1>2. 1 \in DOMAIN s /\ Head(s) = s[1] /\ Head(s) \in S
  BY <1>1, HeadTailProperties, ElementOfSeq
<1>3. Tail(s) \in Seq(S) /\ DOMAIN Tail(s) = 1..(Len(s) - 1)
      /\ \A k \in 1..(Len(s) - 1) : Tail(s)[k] = s[k + 1]
  BY <1>1, HeadTailProperties, LenProperties
<1> DEFINE t == Tail(s)
<1>4. \A k \in DOMAIN t : k + 1 \in DOMAIN s /\ k + 1 # 1 /\ t[k] = s[k + 1]
  BY <1>1, <1>3
<1>5. \A k \in DOMAIN s : k # 1 => k - 1 \in DOMAIN t /\ t[k - 1] = s[k]
  BY <1>1, <1>3
<1>6. \A j, k \in DOMAIN t : (j < k <=> j + 1 < k + 1) /\ (j + 1 = k + 1 => j = k)
  BY <1>3
<1>7. \A j, k \in DOMAIN s : j < k => j - 1 < k - 1 /\ k # 1
  BY <1>1
<1>8. \A k \in DOMAIN s : s[k] = s[1] => k = 1
  BY <1>2 DEF Distinct
<1> HIDE DEF t
<1>9. In(s, s[1]) /\ \A d : ~Before(s, d, s[1])
  BY <1>2, <1>7, <1>8 DEF In, Before
<1>10. \A c : In(t, c) <=> In(s, c) /\ c # s[1]
  BY <1>4, <1>5, <1>8 DEF In
<1>11. ASSUME NEW c, NEW d
       PROVE  Before(t, d, c) <=> Before(s, d, c) /\ c # s[1] /\ d # s[1]
  <2>1. ASSUME Before(t, d, c) PROVE Before(s, d, c) /\ c # s[1] /\ d # s[1]
    BY <1>4, <1>6, <1>8, <2>1 DEF Before
  <2>2. ASSUME Before(s, d, c), c # s[1], d # s[1] PROVE Before(t, d, c)
    BY <1>5, <1>7, <2>2 DEF Before
  <2>. QED  BY <2>1, <2>2
<1>12. Distinct(t)
  BY <1>4, <1>6 DEF Distinct
<1>. QED  BY <1>2, <1>9, <1>10, <1>11, <1>12 DEF t

\* Two elements of a sequence without repetitions are ordered one way.
LEMMA OrderIsTotal ==
  ASSUME NEW S, NEW s \in Seq(S), Distinct(s), NEW c, NEW d
  PROVE  /\ In(s, c) /\ In(s, d) /\ c # d => Before(s, c, d) \/ Before(s, d, c)
         /\ ~(Before(s, c, d) /\ Before(s, d, c)) /\ ~Before(s, c, c)
         /\ Before(s, c, d) => In(s, c) /\ In(s, d)
<1>1. Len(s) \in Nat /\ DOMAIN s = 1..Len(s)
  BY LenProperties
<1>2. In(s, c) /\ In(s, d) /\ c # d => Before(s, c, d) \/ Before(s, d, c)
  BY <1>1 DEF In, Before
<1>3. ~(Before(s, c, d) /\ Before(s, d, c)) /\ ~Before(s, c, c)
  BY <1>1 DEF Before, Distinct
<1>4. Before(s, c, d) => In(s, c) /\ In(s, d)
  BY DEF Before, In
<1>. QED  BY <1>2, <1>3, <1>4

\* The list is a sequence without repetitions.
LEMMA ListOrder ==
  ASSUME ListInv
  PROVE  /\ cmds \in Seq(Cmd) /\ Distinct(cmds)
         /\ \A c : InList(c) <=> In(cmds, c)
         /\ \A c : In(cmds, c) => c \in Cmd
         /\ \A c, d : In(cmds, c) /\ In(cmds, d) /\ c # d
               => Before(cmds, c, d) \/ Before(cmds, d, c)
         /\ \A c, d : ~(Before(cmds, c, d) /\ Before(cmds, d, c)) /\ ~Before(cmds, c, c)
         /\ \A c, d : Before(cmds, c, d) => In(cmds, c) /\ In(cmds, d)
<1>1. cmds \in Seq(Cmd) /\ Distinct(cmds)
  BY ListFacts DEF Distinct
<1>2. \A c : (InList(c) <=> In(cmds, c)) /\ (In(cmds, c) => c \in Cmd)
  BY ListFacts DEF InList, In
<1>. QED  BY <1>1, <1>2, OrderIsTotal

\* No two commands are first, and an unsent command of the list is not acknowledged.
LEMMA OneFirst ==
  ASSUME ListInv, SdListed
  PROVE  /\ \A c, d \in Cmd : In(cmds, c) /\ Unacked(c) /\ First(c)
                                 /\ In(cmds, d) /\ Unacked(d) /\ First(d) => c = d
         /\ \A c \in Cmd : In(cmds, c) /\ Unsent(c) => Unacked(c)
         /\ \A c \in Cmd : In(cmds, c) /\ "WAIT_PUSH" \in flags[c] => Unacked(c)
<1>1. \A c, d \in Cmd : In(cmds, c) /\ Unacked(c) /\ First(c)
                           /\ In(cmds, d) /\ Unacked(d) /\ First(d) => c = d
  <2>1. ASSUME NEW c \in Cmd, NEW d \in Cmd,
               In(cmds, c), Unacked(c), First(c), In(cmds, d), Unacked(d), First(d)
        PROVE  c = d
    <3>1. c # d => Before(cmds, c, d) \/ Before(cmds, d, c)
      BY <2>1, ListOrder
    <3>. QED  BY <2>1, <3>1 DEF First
  <2>. QED  BY <2>1
<1>2. \A c \in Cmd : In(cmds, c) /\ Unsent(c) => Unacked(c)
  BY DEF SdListed, Fresh, Unacked
<1>3. \A c \in Cmd : In(cmds, c) /\ "WAIT_PUSH" \in flags[c] => Unacked(c)
  BY <1>2 DEF Unsent
<1>. QED  BY <1>1, <1>2, <1>3

\* While no acknowledgement is on its way, the mailbox is at rest.
LEMMA AtRest ==
  ASSUME ListInv, Turns, \A d \in Cmd : ~InFlight(d)
  PROVE  irqAck = NoCmd /\ ~Busy /\ ~fwAckIrq /\ ~(fwUp /\ fwInbox # NoCmd)
BY DEF Turns, InFlight, Busy, ListInv, TypeOK, ControlType

\* The caller that is about to push is the only one to act.
LEMMA SoleCaller ==
  ASSUME ListInv, SdListed, Turns, NEW c \in Cmd, pc[c] \in {"push", "thread"}
  PROVE  /\ In(cmds, c) /\ Unacked(c) /\ First(c) /\ msgSem = 0
         /\ "WAIT_PUSH" \notin flags[c] /\ Fresh(c) /\ Unsent(c) /\ taskPc # "push"
         /\ \A d \in Cmd : ~InFlight(d) /\ (d # c => pc[d] \notin {"push", "thread"})
         /\ irqAck = NoCmd /\ ~Busy /\ ~fwAckIrq /\ ~(fwUp /\ fwInbox # NoCmd)
<1>1. In(cmds, c) /\ Unacked(c) /\ First(c) /\ msgSem = 0 /\ "WAIT_PUSH" \notin flags[c]
  BY DEF Turns, Turn
<1>2. Unsent(c) /\ Fresh(c)
  BY <1>1 DEF Unsent, SdListed
<1>3. \A d \in Cmd : Turn(d) => d = c
  BY <1>1, OneFirst DEF Turns
<1>4. taskPc # "push"
  BY <1>1, <1>3 DEF Turns, Turn, ListInv, TaskHolds
<1>5. \A d \in Cmd : ~InFlight(d) /\ (d # c => pc[d] \notin {"push", "thread"})
  BY <1>2, <1>3 DEF Turns, Turn
<1>. QED  BY <1>1, <1>2, <1>4, <1>5, AtRest

\* When aml_msg_task is about to push, nobody else acts.
LEMMA SoleTask ==
  ASSUME ListInv, SdListed, Turns, taskPc = "push"
  PROVE  /\ taskCmd \in Cmd /\ In(cmds, taskCmd) /\ Unacked(taskCmd) /\ First(taskCmd)
         /\ msgSem = 0 /\ "WAIT_PUSH" \in flags[taskCmd] /\ Fresh(taskCmd) /\ Unsent(taskCmd)
         /\ pc[taskCmd] # "expired"
         /\ \A d \in Cmd : ~InFlight(d) /\ pc[d] \notin {"push", "thread"}
         /\ irqAck = NoCmd /\ ~Busy /\ ~fwAckIrq /\ ~(fwUp /\ fwInbox # NoCmd)
<1>1. taskCmd \in Cmd
  BY DEF ListInv, TaskHolds
<1>2. /\ In(cmds, taskCmd) /\ Unacked(taskCmd) /\ First(taskCmd) /\ msgSem = 0
      /\ "WAIT_PUSH" \in flags[taskCmd] /\ pc[taskCmd] # "expired"
  BY <1>1 DEF Turns, Turn
<1>3. Unsent(taskCmd) /\ Fresh(taskCmd)
  BY <1>1, <1>2 DEF Unsent, SdListed
<1>4. \A d \in Cmd : Turn(d) => d = taskCmd
  BY <1>1, <1>2, OneFirst DEF Turns
<1>5. \A d \in Cmd : ~InFlight(d) /\ pc[d] \notin {"push", "thread"}
  BY <1>1, <1>2, <1>3, <1>4 DEF Turns, Turn
<1>. QED  BY <1>1, <1>2, <1>3, <1>5, AtRest

\* A pushed command queues up for its confirmation behind its rivals.
LEMMA SdMail ==
  ASSUME ListInv, SdListed, Confirms, InTurn, NEW c \in Cmd,
         In(cmds, c), First(c), Unsent(c), Mailbox(c), UNCHANGED <<cmds, req>>,
         \A d \in Cmd : "WAIT_CFM" \in flags'[d] <=> "WAIT_CFM" \in flags[d],
         \A d \in Cmd : Unsent(d)' <=> Unsent(d) /\ d # c
  PROVE  Confirms' /\ InTurn'
<1>1. Awaits(c) <=> req[c].cfm # NoCfm
  BY DEF SdListed, Awaits, Fresh
<1>2. \A d \in Cmd : Awaits(d)' <=> Awaits(d)
  BY DEF Awaits
<1>3. \A d, e \in Cmd : Rival(d, e)' <=> Rival(d, e)
  BY <1>2 DEF Rival
<1>4. ~In(e2a, c) /\ ~In(fwOwes, c) /\ e2a' = e2a
  BY DEF Confirms, Mailbox
<1>5. \A d \in Cmd : Rival(d, c) => In(e2a, d) \/ In(fwOwes, d)
  BY OneFirst DEF Rival, Awaits, First, Confirms
<1>6. CASE req[c].cfm = NoCfm
  <2>1. fwOwes' = fwOwes
    BY <1>6 DEF Mailbox
  <2>2. Confirms'
    BY <1>1, <1>2, <1>4, <1>6, <2>1 DEF Confirms
  <2>3. InTurn'
    BY <1>3, <1>4, <2>1 DEF InTurn
  <2>. QED  BY <2>2, <2>3
<1>7. CASE req[c].cfm # NoCfm
  <2>1. fwOwes' = Append(fwOwes, c) /\ fwOwes \in Seq(Cmd)
    BY <1>7 DEF Mailbox, ListInv, TypeOK, FwType
  <2>2. /\ \A d : In(fwOwes', d) <=> In(fwOwes, d) \/ d = c
        /\ \A d, e : Before(fwOwes', d, e) <=> Before(fwOwes, d, e) \/ (e = c /\ In(fwOwes, d))
        /\ Distinct(fwOwes')
    <3>1. fwOwes' \in Seq(Cmd) /\ Distinct(fwOwes)
      BY <2>1, AppendProperties DEF Confirms
    <3>. PICK s : s = fwOwes
      OBVIOUS
    <3>2. s \in Seq(Cmd) /\ Distinct(s) /\ ~In(s, c)
      BY <1>4, <2>1, <3>1
    <3>3. /\ \A d : In(Append(s, c), d) <=> In(s, d) \/ d = c
          /\ \A d, e : Before(Append(s, c), d, e) <=> Before(s, d, e) \/ (e = c /\ In(s, d))
          /\ Distinct(Append(s, c))
      BY <3>2, AppendOrder
    <3>. QED  BY <2>1, <3>3
  <2>3. Confirms'
    BY <1>1, <1>2, <1>4, <1>7, <2>2 DEF Confirms
  <2>4. InTurn'
    BY <1>3, <1>4, <1>5, <2>2 DEF InTurn
  <2>. QED  BY <2>3, <2>4
<1>. QED  BY <1>6, <1>7

\* The acknowledged command is found, it is the first one that is not
\* acknowledged, and the command behind it waits for its push.
LEMMA SdAckFacts ==
  ASSUME ListInv, SdFlow, irqAck # NoCmd
  PROVE  /\ irqAck \in Cmd /\ In(cmds, irqAck) /\ Unacked(irqAck) /\ First(irqAck)
         /\ msgSem = 0 /\ ~Unsent(irqAck) /\ AckFinds(irqAck)
         /\ ~Busy /\ ~fwAckIrq /\ ~(fwUp /\ fwInbox # NoCmd)
         /\ taskPc # "push" /\ \A d \in Cmd : pc[d] \notin {"push", "thread"}
         /\ NextIdx(irqAck) = {} => \A d \in Cmd : ~Before(cmds, irqAck, d)
         /\ NextIdx(irqAck) # {} =>
               \E d \in Cmd : /\ In(cmds, d) /\ "WAIT_PUSH" \in flags[d] /\ d # irqAck
                              /\ \A e \in Cmd : Before(cmds, e, d) /\ e # irqAck => ~Unacked(e)
<1>. USE DEF SdFlow
<1>. PICK f : f = irqAck
  OBVIOUS
<1>1. f \in Cmd /\ Turn(f) /\ InFlight(f)
  BY DEF Turn, InFlight, ListInv, TypeOK, ControlType
<1>2. In(cmds, f) /\ Unacked(f) /\ First(f) /\ msgSem = 0 /\ ~Unsent(f)
  BY <1>1 DEF Turns
<1>3. ~Busy /\ ~fwAckIrq /\ ~(fwUp /\ fwInbox # NoCmd)
  BY DEF Turns, Busy
<1>4. \A d \in Cmd : Turn(d) => d = f
  BY <1>1, <1>2, OneFirst DEF Turns
<1>5. taskPc # "push" /\ \A d \in Cmd : pc[d] \notin {"push", "thread"}
  BY <1>2, <1>4 DEF Turn, Turns, Unsent, ListInv, TaskHolds
<1>6. PICK p \in DOMAIN cmds : cmds[p] = f
  BY <1>2 DEF In
<1>7. \A j \in WaitsPush(f) : p < j
  <2>. SUFFICES ASSUME NEW j \in WaitsPush(f) PROVE p < j
    OBVIOUS
  <2>1. j \in DOMAIN cmds /\ cmds[j] \in Cmd /\ cmds[j] # f /\ "WAIT_PUSH" \in flags[cmds[j]]
    BY ListFacts DEF WaitsPush
  <2>2. Unacked(cmds[j])
    BY <2>1, OneFirst DEF In
  <2>3. ~(j < p)
    BY <1>2, <1>6, <2>1, <2>2 DEF First, Before
  <2>. QED  BY <1>6, <2>1, <2>3, ListFacts
<1>8. \A j \in DOMAIN cmds : p < j => j \in WaitsPush(f)
  <2>. SUFFICES ASSUME NEW j \in DOMAIN cmds, p < j PROVE j \in WaitsPush(f)
    OBVIOUS
  <2>1. cmds[j] \in Cmd /\ Before(cmds, f, cmds[j])
    BY <1>6, ListFacts DEF Before
  <2>2. "WAIT_PUSH" \in flags[cmds[j]] /\ cmds[j] # f
    BY <1>1, <1>2, <2>1, ListOrder DEF Behind
  <2>. QED  BY <2>2 DEF WaitsPush
<1>9. AckFinds(f)
  BY <1>6, <1>7 DEF AckFinds, NextIdx
<1>10. NextIdx(f) = {} => \A d \in Cmd : ~Before(cmds, f, d)
  <2>. SUFFICES ASSUME NextIdx(f) = {}, NEW d \in Cmd, Before(cmds, f, d) PROVE FALSE
    OBVIOUS
  <2>1. PICK i, j \in DOMAIN cmds : i < j /\ cmds[i] = f /\ cmds[j] = d
    BY DEF Before
  <2>2. i = p /\ p + 1 \in DOMAIN cmds /\ p < p + 1
    BY <1>6, <2>1, ListFacts
  <2>3. p + 1 \in WaitsPush(f)
    BY <1>8, <2>2
  <2>4. \A k \in WaitsPush(f) : p + 1 <= k
    BY <1>6, <1>7, ListFacts DEF WaitsPush
  <2>. QED  BY <2>3, <2>4 DEF NextIdx
<1>11. ASSUME NEW i \in NextIdx(f)
       PROVE  /\ cmds[i] \in Cmd /\ In(cmds, cmds[i]) /\ cmds[i] # f
               /\ "WAIT_PUSH" \in flags[cmds[i]]
              /\ \A e \in Cmd : Before(cmds, e, cmds[i]) /\ e # f => ~Unacked(e)
  <2>1. /\ i \in DOMAIN cmds /\ cmds[i] \in Cmd /\ In(cmds, cmds[i])
        /\ "WAIT_PUSH" \in flags[cmds[i]] /\ cmds[i] # f
    BY <1>11, ListFacts DEF NextIdx, WaitsPush, In
  <2>2. ASSUME NEW e \in Cmd, Before(cmds, e, cmds[i]), e # f, Unacked(e) PROVE FALSE
    <3>1. PICK j, k \in DOMAIN cmds : j < k /\ cmds[j] = e /\ cmds[k] = cmds[i]
      BY <2>2 DEF Before
    <3>2. k = i /\ j < i
      BY <2>1, <3>1, ListFacts
    <3>3. ~Before(cmds, e, f)
      BY <1>2, <2>2 DEF First
    <3>4. ~(j < p) /\ j # p
      BY <1>6, <2>2, <3>1, <3>3 DEF Before
    <3>5. j \in WaitsPush(f)
      BY <1>6, <1>8, <3>1, <3>4, ListFacts
    <3>6. i <= j
      BY <1>11, <3>5 DEF NextIdx
    <3>. QED  BY <2>1, <3>1, <3>2, <3>6, ListFacts
  <2>. QED  BY <2>1, <2>2
<1>12. NextIdx(f) # {} =>
               \E d \in Cmd : /\ In(cmds, d) /\ "WAIT_PUSH" \in flags[d] /\ d # f
                              /\ \A e \in Cmd : Before(cmds, e, d) /\ e # f => ~Unacked(e)
  <2>. SUFFICES ASSUME NEW i \in NextIdx(f)
                PROVE  \E d \in Cmd : /\ In(cmds, d) /\ "WAIT_PUSH" \in flags[d] /\ d # f
                              /\ \A e \in Cmd : Before(cmds, e, d) /\ e # f => ~Unacked(e)
    OBVIOUS
  <2>. QED  BY <1>11
<1>. QED  BY <1>1, <1>2, <1>3, <1>5, <1>9, <1>10, <1>12

\* aml_msg_task finds the command it was woken for.
LEMMA SdPickFacts ==
  ASSUME ListInv, SdFlow, msgSem > 0, state # "DEINIT"
  PROVE  /\ \A d \in Cmd : ~Turn(d)
         /\ msgSem = 1 /\ taskPc # "push"
         /\ \E c \in Cmd, p \in DOMAIN cmds :
               /\ cmds[p] = c /\ FirstWaitPush = {p}
               /\ In(cmds, c) /\ Unacked(c) /\ "WAIT_PUSH" \in flags[c] /\ First(c)
               /\ pc[c] # "expired"
<1>. USE DEF SdFlow
<1>1. msgSem = 1 /\ \A d \in Cmd : ~Turn(d)
  BY DEF Wakeup, Turns
<1>2. PICK c \in Cmd : In(cmds, c) /\ "WAIT_PUSH" \in flags[c] /\ First(c) /\ pc[c] # "expired"
  BY <1>1 DEF Wakeup
<1>3. PICK p \in DOMAIN cmds : cmds[p] = c
  BY <1>2 DEF In
<1>4. p \in WaitsPush(NoCmd)
  BY <1>2, <1>3, CmdAssumption DEF WaitsPush
<1>5. \A j \in WaitsPush(NoCmd) : p <= j
  <2>. SUFFICES ASSUME NEW j \in WaitsPush(NoCmd) PROVE p <= j
    OBVIOUS
  <2>1. j \in DOMAIN cmds /\ cmds[j] \in Cmd /\ "WAIT_PUSH" \in flags[cmds[j]]
    BY ListFacts DEF WaitsPush
  <2>2. Unacked(cmds[j])
    BY <2>1, OneFirst DEF In
  <2>3. ~(j < p)
    BY <1>2, <1>3, <2>1, <2>2 DEF First, Before
  <2>. QED  BY <1>3, <2>1, <2>3, ListFacts
<1>6. \A j \in NextIdx(NoCmd) : j = p
  <2>. SUFFICES ASSUME NEW j \in NextIdx(NoCmd) PROVE j = p
    OBVIOUS
  <2>1. j \in WaitsPush(NoCmd) /\ j <= p /\ p <= j
    BY <1>4, <1>5 DEF NextIdx
  <2>. QED  BY <1>3, <2>1, ListFacts DEF WaitsPush
<1>7. FirstWaitPush = {p}
  <2>1. p \in NextIdx(NoCmd)
    BY <1>4, <1>5 DEF NextIdx
  <2>. QED  BY <1>6, <2>1 DEF FirstWaitPush
<1>8. Unacked(c)
  BY <1>2, OneFirst
<1>9. taskPc # "push"
  BY <1>1 DEF Turn, ListInv, TaskHolds
<1>. QED  BY <1>1, <1>2, <1>3, <1>7, <1>8, <1>9

\* A confirmation is credited to the command it was meant for.
LEMMA SdCredit ==
  ASSUME ListInv, SdFlow, SdLive, e2a # <<>>
  PROVE  /\ Head(e2a) \in Cmd /\ In(e2a, Head(e2a)) /\ Awaits(Head(e2a)) /\ ~Unsent(Head(e2a))
         /\ \E p \in DOMAIN cmds : cmds[p] = Head(e2a) /\ CfmIdx(req[Head(e2a)].cfm) = {p}
<1>. USE DEF SdFlow, SdLive
<1>. PICK h : h = Head(e2a)
  OBVIOUS
<1>1. e2a \in Seq(Cmd) /\ Distinct(e2a)
  BY DEF ListInv, TypeOK, FwType, Confirms
<1>2. h \in Cmd /\ In(e2a, h) /\ \A d : ~Before(e2a, d, h)
  BY <1>1, TailOrder
<1>3. Awaits(h) /\ ~Unsent(h)
  BY <1>2 DEF Confirms
<1>4. PICK p \in DOMAIN cmds : cmds[p] = h
  BY <1>3 DEF Awaits, In
<1>5. p \in CfmMatches(req[h].cfm)
  BY <1>3, <1>4 DEF CfmMatches, Awaits
<1>6. \A j \in CfmMatches(req[h].cfm) : p <= j
  <2>. SUFFICES ASSUME NEW j \in CfmMatches(req[h].cfm) PROVE p <= j
    OBVIOUS
  <2>1. /\ j \in DOMAIN cmds /\ cmds[j] \in Cmd /\ req[cmds[j]].cfm = req[h].cfm
        /\ Awaits(cmds[j])
    BY ListFacts DEF CfmMatches, Awaits, In
  <2>2. ~Before(cmds, cmds[j], h)
    BY <1>2, <2>1 DEF InTurn, Rival
  <2>3. ~(j < p)
    BY <1>4, <2>1, <2>2 DEF Before
  <2>. QED  BY <1>4, <2>1, <2>3, ListFacts
<1>7. CfmIdx(req[h].cfm) = {p}
  <2>1. p \in CfmIdx(req[h].cfm)
    BY <1>5, <1>6 DEF CfmIdx
  <2>2. ASSUME NEW j \in CfmIdx(req[h].cfm) PROVE j = p
    <3>1. j \in DOMAIN cmds /\ j <= p /\ p <= j
      BY <1>5, <1>6, <2>2 DEF CfmIdx, CfmMatches
    <3>. QED  BY <1>4, <3>1, ListFacts
  <2>. QED  BY <2>1, <2>2
<1>. QED  BY <1>2, <1>3, <1>4, <1>7

\* A new call touches nobody else's command.
LEMMA SdBaseSendMsg ==
  ASSUME ListInv, ListInv', Mild, SdBase,
         NEW c \in Cmd, SendMsg(c)
  PROVE  SdBase'
<1>. USE CmdAssumption DEF Mild, Steady, SdBase, mgrVars, cmdVars, memVars,
     taskVars, fwVars
<1>a. /\ pc[c] = "idle" /\ pc'[c] \in {"end", "queue"}
      /\ pc'[c] = "queue" => state # "DEINIT"
      /\ \A d \in Cmd : d # c => pc'[d] = pc[d] /\ result'[d] = result[d]
      /\ UNCHANGED <<mgrVars, req, flags, completion, cfmFrom, hostid, irqAck, taskVars, fwVars>>
  BY DEF SendMsg, Drop, ListInv, TypeOK, CmdType, ControlType
<1>1. SdStages'
  BY <1>a DEF SdStages, Blocking
<1>2. SdStilled'
  BY <1>a DEF SdStilled, Alive
<1>3. DoneTruthful'
  BY <1>a DEF DoneTruthful, SdStages
<1>. QED  BY <1>1, <1>2, <1>3

\* A refused call leaves with an error.
LEMMA SdBaseQueueRefuse ==
  ASSUME ListInv, ListInv', Mild, SdBase,
         NEW c \in Cmd, QueueRefuse(c)
  PROVE  SdBase'
<1>. USE CmdAssumption DEF Mild, Steady, SdBase, mgrVars, cmdVars, memVars,
     taskVars, fwVars
<1>1. SdStages'
  BY DEF SdStages, QueueRefuse, Blocking, Leave
<1>2. SdStilled'
  BY DEF SdStilled, QueueRefuse, Alive, Leave
<1>3. DoneTruthful'
  BY DEF DoneTruthful, QueueRefuse, Leave, ListInv, TypeOK, CmdType,
     ControlType
<1>. QED  BY <1>1, <1>2, <1>3

\* Only the call's own stage changes when it frees its message.
LEMMA SdBaseFreeMsg ==
  ASSUME ListInv, ListInv', Mild, SdBase,
         NEW c \in Cmd, FreeMsg(c)
  PROVE  SdBase'
<1>. USE CmdAssumption DEF Mild, Steady, SdBase, mgrVars, cmdVars, memVars,
     taskVars, fwVars
<1>1. SdStages'
  BY DEF SdStages, FreeMsg, Blocking
<1>2. SdStilled'
  BY DEF SdStilled, FreeMsg, Alive
<1>3. DoneTruthful'
  BY DEF DoneTruthful, FreeMsg
<1>. QED  BY <1>1, <1>2, <1>3

\* A call that ends takes its result with it.
LEMMA SdBaseReturn ==
  ASSUME ListInv, ListInv', Mild, SdBase,
         NEW c \in Cmd, Return(c)
  PROVE  SdBase'
<1>. USE CmdAssumption DEF Mild, Steady, SdBase, mgrVars, cmdVars, memVars,
     taskVars, fwVars
<1>1. SdStages'
  BY DEF SdStages, Return, Blocking
<1>2. SdStilled'
  BY DEF SdStilled, Return, Alive
<1>3. DoneTruthful'
  BY DEF DoneTruthful, Return
<1>. QED  BY <1>1, <1>2, <1>3

\* A call whose command goes to aml_msg_task is still in the list.
LEMMA SdBaseHandToTask ==
  ASSUME ListInv, ListInv', Mild, SdBase,
         NEW c \in Cmd, HandToTask(c)
  PROVE  SdBase'
<1>. USE CmdAssumption DEF Mild, Steady, SdBase, mgrVars, cmdVars, memVars,
     taskVars, fwVars
<1>1. SdStages'
  BY DEF SdStages, HandToTask, Blocking
<1>2. SdStilled'
  BY DEF SdStilled, HandToTask, Alive
<1>3. DoneTruthful'
  BY DEF DoneTruthful, HandToTask
<1>. QED  BY <1>1, <1>2, <1>3

\* So is one that pushes its command itself.
LEMMA SdBasePush ==
  ASSUME ListInv, ListInv', Mild, SdBase,
         NEW c \in Cmd, Push(c)
  PROVE  SdBase'
<1>. USE CmdAssumption DEF Mild, Steady, SdBase, mgrVars, cmdVars, memVars,
     taskVars, fwVars
<1>s. state # "DEINIT"
  BY DEF Push, SdStilled
<1>a. /\ pc[c] = "push" /\ pc' = [pc EXCEPT ![c] = "freeMsg"]
      /\ UNCHANGED <<state, cmds, req, flags, result, completion, cfmFrom, irqAck,
                     taskPc, fwUp, fwAckIrq, e2a>>
  BY <1>s DEF Push, Mailbox
<1>1. SdStages'
  BY <1>a DEF SdStages, Blocking, ListInv, TypeOK, ControlType
<1>2. SdStilled'
  BY <1>s, <1>a DEF SdStilled, Alive, ListInv, TypeOK, ControlType
<1>3. DoneTruthful'
  BY <1>a DEF DoneTruthful
<1>. QED  BY <1>1, <1>2, <1>3

\* Fetching an acknowledgement touches no call.
LEMMA SdBaseMsgAck ==
  ASSUME ListInv, ListInv', Mild, SdBase, MsgAck
  PROVE  SdBase'
<1>. USE CmdAssumption DEF Mild, Steady, SdBase, mgrVars, cmdVars, memVars,
     taskVars, fwVars
<1>1. SdStages'
  BY DEF SdStages, MsgAck, Blocking
<1>2. SdStilled'
  BY DEF SdStilled, MsgAck, Alive
<1>3. DoneTruthful'
  BY DEF DoneTruthful, MsgAck
<1>. QED  BY <1>1, <1>2, <1>3

\* An acknowledgement that leaves a confirmation open completes nobody.
LEMMA SdBaseAckPartial ==
  ASSUME ListInv, ListInv', Mild, SdBase, AckPartial
  PROVE  SdBase'
<1>. USE CmdAssumption DEF Mild, Steady, SdBase, mgrVars, cmdVars, memVars,
     taskVars, fwVars
<1>1. SdStages'
  BY DEF SdStages, AckPartial, Blocking, WaitComplete
<1>2. SdStilled'
  BY DEF SdStilled, AckPartial, Alive, WaitComplete
<1>3. DoneTruthful'
  BY DEF DoneTruthful, AckPartial, WaitComplete
<1>. QED  BY <1>1, <1>2, <1>3

\* aml_msg_task touches no result when it picks a command,
LEMMA SdBaseTaskPick ==
  ASSUME ListInv, ListInv', Mild, SdBase, TaskPick
  PROVE  SdBase'
<1>. USE CmdAssumption DEF Mild, Steady, SdBase, mgrVars, cmdVars, memVars,
     taskVars, fwVars
<1>1. SdStages'
  BY DEF SdStages, TaskPick, Blocking
<1>2. SdStilled'
  BY DEF SdStilled, TaskPick, Alive
<1>3. DoneTruthful'
  BY DEF DoneTruthful, TaskPick
<1>. QED  BY <1>1, <1>2, <1>3

\* nor when it pushes it,
LEMMA SdBaseTaskPush ==
  ASSUME ListInv, ListInv', Mild, SdBase, TaskPush
  PROVE  SdBase'
<1>. USE CmdAssumption DEF Mild, Steady, SdBase, mgrVars, cmdVars, memVars,
     taskVars, fwVars
<1>1. SdStages'
  BY DEF SdStages, TaskPush, Blocking, Mailbox
<1>2. SdStilled'
  BY DEF SdStilled, TaskPush, Alive, Mailbox
<1>3. DoneTruthful'
  BY DEF DoneTruthful, TaskPush, Mailbox
<1>. QED  BY <1>1, <1>2, <1>3

\* nor when it frees the message.
LEMMA SdBaseTaskFree ==
  ASSUME ListInv, ListInv', Mild, SdBase, TaskFree
  PROVE  SdBase'
<1>. USE CmdAssumption DEF Mild, Steady, SdBase, mgrVars, cmdVars, memVars,
     taskVars, fwVars
<1>1. SdStages'
  BY DEF SdStages, TaskFree, Blocking
<1>2. SdStilled'
  BY DEF SdStilled, TaskFree, Alive
<1>3. DoneTruthful'
  BY DEF DoneTruthful, TaskFree
<1>. QED  BY <1>1, <1>2, <1>3

\* The firmware touches no result when it takes a message,
LEMMA SdBaseFwAck ==
  ASSUME ListInv, ListInv', Mild, SdBase, FwAck
  PROVE  SdBase'
<1>. USE CmdAssumption DEF Mild, Steady, SdBase, mgrVars, cmdVars, memVars,
     taskVars, fwVars
<1>1. SdStages'
  BY DEF SdStages, FwAck, Blocking
<1>2. SdStilled'
  BY DEF SdStilled, FwAck, Alive
<1>3. DoneTruthful'
  BY DEF DoneTruthful, FwAck
<1>. QED  BY <1>1, <1>2, <1>3

\* nor when it falls silent.
LEMMA SdBaseFwStop ==
  ASSUME ListInv, ListInv', Mild, SdBase, FwStop
  PROVE  SdBase'
<1>. USE CmdAssumption DEF Mild, Steady, SdBase, mgrVars, cmdVars, memVars,
     taskVars, fwVars
<1>1. SdStages'
  BY DEF SdStages, FwStop, Blocking
<1>2. SdStilled'
  BY DEF SdStilled, FwStop, Alive
<1>3. DoneTruthful'
  BY DEF DoneTruthful, FwStop
<1>. QED  BY <1>1, <1>2, <1>3

\* The list is drained while no call is in progress.
LEMMA SdBaseIpcDeinit ==
  ASSUME ListInv, ListInv', Mild, SdBase, IpcDeinit
  PROVE  SdBase'
<1>. USE CmdAssumption DEF Mild, Steady, SdBase, mgrVars, cmdVars, memVars,
     taskVars, fwVars
<1>1. SdStages'
  BY DEF SdStages, IpcDeinit, Blocking
<1>2. SdStilled'
  BY DEF SdStilled, IpcDeinit, Alive
<1>3. DoneTruthful'
  BY DEF DoneTruthful, IpcDeinit
<1>. QED  BY <1>1, <1>2, <1>3

\* The IPC comes up with nothing on its way.
LEMMA SdBaseIpcInit ==
  ASSUME ListInv, ListInv', Mild, SdBase, IpcInit
  PROVE  SdBase'
<1>. USE CmdAssumption DEF Mild, Steady, SdBase, mgrVars, cmdVars, memVars,
     taskVars, fwVars
<1>1. SdStages'
  BY DEF SdStages, IpcInit, Blocking
<1>2. SdStilled'
  BY DEF SdStilled, IpcInit, Alive
<1>3. DoneTruthful'
  BY DEF DoneTruthful, IpcInit
<1>. QED  BY <1>1, <1>2, <1>3

\* A wait ends because the call was completed, or because the firmware went silent:
\* as long as it answers, some command of the list moves.
LEMMA SdBaseWaitEnds ==
  ASSUME ListInv, ListInv', Mild, SdBase, SdFlow, Alive => SdLive,
         NEW c \in Cmd, WaitEnds(c)
  PROVE  SdBase'
<1>. USE CmdAssumption DEF Mild, Steady, SdBase, SdFlow, SdLive, mgrVars, cmdVars,
     memVars, taskVars, fwVars
<1>a. /\ pc[c] = "wait" /\ state' = state /\ Blocking(c)
      /\ \A d \in Cmd : d # c => pc'[d] = pc[d]
      /\ UNCHANGED <<cmds, req, flags, completion, taskVars, irqAck, fwVars>>
      /\ \/ pc'[c] = "return"
         \/ pc'[c] = "expired" /\ ~completion[c] /\ MayExpire
  BY DEF WaitEnds, SdStages, ListInv, TypeOK, ControlType
<1>1. SdStages'
  BY <1>a DEF SdStages, Blocking
<1>2. SdStilled'
  <2>1. state # "DEINIT"
    BY <1>a DEF SdStilled
  <2>2. CASE pc'[c] = "return"
    <3>1. Alive => Alive'
      BY <1>a, <2>2 DEF Alive
    <3>. QED  BY <1>a, <2>1, <3>1 DEF SdStilled
  <2>3. CASE pc'[c] = "expired" /\ ~completion[c] /\ MayExpire /\ Alive
    <3>1. /\ ~fwAckIrq /\ e2a = <<>> /\ irqAck = NoCmd /\ taskPc = "idle" /\ msgSem = 0
          /\ \/ ~fwUp
             \/ /\ fwInbox = NoCmd /\ fwOwes = <<>>
                /\ \A d \in Cmd : pc[d] \in {"idle", "wait", "poll", "end"}
      BY <2>3 DEF MayExpire, Alive
    <3>2. In(cmds, c)
      BY <1>a, <2>3 DEF SdStages
    <3>3. ASSUME fwUp PROVE FALSE
      <4>1. \A d \in Cmd : ~Turn(d)
        BY <3>1, <3>3, CmdAssumption DEF Turn, InFlight, Busy
      <4>2. ~Unacked(c)
        BY <2>3, <3>1, <3>2, <3>3, <4>1 DEF SdMoving
      <4>3. Awaits(c) /\ ~Unsent(c)
        BY <2>3, <3>2, <4>2, OneFirst DEF SdListed, Awaits
      <4>4. In(e2a, c) \/ In(fwOwes, c)
        BY <2>3, <4>3 DEF Confirms
      <4>. QED  BY <3>1, <3>3, <4>4 DEF In
    <3>. QED  BY <1>a, <2>1, <3>1, <3>3 DEF SdStilled
  <2>4. CASE ~Alive
    BY <1>a, <2>1, <2>4 DEF SdStilled
  <2>. QED  BY <1>a, <2>2, <2>3, <2>4
<1>3. DoneTruthful'
  BY DEF WaitEnds, DoneTruthful
<1>. QED  BY <1>1, <1>2, <1>3

\* An accepted command starts without a result.
LEMMA SdBaseQueueAccept ==
  ASSUME ListInv, ListInv', Mild, SdBase,
         NEW c \in Cmd, QueueAccept(c)
  PROVE  SdBase'
<1>. USE CmdAssumption DEF Mild, Steady, SdBase, mgrVars, cmdVars, memVars,
     taskVars, fwVars
<1>a. \A d : In(cmds', d) <=> In(cmds, d) \/ d = c
  <2>1. cmds' = Append(cmds, c) /\ cmds \in Seq(Cmd)
    BY ListOrder DEF QueueAccept
  <2>. QED  BY <2>1, AppendOrder
<1>b. /\ pc[c] = "queue" /\ state = "INITED" /\ result'[c] = "EINTR"
      /\ pc'[c] \notin {"idle", "queue", "poll", "expired"} /\ (pc'[c] = "wait" => Blocking(c))
      /\ \A d \in Cmd : d # c =>
            pc'[d] = pc[d] /\ flags'[d] = flags[d] /\ result'[d] = result[d]
      /\ UNCHANGED <<state, req, completion, cfmFrom, hostid, irqAck, taskVars, fwVars>>
  BY DEF QueueAccept, NotDeferredPc, ListInv, TypeOK, ControlType, CmdType
<1>1. SdStages'
  BY <1>a, <1>b DEF SdStages, Blocking
<1>2. SdStilled'
  <2>1. Alive => Alive'
    BY <1>b DEF Alive
  <2>. QED  BY <1>b, <2>1 DEF SdStilled
<1>3. DoneTruthful'
  BY <1>b DEF DoneTruthful
<1>. QED  BY <1>1, <1>2, <1>3

\* A confirmation on its way completes nobody yet.
LEMMA SdBaseFwConfirm ==
  ASSUME ListInv, ListInv', Mild, SdBase, Alive, FwConfirm
  PROVE  SdBase'
<1>. USE CmdAssumption DEF Mild, Steady, SdBase, mgrVars, cmdVars, memVars,
     taskVars, fwVars
<1>1. SdStages'
  BY DEF FwConfirm, SdStages, Blocking
<1>2. SdStilled'
  BY DEF FwConfirm, SdStilled, Alive
<1>3. DoneTruthful'
  BY DEF FwConfirm, DoneTruthful
<1>. QED  BY <1>1, <1>2, <1>3

\* A call that times out crashes the manager, and its firmware was silent.
LEMMA SdBaseExpire ==
  ASSUME ListInv, ListInv', Mild, SdBase,
         NEW c \in Cmd, Expire(c)
  PROVE  SdBase'
<1>. USE CmdAssumption DEF Mild, Steady, SdBase, mgrVars, cmdVars, memVars,
     taskVars, fwVars
<1>s. state # "DEINIT" /\ pc[c] = "expired"
  BY DEF Expire, SdStilled
<1>a. /\ pc[c] = "expired" /\ state' = "CRASHED" /\ pc'[c] = "return"
      /\ \A d \in Cmd : d # c =>
            pc'[d] = pc[d] /\ flags'[d] = flags[d] /\ result'[d] = result[d]
      /\ result'[c] = "OK" => result[c] = "OK" /\ "DONE" \in flags[c]
      /\ "WAIT_ACK" \in flags'[c] => "WAIT_ACK" \in flags[c]
      /\ UNCHANGED <<req, completion, cfmFrom, irqAck, taskVars, fwVars>>
  BY <1>s DEF Expire, Crashed, ListInv, TypeOK, ControlType, CmdType
<1>b. \A d \in Cmd : d # c /\ In(cmds, d) => In(cmds', d)
  <2>1. CASE UNCHANGED cmds
    BY <2>1
  <2>2. CASE \E i \in DOMAIN cmds : cmds[i] = c /\ cmds' = ListDel(cmds, i)
    BY <2>2, ListOrder, DelOrder
  <2>. QED  BY <2>1, <2>2 DEF Expire, Unlink
<1>1. SdStages'
  BY <1>a, <1>b DEF SdStages, Blocking
<1>2. SdStilled'
  BY <1>a DEF SdStilled, Alive
<1>3. DoneTruthful'
  BY <1>a DEF DoneTruthful
<1>. QED  BY <1>1, <1>2, <1>3

\* A confirmation before the acknowledgement is credited to its own command.
LEMMA SdBaseCfmPartial ==
  ASSUME ListInv, ListInv', Mild, SdBase, SdFlow, Alive, SdLive, CfmPartial
  PROVE  SdBase'
<1>. USE CmdAssumption DEF Mild, Steady, SdBase, SdFlow, SdLive, mgrVars, cmdVars,
     memVars, taskVars, fwVars
<1>. PICK c : c = Head(e2a)
  OBVIOUS
<1>a. c \in Cmd /\ In(e2a, c) /\ Awaits(c) /\ ~Unsent(c)
  BY SdCredit DEF CfmPartial
<1>b. PICK p \in DOMAIN cmds : cmds[p] = c /\ CfmIdx(req[c].cfm) = {p}
  BY SdCredit DEF CfmPartial
<1>c. PICK i \in CfmIdx(req[c].cfm) :
         /\ ~WaitComplete(flags[cmds[i]] \ {"WAIT_CFM"})
         /\ flags' = [flags EXCEPT ![cmds[i]] = @ \ {"WAIT_CFM"}]
         /\ cfmFrom' = [cfmFrom EXCEPT ![cmds[i]] = c]
  BY DEF CfmPartial
<1>d. cmds[i] = c
  BY <1>b, <1>c
<1>e. /\ Unacked(c)
      /\ flags' = [flags EXCEPT ![c] = @ \ {"WAIT_CFM"}]
      /\ cfmFrom' = [cfmFrom EXCEPT ![c] = c]
  BY <1>c, <1>d DEF WaitComplete, Unacked
<1>f. /\ e2a # <<>> /\ e2a' = Tail(e2a)
      /\ UNCHANGED <<state, cmds, req, result, completion, pc, hostid, irqAck, taskVars,
                     fwUp, fwInbox, fwAckIrq, fwOwes>>
  BY DEF CfmPartial
<1>g. \A d \in Cmd : flags'[d] \subseteq flags[d]
  BY <1>e DEF ListInv, TypeOK, CmdType
<1>1. SdStages'
  BY <1>f, <1>g DEF SdStages, Blocking
<1>2. SdStilled'
  BY <1>f DEF SdStilled, Alive
<1>3. DoneTruthful'
  BY <1>a, <1>e, <1>f DEF DoneTruthful, ListInv, TypeOK, CmdType
<1>. QED  BY <1>1, <1>2, <1>3

\* The IPC comes up with an empty list.
LEMMA SdIpcInit ==
  ASSUME ListInv, ListInv', Mild, SdBase, SdFlow, IpcInit
  PROVE  SdFlow' /\ SdLive'
<1>. USE CmdAssumption DEF Mild, Steady, SdBase, SdFlow, SdLive, mgrVars, cmdVars,
     memVars, taskVars, fwVars
<1>a. /\ cmds' = <<>> /\ e2a' = <<>> /\ fwOwes' = <<>> /\ msgSem' = 0 /\ taskPc' = "idle"
      /\ irqAck' = NoCmd /\ ~fwAckIrq' /\ fwInbox' = NoCmd /\ hostid' = NoCmd
      /\ \A d \in Cmd : pc'[d] \in {"idle", "end"}
  BY DEF IpcInit, SdStilled, Alive, Slot
<1>b. ~Busy' /\ \A d \in Cmd : /\ ~In(cmds', d) /\ ~In(e2a', d) /\ ~In(fwOwes', d)
                               /\ ~Turn(d)' /\ ~InFlight(d)'
  BY <1>a, CmdAssumption DEF Turn, InFlight, Busy, In
<1>c. \A d, e \in Cmd : ~Before(cmds', d, e)
  BY <1>a DEF Before
<1>1. SdListed'
  BY <1>b DEF SdListed
<1>2. Behind'
  BY <1>c DEF Behind
<1>3. Turns'
  BY <1>a, <1>b DEF Turns
<1>4. Wakeup'
  BY <1>a DEF Wakeup
<1>5. Slot'
  BY <1>a DEF Slot
<1>6. SdMoving'
  BY <1>b DEF SdMoving
<1>7. Confirms'
  BY <1>a, <1>b DEF Confirms, Awaits, Distinct
<1>8. InTurn'
  BY <1>b DEF InTurn
<1>. QED  BY <1>1, <1>2, <1>3, <1>4, <1>5, <1>6, <1>7, <1>8

\* The command an acknowledgement completes has its own confirmation.
LEMMA SdBaseAckLast ==
  ASSUME ListInv, ListInv', Mild, SdBase, SdFlow, Alive, SdLive, AckLast
  PROVE  SdBase'
<1>. USE CmdAssumption DEF Mild, Steady, SdBase, SdFlow, SdLive, mgrVars, cmdVars,
     memVars, taskVars, fwVars
<1>. PICK f : f = irqAck
  OBVIOUS
<1>a. /\ f \in Cmd /\ In(cmds, f) /\ Unacked(f) /\ First(f) /\ msgSem = 0 /\ ~Unsent(f)
      /\ ~Busy /\ ~fwAckIrq /\ ~(fwUp /\ fwInbox # NoCmd)
      /\ taskPc # "push" /\ \A d \in Cmd : pc[d] \notin {"push", "thread"}
      /\ NextIdx(f) = {} => \A d \in Cmd : ~Before(cmds, f, d)
      /\ NextIdx(f) # {} =>
            \E d \in Cmd : /\ In(cmds, d) /\ "WAIT_PUSH" \in flags[d] /\ d # f
                           /\ \A e \in Cmd : Before(cmds, e, d) /\ e # f => ~Unacked(e)
      /\ hostid = NoCmd /\ \A d \in Cmd : pc[d] # "expired"
  BY SdAckFacts DEF AckLast, Slot, Alive
<1>b. PICK i \in DOMAIN cmds : cmds[i] = f /\ cmds' = ListDel(cmds, i)
  BY <1>a, ListOrder DEF AckLast, Unlink
<1>c. /\ \A d : In(cmds', d) <=> In(cmds, d) /\ d # f
      /\ \A d, e : Before(cmds', d, e) <=> Before(cmds, d, e) /\ e # f /\ d # f
  BY <1>b, ListOrder, DelOrder
<1>d. /\ "WAIT_CFM" \notin flags[f] /\ irqAck' = NoCmd
      /\ flags' = [flags EXCEPT ![f] = (flags[f] \ {"WAIT_ACK"}) \cup {"DONE"}]
      /\ msgSem' = IF NextIdx(f) # {} THEN msgSem + 1 ELSE msgSem
      /\ Finish(f, flags[f] \ {"WAIT_ACK"}, flags)
      /\ UNCHANGED <<state, req, cfmFrom, pc, hostid, taskPc, taskCmd, fwVars>>
  BY DEF AckLast, WaitComplete, Finish
<1>e. /\ \A d \in Cmd : d # f => flags'[d] = flags[d]
      /\ \A d \in Cmd : /\ Unacked(d)' <=> Unacked(d) /\ d # f
                        /\ "WAIT_PUSH" \in flags'[d] <=> "WAIT_PUSH" \in flags[d]
                        /\ "WAIT_CFM" \in flags'[d] <=> "WAIT_CFM" \in flags[d]
  BY <1>a, <1>d DEF Unacked, ListInv, TypeOK, CmdType
<1>f. /\ \A d \in Cmd : d # f => result'[d] = result[d] /\ completion'[d] = completion[d]
      /\ Blocking(f) => completion'[f]
      /\ req[f].cfm # NoCfm => cfmFrom[f] = f
  BY <1>a, <1>d DEF Finish, SdListed, ListInv, TypeOK, CmdType
<1>g. pc[f] \notin {"idle", "queue"}
  BY <1>a, <1>b DEF ListInv, ListedIsQueued, InList
<1>1. SdStages'
  BY <1>a, <1>c, <1>d, <1>e, <1>f, <1>g DEF SdStages, Blocking
<1>2. SdStilled'
  BY <1>d DEF SdStilled, Alive
<1>3. DoneTruthful'
  BY <1>a, <1>d, <1>e, <1>f DEF DoneTruthful, Unacked
<1>. QED  BY <1>1, <1>2, <1>3

\* The completed command leaves the list, and the semaphore goes up for the next.
LEMMA SdAckLast ==
  ASSUME ListInv, ListInv', Mild, SdBase, SdFlow, Alive, SdLive, AckLast
  PROVE  SdFlow' /\ SdLive'
<1>. USE CmdAssumption DEF Mild, Steady, SdBase, SdFlow, SdLive, mgrVars, cmdVars,
     memVars, taskVars, fwVars
<1>. PICK f : f = irqAck
  OBVIOUS
<1>a. /\ f \in Cmd /\ In(cmds, f) /\ Unacked(f) /\ First(f) /\ msgSem = 0 /\ ~Unsent(f)
      /\ ~Busy /\ ~fwAckIrq /\ ~(fwUp /\ fwInbox # NoCmd)
      /\ taskPc # "push" /\ \A d \in Cmd : pc[d] \notin {"push", "thread"}
      /\ NextIdx(f) = {} => \A d \in Cmd : ~Before(cmds, f, d)
      /\ NextIdx(f) # {} =>
            \E d \in Cmd : /\ In(cmds, d) /\ "WAIT_PUSH" \in flags[d] /\ d # f
                           /\ \A e \in Cmd : Before(cmds, e, d) /\ e # f => ~Unacked(e)
      /\ hostid = NoCmd /\ \A d \in Cmd : pc[d] # "expired"
  BY SdAckFacts DEF AckLast, Slot, Alive
<1>b. PICK i \in DOMAIN cmds : cmds[i] = f /\ cmds' = ListDel(cmds, i)
  BY <1>a, ListOrder DEF AckLast, Unlink
<1>c. /\ \A d : In(cmds', d) <=> In(cmds, d) /\ d # f
      /\ \A d, e : Before(cmds', d, e) <=> Before(cmds, d, e) /\ e # f /\ d # f
  BY <1>b, ListOrder, DelOrder
<1>d. /\ "WAIT_CFM" \notin flags[f] /\ irqAck' = NoCmd
      /\ flags' = [flags EXCEPT ![f] = (flags[f] \ {"WAIT_ACK"}) \cup {"DONE"}]
      /\ msgSem' = IF NextIdx(f) # {} THEN msgSem + 1 ELSE msgSem
      /\ Finish(f, flags[f] \ {"WAIT_ACK"}, flags)
      /\ UNCHANGED <<state, req, cfmFrom, pc, hostid, taskPc, taskCmd, fwVars>>
  BY DEF AckLast, WaitComplete, Finish
<1>e. /\ \A d \in Cmd : d # f => flags'[d] = flags[d]
      /\ \A d \in Cmd : /\ Unacked(d)' <=> Unacked(d) /\ d # f
                        /\ "WAIT_PUSH" \in flags'[d] <=> "WAIT_PUSH" \in flags[d]
                        /\ "WAIT_CFM" \in flags'[d] <=> "WAIT_CFM" \in flags[d]
  BY <1>a, <1>d DEF Unacked, ListInv, TypeOK, CmdType
<1>f. \A d \in Cmd : ~InFlight(d)' /\ ~Turn(d)'
  BY <1>a, <1>d, CmdAssumption DEF InFlight, Busy, Turn
<1>g. \A d \in Cmd : Unsent(d)' <=> Unsent(d)
  BY <1>d, <1>e DEF Unsent
<1>h. \A d \in Cmd : (Awaits(d)' <=> Awaits(d)) /\ ~Awaits(f)
  BY <1>c, <1>d, <1>e DEF Awaits
<1>1. SdListed'
  <2>1. \A d \in Cmd : d # f => (Fresh(d)' <=> Fresh(d))
    BY <1>d, <1>e DEF Fresh
  <2>. QED  BY <1>c, <1>d, <1>e, <1>g, <2>1 DEF SdListed
<1>2. Behind'
  BY <1>c, <1>e DEF Behind
<1>3. Turns'
  BY <1>a, <1>d, <1>f DEF Turns, Busy
<1>4. Wakeup'
  <2>1. CASE NextIdx(f) = {}
    BY <1>a, <1>d, <2>1 DEF Wakeup
  <2>2. CASE NextIdx(f) # {}
    <3>1. PICK d \in Cmd : /\ In(cmds, d) /\ "WAIT_PUSH" \in flags[d] /\ d # f
                           /\ \A e \in Cmd : Before(cmds, e, d) /\ e # f => ~Unacked(e)
      BY <1>a, <2>2
    <3>2. In(cmds, d)' /\ "WAIT_PUSH" \in flags'[d] /\ First(d)'
      BY <1>c, <1>e, <3>1 DEF First
    <3>. QED  BY <1>a, <1>d, <2>2, <3>2 DEF Wakeup
  <2>. QED  BY <2>1, <2>2
<1>5. Slot'
  BY <1>a, <1>d DEF Slot
<1>6. SdMoving'
  <2>1. NextIdx(f) = {} => \A d \in Cmd : In(cmds, d) /\ Unacked(d) => d = f
    BY <1>a, ListOrder DEF First
  <2>2. NextIdx(f) # {} => msgSem' = 1
    BY <1>a, <1>d
  <2>. QED  BY <1>c, <1>e, <2>1, <2>2 DEF SdMoving
<1>7. Confirms'
  BY <1>d, <1>g, <1>h DEF Confirms
<1>8. InTurn'
  <2>1. \A d, e \in Cmd : Rival(d, e)' => Rival(d, e)
    BY <1>c, <1>d, <1>h DEF Rival
  <2>. QED  BY <1>d, <2>1 DEF InTurn
<1>. QED  BY <1>1, <1>2, <1>3, <1>4, <1>5, <1>6, <1>7, <1>8

\* The confirmation that completes a command is its own.
LEMMA SdBaseCfmLast ==
  ASSUME ListInv, ListInv', Mild, SdBase, SdFlow, Alive, SdLive, CfmLast
  PROVE  SdBase'
<1>. USE CmdAssumption DEF Mild, Steady, SdBase, SdFlow, SdLive, mgrVars, cmdVars,
     memVars, taskVars, fwVars
<1>. PICK c : c = Head(e2a)
  OBVIOUS
<1>a. c \in Cmd /\ In(e2a, c) /\ Awaits(c) /\ ~Unsent(c)
  BY SdCredit DEF CfmLast
<1>b. PICK p \in DOMAIN cmds : cmds[p] = c /\ CfmIdx(req[c].cfm) = {p}
  BY SdCredit DEF CfmLast
<1>c. PICK i \in CfmIdx(req[c].cfm) :
         /\ WaitComplete(flags[cmds[i]] \ {"WAIT_CFM"})
         /\ cfmFrom' = [cfmFrom EXCEPT ![cmds[i]] = c]
         /\ cmds' = ListDel(cmds, i)
         /\ Finish(cmds[i], flags[cmds[i]] \ {"WAIT_CFM"}, flags)
         /\ UNCHANGED <<msgMem, hostid, fwInbox, fwOwes>>
  <2>1. \A i : CfmPushes(i) = {}
    BY DEF CfmPushes
  <2>. QED  BY <2>1 DEF CfmLast
<1>d. cmds[i] = c /\ i \in DOMAIN cmds
  BY <1>b, <1>c
<1>e. /\ ~Unacked(c)
      /\ flags' = [flags EXCEPT ![c] = (flags[c] \ {"WAIT_CFM"}) \cup {"DONE"}]
      /\ cfmFrom' = [cfmFrom EXCEPT ![c] = c]
      /\ Finish(c, flags[c] \ {"WAIT_CFM"}, flags)
  BY <1>c, <1>d DEF WaitComplete, Unacked, Finish
<1>f. /\ e2a # <<>> /\ e2a' = Tail(e2a)
      /\ UNCHANGED <<state, req, pc, hostid, irqAck, taskVars,
                     fwUp, fwInbox, fwAckIrq, fwOwes>>
  BY <1>c DEF CfmLast
<1>g. /\ \A d : In(cmds', d) <=> In(cmds, d) /\ d # c
      /\ \A d, e : Before(cmds', d, e) <=> Before(cmds, d, e) /\ e # c /\ d # c
  BY <1>c, <1>d, ListOrder, DelOrder
<1>h. \A d \in Cmd : /\ d # c => flags'[d] = flags[d] /\ cfmFrom'[d] = cfmFrom[d]
                     /\ cfmFrom'[c] = c
                     /\ Unacked(d)' <=> Unacked(d)
                     /\ "WAIT_PUSH" \in flags'[d] <=> "WAIT_PUSH" \in flags[d]
                     /\ "WAIT_CFM" \in flags'[d] <=> "WAIT_CFM" \in flags[d] /\ d # c
  BY <1>a, <1>e DEF Unacked, ListInv, TypeOK, CmdType
<1>i. /\ \A d \in Cmd : d # c => result'[d] = result[d] /\ completion'[d] = completion[d]
      /\ Blocking(c) => completion'[c]
  BY <1>a, <1>e DEF Finish, ListInv, TypeOK, CmdType
<1>j. pc[c] \notin {"idle", "queue"}
  BY <1>a, <1>d DEF ListInv, ListedIsQueued, InList
<1>1. SdStages'
  BY <1>a, <1>f, <1>g, <1>h, <1>i, <1>j DEF SdStages, Blocking
<1>2. SdStilled'
  BY <1>f DEF SdStilled, Alive
<1>3. DoneTruthful'
  BY <1>a, <1>e, <1>f, <1>h, <1>i DEF DoneTruthful, Unacked
<1>. QED  BY <1>1, <1>2, <1>3

\* The confirmed command leaves the list; the order of the others stays.
LEMMA SdCfmLast ==
  ASSUME ListInv, ListInv', Mild, SdBase, SdFlow, Alive, SdLive, CfmLast
  PROVE  SdFlow' /\ SdLive'
<1>. USE CmdAssumption DEF Mild, Steady, SdBase, SdFlow, SdLive, mgrVars, cmdVars,
     memVars, taskVars, fwVars
<1>. PICK c : c = Head(e2a)
  OBVIOUS
<1>a. c \in Cmd /\ In(e2a, c) /\ Awaits(c) /\ ~Unsent(c)
  BY SdCredit DEF CfmLast
<1>b. PICK p \in DOMAIN cmds : cmds[p] = c /\ CfmIdx(req[c].cfm) = {p}
  BY SdCredit DEF CfmLast
<1>c. PICK i \in CfmIdx(req[c].cfm) :
         /\ WaitComplete(flags[cmds[i]] \ {"WAIT_CFM"})
         /\ cfmFrom' = [cfmFrom EXCEPT ![cmds[i]] = c]
         /\ cmds' = ListDel(cmds, i)
         /\ Finish(cmds[i], flags[cmds[i]] \ {"WAIT_CFM"}, flags)
         /\ UNCHANGED <<msgMem, hostid, fwInbox, fwOwes>>
  <2>1. \A i : CfmPushes(i) = {}
    BY DEF CfmPushes
  <2>. QED  BY <2>1 DEF CfmLast
<1>d. cmds[i] = c /\ i \in DOMAIN cmds
  BY <1>b, <1>c
<1>e. /\ ~Unacked(c)
      /\ flags' = [flags EXCEPT ![c] = (flags[c] \ {"WAIT_CFM"}) \cup {"DONE"}]
      /\ cfmFrom' = [cfmFrom EXCEPT ![c] = c]
      /\ Finish(c, flags[c] \ {"WAIT_CFM"}, flags)
  BY <1>c, <1>d DEF WaitComplete, Unacked, Finish
<1>f. /\ e2a # <<>> /\ e2a' = Tail(e2a)
      /\ UNCHANGED <<state, req, pc, hostid, irqAck, taskVars,
                     fwUp, fwInbox, fwAckIrq, fwOwes>>
  BY <1>c DEF CfmLast
<1>g. /\ \A d : In(cmds', d) <=> In(cmds, d) /\ d # c
      /\ \A d, e : Before(cmds', d, e) <=> Before(cmds, d, e) /\ e # c /\ d # c
  BY <1>c, <1>d, ListOrder, DelOrder
<1>h. \A d \in Cmd : /\ d # c => flags'[d] = flags[d] /\ cfmFrom'[d] = cfmFrom[d]
                     /\ cfmFrom'[c] = c
                     /\ Unacked(d)' <=> Unacked(d)
                     /\ "WAIT_PUSH" \in flags'[d] <=> "WAIT_PUSH" \in flags[d]
                     /\ "WAIT_CFM" \in flags'[d] <=> "WAIT_CFM" \in flags[d] /\ d # c
  BY <1>a, <1>e DEF Unacked, ListInv, TypeOK, CmdType
<1>i. /\ \A d : In(e2a', d) <=> In(e2a, d) /\ d # c
      /\ \A d, e : Before(e2a', d, e) <=> Before(e2a, d, e) /\ e # c /\ d # c
      /\ Distinct(e2a')
  BY <1>f, TailOrder DEF ListInv, TypeOK, FwType, Confirms
<1>j. \A d \in Cmd : /\ Unsent(d)' <=> Unsent(d)
                     /\ Awaits(d)' <=> Awaits(d) /\ d # c
                     /\ d # c => (Fresh(d)' <=> Fresh(d))
                     /\ Turn(d)' <=> Turn(d)
                     /\ InFlight(d)' <=> InFlight(d)
                     /\ First(d) /\ d # c => First(d)'
  <2>1. \A d \in Cmd : /\ Unsent(d)' <=> Unsent(d)
                       /\ Awaits(d)' <=> Awaits(d) /\ d # c
                       /\ d # c => (Fresh(d)' <=> Fresh(d))
    BY <1>f, <1>g, <1>h DEF Unsent, Awaits, Fresh
  <2>2. \A d \in Cmd : (Turn(d)' <=> Turn(d)) /\ (InFlight(d)' <=> InFlight(d))
    BY <1>f DEF Turn, InFlight, Busy
  <2>3. \A d \in Cmd : First(d) /\ d # c => First(d)'
    BY <1>g, <1>h DEF First
  <2>. QED  BY <2>1, <2>2, <2>3
<1>1. SdListed'
  BY <1>f, <1>g, <1>h, <1>j DEF SdListed
<1>2. Behind'
  BY <1>g, <1>h DEF Behind
<1>3. Turns'
  <2>1. \A d \in Cmd : Turn(d) => d # c
    BY <1>e DEF Turns
  <2>. QED  BY <1>a, <1>f, <1>g, <1>h, <1>j, <2>1 DEF Turns, Busy, ListInv, TaskHolds
<1>4. Wakeup'
  <2>1. \A d \in Cmd : "WAIT_PUSH" \in flags[d] => d # c
    BY <1>a DEF Unsent
  <2>. QED  BY <1>f, <1>g, <1>h, <1>j, <2>1 DEF Wakeup
<1>5. Slot'
  BY <1>e, <1>f, <1>g, <1>h DEF Slot, ListInv, TypeOK, ControlType
<1>6. SdMoving'
  BY <1>f, <1>g, <1>h, <1>j DEF SdMoving
<1>7. Confirms'
  BY <1>a, <1>f, <1>i, <1>j DEF Confirms
<1>8. InTurn'
  <2>1. \A d, e \in Cmd : Rival(d, e)' => Rival(d, e) /\ d # c /\ e # c
    BY <1>f, <1>g, <1>j DEF Rival
  <2>. QED  BY <1>f, <1>i, <2>1 DEF InTurn
<1>. QED  BY <1>1, <1>2, <1>3, <1>4, <1>5, <1>6, <1>7, <1>8

\* Draining the list leaves nobody a turn.
LEMMA SdFlowIpcDeinit ==
  ASSUME ListInv, ListInv', Mild, SdBase, SdFlow, IpcDeinit
  PROVE  SdFlow'
<1>. USE CmdAssumption DEF Mild, Steady, SdBase, SdFlow, mgrVars, cmdVars,
     memVars, taskVars, fwVars
<1>a. /\ cmds' = <<>> /\ taskPc' = "idle" /\ hostid' = NoCmd
      /\ irqAck' = NoCmd /\ ~fwAckIrq' /\ fwInbox' = NoCmd /\ msgSem' = msgSem
      /\ state' = "DEINIT"
      /\ \A d \in Cmd : pc'[d] \in {"idle", "end"}
  BY DEF IpcDeinit
<1>b. ~Busy' /\ \A d \in Cmd : ~In(cmds', d) /\ ~Turn(d)' /\ ~InFlight(d)'
  BY <1>a, CmdAssumption DEF Turn, InFlight, Busy, In
<1>c. \A d, e \in Cmd : ~Before(cmds', d, e)
  BY <1>a DEF Before
<1>1. SdListed'
  BY <1>b DEF SdListed
<1>2. Behind'
  BY <1>c DEF Behind
<1>3. Turns'
  BY <1>a, <1>b DEF Turns
<1>4. Wakeup'
  BY <1>a DEF Wakeup
<1>5. Slot'
  BY <1>a DEF Slot
<1>. QED  BY <1>1, <1>2, <1>3, <1>4, <1>5

\* A call that times out takes its command out of the list.
LEMMA SdFlowExpire ==
  ASSUME ListInv, ListInv', Mild, SdBase, SdFlow,
         NEW c \in Cmd, Expire(c)
  PROVE  SdFlow'
<1>. USE CmdAssumption DEF Mild, Steady, SdBase, SdFlow, mgrVars, cmdVars,
     memVars, taskVars, fwVars
<1>s. state # "DEINIT" /\ pc[c] = "expired"
  BY DEF Expire, SdStilled
<1>a. /\ pc[c] = "expired" /\ state' = "CRASHED" /\ pc'[c] = "return"
      /\ \A d \in Cmd : d # c => pc'[d] = pc[d] /\ flags'[d] = flags[d]
      /\ state # "DEINIT"
      /\ UNCHANGED <<req, cfmFrom, hostid, irqAck, taskVars, fwVars>>
  BY <1>s DEF Expire, Crashed, ListInv, TypeOK, ControlType, CmdType
<1>b. \A f \in Flag : f # "DONE" => (f \in flags'[c] <=> f \in flags[c])
  BY DEF Expire, ListInv, TypeOK, CmdType
<1>c. /\ \A d : In(cmds', d) => In(cmds, d)
      /\ \A d \in Cmd : d # c /\ In(cmds, d) => In(cmds', d)
      /\ \A d, e : Before(cmds', d, e) => Before(cmds, d, e)
  <2>1. CASE UNCHANGED cmds
    BY <2>1
  <2>2. CASE \E i \in DOMAIN cmds : cmds[i] = c /\ cmds' = ListDel(cmds, i)
    BY <2>2, ListOrder, DelOrder
  <2>. QED  BY <2>1, <2>2 DEF Expire, Unlink
<1>d. \A d \in Cmd : /\ Unacked(d)' <=> Unacked(d)
                     /\ "WAIT_PUSH" \in flags'[d] <=> "WAIT_PUSH" \in flags[d]
                     /\ "WAIT_CFM" \in flags'[d] <=> "WAIT_CFM" \in flags[d]
  BY <1>a, <1>b DEF Unacked, Flag
<1>e. \A d \in Cmd : /\ Unsent(d)' <=> Unsent(d)
                     /\ Fresh(d)' <=> Fresh(d)
                     /\ Turn(d)' <=> Turn(d)
                     /\ InFlight(d)' <=> InFlight(d)
                     /\ First(d) => First(d)'
  <2>1. \A d \in Cmd : (Unsent(d)' <=> Unsent(d)) /\ (Fresh(d)' <=> Fresh(d))
    BY <1>a, <1>d DEF Unsent, Fresh, Unacked
  <2>2. \A d \in Cmd : (Turn(d)' <=> Turn(d)) /\ (InFlight(d)' <=> InFlight(d))
    BY <1>a DEF Turn, InFlight, Busy
  <2>3. \A d \in Cmd : First(d) => First(d)'
    BY <1>c, <1>d DEF First
  <2>. QED  BY <2>1, <2>2, <2>3
<1>1. SdListed'
  BY <1>a, <1>c, <1>d, <1>e DEF SdListed
<1>2. Behind'
  BY <1>c, <1>d DEF Behind
<1>3. Turns'
  <2>1. \A d \in Cmd : Turn(d) => d # c
    BY <1>a DEF Turns
  <2>. QED  BY <1>a, <1>c, <1>d, <1>e, <2>1 DEF Turns, Busy, ListInv, TaskHolds
<1>4. Wakeup'
  BY <1>a, <1>c, <1>d, <1>e DEF Wakeup
<1>5. Slot'
  BY <1>a, <1>d DEF Slot, ListInv, TypeOK, ControlType
<1>. QED  BY <1>1, <1>2, <1>3, <1>4, <1>5

\* A caller that stops waiting has no turn.
LEMMA SdWaitEnds ==
  ASSUME ListInv, ListInv', Mild, SdBase, SdFlow,
         NEW c \in Cmd, WaitEnds(c)
  PROVE  SdFlow' /\ (Alive /\ SdLive => SdLive')
<1>. USE CmdAssumption DEF Mild, Steady, SdBase, SdFlow, SdLive, mgrVars, cmdVars,
     memVars, taskVars, fwVars
<1>a. /\ pc[c] = "wait" /\ pc'[c] \in {"return", "expired"}
      /\ \A d \in Cmd : d # c => pc'[d] = pc[d]
      /\ UNCHANGED <<state, cmds, req, flags, cfmFrom, hostid, taskVars, irqAck, fwVars>>
      /\ pc'[c] = "expired" => MayExpire
  BY DEF WaitEnds, SdStages, ListInv, TypeOK, ControlType
<1>b. pc'[c] = "expired" => /\ ~fwAckIrq /\ irqAck = NoCmd /\ taskPc = "idle" /\ msgSem = 0
                            /\ ~fwUp \/ fwInbox = NoCmd
  BY <1>a DEF MayExpire, SdStilled
<1>c. /\ \A d \in Cmd : Turn(d)' <=> Turn(d)
      /\ \A d \in Cmd : InFlight(d)' <=> InFlight(d)
      /\ \A d \in Cmd : Unsent(d)' <=> Unsent(d)
      /\ pc'[c] = "expired" => ~Turn(c)
  BY <1>a, <1>b, CmdAssumption DEF Turn, InFlight, Busy, Unsent
<1>1. SdListed'
  BY <1>a, <1>c DEF SdListed, Unacked, Fresh
<1>2. Behind'
  BY <1>a DEF Behind, Unacked
<1>3. Turns'
  BY <1>a, <1>c DEF Turns, Busy, Unacked, First, ListInv, TaskHolds
<1>4. Wakeup'
  BY <1>a, <1>b DEF Wakeup, First, Unacked
<1>5. Slot'
  BY <1>a DEF Slot, Unacked
<1>6. Alive /\ SdLive => SdMoving'
  BY <1>a, <1>c DEF SdMoving, Unacked
<1>7. Alive /\ SdLive => Confirms'
  BY <1>a, <1>c DEF Confirms, Awaits
<1>8. Alive /\ SdLive => InTurn'
  BY <1>a DEF InTurn, Rival, Awaits
<1>. QED  BY <1>1, <1>2, <1>3, <1>4, <1>5, <1>6, <1>7, <1>8

-----------------------------------------------------------------------------
(* Each step keeps what holds while no call has timed out                   *)

\* A new call has no turn yet.
LEMMA SdSendMsg ==
  ASSUME ListInv, ListInv', Mild, SdBase, SdFlow,
         NEW c \in Cmd, SendMsg(c)
  PROVE  SdFlow' /\ (Alive /\ SdLive => SdLive')
<1>. USE CmdAssumption DEF Mild, Steady, SdBase, SdFlow, SdLive, mgrVars, cmdVars,
     memVars, taskVars, fwVars
<1>a. /\ pc[c] = "idle" /\ pc'[c] \in {"end", "queue"}
      /\ pc'[c] = "queue" => state # "DEINIT"
      /\ \A d \in Cmd : d # c => pc'[d] = pc[d] /\ result'[d] = result[d]
      /\ UNCHANGED <<mgrVars, req, flags, completion, cfmFrom, hostid, irqAck, taskVars, fwVars>>
  BY DEF SendMsg, Drop, ListInv, TypeOK, CmdType, ControlType
<1>b. /\ \A d \in Cmd : Turn(d)' <=> Turn(d)
      /\ \A d \in Cmd : InFlight(d)' <=> InFlight(d)
      /\ \A d \in Cmd : Unsent(d)' <=> Unsent(d)
  BY <1>a DEF Turn, InFlight, Busy, Unsent
<1>1. SdListed'
  BY <1>a, <1>b DEF SdListed, Unacked, Fresh
<1>2. Behind'
  BY <1>a DEF Behind, Unacked
<1>3. Turns'
  BY <1>a, <1>b DEF Turns, Busy, Unacked, First
<1>4. Wakeup'
  BY <1>a DEF Wakeup, First, Unacked
<1>5. Slot'
  BY <1>a DEF Slot, Unacked
<1>6. Alive /\ SdLive => SdMoving'
  BY <1>a, <1>b DEF SdMoving, Unacked
<1>7. Alive /\ SdLive => Confirms'
  BY <1>a, <1>b DEF Confirms, Awaits
<1>8. Alive /\ SdLive => InTurn'
  BY <1>a DEF InTurn, Rival, Awaits
<1>. QED  BY <1>1, <1>2, <1>3, <1>4, <1>5, <1>6, <1>7, <1>8

\* A refused call gets none.
LEMMA SdQueueRefuse ==
  ASSUME ListInv, ListInv', Mild, SdBase, SdFlow,
         NEW c \in Cmd, QueueRefuse(c)
  PROVE  SdFlow' /\ (Alive /\ SdLive => SdLive')
<1>. USE CmdAssumption DEF Mild, Steady, SdBase, SdFlow, SdLive, mgrVars, cmdVars,
     memVars, taskVars, fwVars
<1>1. SdListed'
  BY DEF SdListed, QueueRefuse, Fresh, Unsent, Unacked, Leave
<1>2. Behind'
  BY DEF Behind, QueueRefuse, Unacked, Leave
<1>3. Turns'
  BY DEF Turns, QueueRefuse, Turn, InFlight, Busy, Unacked, Unsent, First,
     Leave
<1>4. Wakeup'
  BY DEF Wakeup, QueueRefuse, Unacked, First, Leave
<1>5. Slot'
  BY DEF Slot, QueueRefuse, Unacked, Leave
<1>6. Alive /\ SdLive => SdMoving'
  BY DEF SdMoving, QueueRefuse, Turn, InFlight, Busy, Unacked, Leave
<1>7. Alive /\ SdLive => Confirms'
  BY DEF Confirms, QueueRefuse, Awaits, Unsent, Leave
<1>8. Alive /\ SdLive => InTurn'
  BY DEF InTurn, QueueRefuse, Rival, Awaits, Leave
<1>. QED  BY <1>1, <1>2, <1>3, <1>4, <1>5, <1>6, <1>7, <1>8

\* An accepted command has its turn at once only if everything in front of it is
\* acknowledged; otherwise it waits for its push.
LEMMA SdQueueAccept ==
  ASSUME ListInv, ListInv', Mild, SdBase, SdFlow,
         NEW c \in Cmd, QueueAccept(c)
  PROVE  SdFlow' /\ (Alive /\ SdLive => SdLive')
<1>. USE CmdAssumption DEF Mild, Steady, SdBase, SdFlow, SdLive, mgrVars, cmdVars,
     memVars, taskVars, fwVars
<1>a. /\ \A d : In(cmds', d) <=> In(cmds, d) \/ d = c
      /\ \A d, e : Before(cmds', d, e) <=> Before(cmds, d, e) \/ (e = c /\ In(cmds, d))
      /\ ~In(cmds, c)
  <2>1. cmds' = Append(cmds, c) /\ cmds \in Seq(Cmd)
    BY ListOrder DEF QueueAccept
  <2>2. ~In(cmds, c)
    BY ListOrder DEF ListInv, ListedIsQueued, QueueAccept
  <2>. QED  BY <2>1, <2>2, AppendOrder
<1>b. MustDefer <=> \E d \in Cmd : In(cmds, d) /\ Unacked(d)
  <2>1. cmds # <<>> => In(cmds, cmds[Len(cmds)]) /\ cmds[Len(cmds)] \in Cmd
    BY ListFacts DEF In
  <2>2. cmds = <<>> => \A d : ~In(cmds, d)
    BY ListFacts DEF In
  <2>3. MustDefer => Unacked(cmds[Len(cmds)]) /\ cmds # <<>>
    BY <2>1, OneFirst DEF MustDefer, Unacked
  <2>4. ASSUME NEW d \in Cmd, In(cmds, d), Unacked(d) PROVE MustDefer
    <3>1. cmds # <<>>
      BY <2>2, <2>4
    <3>2. d = cmds[Len(cmds)] \/ Before(cmds, d, cmds[Len(cmds)])
      BY <2>4, <3>1, ListFacts DEF In, Before
    <3>. QED  BY <2>1, <2>4, <3>1, <3>2 DEF Behind, MustDefer, Unacked
  <2>. QED  BY <2>1, <2>3, <2>4
<1>c. /\ flags' = [flags EXCEPT ![c] =
           {"WAIT_ACK"} \cup (IF req[c].cfm # NoCfm THEN {"WAIT_CFM"} ELSE {})
                        \cup (IF MustDefer THEN {"WAIT_PUSH"} ELSE {})]
      /\ MustDefer => pc'[c] \notin {"push", "thread"}
      /\ ~MustDefer => pc'[c] \in {"push", "thread"}
      /\ \A d \in Cmd : d # c => pc'[d] = pc[d]
      /\ pc[c] = "queue" /\ pc'[c] # "expired" /\ pc'[c] # "poll"
      /\ state = "INITED"
      /\ UNCHANGED <<state, req, completion, cfmFrom, hostid, irqAck, taskVars, fwVars>>
  BY DEF QueueAccept, NotDeferredPc, ListInv, TypeOK, ControlType
<1>d. /\ \A d \in Cmd : d # c => flags'[d] = flags[d]
      /\ Unacked(c)' /\ Fresh(c)' /\ Unsent(c)'
      /\ "WAIT_PUSH" \in flags'[c] <=> MustDefer
  BY <1>c DEF Unacked, Fresh, Unsent, ListInv, TypeOK, CmdType
<1>e. \A d \in Cmd : d # c => /\ Unacked(d)' <=> Unacked(d)
                              /\ Unsent(d)' <=> Unsent(d)
                              /\ Fresh(d)' <=> Fresh(d)
  BY <1>c, <1>d DEF Unacked, Unsent, Fresh
<1>f. \A d \in Cmd : InFlight(d)' <=> InFlight(d)
  BY <1>c DEF InFlight, Busy
<1>g. /\ ~Turn(c) /\ \A d \in Cmd : d # c => (Turn(d)' <=> Turn(d))
      /\ Turn(c)' <=> ~MustDefer
  <2>1. ~Turn(c)
    BY <1>a DEF Turns
  <2>2. ~InFlight(c) /\ ~(taskPc = "push" /\ taskCmd = c)
    BY <2>1 DEF Turn
  <2>. QED  BY <1>c, <1>f, <2>1, <2>2 DEF Turn
<1>h. \A d \in Cmd : In(cmds, d) => (First(d)' <=> First(d))
  BY <1>a, <1>e, ListOrder DEF First
<1>i. ~MustDefer => First(c)' /\ msgSem = 0 /\ \A d \in Cmd : ~Turn(d)
  <2>1. ~MustDefer => First(c)'
    <3>1. \A d \in Cmd : Before(cmds', d, c) <=> In(cmds, d)
      BY <1>a, ListOrder
    <3>2. \A d \in Cmd : In(cmds, d) => d # c
      BY <1>a
    <3>. QED  BY <1>b, <1>e, <3>1, <3>2 DEF First
  <2>2. ~MustDefer => msgSem = 0
    BY <1>b, <1>c, OneFirst DEF Wakeup
  <2>3. ~MustDefer => \A d \in Cmd : ~Turn(d)
    BY <1>b DEF Turns
  <2>. QED  BY <2>1, <2>2, <2>3
<1>1. SdListed'
  <2>1. req[c].cfm # NoCfm => "WAIT_CFM" \in flags'[c]
    BY <1>c, <1>d DEF Fresh
  <2>. QED  BY <1>a, <1>c, <1>d, <1>e, <2>1 DEF SdListed
<1>2. Behind'
  BY <1>a, <1>b, <1>c, <1>d, <1>e, ListOrder DEF Behind
<1>3. Turns'
  <2>1. ASSUME NEW d \in Cmd, Turn(d)'
        PROVE  In(cmds, d)' /\ Unacked(d)' /\ First(d)' /\ msgSem' = 0 /\ pc'[d] # "expired"
    <3>1. CASE d = c
      BY <1>a, <1>c, <1>d, <1>g, <1>i, <2>1, <3>1
    <3>2. CASE d # c
      BY <1>a, <1>c, <1>e, <1>g, <1>h, <2>1, <3>2 DEF Turns
    <3>. QED  BY <3>1, <3>2
  <2>2. \A d \in Cmd : InFlight(d)' => ~Unsent(d)'
    <3>1. ~InFlight(c)
      BY <1>g DEF Turn
    <3>. QED  BY <1>e, <1>f, <3>1 DEF Turns
  <2>3. \A d \in Cmd : pc'[d] \in {"push", "thread"} => "WAIT_PUSH" \notin flags'[d]
    BY <1>c, <1>d DEF Turns
  <2>4. taskPc' = "push" => "WAIT_PUSH" \in flags'[taskCmd']
    <3>1. taskPc = "push" => taskCmd \in Cmd /\ taskCmd # c
      BY <1>g DEF Turn, ListInv, TaskHolds
    <3>. QED  BY <1>c, <1>d, <3>1 DEF Turns
  <2>. QED  BY <1>c, <2>1, <2>2, <2>3, <2>4 DEF Turns, Busy
<1>4. Wakeup'
  BY <1>a, <1>c, <1>d, <1>h DEF Wakeup
<1>5. Slot'
  <2>. SUFFICES ASSUME hostid # NoCmd PROVE Slot'
    BY <1>c DEF Slot
  <2>1. hostid \in Cmd /\ In(cmds, hostid) /\ Unacked(hostid)
    BY <1>c DEF Slot, ListInv, TypeOK, ControlType
  <2>2. hostid # c /\ MustDefer
    BY <1>a, <1>b, <2>1
  <2>3. In(cmds', hostid) /\ Unacked(hostid)' /\ flags'[hostid] = flags[hostid]
    BY <1>a, <1>c, <1>d, <1>e, <2>1, <2>2
  <2>. QED  BY <1>c, <2>2, <2>3 DEF Slot
<1>6. Alive /\ SdLive => SdMoving'
  BY <1>a, <1>b, <1>c, <1>e, <1>g DEF SdMoving
<1>7. Alive /\ SdLive => Confirms'
  <2>. SUFFICES ASSUME Alive, SdLive PROVE Confirms'
    OBVIOUS
  <2>1. \A d \in Cmd : d # c => (Awaits(d)' <=> Awaits(d))
    BY <1>a, <1>d DEF Awaits
  <2>2. ~Awaits(c)
    BY <1>a DEF Awaits
  <2>. QED  BY <1>c, <1>d, <1>e, <2>1, <2>2 DEF Confirms
<1>8. Alive /\ SdLive => InTurn'
  <2>. SUFFICES ASSUME Alive, SdLive PROVE InTurn'
    OBVIOUS
  <2>1. ~In(e2a, c) /\ ~In(fwOwes, c)
    BY <1>a DEF Confirms, Awaits
  <2>2. \A d, e \in Cmd : e # c /\ Rival(d, e)' => Rival(d, e)
    BY <1>a, <1>c, <1>d, ListOrder DEF Rival, Awaits
  <2>. QED  BY <1>c, <2>1, <2>2 DEF InTurn
<1>. QED  BY <1>1, <1>2, <1>3, <1>4, <1>5, <1>6, <1>7, <1>8

\* The turn goes from the caller to the semaphore of aml_msg_task.
LEMMA SdHandToTask ==
  ASSUME ListInv, ListInv', Mild, SdBase, SdFlow,
         NEW c \in Cmd, HandToTask(c)
  PROVE  SdFlow' /\ (Alive /\ SdLive => SdLive')
<1>. USE CmdAssumption DEF Mild, Steady, SdBase, SdFlow, SdLive, mgrVars, cmdVars,
     memVars, taskVars, fwVars
<1>a. /\ In(cmds, c) /\ Unacked(c) /\ First(c) /\ msgSem = 0 /\ Fresh(c) /\ taskPc # "push"
      /\ \A d \in Cmd : ~InFlight(d) /\ (d # c => pc[d] \notin {"push", "thread"})
      /\ irqAck = NoCmd /\ ~Busy /\ ~fwAckIrq /\ ~(fwUp /\ fwInbox # NoCmd)
      /\ hostid = NoCmd
  BY SoleCaller DEF HandToTask, Slot
<1>b. /\ msgSem' = 1 /\ flags' = [flags EXCEPT ![c] = @ \cup {"WAIT_PUSH"}]
      /\ pc'[c] \notin {"push", "thread", "expired"} /\ \A d \in Cmd : d # c => pc'[d] = pc[d]
      /\ UNCHANGED <<cmds, hostid, irqAck, taskPc, taskCmd, fwVars>>
  BY <1>a DEF HandToTask, ListInv, TypeOK, ControlType
<1>c. \A d \in Cmd : ~InFlight(d)' /\ ~Turn(d)'
  BY <1>a, <1>b DEF InFlight, Busy, Turn
<1>d. \A d \in Cmd : Unacked(d)' <=> Unacked(d)
  BY <1>b DEF Unacked, ListInv, TypeOK, CmdType
<1>1. SdListed'
  BY DEF SdListed, HandToTask, Fresh, Unsent, Unacked
<1>2. Behind'
  BY DEF Behind, HandToTask, Unacked
<1>3. Turns'
  BY <1>a, <1>b, <1>c DEF Turns, Busy
<1>4. Wakeup'
  <2>1. First(c)'
    BY <1>a, <1>b, <1>d DEF First
  <2>. QED  BY <1>a, <1>b, <2>1 DEF Wakeup, ListInv, TypeOK, CmdType
<1>5. Slot'
  BY <1>a, <1>b DEF Slot
<1>6. Alive /\ SdLive => SdMoving'
  BY <1>b DEF SdMoving
<1>7. Alive /\ SdLive => Confirms'
  BY DEF Confirms, HandToTask, Awaits, Unsent, ListInv, TypeOK, CmdType,
     ControlType
<1>8. Alive /\ SdLive => InTurn'
  BY DEF InTurn, HandToTask, Rival, Awaits
<1>. QED  BY <1>1, <1>2, <1>3, <1>4, <1>5, <1>6, <1>7, <1>8

\* The caller's push puts the only message in flight.
LEMMA SdPush ==
  ASSUME ListInv, ListInv', Mild, SdBase, SdFlow,
         NEW c \in Cmd, Push(c)
  PROVE  SdFlow' /\ (Alive /\ SdLive => SdLive')
<1>. USE CmdAssumption DEF Mild, Steady, SdBase, SdFlow, SdLive, mgrVars, cmdVars,
     memVars, taskVars, fwVars
<1>a. /\ In(cmds, c) /\ Unacked(c) /\ First(c) /\ msgSem = 0 /\ Fresh(c) /\ Unsent(c)
      /\ "WAIT_PUSH" \notin flags[c] /\ taskPc # "push"
      /\ \A d \in Cmd : ~InFlight(d) /\ (d # c => pc[d] \notin {"push", "thread"})
      /\ irqAck = NoCmd /\ ~Busy /\ ~fwAckIrq /\ ~(fwUp /\ fwInbox # NoCmd)
  BY SoleCaller DEF Push
<1>s. state # "DEINIT"
  BY DEF Push, SdStilled
<1>b. /\ Mailbox(c) /\ pc[c] = "push" /\ pc' = [pc EXCEPT ![c] = "freeMsg"]
      /\ state # "DEINIT"
      /\ UNCHANGED <<state, cmds, req, flags, cfmFrom, irqAck, taskPc, taskCmd, msgSem>>
  BY <1>s DEF Push
<1>c. \A d \in Cmd : Unsent(d)' <=> Unsent(d) /\ d # c
  BY <1>a, <1>b DEF Unsent, ListInv, TypeOK, ControlType
<1>d. SdLive => Confirms' /\ InTurn'
  BY <1>a, <1>b, <1>c, SdMail
<1>e. /\ \A d \in Cmd : Turn(d)' => d = c
      /\ \A d \in Cmd : InFlight(d)' => d = c
      /\ fwUp => Turn(c)'
      /\ hostid' = c /\ ~fwAckIrq' /\ irqAck' = NoCmd
  BY <1>a, <1>b DEF Turn, InFlight, Busy, Mailbox, ListInv, TypeOK, ControlType
<1>1. SdListed'
  BY <1>b, <1>c DEF SdListed, Fresh, Unacked
<1>2. Behind'
  BY <1>b DEF Behind, Unacked
<1>3. Turns'
  <2>1. First(c)' /\ Unacked(c)' /\ ~Unsent(c)'
    BY <1>a, <1>b, <1>c DEF First, Unacked
  <2>2. \A d \in Cmd : pc'[d] \notin {"push", "thread"}
    BY <1>a, <1>b DEF ListInv, TypeOK, ControlType
  <2>3. pc'[c] # "expired"
    BY <1>b DEF ListInv, TypeOK, ControlType
  <2>. QED  BY <1>a, <1>b, <1>e, <2>1, <2>2, <2>3 DEF Turns
<1>4. Wakeup'
  BY <1>a, <1>b DEF Wakeup
<1>5. Slot'
  BY <1>a, <1>b, <1>e DEF Slot, Unacked, ListInv, TypeOK, ControlType
<1>6. Alive /\ SdLive => SdMoving'
  <2>. SUFFICES ASSUME Alive, SdLive PROVE SdMoving'
    OBVIOUS
  <2>1. fwUp' = fwUp
    BY <1>b DEF Mailbox
  <2>. QED  BY <1>e, <2>1 DEF SdMoving
<1>7. Alive /\ SdLive => Confirms'
  BY <1>d
<1>8. Alive /\ SdLive => InTurn'
  BY <1>d
<1>. QED  BY <1>1, <1>2, <1>3, <1>4, <1>5, <1>6, <1>7, <1>8

\* The caller frees the message it pushed.
LEMMA SdFreeMsg ==
  ASSUME ListInv, ListInv', Mild, SdBase, SdFlow,
         NEW c \in Cmd, FreeMsg(c)
  PROVE  SdFlow' /\ (Alive /\ SdLive => SdLive')
<1>. USE CmdAssumption DEF Mild, Steady, SdBase, SdFlow, SdLive, mgrVars, cmdVars,
     memVars, taskVars, fwVars
<1>1. SdListed'
  BY DEF SdListed, FreeMsg, Fresh, Unsent, Unacked
<1>2. Behind'
  BY DEF Behind, FreeMsg, Unacked
<1>3. Turns'
  BY DEF Turns, FreeMsg, Turn, InFlight, Busy, Unacked, Unsent, First
<1>4. Wakeup'
  BY DEF Wakeup, FreeMsg, Unacked, First
<1>5. Slot'
  BY DEF Slot, FreeMsg, Unacked
<1>6. Alive /\ SdLive => SdMoving'
  BY DEF SdMoving, FreeMsg, Turn, InFlight, Busy, Unacked
<1>7. Alive /\ SdLive => Confirms'
  BY DEF Confirms, FreeMsg, Awaits, Unsent
<1>8. Alive /\ SdLive => InTurn'
  BY DEF InTurn, FreeMsg, Rival, Awaits
<1>. QED  BY <1>1, <1>2, <1>3, <1>4, <1>5, <1>6, <1>7, <1>8

\* A call that ends has left the list.
LEMMA SdReturn ==
  ASSUME ListInv, ListInv', Mild, SdBase, SdFlow,
         NEW c \in Cmd, Return(c)
  PROVE  SdFlow' /\ (Alive /\ SdLive => SdLive')
<1>. USE CmdAssumption DEF Mild, Steady, SdBase, SdFlow, SdLive, mgrVars, cmdVars,
     memVars, taskVars, fwVars
<1>1. SdListed'
  BY DEF SdListed, Return, Fresh, Unsent, Unacked
<1>2. Behind'
  BY DEF Behind, Return, Unacked
<1>3. Turns'
  BY DEF Turns, Return, Turn, InFlight, Busy, Unacked, Unsent, First
<1>4. Wakeup'
  BY DEF Wakeup, Return, Unacked, First
<1>5. Slot'
  BY DEF Slot, Return, Unacked
<1>6. Alive /\ SdLive => SdMoving'
  BY DEF SdMoving, Return, Turn, InFlight, Busy, Unacked
<1>7. Alive /\ SdLive => Confirms'
  BY DEF Confirms, Return, Awaits, Unsent
<1>8. Alive /\ SdLive => InTurn'
  BY DEF InTurn, Return, Rival, Awaits
<1>. QED  BY <1>1, <1>2, <1>3, <1>4, <1>5, <1>6, <1>7, <1>8

\* The acknowledgement moves from the mailbox to the interrupt.
LEMMA SdMsgAck ==
  ASSUME ListInv, ListInv', Mild, SdBase, SdFlow, MsgAck
  PROVE  SdFlow' /\ (Alive /\ SdLive => SdLive')
<1>. USE CmdAssumption DEF Mild, Steady, SdBase, SdFlow, SdLive, mgrVars, cmdVars,
     memVars, taskVars, fwVars
<1>1. SdListed'
  BY DEF SdListed, MsgAck, Fresh, Unsent, Unacked
<1>2. Behind'
  BY DEF Behind, MsgAck, Unacked
<1>3. Turns'
  BY DEF Turns, MsgAck, Turn, InFlight, Busy, Unacked, Unsent, First
<1>4. Wakeup'
  BY DEF Wakeup, MsgAck, Unacked, First
<1>5. Slot'
  BY DEF Slot, MsgAck, Unacked
<1>6. Alive /\ SdLive => SdMoving'
  BY DEF SdMoving, MsgAck, Turn, InFlight, Busy, Unacked
<1>7. Alive /\ SdLive => Confirms'
  BY DEF Confirms, MsgAck, Awaits, Unsent
<1>8. Alive /\ SdLive => InTurn'
  BY DEF InTurn, MsgAck, Rival, Awaits
<1>. QED  BY <1>1, <1>2, <1>3, <1>4, <1>5, <1>6, <1>7, <1>8

\* The acknowledged command waits on for its confirmation, and the semaphore goes up
\* for the command behind it.
LEMMA SdAckPartial ==
  ASSUME ListInv, ListInv', Mild, SdBase, SdFlow, Alive, SdLive, AckPartial
  PROVE  SdFlow' /\ SdLive'
<1>. USE CmdAssumption DEF Mild, Steady, SdBase, SdFlow, SdLive, mgrVars, cmdVars,
     memVars, taskVars, fwVars
<1>. PICK f : f = irqAck
  OBVIOUS
<1>a. /\ f \in Cmd /\ In(cmds, f) /\ Unacked(f) /\ First(f) /\ msgSem = 0 /\ ~Unsent(f)
      /\ ~Busy /\ ~fwAckIrq /\ ~(fwUp /\ fwInbox # NoCmd)
      /\ taskPc # "push" /\ \A d \in Cmd : pc[d] \notin {"push", "thread"}
      /\ NextIdx(f) = {} => \A d \in Cmd : ~Before(cmds, f, d)
      /\ NextIdx(f) # {} =>
            \E d \in Cmd : /\ In(cmds, d) /\ "WAIT_PUSH" \in flags[d] /\ d # f
                           /\ \A e \in Cmd : Before(cmds, e, d) /\ e # f => ~Unacked(e)
      /\ hostid = NoCmd /\ \A d \in Cmd : pc[d] # "expired"
  BY SdAckFacts DEF AckPartial, Slot, Alive
<1>b. /\ flags' = [flags EXCEPT ![f] = @ \ {"WAIT_ACK"}]
      /\ "WAIT_CFM" \in flags[f] /\ irqAck' = NoCmd
      /\ msgSem' = IF NextIdx(f) # {} THEN msgSem + 1 ELSE msgSem
      /\ UNCHANGED <<cmds, req, cfmFrom, pc, hostid, taskPc, taskCmd, fwVars>>
  BY DEF AckPartial, WaitComplete
<1>c. \A d \in Cmd : ~InFlight(d)' /\ ~Turn(d)'
  BY <1>a, <1>b, CmdAssumption DEF InFlight, Busy, Turn
<1>d. \A d \in Cmd : /\ Unacked(d)' <=> Unacked(d) /\ d # f
                     /\ "WAIT_PUSH" \in flags'[d] <=> "WAIT_PUSH" \in flags[d]
                     /\ "WAIT_CFM" \in flags'[d] <=> "WAIT_CFM" \in flags[d]
  BY <1>a, <1>b DEF Unacked, ListInv, TypeOK, CmdType
<1>1. SdListed'
  <2>1. \A d \in Cmd : Unsent(d)' <=> Unsent(d)
    BY <1>b, <1>d DEF Unsent
  <2>2. \A d \in Cmd : Unsent(d) /\ Fresh(d) => Fresh(d)'
    BY <1>a, <1>b, <1>d DEF Fresh, Unacked
  <2>. QED  BY <1>b, <1>d, <2>1, <2>2 DEF SdListed
<1>2. Behind'
  BY DEF Behind, AckPartial, Unacked, WaitComplete
<1>3. Turns'
  BY <1>a, <1>b, <1>c, <1>d DEF Turns, Busy
<1>4. Wakeup'
  <2>1. CASE NextIdx(f) = {}
    BY <1>a, <1>b, <2>1 DEF Wakeup
  <2>2. CASE NextIdx(f) # {}
    <3>1. PICK d \in Cmd : /\ In(cmds, d) /\ "WAIT_PUSH" \in flags[d]
                           /\ \A e \in Cmd : Before(cmds, e, d) /\ e # f => ~Unacked(e)
      BY <1>a, <2>2
    <3>2. In(cmds, d)' /\ "WAIT_PUSH" \in flags'[d] /\ First(d)'
      BY <1>b, <1>d, <3>1 DEF First
    <3>. QED  BY <1>a, <1>b, <3>2 DEF Wakeup
  <2>. QED  BY <2>1, <2>2
<1>5. Slot'
  BY <1>a, <1>b DEF Slot
<1>6. SdMoving'
  <2>1. NextIdx(f) = {} => \A d \in Cmd : In(cmds, d) /\ Unacked(d) => d = f
    BY <1>a, ListOrder DEF First
  <2>2. NextIdx(f) # {} => msgSem' = 1
    BY <1>a, <1>b
  <2>. QED  BY <1>b, <1>d, <2>1, <2>2 DEF SdMoving
<1>7. Confirms'
  BY DEF Confirms, AckPartial, Awaits, Unsent, WaitComplete
<1>8. InTurn'
  BY DEF InTurn, AckPartial, Rival, Awaits, WaitComplete
<1>. QED  BY <1>1, <1>2, <1>3, <1>4, <1>5, <1>6, <1>7, <1>8

\* A confirmation may overtake the acknowledgement.
LEMMA SdCfmPartial ==
  ASSUME ListInv, ListInv', Mild, SdBase, SdFlow, Alive, SdLive, CfmPartial
  PROVE  SdFlow' /\ SdLive'
<1>. USE CmdAssumption DEF Mild, Steady, SdBase, SdFlow, SdLive, mgrVars, cmdVars,
     memVars, taskVars, fwVars
<1>. PICK c : c = Head(e2a)
  OBVIOUS
<1>a. c \in Cmd /\ In(e2a, c) /\ Awaits(c) /\ ~Unsent(c)
  BY SdCredit DEF CfmPartial
<1>b. PICK p \in DOMAIN cmds : cmds[p] = c /\ CfmIdx(req[c].cfm) = {p}
  BY SdCredit DEF CfmPartial
<1>c. PICK i \in CfmIdx(req[c].cfm) :
         /\ ~WaitComplete(flags[cmds[i]] \ {"WAIT_CFM"})
         /\ flags' = [flags EXCEPT ![cmds[i]] = @ \ {"WAIT_CFM"}]
         /\ cfmFrom' = [cfmFrom EXCEPT ![cmds[i]] = c]
  BY DEF CfmPartial
<1>d. cmds[i] = c
  BY <1>b, <1>c
<1>e. /\ Unacked(c)
      /\ flags' = [flags EXCEPT ![c] = @ \ {"WAIT_CFM"}]
      /\ cfmFrom' = [cfmFrom EXCEPT ![c] = c]
  BY <1>c, <1>d DEF WaitComplete, Unacked
<1>f. /\ e2a # <<>> /\ e2a' = Tail(e2a)
      /\ UNCHANGED <<state, cmds, req, result, completion, pc, hostid, irqAck, taskVars,
                     fwUp, fwInbox, fwAckIrq, fwOwes>>
  BY DEF CfmPartial
<1>g. /\ \A d : In(e2a', d) <=> In(e2a, d) /\ d # c
      /\ \A d, e : Before(e2a', d, e) <=> Before(e2a, d, e) /\ e # c /\ d # c
      /\ Distinct(e2a')
  BY <1>f, TailOrder DEF ListInv, TypeOK, FwType, Confirms
<1>h. \A d \in Cmd : /\ Unacked(d)' <=> Unacked(d)
                     /\ "WAIT_PUSH" \in flags'[d] <=> "WAIT_PUSH" \in flags[d]
                     /\ "WAIT_CFM" \in flags'[d] <=> "WAIT_CFM" \in flags[d] /\ d # c
  BY <1>a, <1>e DEF Unacked, ListInv, TypeOK, CmdType
<1>i. \A d \in Cmd : /\ Unsent(d)' <=> Unsent(d)
                     /\ Awaits(d)' <=> Awaits(d) /\ d # c
                     /\ d # c => (Fresh(d)' <=> Fresh(d))
                     /\ cfmFrom'[d] = IF d = c THEN c ELSE cfmFrom[d]
  BY <1>e, <1>f, <1>h DEF Unsent, Awaits, Fresh, Unacked, ListInv, TypeOK, CmdType
<1>1. SdListed'
  BY <1>a, <1>e, <1>f, <1>h, <1>i DEF SdListed
<1>2. Behind'
  BY <1>f, <1>h DEF Behind
<1>3. Turns'
  <2>1. \A d \in Cmd : /\ Turn(d)' <=> Turn(d)
                       /\ InFlight(d)' <=> InFlight(d)
                       /\ First(d)' <=> First(d)
    BY <1>f, <1>h DEF Turn, InFlight, Busy, First
  <2>. QED  BY <1>f, <1>h, <1>i, <2>1 DEF Turns, Busy, ListInv, TaskHolds
<1>4. Wakeup'
  <2>1. \A d \in Cmd : First(d)' <=> First(d)
    BY <1>f, <1>h DEF First
  <2>. QED  BY <1>f, <1>h, <2>1 DEF Wakeup
<1>5. Slot'
  BY <1>f, <1>h DEF Slot, ListInv, TypeOK, ControlType
<1>6. SdMoving'
  <2>1. \A d \in Cmd : Turn(d)' <=> Turn(d)
    BY <1>f DEF Turn, InFlight, Busy
  <2>. QED  BY <1>f, <1>h, <2>1 DEF SdMoving
<1>7. Confirms'
  BY <1>a, <1>f, <1>g, <1>i DEF Confirms
<1>8. InTurn'
  <2>1. \A d, e \in Cmd : Rival(d, e)' <=> Rival(d, e) /\ d # c
    BY <1>f, <1>i DEF Rival
  <2>. QED  BY <1>a, <1>f, <1>g, <2>1, TailOrder DEF InTurn, Confirms
<1>. QED  BY <1>1, <1>2, <1>3, <1>4, <1>5, <1>6, <1>7, <1>8

\* aml_msg_task finds the command its semaphore went up for.
LEMMA SdTaskPick ==
  ASSUME ListInv, ListInv', Mild, SdBase, SdFlow, TaskPick
  PROVE  SdFlow' /\ (Alive /\ SdLive => SdLive')
<1>. USE CmdAssumption DEF Mild, Steady, SdBase, SdFlow, SdLive, mgrVars, cmdVars,
     memVars, taskVars, fwVars
<1>a. \A d \in Cmd : ~Turn(d)
  BY SdPickFacts DEF TaskPick
<1>b. PICK c \in Cmd, p \in DOMAIN cmds :
         /\ cmds[p] = c /\ FirstWaitPush = {p}
         /\ In(cmds, c) /\ Unacked(c) /\ "WAIT_PUSH" \in flags[c] /\ First(c)
         /\ pc[c] # "expired"
  BY SdPickFacts DEF TaskPick
<1>c. /\ taskCmd' = c /\ taskPc' = "push" /\ msgSem' = 0
      /\ hostid = NoCmd /\ UNCHANGED <<cmds, flags, pc, hostid, irqAck, fwVars>>
  BY <1>b, SdPickFacts DEF TaskPick, Slot
<1>d. /\ \A d \in Cmd : Turn(d)' <=> d = c
      /\ \A d \in Cmd : ~InFlight(d)'
  BY <1>a, <1>c DEF Turn, InFlight, Busy
<1>1. SdListed'
  BY DEF SdListed, TaskPick, Fresh, Unsent, Unacked
<1>2. Behind'
  BY DEF Behind, TaskPick, Unacked
<1>3. Turns'
  <2>1. First(c)' /\ Unacked(c)' /\ In(cmds, c)'
    BY <1>b, <1>c DEF First, Unacked
  <2>. QED  BY <1>a, <1>b, <1>c, <1>d, <2>1 DEF Turns, Turn, Busy
<1>4. Wakeup'
  BY DEF Wakeup, TaskPick, Unacked, First
<1>5. Slot'
  BY <1>c DEF Slot
<1>6. Alive /\ SdLive => SdMoving'
  BY <1>d DEF SdMoving
<1>7. Alive /\ SdLive => Confirms'
  BY DEF Confirms, TaskPick, Awaits, Unsent
<1>8. Alive /\ SdLive => InTurn'
  BY DEF InTurn, TaskPick, Rival, Awaits
<1>. QED  BY <1>1, <1>2, <1>3, <1>4, <1>5, <1>6, <1>7, <1>8

\* aml_msg_task pushes the first command that is not acknowledged.
LEMMA SdTaskPush ==
  ASSUME ListInv, ListInv', Mild, SdBase, SdFlow, TaskPush
  PROVE  SdFlow' /\ (Alive /\ SdLive => SdLive')
<1>. USE CmdAssumption DEF Mild, Steady, SdBase, SdFlow, SdLive, mgrVars, cmdVars,
     memVars, taskVars, fwVars
<1>. PICK c : c = taskCmd
  OBVIOUS
<1>a. /\ c \in Cmd /\ In(cmds, c) /\ Unacked(c) /\ First(c)
      /\ msgSem = 0 /\ "WAIT_PUSH" \in flags[c] /\ Fresh(c) /\ Unsent(c)
      /\ \A d \in Cmd : ~InFlight(d) /\ pc[d] \notin {"push", "thread"}
      /\ irqAck = NoCmd /\ ~Busy /\ ~fwAckIrq /\ ~(fwUp /\ fwInbox # NoCmd)
      /\ pc[c] # "expired"
  BY SoleTask DEF TaskPush
<1>b. /\ Mailbox(c) /\ flags' = [flags EXCEPT ![c] = @ \ {"WAIT_PUSH"}] /\ taskPc' = "free"
      /\ state # "DEINIT"
      /\ UNCHANGED <<state, cmds, req, cfmFrom, pc, irqAck, taskCmd, msgSem>>
  BY DEF TaskPush, SdStilled
<1>c. \A d \in Cmd : /\ Unacked(d)' <=> Unacked(d)
                     /\ "WAIT_PUSH" \in flags'[d] <=> "WAIT_PUSH" \in flags[d] /\ d # c
                     /\ "WAIT_CFM" \in flags'[d] <=> "WAIT_CFM" \in flags[d]
  BY <1>a, <1>b DEF Unacked, ListInv, TypeOK, CmdType
<1>d. \A d \in Cmd : Unsent(d)' <=> Unsent(d) /\ d # c
  BY <1>a, <1>b, <1>c DEF Unsent
<1>e. SdLive => Confirms' /\ InTurn'
  BY <1>a, <1>b, <1>c, <1>d, SdMail
<1>f. /\ \A d \in Cmd : Turn(d)' => d = c
      /\ \A d \in Cmd : InFlight(d)' => d = c
      /\ fwUp => Turn(c)'
      /\ hostid' = c /\ ~fwAckIrq' /\ irqAck' = NoCmd /\ fwUp' = fwUp
  BY <1>a, <1>b DEF Turn, InFlight, Busy, Mailbox
<1>g. First(c)' /\ Unacked(c)'
  BY <1>a, <1>b, <1>c DEF First
<1>1. SdListed'
  <2>1. \A d \in Cmd : Fresh(d)' <=> Fresh(d)
    BY <1>b, <1>c DEF Fresh, Unacked
  <2>. QED  BY <1>b, <1>c, <1>d, <2>1 DEF SdListed
<1>2. Behind'
  BY <1>a, <1>b, <1>c DEF Behind, First
<1>3. Turns'
  BY <1>a, <1>b, <1>d, <1>f, <1>g DEF Turns
<1>4. Wakeup'
  BY <1>a, <1>b DEF Wakeup
<1>5. Slot'
  BY <1>a, <1>b, <1>c, <1>f, <1>g DEF Slot
<1>6. Alive /\ SdLive => SdMoving'
  BY <1>a, <1>f DEF SdMoving
<1>7. Alive /\ SdLive => Confirms'
  BY <1>e
<1>8. Alive /\ SdLive => InTurn'
  BY <1>e
<1>. QED  BY <1>1, <1>2, <1>3, <1>4, <1>5, <1>6, <1>7, <1>8

\* aml_msg_task frees the message it pushed.
LEMMA SdTaskFree ==
  ASSUME ListInv, ListInv', Mild, SdBase, SdFlow, TaskFree
  PROVE  SdFlow' /\ (Alive /\ SdLive => SdLive')
<1>. USE CmdAssumption DEF Mild, Steady, SdBase, SdFlow, SdLive, mgrVars, cmdVars,
     memVars, taskVars, fwVars
<1>1. SdListed'
  BY DEF SdListed, TaskFree, Fresh, Unsent, Unacked
<1>2. Behind'
  BY DEF Behind, TaskFree, Unacked
<1>3. Turns'
  BY DEF Turns, TaskFree, Turn, InFlight, Busy, Unacked, Unsent, First
<1>4. Wakeup'
  BY DEF Wakeup, TaskFree, Unacked, First
<1>5. Slot'
  BY DEF Slot, TaskFree, Unacked
<1>6. Alive /\ SdLive => SdMoving'
  BY DEF SdMoving, TaskFree, Turn, InFlight, Busy, Unacked
<1>7. Alive /\ SdLive => Confirms'
  BY DEF Confirms, TaskFree, Awaits, Unsent
<1>8. Alive /\ SdLive => InTurn'
  BY DEF InTurn, TaskFree, Rival, Awaits
<1>. QED  BY <1>1, <1>2, <1>3, <1>4, <1>5, <1>6, <1>7, <1>8

\* The message in flight becomes an acknowledgement in flight.
LEMMA SdFwAck ==
  ASSUME ListInv, ListInv', Mild, SdBase, SdFlow, FwAck
  PROVE  SdFlow' /\ (Alive /\ SdLive => SdLive')
<1>. USE CmdAssumption DEF Mild, Steady, SdBase, SdFlow, SdLive, mgrVars, cmdVars,
     memVars, taskVars, fwVars
<1>1. SdListed'
  BY DEF SdListed, FwAck, Fresh, Unsent, Unacked
<1>2. Behind'
  BY DEF Behind, FwAck, Unacked
<1>3. Turns'
  BY DEF Turns, FwAck, Turn, InFlight, Busy, Unacked, Unsent, First
<1>4. Wakeup'
  BY DEF Wakeup, FwAck, Unacked, First
<1>5. Slot'
  BY DEF Slot, FwAck, Unacked
<1>6. Alive /\ SdLive => SdMoving'
  BY DEF SdMoving, FwAck, Turn, InFlight, Busy, Unacked
<1>7. Alive /\ SdLive => Confirms'
  BY DEF Confirms, FwAck, Awaits, Unsent
<1>8. Alive /\ SdLive => InTurn'
  BY DEF InTurn, FwAck, Rival, Awaits
<1>. QED  BY <1>1, <1>2, <1>3, <1>4, <1>5, <1>6, <1>7, <1>8

\* Confirmations of one identifier are sent in the order of the list.
LEMMA SdFwConfirm ==
  ASSUME ListInv, ListInv', Mild, SdBase, SdFlow, Alive, SdLive, FwConfirm
  PROVE  SdFlow' /\ SdLive'
<1>. USE CmdAssumption DEF Mild, Steady, SdBase, SdFlow, SdLive, mgrVars, cmdVars,
     memVars, taskVars, fwVars
<1>a. PICK i \in DOMAIN fwOwes :
         /\ \A j \in 1..(i - 1) : req[fwOwes[j]].cfm # req[fwOwes[i]].cfm
         /\ e2a' = Append(e2a, fwOwes[i])
         /\ fwOwes' = ListDel(fwOwes, i)
  BY DEF FwConfirm
<1>. PICK x : x = fwOwes[i]
  OBVIOUS
<1>b. /\ fwOwes \in Seq(Cmd) /\ e2a \in Seq(Cmd) /\ Distinct(fwOwes) /\ Distinct(e2a)
      /\ Len(fwOwes) \in Nat /\ DOMAIN fwOwes = 1..Len(fwOwes)
  BY LenProperties DEF ListInv, TypeOK, FwType, Confirms
<1>c. x \in Cmd /\ In(fwOwes, x) /\ ~In(e2a, x)
  BY <1>a, <1>b, ElementOfSeq DEF In, Confirms
<1>d. /\ \A d : In(fwOwes', d) <=> In(fwOwes, d) /\ d # x
      /\ \A d, e : Before(fwOwes', d, e) <=> Before(fwOwes, d, e) /\ e # x /\ d # x
      /\ Distinct(fwOwes')
  BY <1>a, <1>b, DelOrder
<1>e. /\ \A d : In(e2a', d) <=> In(e2a, d) \/ d = x
      /\ \A d, e : Before(e2a', d, e) <=> Before(e2a, d, e) \/ (e = x /\ In(e2a, d))
      /\ Distinct(e2a')
  BY <1>a, <1>b, <1>c, AppendOrder
<1>f. \A d : Before(fwOwes, d, x) => req[d].cfm # req[x].cfm
  <2>. SUFFICES ASSUME NEW d, Before(fwOwes, d, x) PROVE req[d].cfm # req[x].cfm
    OBVIOUS
  <2>1. PICK j, k \in DOMAIN fwOwes : j < k /\ fwOwes[j] = d /\ fwOwes[k] = x
    BY DEF Before
  <2>2. k = i
    BY <1>a, <1>b, <2>1 DEF Distinct
  <2>. QED  BY <1>a, <1>b, <2>1, <2>2
<1>g. UNCHANGED <<cmds, req, flags, cfmFrom, pc, msgSem, taskPc, taskCmd, hostid, irqAck,
                  fwUp, fwInbox, fwAckIrq>>
  BY DEF FwConfirm
<1>1. SdListed'
  BY DEF SdListed, FwConfirm, Fresh, Unsent, Unacked
<1>2. Behind'
  BY DEF Behind, FwConfirm, Unacked
<1>3. Turns'
  BY DEF Turns, FwConfirm, Turn, InFlight, Busy, Unacked, Unsent, First
<1>4. Wakeup'
  BY DEF Wakeup, FwConfirm, Unacked, First
<1>5. Slot'
  BY DEF Slot, FwConfirm, Unacked
<1>6. SdMoving'
  BY DEF SdMoving, FwConfirm, Turn, InFlight, Busy, Unacked
<1>7. Confirms'
  <2>1. \A d \in Cmd : (Awaits(d)' <=> Awaits(d)) /\ (Unsent(d)' <=> Unsent(d))
    BY <1>g DEF Awaits, Unsent
  <2>. QED  BY <1>c, <1>d, <1>e, <2>1 DEF Confirms
<1>8. InTurn'
  <2>. SUFFICES ASSUME NEW d \in Cmd, NEW e \in Cmd, Rival(d, e)'
                PROVE  /\ In(e2a', e) => Before(e2a', d, e)
                       /\ In(fwOwes', e) => In(e2a', d) \/ Before(fwOwes', d, e)
    BY DEF InTurn
  <2>1. Rival(d, e) /\ req[d].cfm = req[e].cfm
    BY <1>g DEF Rival, Awaits
  <2>2. /\ In(e2a, e) => Before(e2a, d, e)
        /\ In(fwOwes, e) => In(e2a, d) \/ Before(fwOwes, d, e)
    BY <2>1 DEF InTurn
  <2>. QED  BY <1>c, <1>d, <1>e, <1>f, <2>1, <2>2
<1>. QED  BY <1>1, <1>2, <1>3, <1>4, <1>5, <1>6, <1>7, <1>8

\* A silent firmware leaves everything where it is.
LEMMA SdFwStop ==
  ASSUME ListInv, ListInv', Mild, SdBase, SdFlow, FwStop
  PROVE  SdFlow' /\ (Alive /\ SdLive => SdLive')
<1>. USE CmdAssumption DEF Mild, Steady, SdBase, SdFlow, SdLive, mgrVars, cmdVars,
     memVars, taskVars, fwVars
<1>1. SdListed'
  BY DEF SdListed, FwStop, Fresh, Unsent, Unacked
<1>2. Behind'
  BY DEF Behind, FwStop, Unacked
<1>3. Turns'
  BY DEF Turns, FwStop, Turn, InFlight, Busy, Unacked, Unsent, First
<1>4. Wakeup'
  BY DEF Wakeup, FwStop, Unacked, First
<1>5. Slot'
  BY DEF Slot, FwStop, Unacked
<1>6. Alive /\ SdLive => SdMoving'
  BY DEF SdMoving, FwStop, Turn, InFlight, Busy, Unacked
<1>7. Alive /\ SdLive => Confirms'
  BY DEF Confirms, FwStop, Awaits, Unsent
<1>8. Alive /\ SdLive => InTurn'
  BY DEF InTurn, FwStop, Rival, Awaits
<1>. QED  BY <1>1, <1>2, <1>3, <1>4, <1>5, <1>6, <1>7, <1>8

-----------------------------------------------------------------------------
(* The theorem                                                              *)

\* Only IpcInit ends the state in which a call has timed out or the IPC is down.
LEMMA AliveBefore ==
  ASSUME ListInv, Mild, SdBase, Step, ~IpcInit, Alive'
  PROVE  Alive
<1>. SUFFICES state = "INITED" /\ \A c \in Cmd : pc[c] = "expired" => pc'[c] = "expired"
  BY DEF Alive
<1>s. \A c \in Cmd : pc[c] \notin {"idle", "end"} => state # "DEINIT"
  BY DEF SdBase, SdStilled
<1>. USE CmdAssumption DEF mgrVars, cmdVars, memVars, taskVars, fwVars, Alive
<1>1. ASSUME NEW c \in Cmd, SendMsg(c) \/ QueueRefuse(c) \/ QueueAccept(c) \/ QueueGone(c)
      PROVE  state = "INITED" /\ \A d \in Cmd : pc[d] = "expired" => pc'[d] = "expired"
  BY <1>1 DEF SendMsg, Drop, QueueRefuse, QueueAccept, QueueGone, ListInv, TypeOK, ControlType
<1>2. ASSUME NEW c \in Cmd, HandToTask(c) \/ Push(c) \/ FreeMsg(c) \/ WaitEnds(c)
      PROVE  state = "INITED" /\ \A d \in Cmd : pc[d] = "expired" => pc'[d] = "expired"
  BY <1>2 DEF HandToTask, Push, FreeMsg, WaitEnds, ListInv, TypeOK, ControlType
<1>3. ASSUME NEW c \in Cmd, PollEnds(c) \/ Expire(c) \/ ExpireFaults(c) \/ Return(c)
      PROVE  state = "INITED" /\ \A d \in Cmd : pc[d] = "expired" => pc'[d] = "expired"
  <2>1. CASE PollEnds(c) \/ Return(c)
    BY <2>1 DEF PollEnds, Return, ListInv, TypeOK, ControlType
  <2>2. CASE Expire(c) \/ ExpireFaults(c)
    <3>1. state' = "CRASHED"
      BY <1>s, <2>2 DEF Expire, ExpireFaults, Crashed
    <3>. QED  BY <3>1
  <2>. QED  BY <1>3, <2>1, <2>2
<1>4. ASSUME IrqStep
      PROVE  state = "INITED" /\ \A d \in Cmd : pc[d] = "expired" => pc'[d] = "expired"
  BY <1>4 DEF IrqStep, MsgAck, AckLost, AckPartial, AckLast, CfmLost, CfmPartial, CfmLast
<1>5. ASSUME TaskStep \/ FwAck \/ FwConfirm \/ FwStop \/ IpcDeinit
      PROVE  state = "INITED" /\ \A d \in Cmd : pc[d] = "expired" => pc'[d] = "expired"
  BY <1>5 DEF TaskStep, TaskPick, TaskPush, TaskFree, FwAck, FwConfirm, FwStop, IpcDeinit
<1>. QED  BY <1>1, <1>2, <1>3, <1>4, <1>5 DEF Step, CallStep

\* No call finds its command drained.
LEMMA NeverFaults ==
  ASSUME CallInv, Steady, NEW c \in Cmd
  PROVE  ~ExpireFaults(c)
BY DEF ExpireFaults, CallInv, KnownCall, Steady, Relying

\* These steps belong to the other faults.
LEMMA NeverWhenMild ==
  ASSUME ListInv, Mild, SdBase, SdFlow, Alive => SdLive
  PROVE  /\ ~AckLost /\ ~CfmLost
         /\ \A c \in Cmd : ~QueueGone(c) /\ ~PollEnds(c)
<1>1. ~AckLost
  BY SdAckFacts DEF AckLost, SdBase, SdStilled
<1>2. ~CfmLost
  BY SdCredit DEF CfmLost, SdBase, SdStilled
<1>3. \A c \in Cmd : ~QueueGone(c) /\ ~PollEnds(c)
  BY DEF QueueGone, PollEnds, SdBase, SdStilled, SdStages
<1>. QED  BY <1>1, <1>2, <1>3

\* The manager starts empty.
LEMMA InitSdInv == Init => SdInv
<1>. SUFFICES ASSUME Init PROVE SdBase /\ SdFlow /\ SdLive
  BY DEF SdInv
<1>1. /\ cmds = <<>> /\ e2a = <<>> /\ fwOwes = <<>>
      /\ irqAck = NoCmd /\ fwInbox = NoCmd /\ ~fwAckIrq /\ state = "INITED"
      /\ msgSem = 0 /\ taskPc = "idle" /\ hostid = NoCmd
      /\ \A c \in Cmd : pc[c] = "idle" /\ flags[c] = {} /\ result[c] = "EINTR"
  BY DEF Init
<1>2. ~Busy /\ \A c \in Cmd : /\ ~In(cmds, c) /\ ~In(e2a, c) /\ ~In(fwOwes, c)
                              /\ ~Turn(c) /\ ~InFlight(c)
  BY <1>1, CmdAssumption DEF Busy, In, Turn, InFlight
<1>3. \A c, d \in Cmd : ~Before(cmds, c, d)
  BY <1>1 DEF Before
<1>4. Alive
  BY <1>1 DEF Alive
<1>5. SdBase
  BY <1>1, <1>4 DEF SdBase, SdStages, SdStilled, DoneTruthful
<1>6. SdListed /\ Behind /\ Turns /\ Wakeup /\ Slot /\ SdMoving
  BY <1>1, <1>2, <1>3 DEF SdListed, Behind, Turns, Wakeup, Slot, SdMoving
<1>7. Confirms /\ InTurn
  BY <1>1, <1>2 DEF Confirms, InTurn, Awaits, Distinct
<1>. QED  BY <1>5, <1>6, <1>7 DEF SdFlow, SdLive

\* Every step keeps it.
LEMMA NextSdInv == ListInv /\ CallInv /\ SdInv /\ [Next]_<<vars, conf>> => SdInv'
<1>. SUFFICES ASSUME ListInv, CallInv, SdInv, [Next]_<<vars, conf>>, Mild'
              PROVE  SdBase' /\ SdFlow' /\ (Alive' => SdLive')
  BY DEF SdInv
<1>1. ListInv'
  BY NextListInv
<1>2. UNCHANGED conf
  BY DEF Next
<1>3. Mild /\ SdBase /\ SdFlow /\ (Alive => SdLive)
  BY <1>2 DEF Mild, Steady, Pcie, conf, SdInv
<1>4. irqAck # NoCmd \/ e2a # <<>> \/ fwUp => Alive
  BY <1>3 DEF SdBase, SdStilled
<1>5. /\ AckPartial \/ AckLast => irqAck # NoCmd
      /\ CfmPartial \/ CfmLast => e2a # <<>>
      /\ FwConfirm => fwUp
  BY DEF AckPartial, AckLast, CfmPartial, CfmLast, FwConfirm
<1>6. AckPartial \/ AckLast \/ CfmPartial \/ CfmLast \/ FwConfirm => Alive
  BY <1>4, <1>5
<1>f. \A c \in Cmd : ~ExpireFaults(c)
  BY <1>3, NeverFaults DEF Mild
<1>7. CASE Step
  <2>1. ASSUME NEW c \in Cmd, SendMsg(c) \/ CallStep(c) PROVE SdBase'
    BY <1>1, <1>3, <1>f, <2>1, NeverWhenMild, SdBaseSendMsg, SdBaseQueueRefuse, SdBaseQueueAccept,
       SdBaseHandToTask, SdBasePush, SdBaseFreeMsg, SdBaseWaitEnds, SdBaseExpire, SdBaseReturn
    DEF CallStep
  <2>2. ASSUME IrqStep PROVE SdBase'
    BY <1>1, <1>3, <1>6, <2>2, NeverWhenMild, SdBaseMsgAck, SdBaseAckPartial, SdBaseAckLast,
       SdBaseCfmPartial, SdBaseCfmLast DEF IrqStep
  <2>3. ASSUME TaskStep PROVE SdBase'
    BY <1>1, <1>3, <2>3, SdBaseTaskPick, SdBaseTaskPush, SdBaseTaskFree DEF TaskStep
  <2>4. ASSUME FwAck \/ FwConfirm \/ FwStop \/ IpcDeinit \/ IpcInit PROVE SdBase'
    BY <1>1, <1>3, <1>6, <2>4, SdBaseFwAck, SdBaseFwConfirm, SdBaseFwStop, SdBaseIpcDeinit,
       SdBaseIpcInit
  <2>5. ASSUME NEW c \in Cmd, SendMsg(c) \/ CallStep(c)
        PROVE  SdFlow' /\ (Alive' /\ Alive => SdLive')
    <3>1. Expire(c) => SdFlow' /\ ~Alive'
      <4>1. Expire(c) => state' # "INITED"
        BY <1>3 DEF Expire, Crashed
      <4>. QED  BY <1>1, <1>3, <4>1, SdFlowExpire DEF Alive
    <3>. QED
      BY <1>1, <1>3, <1>f, <2>5, <3>1, NeverWhenMild, SdSendMsg, SdQueueRefuse,
         SdQueueAccept, SdHandToTask, SdPush, SdFreeMsg, SdWaitEnds, SdReturn
      DEF CallStep
  <2>6. ASSUME IrqStep PROVE SdFlow' /\ (Alive' /\ Alive => SdLive')
    BY <1>1, <1>3, <1>6, <2>6, NeverWhenMild, SdMsgAck, SdAckPartial, SdAckLast,
       SdCfmPartial, SdCfmLast DEF IrqStep
  <2>7. ASSUME TaskStep PROVE SdFlow' /\ (Alive' /\ Alive => SdLive')
    BY <1>1, <1>3, <2>7, SdTaskPick, SdTaskPush, SdTaskFree DEF TaskStep
  <2>8. ASSUME FwAck \/ FwConfirm \/ FwStop PROVE SdFlow' /\ (Alive' /\ Alive => SdLive')
    BY <1>1, <1>3, <1>6, <2>8, SdFwAck, SdFwConfirm, SdFwStop
  <2>9. IpcDeinit => SdFlow' /\ ~Alive'
    BY <1>1, <1>3, SdFlowIpcDeinit DEF IpcDeinit, Alive
  <2>10. IpcInit => SdFlow' /\ SdLive'
    BY <1>1, <1>3, SdIpcInit
  <2>11. SdBase'
    BY <1>7, <2>1, <2>2, <2>3, <2>4 DEF Step
  <2>12. SdFlow' /\ (Alive' /\ Alive => SdLive')
    BY <1>7, <2>5, <2>6, <2>7, <2>8, <2>9, <2>10 DEF Step
  <2>13. Alive' => Alive \/ SdLive'
    BY <1>3, <1>7, <2>10, AliveBefore
  <2>. QED  BY <2>11, <2>12, <2>13
<1>8. CASE UNCHANGED vars
  <2>. USE <1>8 DEF vars, mgrVars, cmdVars, memVars, taskVars, fwVars
  <2>1. Alive' <=> Alive
    BY DEF Alive
  <2>2. SdBase'
    BY <1>3, <2>1 DEF SdBase, SdStages, SdStilled, DoneTruthful, Blocking
  <2>3. \A c \in Cmd : /\ Turn(c)' <=> Turn(c)
                       /\ InFlight(c)' <=> InFlight(c)
                       /\ Unsent(c)' <=> Unsent(c)
                       /\ First(c)' <=> First(c)
                       /\ Fresh(c)' <=> Fresh(c)
    BY DEF Turn, InFlight, Busy, Unsent, First, Unacked, Fresh
  <2>4. SdListed' /\ Behind' /\ Turns' /\ Wakeup' /\ Slot'
    BY <1>3, <2>3 DEF SdFlow, SdListed, Behind, Turns, Wakeup, Slot, Unacked, Busy
  <2>5. SdLive => SdMoving' /\ Confirms' /\ InTurn'
    BY <2>3 DEF SdLive, SdMoving, Confirms, InTurn, Awaits, Rival, Unacked
  <2>. QED  BY <1>3, <2>1, <2>2, <2>4, <2>5 DEF SdFlow, SdLive
<1>. QED  BY <1>7, <1>8 DEF Next

\* The faults and the bus are those of the start.
LEMMA SilentStays ==
  Steady /\ [Next]_<<vars, conf>> => Steady'
BY DEF Next, Steady, conf

\* A call that completed is told by Truthful or DoneTruthful, one whose result
\* does not come from a completion was lost to the bus.
LEMMA ToldTruthfully ==
  CallInv /\ Steady /\ PcieInv /\ SdInv => ResultTruthful
<1>. SUFFICES ASSUME CallInv, Steady, PcieInv, SdInv, NEW c \in Cmd, result[c] = "OK",
                     ~LostToBus(c)
              PROVE  "WAIT_ACK" \notin flags[c] /\ (req[c].cfm # NoCfm => cfmFrom[c] = c)
  BY DEF ResultTruthful
<1>1. CASE Pcie
  BY <1>1 DEF PcieInv, Calm, Orderly, Truthful
<1>2. CASE ~Pcie
  <2>1. "DONE" \in flags[c]
    BY <1>2 DEF CallInv, KnownCall, LostToBus
  <2>. QED  BY <1>2, <2>1 DEF SdInv, Mild, SdBase, DoneTruthful
<1>. QED  BY <1>1, <1>2

\* On every bus a call that made a command returns success only when it was
\* acknowledged and its own confirmation filled the caller's buffer, also when
\* the firmware falls silent and when other calls meet a bus error
\* (aml_send_msg, cmd_mgr_llind, cmd_mgr_msgind, cmd_complete).
THEOREM ResultIsTruthful == Spec /\ Steady => []ResultTruthful
BY ToldTruthfully, InitListInv, NextListInv, InitCallInv, NextCallInv, InitPcieInv,
   NextPcieInv, InitSdInv, NextSdInv, SilentStays, PTL DEF Spec

-----------------------------------------------------------------------------
(* The unsent commands as a sequence                                        *)

\* The elements of s behind the n-th are those in W.
SplitAt(s, W, n) == n \in 0..Len(s) /\ \A i \in DOMAIN s : s[i] \in W <=> i > n

\* Its elements in W, when they are the last ones.
LastIn(s, W) == LET n == CHOOSE n : SplitAt(s, W, n) IN SubSeq(s, n + 1, Len(s))

\* The place where a sequence splits is unique.
LEMMA LastInIs ==
  ASSUME NEW S, NEW s \in Seq(S), NEW W, NEW n, SplitAt(s, W, n)
  PROVE  LastIn(s, W) = SubSeq(s, n + 1, Len(s))
<1>1. Len(s) \in Nat /\ DOMAIN s = 1..Len(s)
  BY LenProperties
<1> DEFINE m == CHOOSE k : SplitAt(s, W, k)
<1>2. SplitAt(s, W, m)
  OBVIOUS
<1>3. m = n
  <2> HIDE DEF m
  <2>1. /\ m \in 0..Len(s) /\ \A i \in DOMAIN s : s[i] \in W <=> i > m
        /\ n \in 0..Len(s) /\ \A i \in DOMAIN s : s[i] \in W <=> i > n
    BY <1>2 DEF SplitAt
  <2>2. ~(m < n)
    BY <1>1, <2>1
  <2>3. ~(n < m)
    BY <1>1, <2>1
  <2>. QED  BY <1>1, <2>1, <2>2, <2>3
<1>4. LastIn(s, W) = SubSeq(s, m + 1, Len(s))
  BY DEF LastIn
<1>. QED  BY <1>3, <1>4

\* The elements behind the n-th.
LEMMA LastElements ==
  ASSUME NEW S, NEW s \in Seq(S), NEW n \in 0..Len(s)
  PROVE  /\ SubSeq(s, n + 1, Len(s)) \in Seq(S)
         /\ Len(SubSeq(s, n + 1, Len(s))) = Len(s) - n
         /\ \A i \in 1..(Len(s) - n) : SubSeq(s, n + 1, Len(s))[i] = s[n + i]
<1>1. Len(s) \in Nat /\ \A i \in 1..Len(s) : s[i] \in S
  BY LenProperties, ElementOfSeq
<1>2. \A i \in (n + 1)..Len(s) : s[i] \in S
  BY <1>1
<1>3. /\ SubSeq(s, n + 1, Len(s)) \in Seq(S)
      /\ Len(SubSeq(s, n + 1, Len(s))) = IF n + 1 <= Len(s) THEN Len(s) - (n + 1) + 1 ELSE 0
      /\ \A i \in 1..(Len(s) - (n + 1) + 1) : SubSeq(s, n + 1, Len(s))[i] = s[n + 1 + i - 1]
  BY <1>1, <1>2, SubSeqProperties
<1>. QED  BY <1>1, <1>3

\* So the last elements of s that are in W.
LEMMA LastOf ==
  ASSUME NEW S, NEW s \in Seq(S), NEW W, NEW n, SplitAt(s, W, n)
  PROVE  /\ LastIn(s, W) \in Seq(S) /\ Len(LastIn(s, W)) = Len(s) - n
         /\ \A i \in 1..(Len(s) - n) : LastIn(s, W)[i] = s[n + i]
<1>1. n \in 0..Len(s)
  BY DEF SplitAt
<1>2. LastIn(s, W) = SubSeq(s, n + 1, Len(s))
  BY LastInIs
<1>. QED  BY <1>1, <1>2, LastElements

\* The same elements are in W.
LEMMA LastInSame ==
  ASSUME NEW S, NEW s \in Seq(S), NEW W, NEW V, NEW n, SplitAt(s, W, n),
         \A i \in DOMAIN s : s[i] \in V <=> s[i] \in W
  PROVE  SplitAt(s, V, n) /\ LastIn(s, V) = LastIn(s, W)
<1>1. SplitAt(s, V, n)
  BY DEF SplitAt
<1>. QED  BY <1>1, LastInIs

\* The first element of W leaves it.
LEMMA LastInFewer ==
  ASSUME NEW S, NEW s \in Seq(S), NEW W, NEW V, NEW n, SplitAt(s, W, n),
         n + 1 \in DOMAIN s, \A i \in DOMAIN s : s[i] \in V <=> s[i] \in W /\ i # n + 1
  PROVE  /\ SplitAt(s, V, n + 1)
         /\ LastIn(s, W) # <<>> /\ Head(LastIn(s, W)) = s[n + 1]
         /\ LastIn(s, V) = Tail(LastIn(s, W))
<1>1. Len(s) \in Nat /\ DOMAIN s = 1..Len(s) /\ n \in 0..Len(s)
  BY LenProperties DEF SplitAt
<1>2. SplitAt(s, V, n + 1)
  BY <1>1 DEF SplitAt
<1>. PICK a, b : a = LastIn(s, W) /\ b = LastIn(s, V)
  OBVIOUS
<1>3. /\ a \in Seq(S) /\ Len(a) = Len(s) - n
      /\ \A i \in 1..(Len(s) - n) : a[i] = s[n + i]
  BY LastOf
<1>4. /\ b \in Seq(S) /\ Len(b) = Len(s) - (n + 1)
      /\ \A i \in 1..(Len(s) - (n + 1)) : b[i] = s[(n + 1) + i]
  <2>1. n + 1 \in 0..Len(s)
    BY <1>1
  <2>2. b = SubSeq(s, (n + 1) + 1, Len(s))
    BY <1>2, LastInIs
  <2>. QED  BY <2>1, <2>2, LastElements
<1>5. a # <<>> /\ 1 \in 1..(Len(s) - n)
  BY <1>1, <1>3, EmptySeq
<1>6. Head(a) = s[n + 1]
  BY <1>3, <1>5, HeadTailProperties
<1>7. /\ Tail(a) \in Seq(S) /\ Len(Tail(a)) = Len(s) - n - 1
      /\ \A i \in 1..(Len(s) - n - 1) : Tail(a)[i] = a[i + 1]
  BY <1>3, <1>5, HeadTailProperties
<1>8. \A i \in 1..Len(b) : b[i] = Tail(a)[i]
  <2>. SUFFICES ASSUME NEW i \in 1..(Len(s) - (n + 1)) PROVE b[i] = Tail(a)[i]
    BY <1>4
  <2>1. i \in 1..(Len(s) - n - 1) /\ i + 1 \in 1..(Len(s) - n) /\ n + (i + 1) = (n + 1) + i
    BY <1>1
  <2>2. Tail(a)[i] = s[n + (i + 1)]
    BY <1>3, <1>7, <2>1
  <2>. QED  BY <1>4, <2>1, <2>2
<1>9. Len(b) = Len(Tail(a))
  BY <1>1, <1>4, <1>7
<1>10. b = Tail(a)
  BY <1>4, <1>7, <1>8, <1>9, SeqEqual
<1>. QED  BY <1>2, <1>5, <1>6, <1>10

\* An element in front of those of W is removed.
LEMMA LastInDelSent ==
  ASSUME NEW S, NEW s \in Seq(S), NEW W, NEW V, NEW n, SplitAt(s, W, n),
         NEW i \in DOMAIN s, i <= n, \A j \in DOMAIN s : j # i => (s[j] \in V <=> s[j] \in W)
  PROVE  /\ SplitAt(ListDel(s, i), V, n - 1)
         /\ LastIn(ListDel(s, i), V) = LastIn(s, W)
<1>. PICK t : t = ListDel(s, i)
  OBVIOUS
<1>1. Len(s) \in Nat /\ DOMAIN s = 1..Len(s) /\ n \in 0..Len(s)
  BY LenProperties DEF SplitAt
<1>2. /\ t \in Seq(S) /\ Len(t) = Len(s) - 1 /\ DOMAIN t = 1..(Len(s) - 1)
      /\ \A k \in 1..(Len(s) - 1) : t[k] = IF k < i THEN s[k] ELSE s[k + 1]
  BY ListDelProperties
<1>3. SplitAt(t, V, n - 1)
  <2>1. n - 1 \in 0..Len(t)
    BY <1>1, <1>2
  <2>2. ASSUME NEW k \in DOMAIN t PROVE t[k] \in V <=> k > n - 1
    <3>1. CASE k < i
      BY <1>1, <1>2, <2>2, <3>1 DEF SplitAt
    <3>2. CASE ~(k < i)
      <4>1. k + 1 \in DOMAIN s /\ k + 1 # i /\ t[k] = s[k + 1]
        BY <1>1, <1>2, <3>2
      <4>2. s[k + 1] \in V <=> k + 1 > n
        BY <4>1 DEF SplitAt
      <4>. QED  BY <1>1, <1>2, <4>1, <4>2
    <3>. QED  BY <3>1, <3>2
  <2>. QED  BY <2>1, <2>2 DEF SplitAt
<1>. PICK a, b : a = LastIn(s, W) /\ b = LastIn(t, V)
  OBVIOUS
<1>4. /\ a \in Seq(S) /\ Len(a) = Len(s) - n
      /\ \A k \in 1..(Len(s) - n) : a[k] = s[n + k]
  BY LastOf
<1>5. /\ b \in Seq(S) /\ Len(b) = Len(t) - (n - 1)
      /\ \A k \in 1..(Len(t) - (n - 1)) : b[k] = t[(n - 1) + k]
  BY <1>2, <1>3, LastOf
<1>6. \A k \in 1..Len(b) : b[k] = a[k]
  <2>. SUFFICES ASSUME NEW k \in 1..Len(b) PROVE b[k] = a[k]
    OBVIOUS
  <2>1. /\ k \in 1..(Len(t) - (n - 1)) /\ k \in 1..(Len(s) - n)
        /\ (n - 1) + k \in 1..(Len(s) - 1) /\ ~((n - 1) + k < i) /\ (n - 1) + k + 1 = n + k
    BY <1>1, <1>2, <1>5
  <2>2. b[k] = s[n + k]
    BY <1>2, <1>5, <2>1
  <2>. QED  BY <1>4, <2>1, <2>2
<1>7. Len(b) = Len(a)
  BY <1>1, <1>2, <1>4, <1>5
<1>8. b = a
  BY <1>4, <1>5, <1>6, <1>7, SeqEqual
<1>. QED  BY <1>3, <1>8

\* The same, when the only element outside W is the first one and leaves.
LEMMA LastInDelFirst ==
  ASSUME NEW S, NEW s \in Seq(S), NEW W, SplitAt(s, W, 1), 1 \in DOMAIN s,
         NEW t, t = ListDel(s, 1)
  PROVE  SplitAt(t, W, 0) /\ LastIn(t, W) = LastIn(s, W)
<1>1. SplitAt(ListDel(s, 1), W, 1 - 1) /\ LastIn(ListDel(s, 1), W) = LastIn(s, W)
  <2>1. 1 <= 1 /\ \A j \in DOMAIN s : j # 1 => (s[j] \in W <=> s[j] \in W)
    OBVIOUS
  <2>. QED  BY <2>1, LastInDelSent
<1>2. 1 - 1 = 0
  OBVIOUS
<1>. QED  BY <1>1, <1>2

\* One of the elements of W is removed.
LEMMA LastInDelUnsent ==
  ASSUME NEW S, NEW s \in Seq(S), NEW W, NEW V, NEW n, SplitAt(s, W, n),
         NEW i \in DOMAIN s, i > n, \A j \in DOMAIN s : j # i => (s[j] \in V <=> s[j] \in W)
  PROVE  /\ SplitAt(ListDel(s, i), V, n)
         /\ \E k \in DOMAIN LastIn(s, W) : LastIn(ListDel(s, i), V) = ListDel(LastIn(s, W), k)
<1>. PICK t : t = ListDel(s, i)
  OBVIOUS
<1>1. Len(s) \in Nat /\ DOMAIN s = 1..Len(s) /\ n \in 0..Len(s)
  BY LenProperties DEF SplitAt
<1>2. /\ t \in Seq(S) /\ Len(t) = Len(s) - 1 /\ DOMAIN t = 1..(Len(s) - 1)
      /\ \A k \in 1..(Len(s) - 1) : t[k] = IF k < i THEN s[k] ELSE s[k + 1]
  BY ListDelProperties
<1>3. SplitAt(t, V, n)
  <2>1. n \in 0..Len(t)
    BY <1>1, <1>2
  <2>2. ASSUME NEW k \in DOMAIN t PROVE t[k] \in V <=> k > n
    <3>1. CASE k < i
      BY <1>1, <1>2, <2>2, <3>1 DEF SplitAt
    <3>2. CASE ~(k < i)
      <4>1. k + 1 \in DOMAIN s /\ k + 1 # i /\ t[k] = s[k + 1]
        BY <1>1, <1>2, <3>2
      <4>2. s[k + 1] \in V <=> k + 1 > n
        BY <4>1 DEF SplitAt
      <4>. QED  BY <1>1, <1>2, <3>2, <4>1, <4>2
    <3>. QED  BY <3>1, <3>2
  <2>. QED  BY <2>1, <2>2 DEF SplitAt
<1>. PICK a, b : a = LastIn(s, W) /\ b = LastIn(t, V)
  OBVIOUS
<1>4. /\ a \in Seq(S) /\ Len(a) = Len(s) - n /\ DOMAIN a = 1..(Len(s) - n)
      /\ \A k \in 1..(Len(s) - n) : a[k] = s[n + k]
  <2>1. a = SubSeq(s, n + 1, Len(s))
    BY LastInIs
  <2>2. /\ a \in Seq(S) /\ Len(a) = Len(s) - n
        /\ \A k \in 1..(Len(s) - n) : a[k] = s[n + k]
    BY <1>1, <2>1, LastElements
  <2>. QED  BY <2>2, LenProperties
<1>5. /\ b \in Seq(S) /\ Len(b) = Len(t) - n
      /\ \A k \in 1..(Len(t) - n) : b[k] = t[n + k]
  <2>1. n \in 0..Len(t)
    BY <1>3 DEF SplitAt
  <2>2. b = SubSeq(t, n + 1, Len(t))
    BY <1>2, <1>3, LastInIs
  <2>. QED  BY <1>2, <2>1, <2>2, LastElements
<1>6. i - n \in DOMAIN a
  BY <1>1, <1>4
<1>. PICK d : d = ListDel(a, i - n)
  OBVIOUS
<1>7. /\ d \in Seq(S) /\ Len(d) = Len(s) - n - 1
      /\ \A k \in 1..(Len(s) - n - 1) : d[k] = IF k < i - n THEN a[k] ELSE a[k + 1]
  <2>. PICK j : j = i - n
    OBVIOUS
  <2>1. /\ d \in Seq(S) /\ Len(d) = Len(a) - 1
        /\ \A k \in 1..(Len(a) - 1) : d[k] = IF k < j THEN a[k] ELSE a[k + 1]
    BY <1>4, <1>6, ListDelProperties
  <2>. QED  BY <1>4, <2>1
<1>8. \A k \in 1..Len(b) : b[k] = d[k]
  <2>. SUFFICES ASSUME NEW k \in 1..Len(b) PROVE b[k] = d[k]
    OBVIOUS
  <2>1. /\ k \in 1..(Len(t) - n) /\ k \in 1..(Len(s) - n - 1) /\ n + k \in 1..(Len(s) - 1)
        /\ k \in 1..(Len(s) - n) /\ k + 1 \in 1..(Len(s) - n)
        /\ k < i - n <=> n + k < i
        /\ n + (k + 1) = n + k + 1
    BY <1>1, <1>2, <1>5
  <2>2. b[k] = IF n + k < i THEN s[n + k] ELSE s[n + k + 1]
    BY <1>2, <1>5, <2>1
  <2>3. d[k] = IF n + k < i THEN s[n + k] ELSE s[n + (k + 1)]
    BY <1>4, <1>7, <2>1
  <2>. QED  BY <2>1, <2>2, <2>3
<1>9. Len(b) = Len(d)
  <2>1. Len(b) = Len(t) - n /\ Len(d) = Len(s) - n - 1 /\ Len(t) = Len(s) - 1
    BY <1>2, <1>5, <1>7
  <2>2. Len(s) \in Nat /\ n \in Int
    BY <1>1
  <2>. QED  BY <2>1, <2>2
<1>10. b = d
  BY <1>5, <1>7, <1>8, <1>9, SeqEqual
<1>. QED  BY <1>3, <1>6, <1>10

-----------------------------------------------------------------------------
(* The refinement of MsgChannel                                             *)

\* The commands whose message is not in the mailbox yet, and what splits the list.
Pending    == {c \in Cmd : Unsent(c)}
SplitBy(n) == SplitAt(cmds, Pending, n)
IsSplit    == \E n : SplitBy(n)

\* Behind the last command that was sent are those that were not.
LEMMA WaitingIs == ListInv /\ IsSplit => Waiting = LastIn(cmds, Pending)
<1>. SUFFICES ASSUME ListInv, IsSplit PROVE Waiting = LastIn(cmds, Pending)
  OBVIOUS
<1>. PICK n : SplitAt(cmds, Pending, n)
  BY DEF IsSplit, SplitBy
<1>1. /\ Len(cmds) \in Nat /\ DOMAIN cmds = 1..Len(cmds) /\ cmds \in Seq(Cmd)
      /\ \A i \in DOMAIN cmds : cmds[i] \in Cmd
  BY ListFacts
<1> DEFINE P(k) == /\ \A i \in DOMAIN cmds : i > k => Unsent(cmds[i])
                   /\ k > 0 => ~Unsent(cmds[k])
           m == CHOOSE k \in 0..Len(cmds) : P(k)
<1>2. n \in 0..Len(cmds) /\ \A i \in DOMAIN cmds : Unsent(cmds[i]) <=> i > n
  BY <1>1 DEF SplitAt, Pending
<1>3. P(n)
  BY <1>1, <1>2
<1>4. m \in 0..Len(cmds) /\ P(m)
  BY <1>2, <1>3
<1>5. m = n
  <2> HIDE DEF m
  <2>1. ~(m < n)
    BY <1>1, <1>2, <1>4
  <2>2. ~(n < m)
    BY <1>1, <1>2, <1>4
  <2>. QED  BY <1>1, <1>2, <1>4, <2>1, <2>2
<1>6. Waiting = SubSeq(cmds, m + 1, Len(cmds))
  BY DEF Waiting
<1>7. LastIn(cmds, Pending) = SubSeq(cmds, n + 1, Len(cmds))
  BY <1>1, LastInIs
<1>. QED  BY <1>5, <1>6, <1>7

\* The list goes on with the same unsent commands.
LEMMA WaitingKept ==
  ASSUME ListInv, ListInv', IsSplit, cmds' = cmds,
         \A d \in Cmd : InList(d) => (Unsent(d)' <=> Unsent(d))
  PROVE  IsSplit' /\ Waiting' = Waiting
<1>. PICK n : SplitAt(cmds, Pending, n)
  BY DEF IsSplit, SplitBy
<1>. PICK U, V : U = Pending /\ V = Pending'
  OBVIOUS
<1>1. \A i \in DOMAIN cmds : cmds[i] \in V <=> cmds[i] \in U
  BY ListFacts DEF Pending, InList
<1>2. cmds \in Seq(Cmd) /\ SplitAt(cmds, U, n)
  BY ListFacts
<1>3. SplitAt(cmds, V, n) /\ LastIn(cmds, V) = LastIn(cmds, U)
  BY <1>1, <1>2, LastInSame
<1>x. Waiting = LastIn(cmds, U)
  BY WaitingIs
<1>y. IsSplit'
  BY <1>3 DEF IsSplit, SplitBy
<1>z. (ListInv /\ IsSplit => Waiting = LastIn(cmds, Pending))'
  BY WaitingIs, PTL
<1>. QED  BY <1>3, <1>x, <1>y, <1>z

\* A command is accepted, and is not sent yet.
LEMMA AcceptIsAppend ==
  ASSUME ListInv, ListInv', IsSplit, NEW c \in Cmd, Unsent(c)', ~InList(c),
         cmds' \in Seq(Cmd), Len(cmds') = Len(cmds) + 1, cmds'[Len(cmds) + 1] = c,
         \A i \in 1..Len(cmds) : cmds'[i] = cmds[i],
         \A d \in Cmd : d # c => (Unsent(d)' <=> Unsent(d))
  PROVE  IsSplit' /\ Waiting' = Append(Waiting, c)
<1>. PICK n : SplitAt(cmds, Pending, n)
  BY DEF IsSplit, SplitBy
<1>. PICK U, V, s : U = Pending /\ V = Pending' /\ s = cmds'
  OBVIOUS
<1>1. /\ Len(cmds) \in Nat /\ DOMAIN cmds = 1..Len(cmds) /\ n \in 0..Len(cmds)
      /\ s \in Seq(Cmd) /\ Len(s) = Len(cmds) + 1 /\ DOMAIN s = 1..(Len(cmds) + 1)
  BY ListFacts, LenProperties DEF SplitAt
<1>2. c \in V /\ \A i \in DOMAIN cmds : cmds[i] \in V <=> cmds[i] \in U
  BY ListFacts DEF Pending, InList
<1>3. SplitAt(cmds, U, n) /\ SplitAt(s, V, n)
  <2>1. ASSUME NEW i \in DOMAIN s PROVE s[i] \in V <=> i > n
    <3>1. CASE i \in 1..Len(cmds)
      <4>1. s[i] = cmds[i] /\ i \in DOMAIN cmds /\ (cmds[i] \in U <=> i > n)
        BY <1>1, <3>1 DEF SplitAt
      <4>. QED  BY <1>2, <4>1
    <3>2. CASE i = Len(cmds) + 1
      <4>1. s[i] = c /\ i > n
        BY <1>1, <3>2
      <4>. QED  BY <1>2, <4>1
    <3>. QED  BY <1>1, <2>1, <3>1, <3>2
  <2>. QED  BY <1>1, <2>1 DEF SplitAt
<1>. PICK a, b : a = LastIn(cmds, U) /\ b = LastIn(s, V)
  OBVIOUS
<1>a. /\ a \in Seq(Cmd) /\ Len(a) = Len(cmds) - n
      /\ \A i \in 1..(Len(cmds) - n) : a[i] = cmds[n + i]
  BY <1>3, ListFacts, LastOf
<1>b. /\ b \in Seq(Cmd) /\ Len(b) = Len(cmds) + 1 - n
      /\ \A i \in 1..(Len(cmds) + 1 - n) : b[i] = s[n + i]
  <2>1. s \in Seq(Cmd) /\ SplitAt(s, V, n)
    BY <1>1, <1>3
  <2>2. /\ b \in Seq(Cmd) /\ Len(b) = Len(s) - n
        /\ \A i \in 1..(Len(s) - n) : b[i] = s[n + i]
    BY <2>1, LastOf
  <2>. QED  BY <1>1, <2>2
<1>c. \A i \in 1..Len(a) : b[i] = a[i]
  <2>. SUFFICES ASSUME NEW i \in 1..Len(a) PROVE b[i] = a[i]
    OBVIOUS
  <2>1. i \in 1..(Len(cmds) + 1 - n) /\ i \in 1..(Len(cmds) - n) /\ n + i \in 1..Len(cmds)
    BY <1>1, <1>a
  <2>. QED  BY <1>a, <1>b, <2>1
<1>d. Len(b) = Len(a) + 1 /\ b[Len(a) + 1] = c
  <2>1. Len(a) + 1 \in 1..(Len(cmds) + 1 - n) /\ n + (Len(a) + 1) = Len(cmds) + 1
    BY <1>1, <1>a
  <2>2. b[Len(a) + 1] = s[n + (Len(a) + 1)]
    BY <1>b, <2>1
  <2>. QED  BY <1>1, <1>a, <1>b, <2>1, <2>2
<1>4. b = Append(a, c)
  <2>1. /\ Append(a, c) \in Seq(Cmd) /\ Len(Append(a, c)) = Len(a) + 1
        /\ Append(a, c)[Len(a) + 1] = c /\ \A i \in 1..Len(a) : Append(a, c)[i] = a[i]
    BY <1>a, AppendProperties
  <2>2. \A i \in 1..Len(b) : i = Len(a) + 1 \/ i \in 1..Len(a)
    BY <1>a, <1>d, LenProperties
  <2>. QED  BY <1>b, <1>c, <1>d, <2>1, <2>2, SeqEqual
<1>x. Waiting = LastIn(cmds, U)
  BY WaitingIs
<1>y. IsSplit'
  BY <1>3, <1>4 DEF IsSplit, SplitBy
<1>z. (ListInv /\ IsSplit => Waiting = LastIn(cmds, Pending))'
  BY WaitingIs, PTL
<1>. QED  BY <1>3, <1>4, <1>x, <1>y, <1>z

\* The first of the unsent commands is sent.
LEMMA SendIsHead ==
  ASSUME ListInv, ListInv', IsSplit, NEW c \in Cmd, InList(c), cmds' = cmds,
         Unsent(c), ~Unsent(c)', \A d \in Cmd : d # c => (Unsent(d)' <=> Unsent(d)),
         \A d \in Cmd : Before(cmds, d, c) => ~Unsent(d)
  PROVE  /\ IsSplit'
         /\ Waiting # <<>> /\ Head(Waiting) = c /\ Waiting' = Tail(Waiting)
<1>. PICK n : SplitAt(cmds, Pending, n)
  BY DEF IsSplit, SplitBy
<1>. PICK U, V : U = Pending /\ V = Pending'
  OBVIOUS
<1>1. PICK k \in DOMAIN cmds : cmds[k] = c
  BY DEF InList
<1>2. Len(cmds) \in Nat /\ DOMAIN cmds = 1..Len(cmds) /\ n \in 0..Len(cmds)
  BY ListFacts DEF SplitAt
<1>3. k > n
  BY <1>1 DEF SplitAt, Pending
<1>4. k = n + 1
  <2>. SUFFICES ASSUME n + 1 < k PROVE FALSE
    BY <1>2, <1>3
  <2>1. n + 1 \in DOMAIN cmds /\ n + 1 > n
    BY <1>1, <1>2
  <2>2. cmds[n + 1] \in Cmd /\ Unsent(cmds[n + 1])
    BY <2>1 DEF SplitAt, Pending
  <2>. QED  BY <1>1, <2>1, <2>2 DEF Before
<1>5. n + 1 \in DOMAIN cmds /\ cmds[n + 1] = c
  BY <1>1, <1>4
<1>6. \A i \in DOMAIN cmds : cmds[i] \in V <=> cmds[i] \in U /\ i # n + 1
  BY <1>5, ListFacts DEF Pending
<1>7. cmds \in Seq(Cmd) /\ SplitAt(cmds, U, n)
  BY ListFacts
<1>8. /\ SplitAt(cmds, V, n + 1)
      /\ LastIn(cmds, U) # <<>> /\ Head(LastIn(cmds, U)) = cmds[n + 1]
      /\ LastIn(cmds, V) = Tail(LastIn(cmds, U))
  BY <1>5, <1>6, <1>7, LastInFewer
<1>x. Waiting = LastIn(cmds, U)
  BY WaitingIs
<1>y. IsSplit'
  BY <1>5, <1>8 DEF IsSplit, SplitBy
<1>z. (ListInv /\ IsSplit => Waiting = LastIn(cmds, Pending))'
  BY WaitingIs, PTL
<1>. QED  BY <1>5, <1>8, <1>x, <1>y, <1>z

\* A command that was sent leaves the list.
LEMMA SentIsRemoved ==
  ASSUME ListInv, ListInv', IsSplit,
         NEW i \in DOMAIN cmds, cmds' = ListDel(cmds, i), ~Unsent(cmds[i]),
         \A d \in Cmd : d # cmds[i] => (Unsent(d)' <=> Unsent(d))
  PROVE  IsSplit' /\ Waiting' = Waiting
<1>. PICK n : SplitAt(cmds, Pending, n)
  BY DEF IsSplit, SplitBy
<1>. PICK U, V, s : U = Pending /\ V = Pending' /\ s = cmds'
  OBVIOUS
<1>1. Len(cmds) \in Nat /\ DOMAIN cmds = 1..Len(cmds) /\ n \in 0..Len(cmds)
  BY ListFacts DEF SplitAt
<1>2. i <= n
  BY <1>1 DEF SplitAt, Pending
<1>3. \A j \in DOMAIN cmds : j # i => (cmds[j] \in V <=> cmds[j] \in U)
  BY ListFacts DEF Pending
<1>4. cmds \in Seq(Cmd) /\ SplitAt(cmds, U, n)
  BY ListFacts
<1>5. SplitAt(s, V, n - 1) /\ LastIn(s, V) = LastIn(cmds, U)
  BY <1>2, <1>3, <1>4, LastInDelSent
<1>x. Waiting = LastIn(cmds, U)
  BY WaitingIs
<1>y. IsSplit'
  BY <1>5 DEF IsSplit, SplitBy
<1>z. (ListInv /\ IsSplit => Waiting = LastIn(cmds, Pending))'
  BY WaitingIs, PTL
<1>. QED  BY <1>5, <1>x, <1>y, <1>z

\* A command that was not sent leaves the list.
LEMMA UnsentIsRemoved ==
  ASSUME ListInv, ListInv', IsSplit,
         NEW i \in DOMAIN cmds, cmds' = ListDel(cmds, i), Unsent(cmds[i]),
         \A d \in Cmd : d # cmds[i] => (Unsent(d)' <=> Unsent(d))
  PROVE  IsSplit' /\ \E k \in DOMAIN Waiting : Waiting' = ListDel(Waiting, k)
<1>. PICK n : SplitAt(cmds, Pending, n)
  BY DEF IsSplit, SplitBy
<1>. PICK U, V, s : U = Pending /\ V = Pending' /\ s = cmds'
  OBVIOUS
<1>1. i > n
  BY ListFacts DEF SplitAt, Pending
<1>2. \A j \in DOMAIN cmds : j # i => (cmds[j] \in V <=> cmds[j] \in U)
  BY ListFacts DEF Pending
<1>3. cmds \in Seq(Cmd) /\ SplitAt(cmds, U, n)
  BY ListFacts
<1>4. s = ListDel(cmds, i)
  OBVIOUS
<1>5. /\ SplitAt(s, V, n)
      /\ \E k \in DOMAIN LastIn(cmds, U) : LastIn(s, V) = ListDel(LastIn(cmds, U), k)
  BY <1>1, <1>2, <1>3, <1>4, LastInDelUnsent
<1>x. Waiting = LastIn(cmds, U)
  BY WaitingIs
<1>y. IsSplit'
  BY <1>5 DEF IsSplit, SplitBy
<1>z. (ListInv /\ IsSplit => Waiting = LastIn(cmds, Pending))'
  BY WaitingIs, PTL
<1>. QED  BY <1>5, <1>x, <1>y, <1>z

\* The list is emptied.
LEMMA EmptyIsSplit == ListInv /\ cmds = <<>> => IsSplit /\ Waiting = <<>>
<1>. SUFFICES ASSUME ListInv, cmds = <<>> PROVE IsSplit /\ Waiting = <<>>
  OBVIOUS
<1>. PICK U : U = Pending
  OBVIOUS
<1>1. cmds \in Seq(Cmd) /\ Len(cmds) = 0 /\ DOMAIN cmds = {} /\ SplitAt(cmds, U, 0)
  BY DEF SplitAt
<1>2. LastIn(cmds, U) = SubSeq(cmds, 0 + 1, Len(cmds))
  BY <1>1, LastInIs
<1>3. LastIn(cmds, U) = <<>>
  <2>1. /\ SubSeq(cmds, 0 + 1, Len(cmds)) \in Seq(Cmd)
        /\ Len(SubSeq(cmds, 0 + 1, Len(cmds))) = Len(cmds) - 0
    BY <1>1, LastElements
  <2>. QED  BY <1>1, <1>2, <2>1, EmptySeq
<1>4. IsSplit
  BY <1>1 DEF IsSplit, SplitBy
<1>. QED  BY <1>3, <1>4, WaitingIs

-----------------------------------------------------------------------------
(* The mailbox on PCIe                                                      *)

\* The caller that is about to push on PCIe finds the mailbox at rest.
LEMMA PciePusher ==
  ASSUME ListInv, Orderly, NEW c \in Cmd, pc[c] = "push"
  PROVE  /\ state # "DEINIT" /\ irqAck = NoCmd /\ c = cmds[1] /\ 1 \in DOMAIN cmds
         /\ InList(c) /\ Fresh(c) /\ "WAIT_PUSH" \notin flags[c]
<1>1. InList(c) /\ Fresh(c) /\ "WAIT_PUSH" \notin flags[c] /\ ~InFlight(c)
  BY DEF Orderly, Stages
<1>2. c = cmds[1] /\ 1 \in DOMAIN cmds
  BY <1>1, SentIsFirst DEF Orderly
<1>3. irqAck = NoCmd
  BY <1>1, <1>2, AckOfFirst DEF InFlight
<1>4. state # "DEINIT"
  BY DEF Orderly, Stilled
<1>. QED  BY <1>1, <1>2, <1>3, <1>4

\* When the first command completes, the mailbox takes its successor or stays empty.
LEMMA AdvanceFills ==
  ASSUME ListInv, Calm, Orderly, Slot, AckLast \/ CfmLast, Advance, state = "INITED",
         irqAck # NoCmd \/ "WAIT_ACK" \notin flags[cmds[1]]
  PROVE  /\ hostid = NoCmd /\ 1 \in DOMAIN cmds /\ cmds' = ListDel(cmds, 1) /\ irqAck' = NoCmd
         /\ \A d \in Cmd : d \notin {cmds[1], hostid'} => flags'[d] = flags[d]
         /\ UNCHANGED <<state, pc, taskVars>>
         /\ \/ /\ 2 \in DOMAIN cmds /\ hostid' = cmds[2] /\ cmds[2] \in Cmd /\ InList(hostid)'
               /\ "WAIT_PUSH" \in flags[cmds[2]] /\ Fresh(cmds[2])
               /\ pc[cmds[2]] \notin {"push", "thread"}
               /\ flags'[cmds[2]] = flags[cmds[2]] \ {"WAIT_PUSH"}
            \/ Len(cmds) = 1 /\ hostid' = NoCmd
<1>. USE CmdAssumption DEF Orderly, Calm
<1>1. /\ cmds # <<>> /\ cmds' = ListDel(cmds, 1) /\ irqAck' = NoCmd
      /\ UNCHANGED <<state, pc, taskVars>>
  BY DEF Advance
<1>2. 1 \in DOMAIN cmds /\ cmds[1] \in Cmd
  BY <1>1, ListFacts
<1>3. hostid = NoCmd
  <2>1. hostid # NoCmd => irqAck = NoCmd /\ InList(hostid) /\ hostid \in Cmd
                          /\ "WAIT_PUSH" \notin flags[hostid] /\ "WAIT_ACK" \in flags[hostid]
    BY ListOrder DEF Slot, Unacked
  <2>2. hostid # NoCmd => hostid = cmds[1]
    BY <2>1, SentIsFirst
  <2>. QED  BY <2>1, <2>2
<1>4. PICK f \in SUBSET {"DONE"} :
         \/ /\ Len(cmds) > 1
            /\ Finish(cmds[1], f, [flags EXCEPT ![cmds[2]] = @ \ {"WAIT_PUSH"}])
            /\ hostid' = cmds[2]
         \/ /\ Len(cmds) = 1
            /\ Finish(cmds[1], f, flags)
            /\ UNCHANGED hostid
  BY DEF Advance
<1>5. CASE Len(cmds) > 1
  <2>1. 2 \in DOMAIN cmds /\ 2 \in 2..Len(cmds) /\ hostid' = cmds[2] /\ cmds[2] # cmds[1]
    BY <1>4, <1>5, ListFacts
  <2>2. cmds[2] \in Cmd /\ InList(cmds[2]) /\ "WAIT_PUSH" \in flags[cmds[2]]
    BY <2>1, ListFacts DEF OneSent, InList
  <2>3. InList(hostid)'
    <3>. PICK n : n = cmds[2]
      OBVIOUS
    <3>1. InList(n)'
      BY <1>1, <1>2, <2>1, <2>2, Removed
    <3>. QED  BY <2>1, <3>1 DEF InList
  <2>4. Fresh(cmds[2]) /\ pc[cmds[2]] \notin {"push", "thread"}
    BY <2>2 DEF Listed, Stages
  <2>5. /\ flags'[cmds[2]] = flags[cmds[2]] \ {"WAIT_PUSH"}
        /\ \A d \in Cmd : d \notin {cmds[1], cmds[2]} => flags'[d] = flags[d]
    BY <1>2, <1>4, <1>5, <2>1, <2>2 DEF Finish, ListInv, TypeOK, CmdType
  <2>. QED  BY <1>1, <1>2, <1>3, <2>1, <2>2, <2>3, <2>4, <2>5
<1>6. CASE Len(cmds) = 1
  <2>1. hostid' = NoCmd
    BY <1>3, <1>4, <1>6
  <2>2. \A d \in Cmd : d # cmds[1] => flags'[d] = flags[d]
    BY <1>2, <1>4, <1>6 DEF Finish, ListInv, TypeOK, CmdType
  <2>. QED  BY <1>1, <1>2, <1>3, <1>6, <2>1, <2>2
<1>. QED  BY <1>1, <1>5, <1>6, ListFacts

\* On PCIe too the mailbox is full until its acknowledgement is fetched.
LEMMA PcieSlot ==
  ASSUME ListInv, ListInv', Calm, Orderly, Orderly', Slot, Step
  PROVE  Slot'
<1>. USE CmdAssumption DEF mgrVars, cmdVars, memVars, taskVars, fwVars
<1>1. /\ hostid = NoCmd \/ (/\ state # "DEINIT" /\ irqAck = NoCmd /\ hostid \in Cmd
                            /\ \A d \in Cmd : pc[d] # "push"
                            /\ "WAIT_PUSH" \notin flags[hostid]
                            /\ state = "INITED" => InList(hostid) /\ Unacked(hostid))
      /\ hostid \in Cmd \cup {NoCmd}
  BY ListOrder DEF Slot, ListInv, TypeOK, ControlType
<1>2. SUFFICES ASSUME hostid' # NoCmd
               PROVE  /\ state' # "DEINIT" /\ irqAck' = NoCmd
                      /\ \A d \in Cmd : pc'[d] # "push"
                      /\ "WAIT_PUSH" \notin flags'[hostid']
                      /\ state' = "INITED" => InList(hostid)' /\ Unacked(hostid)'
  <2>1. msgSem' = 0 /\ taskPc' = "idle" /\ \A d \in Cmd : pc'[d] # "thread"
    BY DEF Orderly, Flight, Stages
  <2>2. InList(hostid)' => In(cmds, hostid)'
    BY DEF InList, In
  <2>. QED  BY <2>1, <2>2 DEF Slot
<1>3. ASSUME NEW c \in Cmd,
             SendMsg(c) \/ QueueRefuse(c) \/ FreeMsg(c) \/ WaitEnds(c) \/ Return(c)
      PROVE  /\ UNCHANGED <<state, cmds, flags, hostid, irqAck>>
             /\ \A d \in Cmd : pc'[d] = "push" => pc[d] = "push"
  BY <1>3 DEF SendMsg, Drop, QueueRefuse, Leave, FreeMsg, WaitEnds, Return, ListInv, TypeOK,
     ControlType
<1>4. ASSUME NEW c \in Cmd, QueueAccept(c)
      PROVE  /\ UNCHANGED <<state, hostid, irqAck>> /\ state = "INITED"
             /\ InList(hostid)' /\ Unacked(hostid)' /\ "WAIT_PUSH" \notin flags'[hostid]
             /\ \A d \in Cmd : pc'[d] # "push"
  <2>1. UNCHANGED <<state, hostid, irqAck>> /\ state = "INITED" /\ pc[c] = "queue"
    BY <1>4 DEF QueueAccept
  <2>2. InList(hostid) /\ Unacked(hostid) /\ hostid \in Cmd /\ "WAIT_PUSH" \notin flags[hostid]
    BY <1>1, <1>2, <2>1
  <2>3. hostid # c
    BY <2>1, <2>2 DEF ListInv, ListedIsQueued
  <2>4. flags'[hostid] = flags[hostid]
    BY <1>4, <2>2, <2>3 DEF QueueAccept, ListInv, TypeOK, CmdType
  <2>5. InList(hostid)'
    <3>1. cmds' = Append(cmds, c)
      BY <1>4 DEF QueueAccept
    <3>2. In(Append(cmds, c), hostid)
      BY <2>2, ListOrder, AppendOrder
    <3>. QED  BY <2>1, <3>1, <3>2 DEF In, InList
  <2>6. MustDefer
    <3>1. cmds # <<>> /\ Len(cmds) \in DOMAIN cmds
      BY <2>2, ListFacts DEF InList
    <3>2. cmds[Len(cmds)] \in Cmd /\ InList(cmds[Len(cmds)])
      BY <3>1, ListFacts DEF InList
    <3>. QED  BY <3>1, <3>2 DEF MustDefer, Orderly, Listed, Calm
  <2>7. \A d \in Cmd : pc'[d] # "push"
    BY <1>1, <1>2, <1>4, <2>1, <2>6 DEF QueueAccept, ListInv, TypeOK, ControlType
  <2>. QED  BY <2>1, <2>2, <2>4, <2>5, <2>7 DEF Unacked
<1>5. ASSUME NEW c \in Cmd, Push(c)
      PROVE  /\ UNCHANGED <<state, cmds, flags, irqAck>> /\ hostid' = c /\ state # "DEINIT"
             /\ irqAck = NoCmd /\ InList(c) /\ Fresh(c) /\ "WAIT_PUSH" \notin flags[c]
             /\ \A d \in Cmd : pc'[d] # "push"
  <2>1. pc[c] = "push"
    BY <1>5 DEF Push
  <2>2. /\ state # "DEINIT" /\ irqAck = NoCmd /\ c = cmds[1]
        /\ InList(c) /\ Fresh(c) /\ "WAIT_PUSH" \notin flags[c]
    BY <2>1, PciePusher
  <2>3. \A d \in Cmd : pc[d] = "push" => d = c
    BY <2>2, PciePusher
  <2>. QED  BY <1>5, <2>2, <2>3 DEF Push, Mailbox, ListInv, TypeOK, ControlType
<1>6. ASSUME NEW c \in Cmd, Expire(c)
      PROVE  /\ state' = "CRASHED" /\ UNCHANGED <<hostid, irqAck>>
             /\ \A d \in Cmd : pc'[d] = "push" => pc[d] = "push"
             /\ \A d \in Cmd : "WAIT_PUSH" \in flags'[d] => "WAIT_PUSH" \in flags[d]
  <2>1. state # "DEINIT"
    BY <1>6 DEF Expire, Orderly, Stilled
  <2>. QED  BY <1>6, <2>1 DEF Expire, Crashed, ListInv, TypeOK, ControlType, CmdType
<1>7. MsgAck \/ IpcDeinit => hostid' = NoCmd
  BY DEF MsgAck, IpcDeinit
<1>8. ~AckPartial
  BY <1>1, <1>2 DEF AckPartial
<1>9. AckLast \/ CfmLast => \A d \in Cmd : pc'[d] # "push"
  BY PciePusher, AckAdvances, CfmAdvances DEF Advance
<1>10. ASSUME AckLast \/ CfmLast
       PROVE  /\ UNCHANGED state /\ state = "INITED" /\ irqAck' = NoCmd
              /\ InList(hostid)' /\ Unacked(hostid)' /\ "WAIT_PUSH" \notin flags'[hostid']
  <2>1. Advance /\ state = "INITED" /\ (irqAck # NoCmd \/ "WAIT_ACK" \notin flags[cmds[1]])
    BY <1>10, AckAdvances, CfmAdvances
  <2>. QED  BY <1>2, <1>10, <2>1, AdvanceFills DEF Fresh, Unacked
<1>11. CfmPartial =>
         /\ UNCHANGED <<state, cmds, hostid, irqAck, pc>>
         /\ \A d \in Cmd : /\ "WAIT_PUSH" \in flags'[d] => "WAIT_PUSH" \in flags[d]
                           /\ Unacked(d)' <=> Unacked(d)
  BY ListFacts DEF CfmPartial, CfmIdx, CfmMatches, Unacked, ListInv, TypeOK, CmdType
<1>12. FwAck \/ FwConfirm \/ FwStop => UNCHANGED <<state, cmds, flags, hostid, irqAck, pc>>
  BY DEF FwAck, FwConfirm, FwStop
<1>13. ~IpcInit
  BY <1>1, <1>2 DEF IpcInit
<1>14. ASSUME NEW c \in Cmd, SendMsg(c) \/ CallStep(c)
       PROVE  /\ state' # "DEINIT" /\ irqAck' = NoCmd
              /\ \A d \in Cmd : pc'[d] # "push"
              /\ "WAIT_PUSH" \notin flags'[hostid']
              /\ state' = "INITED" => InList(hostid)' /\ Unacked(hostid)'
  <2>1. CASE SendMsg(c) \/ QueueRefuse(c) \/ FreeMsg(c) \/ WaitEnds(c) \/ Return(c)
    BY <1>1, <1>2, <1>3, <2>1 DEF InList, Unacked
  <2>2. CASE QueueAccept(c)
    BY <1>1, <1>2, <1>4, <2>2
  <2>3. CASE Push(c)
    BY <1>5, <2>3 DEF InList, Unacked, Fresh
  <2>4. CASE Expire(c)
    BY <1>1, <1>2, <1>6, <2>4
  <2>. QED  BY <1>14, <2>1, <2>2, <2>3, <2>4, NeverOnPcie DEF CallStep
<1>15. CASE IrqStep
  <2>1. CASE CfmPartial
    BY <1>1, <1>2, <1>11, <2>1 DEF InList, Unacked
  <2>. QED  BY <1>2, <1>7, <1>8, <1>9, <1>10, <1>15, <2>1, NeverOnPcie DEF IrqStep
<1>16. CASE FwAck \/ FwConfirm \/ FwStop
  BY <1>1, <1>2, <1>12, <1>16 DEF InList, Unacked
<1>. QED  BY <1>2, <1>7, <1>13, <1>14, <1>15, <1>16, NeverOnPcie DEF Step

\* The first command of the list leaves it, and the second is sent.
LEMMA AdvanceIsSend ==
  ASSUME ListInv, ListInv', IsSplit,
         1 \in DOMAIN cmds, 2 \in DOMAIN cmds, cmds' = ListDel(cmds, 1),
         NEW c \in Cmd, c = cmds[2], ~Unsent(cmds[1]), Unsent(c), ~Unsent(c)',
         \A d \in Cmd : d \notin {cmds[1], c} => (Unsent(d)' <=> Unsent(d))
  PROVE  /\ IsSplit'
         /\ Waiting # <<>> /\ Head(Waiting) = c /\ Waiting' = Tail(Waiting)
<1>. PICK n : SplitAt(cmds, Pending, n)
  BY DEF IsSplit, SplitBy
<1>. PICK U, V, s : U = Pending /\ V = Pending' /\ s = cmds'
  OBVIOUS
<1>1. n = 1
  <2>1. n \in 0..Len(cmds) /\ Len(cmds) \in Nat
    BY ListFacts DEF SplitAt
  <2>2. cmds[1] \notin Pending /\ cmds[2] \in Pending
    BY DEF Pending
  <2>. QED  BY <2>1, <2>2 DEF SplitAt
<1>2. cmds \in Seq(Cmd) /\ SplitAt(cmds, U, 1) /\ s = ListDel(cmds, 1)
  BY <1>1, ListFacts
<1>3. SplitAt(s, U, 0) /\ LastIn(s, U) = LastIn(cmds, U)
  BY <1>2, LastInDelFirst
<1>4. /\ s \in Seq(Cmd) /\ DOMAIN s = 1..(Len(cmds) - 1)
      /\ \A k \in 1..(Len(cmds) - 1) : s[k] = IF k < 1 THEN cmds[k] ELSE cmds[k + 1]
  BY ZenonT(40), <1>2, ListDelProperties
<1>5. 1 \in DOMAIN s /\ s[1] = c
  <2>1. 1 \in 1..(Len(cmds) - 1) /\ ~(1 < 1) /\ 1 + 1 = 2
    BY ListFacts
  <2>. QED  BY <1>4, <2>1
<1>6. ASSUME NEW i \in DOMAIN s PROVE s[i] \in V <=> s[i] \in U /\ i # 1
  <2>1. /\ s[i] = cmds[i + 1] /\ i + 1 \in DOMAIN cmds /\ i + 1 # 1 /\ (i # 1 => i + 1 # 2)
        /\ i \in Nat
    BY <1>4, <1>6, ListFacts
  <2>2. s[i] \in Cmd /\ s[i] # cmds[1] /\ (i # 1 => s[i] # c)
    BY <2>1, ListFacts
  <2>. QED  BY <1>5, <2>2 DEF Pending
<1>7. \E k : /\ SplitAt(s, U, k) /\ k + 1 \in DOMAIN s /\ s[k + 1] = c
             /\ \A i \in DOMAIN s : s[i] \in V <=> s[i] \in U /\ i # k + 1
  <2>1. SplitAt(s, U, 0) /\ 0 + 1 = 1
    BY <1>3
  <2>. QED  BY <1>5, <1>6, <2>1
<1>. PICK k : /\ SplitAt(s, U, k) /\ k + 1 \in DOMAIN s /\ s[k + 1] = c
              /\ \A i \in DOMAIN s : s[i] \in V <=> s[i] \in U /\ i # k + 1
  BY <1>7
<1>8. /\ SplitAt(s, V, k + 1)
      /\ LastIn(s, U) # <<>> /\ Head(LastIn(s, U)) = s[k + 1]
      /\ LastIn(s, V) = Tail(LastIn(s, U))
  <2>1. s \in Seq(Cmd)
    BY <1>4
  <2>. QED  BY <2>1, LastInFewer
<1>x. Waiting = LastIn(cmds, U)
  BY WaitingIs
<1>y. IsSplit'
  BY <1>3, <1>8 DEF IsSplit, SplitBy
<1>z. (ListInv /\ IsSplit => Waiting = LastIn(cmds, Pending))'
  BY WaitingIs, PTL
<1>. QED  BY <1>3, <1>8, <1>x, <1>y, <1>z

\* What holds in every state and is preserved by each step.
Sound == ListInv /\ CallInv /\ PcieInv /\ SdInv /\ Steady /\ Slot /\ IsSplit

\* A step of the channel.
ChannelStep == [Channel!Next]_<<Waiting, hostid>>

\* A step that leaves the waiting commands and the mailbox alone.
LEMMA StutterStep ==
  ASSUME Waiting' = Waiting, hostid' = hostid
  PROVE  ChannelStep
BY DEF ChannelStep

\* Handing the oldest of the waiting commands over.
LEMMA SendStep ==
  ASSUME NEW c, Waiting # <<>>, Head(Waiting) = c, Waiting' = Tail(Waiting),
         hostid = NoCmd, hostid' = c
  PROVE  ChannelStep
BY DEF ChannelStep, Channel!Next, Channel!Send

\* What a step of the callers does to the list.
LEMMA CallRefines ==
  ASSUME Sound, ListInv', NEW c \in Cmd, SendMsg(c) \/ CallStep(c)
  PROVE  IsSplit' /\ ChannelStep
<1>. USE DEF mgrVars, cmdVars, memVars, taskVars, fwVars
<1>1. CASE \/ SendMsg(c) \/ QueueRefuse(c) \/ QueueGone(c) \/ HandToTask(c)
           \/ FreeMsg(c) \/ WaitEnds(c) \/ PollEnds(c) \/ Return(c)
  <2>1. /\ cmds' = cmds /\ hostid' = hostid
        /\ \A d \in Cmd : Unsent(d)' <=> Unsent(d)
    BY <1>1 DEF SendMsg, Drop, QueueRefuse, QueueGone, HandToTask, FreeMsg, WaitEnds, PollEnds,
       Return, Leave, Unsent, Sound, ListInv, TypeOK, CmdType, ControlType
  <2>. QED  BY <2>1, WaitingKept, StutterStep DEF Sound
<1>2. CASE QueueAccept(c)
  <2>1. /\ cmds' = Append(cmds, c) /\ hostid' = hostid /\ pc[c] = "queue"
        /\ \A d \in Cmd : d # c => (Unsent(d)' <=> Unsent(d))
    BY <1>2 DEF QueueAccept, Unsent, Sound, ListInv, TypeOK, CmdType, ControlType
  <2>2. Unsent(c)'
    BY <1>2 DEF QueueAccept, NotDeferredPc, Unsent, Sound, ListInv, TypeOK, CmdType,
       ControlType
  <2>3. ~InList(c) /\ cmds \in Seq(Cmd)
    BY <2>1, ListFacts DEF Sound, ListInv, ListedIsQueued
  <2>4. /\ cmds' \in Seq(Cmd) /\ Len(cmds') = Len(cmds) + 1 /\ cmds'[Len(cmds) + 1] = c
        /\ \A i \in 1..Len(cmds) : cmds'[i] = cmds[i]
    BY <2>1, <2>3, AppendProperties
  <2>5. IsSplit' /\ Waiting' = Append(Waiting, c)
    BY <2>1, <2>2, <2>3, <2>4, AcceptIsAppend DEF Sound
  <2>. QED  BY <2>1, <2>5 DEF ChannelStep, Channel!Next, Channel!Accept
<1>3. CASE Push(c)
  <2>1. pc[c] = "push"
    BY <1>3 DEF Push
  <2>2. /\ state # "DEINIT" /\ InList(c) /\ "WAIT_PUSH" \notin flags[c]
        /\ \A d \in Cmd : Before(cmds, d, c) => ~Unsent(d)
    <3>1. CASE Pcie
      <4>1. Orderly
        BY <3>1 DEF Sound, PcieInv, Calm
      <4>2. /\ state # "DEINIT" /\ c = cmds[1] /\ 1 \in DOMAIN cmds
            /\ InList(c) /\ "WAIT_PUSH" \notin flags[c]
        BY <2>1, <4>1, PciePusher DEF Sound
      <4>3. \A d \in Cmd : ~Before(cmds, d, c)
        BY <4>2, ListFacts DEF Before, Sound
      <4>. QED  BY <4>2, <4>3
    <3>2. CASE ~Pcie
      <4>1. SdBase /\ SdFlow
        BY <3>2 DEF Sound, SdInv, Mild
      <4>2. In(cmds, c) /\ First(c) /\ "WAIT_PUSH" \notin flags[c]
        BY <2>1, <4>1, SoleCaller DEF SdFlow, Sound
      <4>3. \A d \in Cmd : Before(cmds, d, c) => ~Unsent(d)
        BY <4>1, <4>2, ListOrder, OneFirst DEF First, SdFlow, Sound
      <4>4. state # "DEINIT"
        BY <2>1, <4>1 DEF SdBase, SdStilled
      <4>. QED  BY <4>2, <4>3, <4>4 DEF In, InList
    <3>. QED  BY <3>1, <3>2
  <2>3. hostid' = c /\ hostid = NoCmd
    BY <1>3, <2>1, <2>2 DEF Push, Mailbox, Slot, Sound
  <2>4. cmds' = cmds /\ pc' = [pc EXCEPT ![c] = "freeMsg"] /\ flags' = flags
    BY <1>3, <2>2 DEF Push
  <2>5. Unsent(c) /\ ~Unsent(c)' /\ \A d \in Cmd : d # c => (Unsent(d)' <=> Unsent(d))
    BY <2>1, <2>2, <2>4 DEF Unsent, Sound, ListInv, TypeOK, ControlType
  <2>6. IsSplit' /\ Waiting # <<>> /\ Head(Waiting) = c /\ Waiting' = Tail(Waiting)
    BY <2>2, <2>4, <2>5, SendIsHead DEF Sound
  <2>. QED  BY <2>3, <2>6, SendStep
<1>4. CASE Expire(c)
  <2>1. /\ hostid' = hostid
        /\ \A d \in Cmd : d # c => (Unsent(d)' <=> Unsent(d))
        /\ Unsent(c)' <=> Unsent(c)
    BY <1>4 DEF Expire, Unsent, Sound, ListInv, TypeOK, CmdType, ControlType
  <2>2. cmds' = cmds \/ \E i \in DOMAIN cmds : cmds[i] = c /\ cmds' = ListDel(cmds, i)
    BY <1>4 DEF Expire, Unlink
  <2>3. CASE cmds' = cmds
    BY <2>1, <2>3, WaitingKept, StutterStep DEF Sound
  <2>4. CASE \E i \in DOMAIN cmds : cmds[i] = c /\ cmds' = ListDel(cmds, i)
    <3>. PICK i \in DOMAIN cmds : cmds[i] = c /\ cmds' = ListDel(cmds, i)
      BY <2>4
    <3>1. CASE Unsent(c)
      <4>1. IsSplit' /\ \E k \in DOMAIN Waiting : Waiting' = ListDel(Waiting, k)
        BY <2>1, <3>1, UnsentIsRemoved DEF Sound
      <4>. QED
        BY <2>1, <4>1 DEF ChannelStep, Channel!Next, Channel!GiveUp, Channel!RemoveAt, ListDel
    <3>2. CASE ~Unsent(c)
      <4>1. IsSplit' /\ Waiting' = Waiting
        BY <2>1, <3>2, SentIsRemoved DEF Sound
      <4>. QED  BY <2>1, <4>1, StutterStep
    <3>. QED  BY <3>1, <3>2
  <2>. QED  BY <2>2, <2>3, <2>4
<1>5. ~ExpireFaults(c)
  BY NeverFaults DEF Sound
<1>. QED  BY <1>1, <1>2, <1>3, <1>4, <1>5 DEF CallStep

\* What the interrupts do to it when they complete a command.
LEMMA CompletionRefines ==
  ASSUME Sound, ListInv', AckLast \/ CfmLast
  PROVE  IsSplit' /\ ChannelStep
<1>. USE CmdAssumption DEF mgrVars, cmdVars, memVars, taskVars, fwVars
<1>1. CASE Pcie
  <2>1. Calm /\ Orderly
    BY <1>1 DEF Sound, PcieInv, Calm
  <2>2. /\ Advance /\ state = "INITED" /\ pc[cmds[1]] # "push"
        /\ irqAck # NoCmd \/ "WAIT_ACK" \notin flags[cmds[1]]
    BY <2>1, AckAdvances, CfmAdvances DEF Sound
  <2>3. /\ hostid = NoCmd /\ 1 \in DOMAIN cmds /\ cmds' = ListDel(cmds, 1)
        /\ \A d \in Cmd : d \notin {cmds[1], hostid'} => flags'[d] = flags[d]
        /\ pc' = pc
        /\ \/ /\ 2 \in DOMAIN cmds /\ hostid' = cmds[2] /\ cmds[2] \in Cmd
              /\ "WAIT_PUSH" \in flags[cmds[2]] /\ pc[cmds[2]] \notin {"push", "thread"}
              /\ flags'[cmds[2]] = flags[cmds[2]] \ {"WAIT_PUSH"}
           \/ Len(cmds) = 1 /\ hostid' = NoCmd
    BY <2>1, <2>2, AdvanceFills DEF Sound
  <2>4. cmds[1] \in Cmd /\ ~Unsent(cmds[1])
    <3>1. cmds[1] \in Cmd /\ pc[cmds[1]] # "thread"
      BY <2>1, <2>3, ListFacts DEF Sound, Orderly, Stages
    <3>2. "WAIT_PUSH" \notin flags[cmds[1]]
      <4>1. irqAck # NoCmd => "WAIT_PUSH" \notin flags[cmds[1]]
        BY <2>1, AckOfFirst DEF Sound
      <4>2. InList(cmds[1])
        BY <2>3 DEF InList
      <4>3. "WAIT_PUSH" \in flags[cmds[1]] => "WAIT_ACK" \in flags[cmds[1]]
        BY <2>1, <3>1, <4>2 DEF Orderly, Listed, Fresh
      <4>. QED  BY <2>2, <4>1, <4>3
    <3>. QED  BY <2>2, <3>1, <3>2 DEF Unsent
  <2>5. CASE 2 \in DOMAIN cmds
    <3>. PICK c \in Cmd : c = cmds[2]
      BY <2>3, <2>5, ListFacts DEF Sound
    <3>1. /\ hostid' = c /\ "WAIT_PUSH" \in flags[c] /\ pc[c] \notin {"push", "thread"}
          /\ flags'[c] = flags[c] \ {"WAIT_PUSH"}
      BY <2>3, <2>5, ListFacts DEF Sound
    <3>2. Unsent(c) /\ ~Unsent(c)'
      BY <2>3, <3>1 DEF Unsent
    <3>3. \A d \in Cmd : d \notin {cmds[1], c} => (Unsent(d)' <=> Unsent(d))
      BY <2>3, <3>1 DEF Unsent
    <3>4. IsSplit' /\ Waiting # <<>> /\ Head(Waiting) = c /\ Waiting' = Tail(Waiting)
      BY <2>3, <2>4, <2>5, <3>2, <3>3, AdvanceIsSend DEF Sound
    <3>. QED  BY <2>3, <3>1, <3>4, SendStep
  <2>6. CASE 2 \notin DOMAIN cmds
    <3>1. hostid' = NoCmd
      BY <2>3, <2>6
    <3>2. \A d \in Cmd : d # cmds[1] => (Unsent(d)' <=> Unsent(d))
      BY <2>3, <3>1 DEF Unsent
    <3>3. IsSplit' /\ Waiting' = Waiting
      BY <2>3, <2>4, <3>2, SentIsRemoved DEF Sound
    <3>. QED  BY <2>3, <3>1, <3>3, StutterStep
  <2>. QED  BY <2>5, <2>6
<1>2. CASE ~Pcie
  <2>1. SdBase /\ SdFlow
    BY <1>2 DEF Sound, SdInv, Mild
  <2>2. \E i \in DOMAIN cmds :
           /\ cmds' = ListDel(cmds, i) /\ ~Unsent(cmds[i])
           /\ \A d \in Cmd : d # cmds[i] => flags'[d] = flags[d]
           /\ pc' = pc /\ hostid' = hostid
    <3>1. CASE AckLast
      <4>1. irqAck \in Cmd /\ InList(irqAck) /\ ~Unsent(irqAck)
        BY <2>1, <3>1, SdAckFacts, ListOrder DEF AckLast, Sound
      <4>2. pc' = pc /\ hostid' = hostid /\ Unlink(irqAck)
        BY <1>2, <3>1 DEF AckLast
      <4>3. \A d \in Cmd : d # irqAck => flags'[d] = flags[d]
        BY <1>2, <3>1, <4>1 DEF AckLast, Finish, Sound, ListInv, TypeOK, CmdType
      <4>. QED  BY <4>1, <4>2, <4>3 DEF Unlink
    <3>2. CASE CfmLast
      <4>. PICK i \in DOMAIN cmds :
              /\ WaitComplete(flags[cmds[i]] \ {"WAIT_CFM"})
              /\ cmds' = ListDel(cmds, i)
              /\ Finish(cmds[i], flags[cmds[i]] \ {"WAIT_CFM"}, flags)
              /\ UNCHANGED hostid
        BY <1>2, <3>2 DEF CfmLast, CfmPushes, CfmIdx, CfmMatches
      <4>1. cmds[i] \in Cmd /\ InList(cmds[i])
        BY ListFacts DEF Sound, InList
      <4>2. ~Unsent(cmds[i])
        <5>1. "WAIT_ACK" \notin flags[cmds[i]]
          BY DEF WaitComplete
        <5>. QED  BY <2>1, <4>1, <5>1, ListOrder DEF SdFlow, SdListed, Fresh, Sound
      <4>3. \A d \in Cmd : d # cmds[i] => flags'[d] = flags[d]
        BY <4>1 DEF Finish, Sound, ListInv, TypeOK, CmdType
      <4>4. pc' = pc
        BY <3>2 DEF CfmLast
      <4>. QED  BY <4>2, <4>3, <4>4
    <3>. QED  BY <3>1, <3>2
  <2>. PICK i \in DOMAIN cmds :
           /\ cmds' = ListDel(cmds, i) /\ ~Unsent(cmds[i])
           /\ \A d \in Cmd : d # cmds[i] => flags'[d] = flags[d]
           /\ pc' = pc /\ hostid' = hostid
    BY <2>2
  <2>3. \A d \in Cmd : d # cmds[i] => (Unsent(d)' <=> Unsent(d))
    BY DEF Unsent
  <2>4. IsSplit' /\ Waiting' = Waiting
    BY <2>3, SentIsRemoved DEF Sound
  <2>. QED  BY <2>4, StutterStep
<1>. QED  BY <1>1, <1>2

\* What the other interrupts, aml_msg_task and the firmware do to it.
LEMMA OtherRefines ==
  ASSUME Sound, ListInv',
         \/ MsgAck \/ AckLost \/ AckPartial \/ CfmLost \/ CfmPartial
         \/ TaskStep \/ FwAck \/ FwConfirm \/ FwStop \/ IpcDeinit \/ IpcInit
  PROVE  IsSplit' /\ ChannelStep
<1>. USE CmdAssumption DEF mgrVars, cmdVars, memVars, taskVars, fwVars
<1>1. CASE \/ AckLost \/ CfmLost \/ TaskPick \/ TaskFree
           \/ FwAck \/ FwConfirm \/ FwStop \/ IpcInit
  <2>1. cmds' = cmds /\ hostid' = hostid /\ \A d \in Cmd : Unsent(d)' <=> Unsent(d)
    BY <1>1 DEF AckLost, CfmLost, TaskPick, TaskFree, FwAck, FwConfirm, FwStop, IpcInit, Unsent
  <2>. QED  BY <2>1, WaitingKept, StutterStep DEF Sound
<1>2. CASE AckPartial \/ CfmPartial
  <2>1. cmds' = cmds /\ hostid' = hostid /\ \A d \in Cmd : Unsent(d)' <=> Unsent(d)
    <3>1. CASE AckPartial
      BY <3>1 DEF AckPartial, Unsent, Sound, ListInv, TypeOK, CmdType
    <3>2. CASE CfmPartial
      <4>. PICK i \in DOMAIN cmds : flags' = [flags EXCEPT ![cmds[i]] = @ \ {"WAIT_CFM"}]
        BY <3>2 DEF CfmPartial, CfmIdx, CfmMatches
      <4>1. cmds' = cmds /\ hostid' = hostid /\ pc' = pc
        BY <3>2 DEF CfmPartial
      <4>. QED  BY <4>1 DEF Unsent, Sound, ListInv, TypeOK, CmdType
    <3>. QED  BY <1>2, <3>1, <3>2
  <2>. QED  BY <2>1, WaitingKept, StutterStep DEF Sound
<1>3. CASE MsgAck
  <2>1. cmds' = cmds /\ hostid' = NoCmd /\ \A d \in Cmd : Unsent(d)' <=> Unsent(d)
    BY <1>3 DEF MsgAck, Unsent
  <2>2. IsSplit' /\ Waiting' = Waiting
    BY <2>1, WaitingKept DEF Sound
  <2>. QED  BY <2>1, <2>2 DEF ChannelStep, Channel!Next, Channel!Acked
<1>4. CASE TaskPush
  <2>1. ~Pcie /\ SdFlow
    <3>1. ~Pcie
      BY <1>4 DEF Sound, PcieInv, Calm, Orderly, Flight, TaskPush
    <3>. QED  BY <3>1 DEF Sound, SdInv, Mild
  <2>. PICK c : c = taskCmd
    OBVIOUS
  <2>2. /\ c \in Cmd /\ cmds' = cmds /\ pc' = pc /\ hostid' = c /\ taskPc = "push"
        /\ flags' = [flags EXCEPT ![c] = @ \ {"WAIT_PUSH"}]
    BY <1>4 DEF TaskPush, Mailbox, Sound, ListInv, TaskHolds
  <2>3. /\ In(cmds, c) /\ First(c) /\ Unsent(c)
        /\ \A d \in Cmd : pc[d] \notin {"push", "thread"}
    BY <2>1, <2>2, SoleTask DEF SdFlow, Sound
  <2>4. hostid = NoCmd /\ InList(c)
    BY <2>2, <2>3 DEF Slot, Sound, In, InList
  <2>5. ~Unsent(c)' /\ \A d \in Cmd : d # c => (Unsent(d)' <=> Unsent(d))
    BY <2>2, <2>3 DEF Unsent, Sound, ListInv, TypeOK, CmdType
  <2>6. \A d \in Cmd : Before(cmds, d, c) => ~Unsent(d)
    BY <2>1, <2>3, ListOrder, OneFirst DEF First, SdFlow, Sound
  <2>7. IsSplit' /\ Waiting # <<>> /\ Head(Waiting) = c /\ Waiting' = Tail(Waiting)
    BY <2>2, <2>3, <2>4, <2>5, <2>6, SendIsHead DEF Sound
  <2>. QED  BY <2>2, <2>4, <2>7, SendStep
<1>5. CASE IpcDeinit
  <2>1. cmds' = <<>> /\ hostid' = NoCmd
    BY <1>5 DEF IpcDeinit
  <2>2. (ListInv /\ cmds = <<>> => IsSplit /\ Waiting = <<>>)'
    BY EmptyIsSplit, PTL
  <2>. QED  BY <2>1, <2>2 DEF ChannelStep, Channel!Next, Channel!Reset
<1>. QED  BY <1>1, <1>2, <1>3, <1>4, <1>5 DEF TaskStep

\* The mailbox is full until its acknowledgement is fetched, on every bus.
LEMMA SlotKept ==
  ASSUME Sound, ListInv', PcieInv', SdInv', faults' = faults, bus' = bus, Step
  PROVE  Slot'
<1>1. CASE Pcie
  BY <1>1, PcieSlot DEF Sound, PcieInv, Calm, Steady, Pcie
<1>2. CASE ~Pcie
  BY <1>2 DEF Sound, SdInv, Mild, Steady, Pcie, SdFlow
<1>. QED  BY <1>1, <1>2

\* Every step of the manager is one of the channel, or none.
LEMMA NextRefines ==
  Sound /\ [Next]_<<vars, conf>> => Sound' /\ [Channel!Next]_<<Waiting, hostid>>
<1>. SUFFICES ASSUME Sound, [Next]_<<vars, conf>> PROVE Sound' /\ ChannelStep
  BY DEF ChannelStep
<1>1. /\ ListInv' /\ CallInv' /\ PcieInv' /\ SdInv' /\ Steady'
      /\ faults' = faults /\ bus' = bus
  <2>1. faults' = faults /\ bus' = bus /\ Steady'
    BY DEF Sound, Next, conf, Steady
  <2>. QED  BY <2>1, NextListInv, NextCallInv, NextPcieInv, NextSdInv DEF Sound
<1>2. CASE Step
  <2>1. IsSplit' /\ ChannelStep
    BY <1>1, <1>2, CallRefines, CompletionRefines, OtherRefines DEF Step, IrqStep
  <2>2. Slot'
    BY <1>1, <1>2, SlotKept
  <2>. QED  BY <1>1, <2>1, <2>2 DEF Sound
<1>3. CASE UNCHANGED vars
  <2>. USE <1>3 DEF vars, mgrVars, cmdVars, memVars, taskVars, fwVars
  <2>1. IsSplit' /\ Waiting' = Waiting
    BY <1>1, WaitingKept DEF Sound, Unsent
  <2>2. Slot'
    BY DEF Sound, Slot, Unacked
  <2>. QED  BY <1>1, <2>1, <2>2, StutterStep DEF Sound
<1>. QED  BY <1>2, <1>3 DEF Next

\* The channel starts empty.
LEMMA InitRefines == Init /\ Steady => Sound /\ Channel!Init
<1>. SUFFICES ASSUME Init, Steady PROVE Sound /\ Channel!Init
  OBVIOUS
<1>1. ListInv /\ CallInv /\ PcieInv /\ SdInv
  BY InitListInv, InitCallInv, InitPcieInv, InitSdInv
<1>2. cmds = <<>> /\ hostid = NoCmd
  BY DEF Init
<1>3. IsSplit /\ Waiting = <<>>
  BY <1>1, <1>2, EmptyIsSplit
<1>. QED  BY <1>1, <1>2, <1>3 DEF Sound, Slot, Channel!Init

\* The manager implements MsgChannel: commands are handed to the firmware one at a
\* time, in the order they were accepted, when the only fault is a firmware that
\* falls silent (cmd_mgr_queue, cmd_mgr_llind, cmd_mgr_msgind, aml_msg_task).
THEOREM ManagerImplementsChannel == Spec /\ Steady => ImplementsMsgChannel
BY InitRefines, NextRefines, PTL DEF Spec, ImplementsMsgChannel, Channel!Spec
=============================================================================
