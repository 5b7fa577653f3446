------------------------------- MODULE CmdMgr -------------------------------
(***************************************************************************)
(* The host to firmware command manager: aml_cmds.c, its entry point       *)
(* aml_send_msg (aml_msg_tx.c) and the one-slot message mailbox of         *)
(* ipc_host.c.                                                             *)
(*                                                                         *)
(* A call of aml_send_msg allocates one struct aml_cmd and hands it to     *)
(* cmd_mgr_queue, so a call and its command are identified by one element  *)
(* of Cmd, used once.  Four kinds of actor share the command list:         *)
(*   - the callers (pc[c] is where the call for c stands),                 *)
(*   - the interrupt context, which runs llind for an acknowledgement and  *)
(*     msgind for a confirmation,                                          *)
(*   - aml_msg_task, the SDIO/USB thread that pushes deferred commands,    *)
(*   - the firmware, which empties the mailbox, acknowledges and confirms. *)
(* An action is one critical section of cmd_mgr->lock or one access to a   *)
(* shared object made outside it.                                          *)
(*                                                                         *)
(* A definition D_Variant is the definition D with a plausible mistake in  *)
(* it; it is used only to confirm that the properties notice the mistake.  *)
(***************************************************************************)
EXTENDS Naturals, Sequences, FiniteSets

CONSTANTS
    Cmd,        \* the command objects, one per call of aml_send_msg
    NoCmd,      \* the NULL command pointer
    ReqId,      \* identifiers of confirmation messages
    NoCfm,      \* reqid of a request that expects no confirmation
    Requests,   \* the requests the callers make in this instance
    Buses,      \* the buses to consider, among "SDIO" (which stands for USB too) and "PCIE"
    MaxQueued,  \* AML_CMD_MAX_QUEUED
    Wrap,       \* 2^32, where the u32 queue_sz wraps around
    FaultSets   \* the sets of faults a behaviour may meet, each among Fault

\* The firmware falls silent, answers after the time-out, a caller is killed,
\* the IPC is brought down while calls are in progress, bus_err is found set
Fault == {"silent", "late", "kill", "reload", "buserr"}

\* Whether the caller waits, which confirmation is expected, and whether the
\* message identifier is one of aml_msg_send_mtheod.  Every identifier of
\* aml_msg_send_mtheod is also one of is_non_blocking_msg.
Request == { r \in [nonblock : BOOLEAN, cfm : ReqId \cup {NoCfm}, thread : BOOLEAN] :
               r.thread => r.nonblock }

ASSUME CmdAssumption ==
    /\ NoCmd \notin Cmd
    /\ NoCfm \notin ReqId
    /\ Requests \subseteq Request
    /\ Buses \subseteq {"SDIO", "PCIE"}
    /\ MaxQueued \in Nat \ {0}
    /\ Wrap \in Nat /\ MaxQueued < Wrap
    /\ FaultSets \subseteq SUBSET Fault

VARIABLES
    \* struct aml_cmd_mgr
    state,      \* cmd_mgr->state
    cmds,       \* cmd_mgr->cmds
    queue_sz,   \* cmd_mgr->queue_sz
    \* struct aml_cmd, one per call
    req,        \* the request the call makes
    flags,      \* the WAIT_* and DONE bits of cmd->flags
    result,     \* cmd->result
    completion, \* cmd->complete has been signalled
    cfmFrom,    \* history: the command whose confirmation was credited to c
    cmdMem,     \* the heap state of the aml_cmd
    msgMem,     \* the heap state of cmd->a2e_msg
    \* control
    pc,         \* where the call of aml_send_msg for c stands
    hostid,     \* ipc_env->msga2e_hostid, the command in the mailbox
    irqAck,     \* the command an acknowledgement interrupt is about to report
    msgSem,     \* aml_hw->aml_msg_sem
    taskPc, taskCmd, \* aml_msg_task and the command it holds
    \* firmware (external)
    fwUp,       \* the firmware still runs
    fwInbox,    \* the command whose message the firmware has not taken yet
    fwAckIrq,   \* an acknowledgement interrupt is pending
    fwOwes,     \* commands the firmware has still to confirm, oldest first
    e2a,        \* confirmations on their way to the host
    errs,       \* history: illegal memory operations, each with the command it met
    \* configuration
    bus,        \* aml_bus_type
    faults      \* the faults that may happen in this behaviour

mgrVars  == <<state, cmds, queue_sz>>
cmdVars  == <<req, flags, result, completion, cfmFrom>>
memVars  == <<cmdMem, msgMem>>
taskVars == <<msgSem, taskPc, taskCmd>>
fwVars   == <<fwUp, fwInbox, fwAckIrq, fwOwes, e2a>>
vars == <<mgrVars, cmdVars, memVars, pc, hostid, irqAck, taskVars, fwVars, errs>>
conf == <<bus, faults>>

Pcie == bus = "PCIE"

States  == {"DEINIT", "INITED", "CRASHED"}
Flag    == {"WAIT_PUSH", "WAIT_ACK", "WAIT_CFM", "DONE"}
Result  == {"EINTR", "OK", "ETIMEDOUT", "EPIPE", "ENOMEM", "EBUSY"}
Mem     == {"none", "live", "freed"}
CallPc  == {"idle", "queue", "push", "thread", "freeMsg", "wait", "poll",
            "expired", "return", "end", "oops"}
Err     == {"useAfterFree", "doubleFree", "doubleRemove", "bogusPush", "nullCall"}
             \X (Cmd \cup {NoCmd})

-----------------------------------------------------------------------------
(* Helpers                                                                 *)

InList(c) == \E i \in DOMAIN cmds : cmds[i] = c

Blocking(c) == ~req[c].nonblock

\* list_del of the i-th command
ListDel(s, i) == SubSeq(s, 1, i - 1) \o SubSeq(s, i + 1, Len(s))

\* What touching c, or freeing it, adds to the illegal memory operations
Touch(c)    == IF cmdMem[c] = "freed" THEN {<<"useAfterFree", c>>} ELSE {}
FreeCmd(c)  == IF cmdMem[c] = "freed" THEN {<<"doubleFree", c>>} ELSE {}
FreeMsgOf(c) == IF msgMem[c] = "freed" THEN {<<"doubleFree", c>>} ELSE {}

\* queue_sz++ and queue_sz-- on a u32
Inc(n) == IF n = Wrap - 1 THEN 0 ELSE n + 1
Dec(n) == IF n = 0 THEN Wrap - 1 ELSE n - 1

Unlink_Signed(c) ==
    /\ queue_sz' = queue_sz - 1
    /\ \/ \E i \in DOMAIN cmds : cmds[i] = c /\ cmds' = ListDel(cmds, i)
       \/ ~InList(c) /\ UNCHANGED cmds

Unlink_NotCounted(c) ==
    /\ UNCHANGED queue_sz
    /\ \/ \E i \in DOMAIN cmds : cmds[i] = c /\ cmds' = ListDel(cmds, i)
       \/ ~InList(c) /\ UNCHANGED cmds

\* cmd_complete on the list: list_del and queue_sz--, whether the command is
\* listed or not.  The links of a command that is not are poisoned, and a kernel
\* that checks its lists (CONFIG_DEBUG_LIST) refuses to unlink it.
Unlink(c) ==
    /\ queue_sz' = Dec(queue_sz)
    /\ \/ \E i \in DOMAIN cmds : cmds[i] = c /\ cmds' = ListDel(cmds, i)
       \/ ~InList(c) /\ UNCHANGED cmds

UnlinkErr(c) == IF InList(c) THEN {} ELSE {<<"doubleRemove", c>>}

\* ipc_host_msg_push: fill the mailbox for c and trigger the firmware
Mailbox(c) ==
    /\ hostid' = c
    /\ fwInbox' = c
    /\ fwOwes' = IF req[c].cfm = NoCfm THEN fwOwes ELSE Append(fwOwes, c)
    /\ UNCHANGED <<fwUp, fwAckIrq, e2a>>

MayExpire_Never == FALSE

\* A wait of AML_80211_CMD_TIMEOUT_MS * (queue_sz + 1) expires.  Without
\* "late" it expires only when nothing can happen any more: the firmware is
\* silent or has answered everything, and the other threads, the interrupt
\* context and aml_msg_task have finished their work.
MayExpire ==
    \/ "late" \in faults
    \/ /\ \/ ~fwUp
          \/ /\ fwInbox = NoCmd /\ fwOwes = <<>>
             /\ \A c \in Cmd : pc[c] \in {"idle", "wait", "poll", "end"}
       /\ ~fwAckIrq /\ e2a = <<>> /\ irqAck = NoCmd /\ taskPc = "idle"
       /\ msgSem = 0 \/ state = "DEINIT"

-----------------------------------------------------------------------------
(* aml_send_msg and cmd_mgr_queue, run by the caller                        *)

\* aml_send_msg frees the message and returns r; there is no command
Drop(c, r) ==
    /\ result' = [result EXCEPT ![c] = r]
    /\ pc' = [pc EXCEPT ![c] = "end"]
    /\ msgMem' = [msgMem EXCEPT ![c] = "freed"]
    /\ UNCHANGED cmdMem

\* aml_send_msg up to the call of cmd_mgr->queue.  It returns 0 on a bus error,
\* -EBUSY while the driver is suspended, the IPC is down (ipc_env == NULL,
\* AML_RECY_IPC_ONGOING) or the device is not started.  A failing kzalloc
\* (-ENOMEM) ends the call just as -EBUSY does and is not told apart from it.
SendMsg(c) ==
    /\ pc[c] = "idle"
    /\ \/ ~Pcie /\ "buserr" \in faults /\ Drop(c, "OK")
       \/ Drop(c, "EBUSY")
       \/ /\ state # "DEINIT"
          /\ pc' = [pc EXCEPT ![c] = "queue"]
          /\ msgMem' = [msgMem EXCEPT ![c] = "live"]
          /\ cmdMem' = [cmdMem EXCEPT ![c] = "live"]
          /\ UNCHANGED result
    /\ UNCHANGED <<mgrVars, req, flags, completion, cfmFrom, hostid, irqAck,
                   taskVars, fwVars, errs>>

\* The caller of a non-blocking command leaves aml_send_msg without touching it
Leave(c) == IF Blocking(c) THEN "return" ELSE "end"

\* The list has no room left
Full == queue_sz = MaxQueued

\* The manager refuses the command: crashed (-EPIPE) or full (-ENOMEM)
QueueRefuse(c) ==
    /\ pc[c] = "queue"
    /\ \/ state = "CRASHED" /\ result' = [result EXCEPT ![c] = "EPIPE"]
       \/ state = "INITED" /\ cmds # <<>> /\ Full
          /\ result' = [result EXCEPT ![c] = "ENOMEM"]
    /\ pc' = [pc EXCEPT ![c] = Leave(c)]
    /\ UNCHANGED <<mgrVars, req, flags, completion, cfmFrom, memVars, hostid,
                   irqAck, taskVars, fwVars, errs>>


\* The command behind which c would be queued still has to reach the firmware
\* (on PCIe, still has to be confirmed)
MustDefer ==
    /\ cmds # <<>>
    /\ LET last == flags[cmds[Len(cmds)]] IN
         \/ last \cap {"WAIT_ACK", "WAIT_PUSH"} # {}
         \/ Pcie /\ "WAIT_CFM" \in last

NotDeferredPc(c) == IF ~Pcie /\ req[c].thread THEN "thread" ELSE "push"

\* The locked part of cmd_mgr_queue for a command it accepts
QueueAccept(c) ==
    /\ pc[c] = "queue"
    /\ state = "INITED"
    /\ cmds = <<>> \/ ~Full
    /\ flags' = [flags EXCEPT ![c] =
           {"WAIT_ACK"} \cup (IF req[c].cfm # NoCfm THEN {"WAIT_CFM"} ELSE {})
                        \cup (IF MustDefer THEN {"WAIT_PUSH"} ELSE {})]
    /\ result' = [result EXCEPT ![c] = "EINTR"]
    /\ cmds' = Append(cmds, c)
    /\ queue_sz' = Inc(queue_sz)
    /\ pc' = [pc EXCEPT ![c] =
           IF ~MustDefer THEN NotDeferredPc(c)
           ELSE IF Blocking(c) THEN "wait" ELSE "end"]
    /\ UNCHANGED <<state, req, completion, cfmFrom, memVars, hostid, irqAck,
                   taskVars, fwVars, errs>>

\* aml_cmd_mgr_deinit has cleared cmd_mgr->queue between the checks of
\* aml_send_msg and the call: the thread jumps to NULL
QueueGone(c) ==
    /\ pc[c] = "queue"
    /\ state = "DEINIT"
    /\ errs' = errs \cup {<<"nullCall", c>>}
    /\ pc' = [pc EXCEPT ![c] = "oops"]
    /\ UNCHANGED <<mgrVars, cmdVars, memVars, hostid, irqAck, taskVars, fwVars>>

\* Outside the lock: leave the command to aml_msg_task
HandToTask(c) ==
    /\ pc[c] = "thread"
    /\ flags' = [flags EXCEPT ![c] = @ \cup {"WAIT_PUSH"}]
    /\ msgSem' = msgSem + 1
    /\ pc' = [pc EXCEPT ![c] = IF Blocking(c) THEN "wait" ELSE "end"]
    /\ errs' = errs \cup Touch(c)
    /\ UNCHANGED <<mgrVars, req, result, completion, cfmFrom, memVars, hostid,
                   irqAck, taskPc, taskCmd, fwVars>>

\* Outside the lock: aml_ipc_msg_push.  With the IPC gone, ipc_env is NULL and
\* its dereference faults.
Push(c) ==
    /\ pc[c] = "push"
    /\ IF state = "DEINIT"
       THEN /\ errs' = errs \cup Touch(c) \cup {<<"nullCall", c>>}
            /\ pc' = [pc EXCEPT ![c] = "oops"]
            /\ UNCHANGED <<hostid, fwVars>>
       ELSE /\ errs' = errs \cup Touch(c)
            /\ pc' = [pc EXCEPT ![c] = "freeMsg"]
            /\ Mailbox(c)
    /\ UNCHANGED <<mgrVars, cmdVars, memVars, irqAck, taskVars>>

\* Outside the lock: kfree(cmd->a2e_msg)
FreeMsg(c) ==
    /\ pc[c] = "freeMsg"
    /\ errs' = errs \cup Touch(c) \cup FreeMsgOf(c)
    /\ msgMem' = [msgMem EXCEPT ![c] = "freed"]
    /\ pc' = [pc EXCEPT ![c] = IF Blocking(c) THEN "wait" ELSE "end"]
    /\ UNCHANGED <<mgrVars, cmdVars, cmdMem, hostid, irqAck, taskVars, fwVars>>

\* wait_for_completion_killable_timeout returns: completed, killed or expired
WaitEnds(c) ==
    /\ pc[c] = "wait"
    /\ \/ completion[c] /\ pc' = [pc EXCEPT ![c] = "return"]
       \/ ~completion[c] /\ "kill" \in faults /\ pc' = [pc EXCEPT ![c] = "poll"]
       \/ ~completion[c] /\ MayExpire /\ pc' = [pc EXCEPT ![c] = "expired"]
    /\ errs' = errs \cup Touch(c)
    /\ UNCHANGED <<mgrVars, cmdVars, memVars, hostid, irqAck, taskVars, fwVars>>

\* A killed caller polls AML_CMD_FLAG_DONE without the lock until its budget ends
PollEnds(c) ==
    /\ pc[c] = "poll"
    /\ \/ "DONE" \in flags[c] /\ pc' = [pc EXCEPT ![c] = "return"]
       \/ "DONE" \notin flags[c] /\ MayExpire /\ pc' = [pc EXCEPT ![c] = "expired"]
    /\ errs' = errs \cup Touch(c)
    /\ UNCHANGED <<mgrVars, cmdVars, memVars, hostid, irqAck, taskVars, fwVars>>

\* cmd_mgr->state after a time-out.  What it writes to a manager that has been
\* torn down is read by nobody before aml_cmd_mgr_init overwrites it.
Crashed == IF state = "DEINIT" THEN state ELSE "CRASHED"

\* The locked part of the time-out: the manager crashes, the command is
\* completed, also when aml_cmd_mgr_deinit has drained it without setting DONE
Expire(c) ==
    /\ pc[c] = "expired"
    /\ state' = Crashed
    /\ IF "DONE" \in flags[c]
       THEN /\ errs' = errs \cup Touch(c)
            /\ UNCHANGED <<cmds, queue_sz, flags, result>>
       ELSE /\ Unlink(c)
            /\ flags' = [flags EXCEPT ![c] = @ \cup {"DONE"}]
            /\ result' = [result EXCEPT ![c] = "ETIMEDOUT"]
            /\ errs' = errs \cup Touch(c) \cup UnlinkErr(c)
    /\ pc' = [pc EXCEPT ![c] = "return"]
    /\ UNCHANGED <<req, completion, cfmFrom, memVars, hostid, irqAck, taskVars, fwVars>>

\* The same for a drained command when the kernel does not check its lists:
\* list_del writes through the poisoned links and faults, under cmd_mgr->lock
ExpireFaults(c) ==
    /\ pc[c] = "expired" /\ "DONE" \notin flags[c] /\ ~InList(c)
    /\ state' = Crashed
    /\ result' = [result EXCEPT ![c] = "ETIMEDOUT"]
    /\ errs' = errs \cup Touch(c) \cup UnlinkErr(c)
    /\ pc' = [pc EXCEPT ![c] = "oops"]
    /\ UNCHANGED <<cmds, queue_sz, req, flags, completion, cfmFrom, memVars,
                   hostid, irqAck, taskVars, fwVars>>

\* The end of aml_send_msg for a blocking command: kfree(cmd)
Return(c) ==
    /\ pc[c] = "return"
    /\ pc' = [pc EXCEPT ![c] = "end"]
    /\ cmdMem' = [cmdMem EXCEPT ![c] = "freed"]
    /\ errs' = errs \cup FreeCmd(c)
    /\ UNCHANGED <<mgrVars, cmdVars, msgMem, hostid, irqAck, taskVars, fwVars>>

-----------------------------------------------------------------------------
(* Interrupt context                                                       *)

\* ipc_*_host_msgack_handler: take the acknowledged command out of the mailbox
MsgAck ==
    /\ fwAckIrq /\ irqAck = NoCmd
    /\ fwAckIrq' = FALSE
    /\ irqAck' = hostid
    /\ hostid' = NoCmd
    /\ UNCHANGED <<mgrVars, cmdVars, memVars, pc, taskVars, fwUp, fwInbox,
                   fwOwes, e2a, errs>>

WaitComplete_AckOnly(f) == "WAIT_ACK" \notin f

\* AML_CMD_WAIT_COMPLETE: the command waits for nothing more
WaitComplete(f) == f \cap {"WAIT_ACK", "WAIT_CFM"} = {}

Finish_FreeAlways(c, f, others) ==
    /\ flags' = [others EXCEPT ![c] = f \cup {"DONE"}]
    /\ cmdMem' = [cmdMem EXCEPT ![c] = "freed"]
    /\ result' = [result EXCEPT ![c] = "OK"]
    /\ completion' = [completion EXCEPT ![c] = TRUE]

\* cmd_complete for a command that waits for nothing more; f is its final flags.
\* A caller that was killed polls DONE without the lock and may free the command
\* before cmd_complete has stored the result and signalled the completion.
Finish(c, f, others) ==
    /\ flags' = [others EXCEPT ![c] = f \cup {"DONE"}]
    /\ IF Blocking(c)
       THEN /\ result' = [result EXCEPT ![c] = "OK"]
            /\ completion' = [completion EXCEPT ![c] = TRUE]
            /\ UNCHANGED cmdMem
       ELSE /\ cmdMem' = [cmdMem EXCEPT ![c] = "freed"]
            /\ UNCHANGED <<result, completion>>

FinishErrs(c) ==
    {Touch(c)} \cup (IF Blocking(c) /\ pc[c] = "poll" THEN {{<<"useAfterFree", c>>}} ELSE {})

\* Push nxt from the interrupt, under the lock (PCIe)
PushNext(nxt) ==
    /\ Mailbox(nxt)
    /\ msgMem' = [msgMem EXCEPT ![nxt] = "freed"]

NextIdx_Last(c) ==
    LET W == { i \in DOMAIN cmds : cmds[i] # c /\ "WAIT_PUSH" \in flags[cmds[i]] }
    IN { i \in W : \A j \in W : j <= i }

\* The first command other than c that waits for its push, if it has any
WaitsPush(c) == { i \in DOMAIN cmds : cmds[i] # c /\ "WAIT_PUSH" \in flags[cmds[i]] }
NextIdx(c) == { i \in WaitsPush(c) : \A j \in WaitsPush(c) : i <= j }

\* The scan of cmd_mgr_llind meets c before it stops at a WAIT_PUSH command
AckFinds(c) == \E i \in DOMAIN cmds : cmds[i] = c /\ \A j \in NextIdx(c) : i < j

\* cmd_mgr_llind when the acknowledged command is not in the list
AckLost ==
    /\ irqAck # NoCmd /\ ~AckFinds(irqAck)
    /\ irqAck' = NoCmd
    /\ errs' = errs \cup Touch(irqAck)
    /\ msgSem' = IF ~Pcie /\ NextIdx(irqAck) # {} THEN msgSem + 1 ELSE msgSem
    /\ UNCHANGED <<mgrVars, cmdVars, memVars, pc, hostid, taskPc, taskCmd, fwVars>>

AckPartial_NoUp ==
    /\ irqAck # NoCmd /\ AckFinds(irqAck)
    /\ ~WaitComplete(flags[irqAck] \ {"WAIT_ACK"})
    /\ flags' = [flags EXCEPT ![irqAck] = @ \ {"WAIT_ACK"}]
    /\ irqAck' = NoCmd
    /\ errs' = errs \cup Touch(irqAck)
    /\ UNCHANGED <<mgrVars, req, result, completion, cfmFrom, memVars, pc, hostid,
                   taskVars, fwVars>>

\* cmd_mgr_llind when a confirmation is still missing
AckPartial ==
    /\ irqAck # NoCmd /\ AckFinds(irqAck)
    /\ ~WaitComplete(flags[irqAck] \ {"WAIT_ACK"})
    /\ flags' = [flags EXCEPT ![irqAck] = @ \ {"WAIT_ACK"}]
    /\ irqAck' = NoCmd
    /\ errs' = errs \cup Touch(irqAck)
    /\ msgSem' = IF ~Pcie /\ NextIdx(irqAck) # {} THEN msgSem + 1 ELSE msgSem
    /\ UNCHANGED <<mgrVars, req, result, completion, cfmFrom, memVars, pc, hostid,
                   taskPc, taskCmd, fwVars>>

\* cmd_mgr_llind when the acknowledgement completes the command
AckLast ==
    /\ irqAck # NoCmd /\ AckFinds(irqAck)
    /\ WaitComplete(flags[irqAck] \ {"WAIT_ACK"})
    /\ Unlink(irqAck)
    /\ irqAck' = NoCmd
    /\ \E e \in FinishErrs(irqAck) : errs' = errs \cup e
    /\ IF Pcie
       THEN /\ UNCHANGED msgSem
            /\ \/ \E i \in NextIdx(irqAck) :
                    /\ Finish(irqAck, flags[irqAck] \ {"WAIT_ACK"},
                              [flags EXCEPT ![cmds[i]] = @ \ {"WAIT_PUSH"}])
                    /\ PushNext(cmds[i])
               \/ /\ NextIdx(irqAck) = {}
                  /\ Finish(irqAck, flags[irqAck] \ {"WAIT_ACK"}, flags)
                  /\ UNCHANGED <<msgMem, hostid, fwVars>>
       ELSE /\ Finish(irqAck, flags[irqAck] \ {"WAIT_ACK"}, flags)
            /\ msgSem' = IF NextIdx(irqAck) # {} THEN msgSem + 1 ELSE msgSem
            /\ UNCHANGED <<msgMem, hostid, fwVars>>
    /\ UNCHANGED <<state, req, cfmFrom, pc, taskPc, taskCmd>>

\* The command cmd_mgr_msgind credits with a confirmation of identifier id:
\* the first one that waits for it, whichever the confirmation was meant for
CfmMatches(id) ==
    { i \in DOMAIN cmds : /\ req[cmds[i]].cfm = id
                          /\ "WAIT_CFM" \in flags[cmds[i]] }
CfmIdx(id) == { i \in CfmMatches(id) : \A j \in CfmMatches(id) : i <= j }

\* cmd_mgr_msgind when no command waits for the confirmation
CfmLost ==
    /\ e2a # <<>> /\ irqAck = NoCmd
    /\ CfmIdx(req[Head(e2a)].cfm) = {}
    /\ e2a' = Tail(e2a)
    /\ UNCHANGED <<mgrVars, cmdVars, memVars, pc, hostid, irqAck, taskVars,
                   fwUp, fwInbox, fwAckIrq, fwOwes, errs>>

\* cmd_mgr_msgind when the acknowledgement is still missing
CfmPartial ==
    /\ e2a # <<>> /\ irqAck = NoCmd
    /\ \E i \in CfmIdx(req[Head(e2a)].cfm) :
         /\ ~WaitComplete(flags[cmds[i]] \ {"WAIT_CFM"})
         /\ flags' = [flags EXCEPT ![cmds[i]] = @ \ {"WAIT_CFM"}]
         /\ cfmFrom' = [cfmFrom EXCEPT ![cmds[i]] = Head(e2a)]
         /\ errs' = errs \cup Touch(cmds[i])
    /\ e2a' = Tail(e2a)
    /\ UNCHANGED <<mgrVars, req, result, completion, memVars, pc, hostid, irqAck,
                   taskVars, fwUp, fwInbox, fwAckIrq, fwOwes>>

\* Its successor, when the confirmation of the i-th command lets it be pushed
CfmPushes(i) ==
    { k \in DOMAIN cmds : Pcie /\ k = i + 1 /\ "WAIT_PUSH" \in flags[cmds[k]] }

\* cmd_mgr_msgind when the confirmation completes the command
CfmLast ==
    /\ e2a # <<>> /\ irqAck = NoCmd
    /\ \E i \in CfmIdx(req[Head(e2a)].cfm) :
         LET c == cmds[i] IN
         /\ WaitComplete(flags[c] \ {"WAIT_CFM"})
         /\ cfmFrom' = [cfmFrom EXCEPT ![c] = Head(e2a)]
         /\ cmds' = ListDel(cmds, i)
         /\ queue_sz' = Dec(queue_sz)
         /\ \E e \in FinishErrs(c) : errs' = errs \cup e
         /\ \/ \E k \in CfmPushes(i) :
                 /\ Finish(c, flags[c] \ {"WAIT_CFM"},
                           [flags EXCEPT ![cmds[k]] = @ \ {"WAIT_PUSH"}])
                 /\ msgMem' = [msgMem EXCEPT ![cmds[k]] = "freed"]
                 /\ hostid' = cmds[k]
                 /\ fwInbox' = cmds[k]
                 /\ fwOwes' = IF req[cmds[k]].cfm = NoCfm THEN fwOwes
                              ELSE Append(fwOwes, cmds[k])
            \/ /\ CfmPushes(i) = {}
               /\ Finish(c, flags[c] \ {"WAIT_CFM"}, flags)
               /\ UNCHANGED <<msgMem, hostid, fwInbox, fwOwes>>
    /\ e2a' = Tail(e2a)
    /\ UNCHANGED <<state, req, pc, irqAck, taskVars, fwUp, fwAckIrq>>

-----------------------------------------------------------------------------
(* aml_msg_task (SDIO and USB)                                             *)

FirstWaitPush == NextIdx(NoCmd)

\* down(aml_msg_sem) and the locked search for the first WAIT_PUSH command.
\* When there is none the loop variable is left pointing at the list head, and
\* the test cmd != NULL does not notice.
TaskPick ==
    /\ taskPc = "idle" /\ msgSem > 0 /\ state # "DEINIT"
    /\ msgSem' = msgSem - 1
    /\ \/ \E i \in FirstWaitPush :
            taskCmd' = cmds[i] /\ taskPc' = "push" /\ UNCHANGED errs
       \/ /\ FirstWaitPush = {}
          /\ errs' = errs \cup {<<"bogusPush", NoCmd>>}
          /\ UNCHANGED <<taskCmd, taskPc>>
    /\ UNCHANGED <<mgrVars, cmdVars, memVars, pc, hostid, irqAck, fwVars>>

\* Outside the lock: clear WAIT_PUSH and push
TaskPush ==
    /\ taskPc = "push"
    /\ flags' = [flags EXCEPT ![taskCmd] = @ \ {"WAIT_PUSH"}]
    /\ Mailbox(taskCmd)
    /\ errs' = errs \cup Touch(taskCmd)
    /\ taskPc' = "free"
    /\ UNCHANGED <<mgrVars, req, result, completion, cfmFrom, memVars, pc, irqAck,
                   msgSem, taskCmd>>

\* Outside the lock: kfree(cmd->a2e_msg)
TaskFree ==
    /\ taskPc = "free"
    /\ errs' = errs \cup Touch(taskCmd) \cup FreeMsgOf(taskCmd)
    /\ msgMem' = [msgMem EXCEPT ![taskCmd] = "freed"]
    /\ taskPc' = "idle"
    /\ taskCmd' = NoCmd
    /\ UNCHANGED <<mgrVars, cmdVars, cmdMem, pc, hostid, irqAck, msgSem, fwVars>>

-----------------------------------------------------------------------------
(* Firmware (external)                                                     *)

\* It takes the message out of the mailbox and raises the acknowledgement
FwAck ==
    /\ fwUp /\ fwInbox # NoCmd
    /\ fwInbox' = NoCmd
    /\ fwAckIrq' = TRUE
    /\ UNCHANGED <<mgrVars, cmdVars, memVars, pc, hostid, irqAck, taskVars,
                   fwUp, fwOwes, e2a, errs>>

\* It confirms a command, before or after acknowledging it; commands of one
\* identifier are confirmed in the order they were sent
FwConfirm ==
    /\ fwUp
    /\ \E i \in DOMAIN fwOwes :
         /\ \A j \in 1..(i - 1) : req[fwOwes[j]].cfm # req[fwOwes[i]].cfm
         /\ e2a' = Append(e2a, fwOwes[i])
         /\ fwOwes' = ListDel(fwOwes, i)
    /\ UNCHANGED <<mgrVars, cmdVars, memVars, pc, hostid, irqAck, taskVars,
                   fwUp, fwInbox, fwAckIrq, errs>>

\* It falls silent
FwStop ==
    /\ "silent" \in faults /\ fwUp
    /\ fwUp' = FALSE
    /\ UNCHANGED <<mgrVars, cmdVars, memVars, pc, hostid, irqAck, taskVars,
                   fwInbox, fwAckIrq, fwOwes, e2a, errs>>

-----------------------------------------------------------------------------
(* Bringing the IPC down and up                                            *)

\* aml_platform_off: interrupts and threads are stopped, then aml_cmd_mgr_deinit
\* drains the list.  A module removal finds no call in progress; a recovery
\* ("reload") may.
IpcDeinit ==
    /\ state # "DEINIT"
    /\ irqAck = NoCmd /\ taskPc = "idle"
    /\ "reload" \in faults \/ \A c \in Cmd : pc[c] \in {"idle", "end"}
    /\ state' = "DEINIT"
    /\ cmds' = <<>>
    /\ queue_sz' = 0
    /\ completion' = [c \in Cmd |-> completion[c] \/ (InList(c) /\ Blocking(c))]
    /\ cmdMem' = [c \in Cmd |-> IF InList(c) /\ "WAIT_PUSH" \in flags[c]
                                THEN "freed" ELSE cmdMem[c]]
    /\ msgMem' = [c \in Cmd |-> IF InList(c) /\ "WAIT_PUSH" \in flags[c]
                                THEN "freed" ELSE msgMem[c]]
    /\ hostid' = NoCmd
    /\ fwUp' = FALSE /\ fwInbox' = NoCmd /\ fwAckIrq' = FALSE
    /\ fwOwes' = <<>> /\ e2a' = <<>>
    /\ UNCHANGED <<req, flags, result, cfmFrom, pc, irqAck, taskVars, errs>>

\* aml_platform_on: aml_ipc_init calls aml_cmd_mgr_init, the firmware is loaded,
\* and aml_msg_task starts on a fresh semaphore
IpcInit ==
    /\ state = "DEINIT"
    /\ state' = "INITED"
    /\ fwUp' = TRUE
    /\ msgSem' = 0
    /\ UNCHANGED <<cmds, queue_sz, cmdVars, memVars, pc, hostid, irqAck, taskPc, taskCmd,
                   fwInbox, fwAckIrq, fwOwes, e2a, errs>>

-----------------------------------------------------------------------------
Init ==
    /\ state = "INITED" /\ cmds = <<>> /\ queue_sz = 0
    /\ req \in [Cmd -> Requests]
    /\ flags = [c \in Cmd |-> {}]
    /\ result = [c \in Cmd |-> "EINTR"]
    /\ completion = [c \in Cmd |-> FALSE]
    /\ cfmFrom = [c \in Cmd |-> NoCmd]
    /\ cmdMem = [c \in Cmd |-> "none"]
    /\ msgMem = [c \in Cmd |-> "none"]
    /\ pc = [c \in Cmd |-> "idle"]
    /\ hostid = NoCmd /\ irqAck = NoCmd
    /\ msgSem = 0 /\ taskPc = "idle" /\ taskCmd = NoCmd
    /\ fwUp = TRUE /\ fwInbox = NoCmd /\ fwAckIrq = FALSE
    /\ fwOwes = <<>> /\ e2a = <<>>
    /\ errs = {}
    /\ bus \in Buses /\ faults \in FaultSets

\* An oops stops the host: kernels panic on it, and one that does not leaves
\* the thread dead, in ExpireFaults with cmd_mgr->lock held.
Oopsed == \E c \in Cmd : pc[c] = "oops"

\* What the thread inside aml_send_msg does next
CallStep(c) ==
    /\ ~Oopsed
    /\ \/ QueueRefuse(c) \/ QueueAccept(c) \/ QueueGone(c)
       \/ HandToTask(c) \/ Push(c) \/ FreeMsg(c)
       \/ WaitEnds(c) \/ PollEnds(c) \/ Expire(c) \/ ExpireFaults(c) \/ Return(c)

IrqStep ==
    /\ ~Oopsed
    /\ \/ MsgAck \/ AckLost \/ AckPartial \/ AckLast
       \/ CfmLost \/ CfmPartial \/ CfmLast

TaskStep == ~Oopsed /\ (TaskPick \/ TaskPush \/ TaskFree)

Step ==
    \/ \E c \in Cmd : (~Oopsed /\ SendMsg(c)) \/ CallStep(c)
    \/ IrqStep
    \/ TaskStep
    \/ FwAck \/ FwConfirm \/ FwStop
    \/ ~Oopsed /\ (IpcDeinit \/ IpcInit)

Next == Step /\ UNCHANGED conf

Spec == Init /\ [][Next]_<<vars, conf>>

\* Threads that can run do run, pending interrupts are handled, and a firmware
\* that is up empties its mailbox and answers what it owes.
Fairness ==
    /\ \A c \in Cmd : WF_vars(CallStep(c))
    /\ WF_vars(IrqStep) /\ WF_vars(TaskStep)
    /\ WF_vars(FwAck) /\ WF_vars(FwConfirm)

FairSpec == Spec /\ Fairness

-----------------------------------------------------------------------------
(* Properties                                                              *)

MgrType ==
    /\ state \in States
    /\ cmds \in Seq(Cmd)
    /\ queue_sz \in 0..(Wrap - 1)

CmdType ==
    /\ req \in [Cmd -> Requests]
    /\ flags \in [Cmd -> SUBSET Flag]
    /\ result \in [Cmd -> Result]
    /\ completion \in [Cmd -> BOOLEAN]
    /\ cfmFrom \in [Cmd -> Cmd \cup {NoCmd}]
    /\ cmdMem \in [Cmd -> Mem]
    /\ msgMem \in [Cmd -> Mem]

ControlType ==
    /\ pc \in [Cmd -> CallPc]
    /\ hostid \in Cmd \cup {NoCmd}
    /\ irqAck \in Cmd \cup {NoCmd}
    /\ msgSem \in Nat
    /\ taskPc \in {"idle", "push", "free"}
    /\ taskCmd \in Cmd \cup {NoCmd}
    /\ errs \subseteq Err

FwType ==
    /\ fwUp \in BOOLEAN
    /\ fwInbox \in Cmd \cup {NoCmd}
    /\ fwAckIrq \in BOOLEAN
    /\ fwOwes \in Seq(Cmd)
    /\ e2a \in Seq(Cmd)

\* The variables keep their types.
TypeOK == MgrType /\ CmdType /\ ControlType /\ FwType

\* A command that a tear-down had drained was unlinked again.
DoubleRemoved == \E c \in Cmd : <<"doubleRemove", c>> \in errs

\* The list holds a command once, cmd_mgr->queue_sz is its length and
\* AML_CMD_MAX_QUEUED bounds it, until the time-out of a call unlinks a command
\* that a tear-down under way had drained; without such a tear-down nothing is
\* unlinked twice (cmd_mgr_queue, cmd_complete, cmd_mgr_drain).
QueueAccounting ==
    /\ \A i, j \in DOMAIN cmds : cmds[i] = cmds[j] => i = j
    /\ \/ queue_sz = Len(cmds) /\ queue_sz <= MaxQueued /\ ~DoubleRemoved
       \/ "reload" \in faults /\ DoubleRemoved

\* c is accepted and its message is not in the mailbox yet.
Unsent(c) == "WAIT_PUSH" \in flags[c] \/ pc[c] \in {"push", "thread"}

\* The call met the bus error at its start: no command was made for its message
LostToBus(c) == ~Pcie /\ cmdMem[c] = "none"

\* A call that made a command returns success only when the firmware
\* acknowledged it, and when its own confirmation, not that of another command
\* with the same reqid, filled the caller's buffer (cmd_mgr_llind,
\* cmd_mgr_msgind, cmd_complete).  The one success that says nothing is that of
\* a call that made none because of a bus error (aml_send_msg).
ResultTruthful ==
    \A c \in Cmd : result[c] = "OK" =>
        \/ LostToBus(c)
        \/ /\ "WAIT_ACK" \notin flags[c]
           /\ req[c].cfm # NoCfm => cfmFrom[c] = c

\* On PCIe the command of a blocking call is never touched after it is freed,
\* freed twice or unlinked twice, also when the call times out.
MemorySafe == Pcie => \A e \in errs : e[2] \in Cmd /\ ~Blocking(e[2])

\* The accepted commands that are not sent, behind the last one that is
Waiting ==
    LET n == CHOOSE n \in 0..Len(cmds) :
                 /\ \A i \in DOMAIN cmds : i > n => Unsent(cmds[i])
                 /\ n > 0 => ~Unsent(cmds[n])
    IN  SubSeq(cmds, n + 1, Len(cmds))

Channel == INSTANCE MsgChannel WITH waiting <- Waiting, slot <- hostid

\* The manager and the mailbox hand commands to the firmware one at a time, in
\* the order they were accepted (cmd_mgr_queue, cmd_mgr_llind, cmd_mgr_msgind,
\* aml_msg_task).
ImplementsMsgChannel == Channel!Spec

\* A call that reached cmd_mgr_queue returns to its caller, unless the IPC is
\* torn down under the calls in progress and one of them faults.
CallReturns ==
    \A c \in Cmd :
        pc[c] = "queue" ~> (pc[c] = "end" \/ ("reload" \in faults /\ Oopsed))

\* A deferred command is pushed, before its call times out: no wake-up of
\* aml_msg_task and no push from the interrupt is lost.  With faults it may wait
\* for the next call or for a recovery.
DeferredIsPushed ==
    faults = {} =>
        \A c \in Cmd : (InList(c) /\ "WAIT_PUSH" \in flags[c])
                           ~> ("WAIT_PUSH" \notin flags[c] \/ state = "DEINIT")

\* The thread in cmd_mgr_queue that still has to push a command, or to free its
\* message through cmd->a2e_msg, has a live command: aml_cmds.c:205, "Prevent
\* critical resources kfree by msg ack hw irq, Using local variables".
PusherSafeFromAck ==
    \A c \in Cmd : pc[c] \in {"push", "thread", "freeMsg"} => cmdMem[c] = "live"
=============================================================================
