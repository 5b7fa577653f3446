# Verification of the w2l Wi-Fi driver (amlogic wifi_comm)

This directory holds TLA+ models of the Linux driver in `src/w2l/aml_drv`, the
TLC configurations that check them and TLAPS proofs about them. The firmware,
which the repository ships as a binary image, is an external actor: it is
modelled from what the driver expects of it.

Paths below are relative to `src/w2l/aml_drv`.

## 1. Inventory

| Component | State | Operations | Talks to | What is hard | What must hold |
|---|---|---|---|---|---|
| Command manager (`aml_cmds.c`, `aml_send_msg`) | command list, `queue_sz`, manager state, flags of each command | queue, push, acknowledge, confirm, time out, drain | every caller of the driver, IPC, recovery | four actors share the list; commands are freed by three of them | one message in the mailbox, FIFO order, truthful results, every call returns, exact accounting |
| IPC host (`ipc_host.c`, `aml_utils.c`, `aml_irqs.c`, `aml_task.c`) | message mailbox, host-id pool, confirmation ring, descriptor rings | push a message, hand out and take back a host id, read confirmations and events | all of the above and below | ids travel through the firmware and come back late, twice or after a restart | an id names one frame at a time, an old confirmation releases nothing |
| Transmit queues (`aml_txq.c`) | one queue per station and TID, credits, stop reasons, hardware-queue lists | queue, get credits, stop and start for a reason, flow control, move, delete | `fullmac/aml_tx.c`, traffic and power-save indications | credits move by confirmations, deletion races with confirmations | a queue is on the list exactly when it may send, credits never leak |
| Transmit path (`fullmac/aml_tx.c`) | list of frames waiting for the SDIO task, page counters, pending count | start_xmit, transmit task, confirm, drain | transmit queues, bus | three tasks move the same counters while the memory changes hands | pages are accounted for, every frame is sent, a stop is answered |
| Receive path (`fullmac/aml_rx.c`, `aml_rps.c`) | receive ring and its length, two buffers, frames held for reordering, deferred list | read the ring, walk a buffer, hold, release | IPC, network stack, the pages of the transmit path | the ring changes its length while it is read; ids begin again after 4096 | each packet once, in order, whole; nothing is held for ever |
| Recovery (`aml_recy.c`) and work queue (`aml_wq.c`) | flag word, detection timer, work list, interface table | detect, post, reset, reload, restart | command manager, platform, interfaces | the flags are an unlocked word; interfaces are opened and closed meanwhile | trouble is handled, recoveries and interface operations exclude each other |
| TCP acknowledgement filter (`aml_tcp_ack.c`) | sessions, timers, drop counters | classify, hold, replace, send on time-out | transmit path | timer against transmit, sessions that change hands | the newest acknowledgement is never lost |
| Cfg80211 operations (`fullmac/aml_main.c`), P2P (`aml_p2p.c`) | interfaces, stations, scan request, remain-on-channel, channel contexts | scan, connect, ROC, add and delete stations | cfg80211, command manager, indications of `aml_msg_rx.c` | completion arrives as an indication, abort and down race with it | each request is completed exactly once |
| TDLS (`fullmac/aml_tdls.c`) | link status of the one peer | setup, enable, disable, teardown | cfg80211 | failures half way | status agrees with the installed station |
| Radar (`aml_radar.c`) | CAC interface, channel state, pulses | start, stop, finish CAC, report | channel contexts | delayed work against stop | a channel is used only after its CAC |
| MU-MIMO groups (`aml_mu_group.c`, not built) | group table, LRU list, update count | allocate, update, remove station | transmit queues | updates are confirmed asynchronously | memberships agree in both directions |
| Same-channel concurrency (`aml_scc.c`) | saved beacons, switch state | check, save, restart | channel contexts | | |
| Platform (`aml_platform.c`), bus drivers (`aml_bus/`) | firmware state, suspend flags | load, on, off, suspend, resume | all | suspend against traffic | |
| Trace, dump, debugfs, iwpriv, parameters | counters and text | read, write | | | |

## 2. Modules and plan

| Module | Models | Uses |
|---|---|---|
| `CmdMgr` | the command manager (section 3) | |
| `MsgChannel` | what it promises: one slot, first in first out | refined by `CmdMgr` |
| `Txq` | transmit queues and credits (section 4) | |
| `SdioTx` | the tasks between the queues and an SDIO or USB bus (section 5) | `DynBuf` |
| `RxBuf` | the receive ring of the SDIO bus and reordering (section 6) | `DynBuf`, `Reorder` |
| `DynBuf` | the memory that both share, and its exchange | |
| `Reorder` | `reorder_list` | |
| `RxChannel` | what the receive ring promises: each packet once and in order | refined by `RxBuf` |
| `Recovery` | recovery, detection, work queue, interface operations (section 7) | |
| `TcpAck` | the filter of TCP acknowledgements (section 8) | |
| `OffChan` | scans, remain-on-channel and off-channel frames (section 9) | |
| `MC...` | the instances for TLC | |
| `..._proofs` | the theorems (section 11) | |

Every module follows one pattern: constants for the objects, the features of the
environment chosen by `Init`, one action per critical section or per access made
outside one, invariants in named parts, no RECURSIVE operator. A definition named
`D_Variant` is `D` with a plausible mistake; it is used only to see that a property
notices the mistake. A run is added only for a question no other run answers; the
choice of bus, features and faults is part of the initial state, so that one run
covers several configurations.

What comes next, in order: channel contexts with radar and same-channel concurrency,
on top of `OffChan`; the abort of scans and remain-on-channel by a recovery; TDLS; suspend and resume against traffic. Theorems next in line: that a
host id has one owner, and the counters of service periods (`SpCountExact`).

## 3. The command manager: `CmdMgr`, `MsgChannel`, `MCCmdMgr`

A call of `aml_send_msg` allocates one `struct aml_cmd`; the constant `Cmd` is the
set of calls, each made once. The variables are the fields of `struct aml_cmd_mgr`
(`state`, `cmds`, `queue_sz`) and of each `struct aml_cmd` (`flags`, `result`,
`completion`), the heap state of the command and of its message (`cmdMem`,
`msgMem`), the program location of each call (`pc`), the mailbox owner
`ipc_env->msga2e_hostid` (`hostid`), the interrupt in progress (`irqAck`),
`aml_msg_task` and its semaphore, and the firmware. `Wrap` is 2^32, where the `u32`
`queue_sz` wraps (`Inc`, `Dec`). Two histories support the properties: `cfmFrom` (whose confirmation a command was credited with) and `errs`
(illegal memory operations, each with the command it met).

| Action | Code |
|---|---|
| `SendMsg` | `aml_send_msg` up to `cmd_mgr->queue`, with the exits before it: 0 on a bus error, `-EBUSY` while suspended or the IPC is down |
| `QueueRefuse`, `QueueAccept` | the critical section of `cmd_mgr_queue`: crashed or full, and accepted, with the choice to defer |
| `QueueGone` | the call through a function pointer that `aml_cmd_mgr_deinit` has cleared: an oops |
| `HandToTask`, `Push`, `FreeMsg` | what `cmd_mgr_queue` does after the lock: wake `aml_msg_task`, or push and free the message |
| `WaitEnds`, `PollEnds`, `Expire`, `ExpireFaults`, `Return` | the killable wait, the poll of a killed caller, the time-out, the time-out of a drained command whose poisoned links fault, the release of the command |
| `MsgAck`, `AckLost`, `AckPartial`, `AckLast` | the acknowledgement handlers of `ipc_host.c` and `cmd_mgr_llind`, by what the acknowledged command still waits for |
| `CfmLost`, `CfmPartial`, `CfmLast` | `cmd_mgr_msgind`, in the same three cases |
| `TaskPick`, `TaskPush`, `TaskFree` | the loop of `aml_msg_task` |
| `FwAck`, `FwConfirm`, `FwStop` | the firmware (external) |
| `IpcDeinit`, `IpcInit` | `cmd_mgr_drain` with `aml_cmd_mgr_deinit`, and `aml_cmd_mgr_init` |

An action is one critical section of `cmd_mgr->lock`, or one access to a shared
object made outside it: the code reads `cmd` and frees `cmd->a2e_msg` after it has
released the lock, and other actors step in between. `bus` distinguishes PCIe,
where the interrupt pushes the next command under the lock, from SDIO and USB,
where `aml_msg_task` does. `faults` says what may go wrong in a behaviour:
`silent` (the firmware stops answering), `late` (an answer may come after the
time-out), `kill` (a caller is killed while it waits), `reload` (the IPC is taken
down and brought up while calls are in progress), `buserr` (`bus_err` is found set).
Without `late` a wait expires
only when nothing else can happen any more, because the firmware has fallen silent
or has answered everything and every thread has come to rest, the reading the
driver's time-outs intend; with it, at any moment.

`cmd_complete` unlinks a command and decrements `queue_sz` without a look at whether it
is listed (`Unlink`). One that a drain has unlinked has poisoned links: a kernel that
checks its lists leaves them alone and the counter wraps (`Expire`), another
faults in `list_del` (`ExpireFaults`). `errs` records either as `doubleRemove`. A fault
stops the host (`Oopsed`): kernels are built to panic on it, and where they are not the
thread is dead, in `ExpireFaults` with `cmd_mgr->lock` held.

Contents of messages are abstracted to the identifier of the confirmation they
expect and to the three ways of sending them (blocking, non-blocking, through
`aml_msg_task`). `cmd_mgr_print` and the logging of a crash are left out.

`MsgChannel` is what the manager promises to the rest of the driver: a queue of
messages and one slot, filled from the head of the queue and emptied by the
reader. `CmdMgr` instantiates it with `Waiting`, the commands of the list behind the last
one that was sent, and with `hostid`; `ImplementsMsgChannel` is the refinement.

### Runs

| Run | Bounds | What it shows |
|---|---|---|
| `CmdMgr_safe` | 3 calls of every kind, list of 2, both buses, silent firmware and bus errors | the channel is implemented: nothing in the mailbox is overwritten and messages are sent in the order they were accepted; success only for one's own confirmation, or for no command at all on a bus error; on PCIe blocking calls never touch freed memory |
| `CmdMgr_faults` | 2 calls of the two kinds that differ in how they are pushed, both buses: no fault; silence with killed callers; all five faults together; `queue_sz` modulo 4 | types survive; the accounting does until a drained command is unlinked again; every call returns or a tear-down under it makes one fault; without faults no wake-up and no push is lost |
| `CmdMgr_ack_race` (violated) | 2 non-blocking calls, both buses, no fault | `cmd_mgr_queue` frees the message through a command that the acknowledgement has freed |

Three calls are one that is sent, one that is deferred and one that is refused or
deferred behind the second; a list of two makes the bound bite. A fourth call
repeats the position of the third: the code looks only at the last command, the
first that waits, the acknowledged one and its neighbour.

### Disagreements with the documentation

One is a run: `cmd_mgr_queue` reads `cmd->a2e_msg` and frees it (`aml_cmds.c:216`, `:217`)
after the push and outside the lock, when the acknowledgement may have freed a
non-blocking command, although the comment at `aml_cmds.c:205` announces local variables
against just that. (`aml_msg_task` does the same at line 115, where a blocking command
may be freed by its caller.) More were met and have no run of their own:

- `cmd_mgr_drain` (`aml_cmds.c:453`) unlinks a command without setting
  `AML_CMD_FLAG_DONE`. A call that was killed, or that is on its way out of a time-out,
  then unlinks it again (`aml_cmds.c:56`) and decrements a `queue_sz` of 0, after which a
  list that is not empty counts as full only at another length. `QueueAccounting` says that
  only a tear-down under a call brings this about.
- After a bus error `aml_send_msg` frees the message and returns 0 (`aml_msg_tx.c:413`): its
  caller takes a buffer that nobody filled for the answer. `ResultTruthful` makes this
  the one exception.
- `aml_cmd_mgr_deinit` clears `cmd_mgr->queue`, and the IPC is freed, while a caller may be
  between the checks of `aml_send_msg` and its use of them (`QueueGone`, `Push`): an oops.
- `cmd_mgr_queue` returns `-ENOMEM` and `-EPIPE` (`aml_cmds.c:172`) without freeing the
  message, although `aml_msg_tx.c:351` says that it will be freed in `aml_send_msg` or
  `cmd_complete`.
- `cmd_mgr_drain` drops a pushed non-blocking command without freeing it
  (`aml_cmds.c:453`; `aml_msg_tx.c:496` says it will be freed in `cmd_complete`).
- A caller that was killed polls `AML_CMD_FLAG_DONE` without the lock and may free
  the command while `cmd_complete` still writes to it; the model records this as a
  memory error (`FinishErrs`).
- When no command waits, the loop variable of `aml_msg_task` points at the list head
  and the test `cmd != NULL` lets it through (`TaskPick`, `bogusPush`).

## 4. The transmit queues: `Txq`, `MCTxq`

`Txq` models `aml_txq.c` with the parts of `fullmac/aml_tx.c` that drive it. The
constants give the queues, their stations, their power-save kind and order of
priority; `txq` holds the fields of each `struct aml_txq` (status bits, credits,
`pkt_sent`, `pkt_pushed`, the list of frames, `nb_retry`, `last_retry_skb`,
`push_limit`), `hwList` and `hwqCredits` those of the hardware queue, `ps` the
`struct aml_sta_ps` of each station, `where` the place of each frame. The firmware
is `cfms`, `ba` (the credits of an agreement) and `owed` (credits it has not yet
returned). Widths matter here and are kept: credits are an `s8`, the two counters
`u8`, `sp_cnt`, `pkt_ready` and `txq_len` `u16`.

| Action | Code |
|---|---|
| `Xmit` | `aml_start_xmit` from the choice of the queue on: `aml_txq_queue_skb`, flow control, and `aml_hwq_process` when the queue may send |
| `VisitTxq` | one iteration of `aml_hwq_process`: `aml_txq_get_skb_to_push`, `aml_tx_push`, rotation of the list, end of a legacy service period, restart of the netdev queue |
| `Irq`, `IrqProcess` | the interrupt task, with `aml_hwq_process_all` at its end |
| `Confirm` | `aml_txdatacfm` (PCIe) and one iteration of `aml_tx_cfm_task` (SDIO, USB): credits, `aml_tx_retry`, continuation of a service period |
| `ChanSwitch` | `aml_txq_vif_stop` and `aml_txq_vif_start` |
| `PsOn`, `PsOff`, `TrafficReq`, `SpInterrupted` | `aml_ps_bh_enable`, `aml_ps_bh_traffic_req` |
| `CreditUpdate` | `aml_txq_credit_update` |
| `CleanupTimer`, `TailRead`, `TailWrite` | `aml_txq_drop_old_traffic` and its unlocked end |
| `StaDel`, `TxqDeinit`, `StaAdd` | a station leaves, its queues are flushed, its index is used again |
| `FwConfirm` | the firmware (external) confirms or postpones a frame |

Everything but the end of the clean-up timer runs under `tx_lock`. The two loops that
hold it over several queues or frames are taken one iteration at a time, and `lock`
says which of them holds it; the invariants that need the loop's end say so.

`features` selects the part of the environment that is active: `retry` (postponed
frames), `ba` (agreements), `chan` (channel switches), `ps` (power save), `interrupt`
(of service periods), `timer` (the clean-up timer), `race` (others step into its
unlocked end), `delete` (stations leave). They are combined as far as the state
space allows, and kept apart where the code is known to break a property: section
"Disagreements" names each such combination.

Assumptions on the environment: each queue has a netdev queue of its own; the
firmware announces power save only when it changes; it postpones a frame at most
once; it releases the frames of a station before its index is used again; without
`race` the unlocked end of the timer is undisturbed. Left out: A-MSDU, although
`fullmac/Makefile` builds it by default (a frame here stands for a whole A-MSDU; that a
new subframe may join the last queued one, `fullmac/aml_tx.c:1570`, and that one may be
dismantled, `:1066`, is not modelled), MU-MIMO (not built), the choice among several hardware queues, the queues of unknown,
off-channel and TDLS peers, traffic indications, suspend.

### Runs

| Run | Bounds | What it shows |
|---|---|---|
| `Txq_traffic` | 2 stations with a queue each, 3 frames, 2 credits, both buses; postponed frames with channel switches, agreements of 1 and 3 credits with channel switches, postponed frames with departures and the timer | the schedule agrees with the status bits and with who can send; nobody ready is parked; the credits of the hardware queue are conserved, also across departures; the window of a queue is kept; retry frames stay a prefix; first pushes are in order |
| `Txq_sleep` | a U-APSD station and the broadcast station, SDIO, the timer with interrupted periods or with the race | the counter of buffered frames and the flow control stay right |
| `Txq_live` | PCIe, 1 credit for two queues of a station, 3 frames; postponed frames with channel switches, agreements, or a sleeping station with 2 U-APSD queues and postponed frames | every queued frame reaches the firmware; the counters of service periods agree with the limits of the queues; service periods end |

Three frames with two credits make every limit bite (queue full, hardware queue
full, netdev queue stopped with `FlowStop` = 1, one postponed frame between two
others); the agreement of three credits meets the clamp to the size of the
hardware queue.

### Disagreements with the documentation

These were met while the properties were written; each is why some property
excludes a feature or a bus.

- `aml_tx.c:2177`: on SDIO and USB the task that gives credits back does not call
  `aml_hwq_process`, as the PCIe handler does: a queued frame may stay although the
  credits are there, until an unrelated event (`QueuedIsPushed` is checked for PCIe).
- `aml_tx.c:257`: a queue offers its credits to a service period as a `u16`; after a
  negative credit update that is a huge number, and the period never ends.
- `aml_txq.c:1794`: a legacy service period that is given up leaves its queue
  scheduled with `push_limit` 0, which then means "no limit".
- `aml_tx.c:2430`: the loop that drops the retry frames of a deleted agreement
  compares its counter with `nb_retry`, which each drop decrements, so half of them
  stay (line 2426: "Drop all the retry packets of a BA that was deleted").
- `aml_tx.c:2434`: those drops leave an emptied queue scheduled
  (`ScheduledIffReady` fails with `retry` and `ba` together) and `pkt_ready` of a
  sleeping station too high (`PktReadyExact` with `ps`, `retry`, `ba`).
- `aml_tx.c:2409`: on SDIO and USB a negative update that would leave no credit sets
  the credits to the size of the hardware queue minus the frames in the firmware,
  which may be more than before.
- `aml_tx.c:216`: an interrupted service period clears `push_limit` and leaves the
  queue scheduled, which then means "no limit" (`ScheduledIffReady`).
- `aml_txq.c:627`: the clean-up timer charges a dropped frame to a service period its
  queue takes no part in (`SpCountExact`).
- `aml_txq.h:251` says "we always have push_limit < skb_queue_len(sk_list)"; a traffic
  request sets `push_limit` to the whole length of a queue (`aml_tx.c:266`) or to what was
  asked for, which may be as much. `SpCountExact` checks what the code needs, that it is at most the length.
  Only U-APSD periods run there: the legacy line `aml_txq.c:1793` does not.
- `aml_txq.c:910`: after a channel switch in a service period the queue is not put
  back on the list while it is stopped for power save, and the period never ends
  (`SpFinishes` with `ps` and `chan`).
- `aml_tx.c:2323`: a confirmation schedules the queue of a service period also while
  its channel is not active (`ScheduledIffReady` with `ps` and `chan`).
- `aml_txq.c:322`: a station that leaves while its netdev queue is stopped leaves it
  stopped for its successor (`FlowControlExact` excludes `delete`).
- `aml_txq.c:649`: with `race` and postponed frames the unlocked write of `status`
  loses `AML_TXQ_IN_HWQ_LIST` (`ListSound`).
- On PCIe the firmware may return the credits of several frames at once; the window
  of `CreditsConserved` is therefore claimed for SDIO and USB only.

## 5. The SDIO and USB transmit tasks: `SdioTx`, `DynBuf`, `MCSdioTx`

Below the transmit queues, on the buses that are not PCIe, a frame gets a host id and
waits in `tx_desc_save`; `aml_tx_task` sends batches while pages of the firmware's
memory are free; `aml_tx_cfm_task` walks the ring of confirmations that the interrupt
task has copied, and gives pages and credits back. The firmware may lend the
transmit path a part of its receive ring: it narrows the ring, waits until the host has
left that part, and lends the pages with the next confirmation; to take them back it
asks the host to stop transmission. `DynBuf` has the flags of this exchange
(`rx_buf_state`) and their transitions; `SdioTx` uses its pages, `RxBuf` its geometry.

The variables are `tx_desc_save` (`desc`), the batch, `tx_page_free_num` (`free`),
`tx_page_tot_num` (`tot`), the two words of the stop, the semaphores of the two tasks,
the pool of ids with `hostid_prefix`, `read_cfm` (`copy`), `drv_txcfm_idx`, and the
firmware's side. `at` is the place of each frame.

| Action | Code |
|---|---|
| `Push` | the end of `aml_tx_push`: `ipc_host_tx_host_ptr_to_id`, `aml_sdio_ipc_txdesc_push` |
| `TxStopped`, `TxWake`, `TxPick`, `TxCharge`, `TxSend` | `aml_tx_task`: the answer to a stop, the wake-up, the test for pages, the charge with its copy, the transfer |
| `CfmWake`, `CfmSlot`, `CfmSleep` | `aml_tx_cfm_task`, one slot of the ring at a time |
| `IrqAck`, `IrqRx`, `IrqCfm`, `IrqStop`, `IrqStart` | `aml_pci_ack_irq`, then the branches of `ipc_host_irq` in their order: receive data with `aml_trigger_rst_rxd`, `aml_update_tx_cfm`, the handler of the stop |
| `FwConfirm`, `FwRx`, `FwNarrow`, `FwStop`, `FwExpand`, `FwStart` | the firmware (external) |

Faults: a copy that cannot be allocated, a read of the ring that fails or is not made
because of a bus error (`fullmac/aml_tx.c:1891`: the slots keep what they hold and the task
is not woken), and `aml_tx_task` running between the two stores of the stop.

| Run | Bounds | What it shows |
|---|---|---|
| `SdioTx_pages` | 3 frames of 1 or 2 pages, 4 pushes, 3 pages and 2 that are lent, 3 ids, a ring of 2 slots; each fault may happen at any time, or not at all | every page is accounted for through exchanges and lost copies; the firmware's memory is never overrun, also while it takes pages back; after a stop is answered nothing is under way; an old confirmation in the ring releases nothing |
| `SdioTx_live` | 2 frames of 2 pages, 3 pushes, no fault | every frame handed down is sent, whatever wake-up was used up while pages were short; a stop is answered |

In `SdioTx_pages` three frames, as many ids and a ring of two make every id be used again
while its old confirmation lies in the ring, and a confirmation be written over before the
host has walked its slot; three pages are enough for one of the larger frames and not
for two; four pushes see a frame twice and the second half of an exchange. Its faults are
choices of single steps, so that the run without them is part of it. `SemBound`, the bound of the
semaphore of the confirmation task, loses nothing: more wake-ups only make the task look
again at slots it has left. `MaxPrefix` is 65535 in the code; here it is more than there are
pushes, so that no prefix comes again while its frame is in the ring. With a pool this small
that is what keeps old slots harmless; the driver's pool is longer than its ring, and the
theorems of section 11 rest on that and not on the prefix.

The ring has 192 slots (`SRAM_TXCFM_CNT`, `fullmac/aml_defs.h:56`), fewer than the frames that the
firmware may hold: the credits of the hardware queues allow 264 and the enlarged pool
of pages 254. A firmware that confirms more than 192 before the host has walked the ring
writes over the rest; their frames are never released and their pages never
come back. What `SdioTx_pages` checks holds even so. `SdioTx_live` has a slot for each of its
two frames; with one slot `QueuedIsSent` still holds and `StopIsAnswered` is violated, since a
stop waits for all pages.

Observations that are no property of their own:

- `aml_utils.c:1344`: pages are charged before the copy of the frame is allocated; if
  that fails they are lost (`leaked`), and a stop, which waits until all pages are back,
  is never answered.
- `ipc_host.c:1028`: the handler of the stop raises no `aml_tx_sem`. With nothing to
  send the task sleeps and the stop is answered with the next frame;
  `StopIsAnswered` is therefore stated while frames are about. If the task runs between
  the two stores it uses up its wake-up without answering.
- `aml_tx.c:2117` and `fullmac/aml_rx.c:2003`: two tasks change `rx_buf_state` without a common
  lock; the models take each change as one step.
- `aml_tx_task` wants one page more than the frame takes; the threshold at which the
  confirmation task wakes it must be reachable with that, which `QueuedIsSent` needs.
- `ipc_host.c:920`: the prefix that keeps apart the ids of successive frames wraps after
  65535 confirmations. A frame that stays in the firmware that long returns an id to the
  pool that equals the one in its slot. It does no harm only because the slot is written
  again before the id comes up in the pool.
- A frame whose host id cannot be had (the pool is empty) is dropped silently. The
  pool has more ids than all credits together, so that the model assumes it never is.

## 6. The receive ring and reordering: `RxBuf`, `Reorder`, `RxChannel`, `MCRxBuf`

The firmware writes packets into a ring of the shared memory. The interrupt task reads
what is new into one of two buffers, around the end of the ring, and tells the firmware
how far it has read (`bufPos`); `aml_rx_task` walks the buffers from descriptor to
descriptor. A descriptor is never split; a rest of the ring too short for one is
skipped by the firmware, by the reader and by the walk, each with its own test. The ring
changes its length by the exchange of `DynBuf`, in two indications. The data is modelled
by cells that know their packet and offset, so that reading a wrong place, a stale cell
or half a packet shows.

Frames that the firmware received out of order are held in `reorder_list` until the
descriptor of a later packet, or a message sent after a time-out, names their ids.
`Reorder` has the list operations; `up` is what each TID was forwarded, `held` the list,
`table` the array `reorder_info` the messages are put into.

| Action | Code |
|---|---|
| `IrqAck` | `aml_pci_ack_irq`: position and buffer status |
| `IrqRx` | `aml_sdio_rxdataind` with `aml_sdio_dynamic_buffer_check` and `aml_trigger_rst_rxd`; it waits for a free buffer |
| `IrqMsg` | `aml_sdio_usb_rx_reord_flush_ind` |
| `RxWake`, `RxTake`, `RxSleep`, `RxPacket`, `RxDone` | `aml_rx_task`; `RxPacket` is one packet with `rx_skb_handle` and `aml_sdio_usb_host_reoder_handle`, or the exit for an invalid address |
| `FwPublish`, `FwFlush` | the firmware (external): its reorder window, its packets, its time-out |

The model follows the SDIO transfers; USB reads the same ring with other commands.
Without `switch` the ring keeps its length and packets theirs; with `reorder` frames
arrive out of order; with `late` the time-out of the firmware does not wait for the host
to catch up.

`RxBuf_ring` checks, with rings of 8 and 5 cells, descriptors of 2, packets of 2 or 3,
two buffers, 7 packets (a whole cycle of narrowing and expanding needs that many), or 3
frames of two TIDs within a window of 3, ids modulo 6 and room for two held frames:

- `ImplementsRxChannel`: the packets handled are those published, in order, each once;
- `PublishedIsHandled`: under weak fairness of the two tasks, all of them;
- `OrderKept`: a frame forwarded after a later one of its TID was given up on by a
  time-out;
- `HeldAgrees`: when nothing is under way the list holds exactly the frames the
  firmware will name.

With ids modulo 6 more frames would be too many: ids would begin again while a time-out is
on its way, and it would release a frame of the same id. Under `late` a fourth frame does
it. Without `late`, TLC breaks `OrderKept` with 6 frames of one TID: the
message of a time-out is outrun by a whole turn of the ids. `MaxReorder` stands for the
assumption that no message is. The driver has 4096 ids, more than the frames
that fit into ring and buffers, but nothing in it bounds how long a message waits. TIDs
are alike, so the first frame is always of the least one.

Assumptions on the firmware, each of which excludes a behaviour in which the driver
fails:

- `Shows`: it starts a switch of the ring only after the host has used each buffer since
  the last. The first indication of a switch returns early from
  `aml_sdio_dynamic_buffer_check` (`fullmac/aml_rx.c:2060`) and leaves the buffer the
  `rx_buf_end` of its last use, 0 if it was never used. With an older end the walk wraps
  at the wrong place or drops the rest as an invalid address.
- `Write`: it does not fill the ring from one short rest to the next. Then the walk ends
  with `next_fw_pkt` equal to `last_fw_pos`, starts again at the beginning of the buffer
  and never ends (`fullmac/aml_rx.c:2768`).
- `Shown`: it remembers the status it shows, also after `aml_trigger_rst_rxd` cleared the
  register.
- `Sizes`: a packet and a descriptor fit together into the narrowed ring.
- At most one reorder message is under way. `reorder_info` has one entry per TID; a
  second message before the next packet overwrites the first, and the frames named by
  the first stay.

Other observations: the message is looked at only after the next packet has been
forwarded, so that the frames it releases come late; a message that overtakes the packets
it is about (`late`) finds nothing and leaves them held, which is why `HeldAgrees`
excludes it; a held frame of TID 0 whose `package_info` is 0 is forwarded at once
(`fullmac/aml_rx.c:1650`); a frame that finds no free `rxdata` is dropped. `RxPacket` leaves out
a packet without a frame that releases nothing (`:2749`), one for which no buffer can be
allocated (`:1590`) and the deletion of a held frame (`RX_STAT_DELETE`, `:1570`): the walk
goes on after each, and the frame concerned is not forwarded.

## 7. Recovery: `Recovery`, `MCRecovery`

A timer looks every second for a crashed command manager, a bus error or a lost link,
and posts a work; the worker runs `aml_recy_doit`: reset the interfaces, reload the
firmware, restart the interfaces. Meanwhile the holder of the RTNL lock opens, closes
and changes interfaces, and a private command may run `aml_recy_doit` in its own thread.
They exclude each other by bits of `aml_recy->flags`, an unlocked word: each tests the
others' bits and then sets its own.

The variables are the flag word (`flags`), the words of `bus_state_detect`, the state of
the command manager as far as it matters (`crashed`), the timer, `work_list` with
`pending`, the place of each thread (`pc`), the interfaces with what the kernel believes of
them, and `vif_table`. `load` is a thread's load of the flag word whose store is still to
come. The histories `crossed`, `lost` and `unposted` record that two threads passed their
tests before either set its flag, that a store undid another's, and that a work could
not be allocated.

| Action | Code |
|---|---|
| `TimerFires`, `TimerPosts`, `TimerGivesUp` | `aml_recy_detection`, `aml_recy_timer_cb` |
| `RxPosts`, `Kick`, `WorkerStarts`, `WorkerGets` | `aml_wq_add` in its two parts, `aml_wq_doit` |
| `Delay`, `Check`, `Begin`, `VifReset`, `Undrop`, `Finish` | `aml_recy_doit` |
| `Reload`, `SkipReload`, `PowerOff`, `PowerOn`, `PowerOnFails` | `aml_recy_fw_reload_for_usb_sdio`, `aml_recy_fw_reload_for_pcie` |
| `NextVif`, `RestartVif`, `RestartFails`, `RestartEnds` | `aml_recy_vif_restart` |
| `OpenRefused`, `OpenExists`, `Opens`, `OpenDone`, `OpenFails` | `aml_open` |
| `Closes`, `StopsAp`, `UserWaits`, `UserTimesOut`, `UserSets`, `CloseDone`, `StopDone` | `aml_close`, `aml_cfg80211_stop_ap`, and the wait for a recovery that the three share |
| `StartAp`, `ChangeIface` | `aml_cfg80211_start_ap`, `aml_cfg80211_change_iface` |
| `Recover`, `SwitchTimer` | the private commands |
| `Crash`, `BusError`, `LinkLoss`, `RxSetsFlag` | a command that times out, a transfer that fails, a scan that ends badly, another user of the flag word |

`Recovery_cases` runs over scenarios: an access point on USB and PCIe with four calls; a
station and a second interface on SDIO; two faults in a row; other works; the private
commands, also with an allocation that fails; updates of the flag word that tear. Each feature
multiplies the states and touches different properties, so each has its scenario. It
shows:

- `BusErrorNotForgotten`: a bus error claimed by `bus_reset_ongoing`, which hides it from
  the detection, is always in somebody's hands;
- `WorkNotLost`: no work stays on the list with nobody to run it;
- `Exclusion`: interface operations and recoveries overlap only by the two races
  recorded in `crossed` and `lost`;
- `FlagsAccounted`: no flag outlives its operation, except those an access point that is
  still to be started or closed may leave;
- `TroubleHandled`: trouble is recovered, unless the flags of an access point, a detection
  that is switched off or a lost flag hold the recovery off.

The exit of `aml_recy_vif_reset` for an interface without a net device (`aml_recy.c:418`,
`:592`) is left out; no interface of `vif_table` is without one. `PowerOnFails` stands for every
failure of `aml_platform_on`, which the reload retries; the wait for the chip
(`aml_platform.c:1850`), which only a bus error ends, is taken to end.

Two attempts of a reload (three in the code) reach first, middle and last; a work list
of two holds the recovery and another work.

Observations:

- `aml_recy.c:520`: the restarted interface is stored in `vif_table` under the index the
  firmware now gives it and its old entry stays, although `aml_defs.h:737` says that the
  table is indexed with the firmware's id. An interface may then be in it twice; closing
  it clears one entry, and the next open finds the other and starts nothing.
- `aml_recy.c:700`: if the work cannot be allocated the callback returns without arming the
  timer, and no trouble is detected any more.
- `aml_recy.c:552`: an access point that is in the table is started again with
  `ap_info.settings`, without a look at `AML_RECY_AP_INFO_SAVED`; one that was opened and not
  started, or stopped since, is started with empty or old settings. The model takes the
  restart as one that may fail.
- `aml_msg_tx.c:414`: after a bus error messages are dropped and reported as sent, so
  that `aml_send_add_if` succeeds with the index its caller's stack held.

## 8. The filter of TCP acknowledgements: `TcpAck`, `MCTcpAck`

A session per connection holds back the last pure acknowledgement; a newer one replaces
it, every `max_drop_cnt`-th passes, and a timer sends what is held. While one of the
session's is in the transmit queue (`in_txq_skb`) everything else is held, until
`aml_check_tcpack_skb` hears that it was pushed.

| Action | Code |
|---|---|
| `Xmit`, `Age`, `Replace`, `Alloc`, `Setup` | `aml_filter_tx_tcp_ack`, from lock to lock |
| `Queue` | the rest of `aml_start_xmit` |
| `Timeout`, `Send` | `aml_tcp_ack_timeout`, `aml_send_tcp_ack` |
| `Push`, `Flush` | the transmit path: `aml_check_tcpack_skb`, and a queue that is flushed |
| `Switch`, `Deinit` | the filter switched by `aml_open` and `aml_close`, `aml_tcp_delay_ack_deinit` |
| `Silence` | time (external): a session becomes old |

`TcpAck_filter` has two connections, two sessions, two threads with four
acknowledgements, or with three and a fault, or one thread with five. It shows that
every acknowledgement has one owner (`AckOnce`); that what the filter drops is
superseded by one as new of the same connection (`DroppedIsSuperseded`); that what is
held has a timer (`HeldHasTimer`); that what a session waits for is on its way
(`InTxqIsTracked`). Two sessions for two connections make ageing, re-use and an
exhausted table happen; `MaxDrop` 2 lets the counter run around.

The properties name what they exclude, and each exclusion is a behaviour of the code:

- `missed`: a timer that expires while another acknowledgement is in the transmit queue
  does nothing and is not armed again (`aml_tcp_ack.c:339`); what is held leaves only
  with the next acknowledgement of its connection.
- `mixed`: a session that a thread has found may be aged out and set up for another
  connection before the thread uses it (`aml_tcp_ack.c:160`, `:293`): `aml_alloc_tcp_sess`
  does not mark the session it returns, and the frames of the old owner stay in it.
- `faults`: a frame that is flushed or refused leaves `in_txq_skb` pointing at it, and its
  session holds back everything that follows until the timer, which does nothing.

## 9. Scans and remain-on-channel: `OffChan`, `MCOffChan`

Scans and remain-on-channel periods (RoC) take the radio away from the channels of the
interfaces. `scan_request` is the scan that the driver will pass to
`cfg80211_scan_done`, `roc` the fields of `struct aml_roc`, `scan_hang` the interfaces with
`sta.scan_hang`, `offq` the off-channel queue (`NX_OFF_CHAN_TXQ_IDX`). The kernel calls the
operations one at a time, but each sleeps in the middle, on an acknowledgement, a
confirmation or a delay, and the message thread runs meanwhile; `op` says which operation
is under way and where it sleeps. `kscan`, `ready` and `expired` are what cfg80211 was told.

| Action | Code |
|---|---|
| `Scan`, `ScanAfterRoc`, `ScanAccepted` | `aml_cfg80211_scan`: up to its first command, after the cancelled RoC, after the acknowledgement |
| `Interrupt`, `Cancelled` | `aml_open` of a further interface, `aml_cfg80211_start_ap`, `aml_cfg80211_stop_ap`: the scan they cancel |
| `Connect`, `Join`, `Joined` | `aml_cfg80211_connect`, as far as it cancels and forbids scans |
| `Close`, `RemoveIf`, `Removed` | `aml_close`, as far as it ends a scan or a RoC |
| `RemainOnChannel`, `RocBegin`, `RocCancel`, `RocWait`, `RocSent` | `aml_cfg80211_remain_on_channel` |
| `CancelRemainOnChannel`, `Stopped` | `aml_cfg80211_cancel_remain_on_channel` |
| `MgmtTx`, `Mark`, `Xmit`, `CountTx` | `aml_cfg80211_mgmt_tx` of an off-channel frame, with the RoC it begins |
| `CancelWait` | `aml_cfg80211_mgmt_tx_cancel_wait` |
| `Push` | a frame leaves the off-channel queue |
| `ScanDone`, `Confirmed`, `Connected`, `OnChannel`, `Expired` | the handlers of `aml_msg_rx.c` |
| `CommandFails` | a command that cannot be allocated or queued |
| `FwTake`, `FwScanDone`, `FwSwitch`, `FwExpire`, `FwJoin` | the firmware (external) |

`OffChan_ops` has two interfaces, one of them `wlan0` (`is_sta_mode`), two channels and a
`tx_cookie` of two places. Its behaviours begin with one of seven bounds: two scans with a
RoC, an interruption and a failing command, or with two interruptions; a scan, two RoCs,
a frame and an interruption; two RoCs, two frames and a failing command; one RoC
with three frames, one more than it has cookies for; two RoCs whose wait may time out;
three frames whose waits are cancelled at any time. It checks that a scan the driver
has to report is reported and no ban on scans lasts (`ScanEnds`), that a RoC ends
(`RocEnds`), that beginning and end are reported in pairs (`EventsPaired`), that
`tx_cnt` counts the frames somebody waits for (`WaitCountExact`), and that a frame
never goes out on the channel of another RoC (`FramesOnTheirChannel`).

What was met on the way; each is a property that fails, or the reason why one of the
five has an exception:

- `aml_main.c:1765` stores `scan_request` when the command has been acknowledged. A
  `SCANU_START_CFM` handled before that finds nothing to report, and the request stays
  for good, although it "will be valid until passed to cfg80211_scan_done()" (line 1711).
  Only a scan that is cancelled ends it; `ScanEnds` names scans that the firmware still serves.
- `aml_main.c:3283` marks the RoC of a frame as internal after its confirmation. If the
  channel is reached before that, user space is told, although the comment above says
  "internal RoC, no need to inform user space about it".
- `aml_main.c:3053`: when the wait for a cancelled RoC times out, the new RoC is stored over
  the old, which is never freed; the late expiry of the old one ends the new one in the driver
  while the firmware is still on its channel, and the end of the old one is never reported.
- `aml_main.c:1151`, `aml_recy.c:437`: a closed interface and a recovery free the RoC and leave the
  off-channel queue active ("only active for the duration of the ROC", `aml_txq.c:508`).
  `FramesOnTheirChannel` holds because the next RoC begins with an empty queue.
- `aml_main.c:3373` takes a cookie that is not in the table for one that found no room. A
  wait that is cancelled twice, or after its RoC, is then subtracted from `tx_cnt`, and
  the RoC may end under another frame.
- The frames that `aml_txq_offchan_deinit` drops are not reported as failed to cfg80211.

Left out: the status of the confirmations, which the code ignores for a RoC; frames that
cannot be allocated; frames on the channel of the interface itself, which use other
queues; the windows of the unlocked reads of `roc` in handlers and operations
(`aml_msg_rx.c:383`, `aml_main.c:3041`, `:3254`, `:3353`), each of which is one step with its use; the
abort of a scan and a RoC by a recovery.

## 10. Fairness and deadlock

`CmdMgr` assumes weak fairness of each thread, of the interrupt context, of
`aml_msg_task` and of a firmware that is up: threads are scheduled, pending
interrupts are served, and the firmware empties its mailbox and answers. The
firmware's fairness ends when it falls silent, and no fairness is assumed of faults
or of new calls. `Txq` assumes only that some thread of the
driver that has work to do goes on (the loop that holds the lock, the interrupt or the
confirmations, whichever), and that the firmware confirms something of what it holds. Nothing
is assumed of the network stack, of the peers, of channel switches or of the timer;
`QueuedIsPushed` and `SpFinishes` state that the channel stays.

`SdioTx` assumes that its three tasks run, that the firmware confirms what it was given,
and that it ends an exchange of pages it began, with receive indications meanwhile; it
need not begin one. `RxBuf` assumes that the two tasks run and nothing of the firmware.
`Recovery` assumes that the timer fires, the worker runs, and that a caller inside
the driver goes on; nothing of callers outside and nothing of faults. `TcpAck` has no
liveness. `OffChan` assumes that an operation that can go on does, that the message thread handles
what has come, and that the firmware answers and ends what it began; nothing of the callers
and nothing of faults.

`CHECK_DEADLOCK FALSE` in `Txq`, `SdioTx`, `RxBuf`, `Recovery`, `TcpAck` and `OffChan`: these systems
may stop, when all frames are sent or the bounds on calls and faults are used up. The same holds in
the run `CmdMgr_faults`, because an oops stops the host. Without one `CmdMgr` never stops,
since the IPC can always be restarted, and its other two runs check deadlock.

## 11. What is proved

Eight modules hold theorems, for any sets and bounds that satisfy the named assumptions
of their modules, any bus and any combination of faults.

`CmdMgr_proofs` (from `CmdAssumption`: the null values are no commands or identifiers, and
`MaxQueued` is positive and less than `Wrap`):

- `TypeCorrect`: `Spec => []TypeOK`;
- `ListAccounting`: `Spec => []QueueAccounting`, that the list holds a command once, and that
  `queue_sz` is its length and `AML_CMD_MAX_QUEUED` bounds it until a call unlinks a
  command that a tear-down under it had drained, for all faults together;
- `PcieMemorySafe`: `Spec /\ Calm => []MemorySafe`, where `Calm` is PCIe and `Steady`, and
  `Steady` says that no fault happens but silence of the firmware and bus errors.

`QueueAccounting` alone is not inductive: that a command enters the list once depends
on where its call stands. The invariant `ListInv` adds that a listed command's call is
past `cmd_mgr_queue` (`ListedIsQueued`), that `aml_msg_task` holds a command while it
pushes (`TaskHolds`), and the types. Each action has a lemma; `ListDelProperties` and
the lemmas after it say what unlinking the i-th element does to length, range and
uniqueness. The acknowledgement and the confirmation find their command in the list; the
time-out does not look, and that its command is listed is what has to be shown. `CallInv` says
why: without a tear-down under it, a call that waits for its command has it listed or done
(the flag `DONE`), so that the unguarded `list_del` and `queue_sz--` of `cmd_complete`
meet a listed one. With such a tear-down nothing is claimed of the counter but its width.

`MemorySafe` is wrong with killed callers, with a firmware reloaded under a call and with
answers later than the time-out (TLC finds each), hence the hypothesis `Calm`; the
time-outs of a silent firmware are included. Its invariant on PCIe is `Orderly`: what a
call's place says of its command (`Stages`), what a listed command still waits for
(`Listed`), that only the first command of the list has been sent (`OneSent`), that one
message and one confirmation are on their way (`Flight`, `Owed`), that a firmware which
answers never leaves the first command without a next step (`Moving`), and that nothing
is on its way once a call has timed out (`Stilled`). `Moving` looks like a matter of
liveness, but the safety rests on it: a call may expire only once the firmware is silent, and
then nobody is left who would touch what it frees.

The second half of the module proves, on every bus:

- `ResultIsTruthful`: `Spec /\ Steady => []ResultTruthful`;
- `ManagerImplementsChannel`: `Spec /\ Steady => ImplementsMsgChannel`,

where a success without a command is excused by a bus error only (`LostToBus`).

On SDIO and USB several commands may be sent and wait for confirmations, and
`aml_msg_task` pushes the deferred ones, so that `Orderly` is replaced by `SdInv`. One command at
a time has its turn, the first that is not acknowledged (`Turns`); the semaphore of the
task is up once and for that command (`Wakeup`); the mailbox stays full until its
acknowledgement is fetched (`Slot`); and while no call has timed out, the confirmations on
their way and to come are those that the sent commands wait for (`Confirms`), those of one
identifier in the order of the list (`InTurn`), which is why `cmd_mgr_msgind`, that looks
only for the identifier, gives each to the right caller. The refinement adds that the
commands not yet sent are the end of the list (`IsSplit`). Each step is then a command that
joins the end (`Accept`), the first waiting one that enters the empty mailbox (`Send`), an
acknowledgement that empties it (`Acked`), a call that times out (`GiveUp`), a recovery
(`Reset`), or it leaves both alone. Lemmas about sequences (`LastInFewer`,
`LastInDelSent`, `LastInDelUnsent`, ...) say what this means for the list.

`SdioTx_proofs` (from `PagesAssumption` and `SdioAssumption`: each frame smaller than the pool of
pages, an id for each frame; a ring of any length, so that the firmware may confirm more
frames than it has slots and write over what the host has not walked):

- `PagesAddUp`: `Spec => []PagesExact`; `SentFits`: `Spec => []NoOverrun`;
  `StopsAreHonoured`: `Spec => []StopIsHonoured`; `OnlyConfirmedReturn`: `Spec => ConfirmedFirst`;
  `TypesHold`: `Spec => []TypeOK`, all for a `LargePool`, of more ids than slots and
  frames together: `IPC_HOSTID_CNT` is at least 520, `SRAM_TXCFM_CNT` is 192, and the credits
  allow 264 frames;
- `IdsAreFresh`: in a pool of any size the invariant holds until `hostid_prefix` wraps.

The five come from one invariant, `TxInv`. `PagesExact` says that the counters agree with
the frames, but whether a confirmation may lend pages, or a switch of the ring may
change `tx_page_tot_num`, depends on how far both sides are in the exchange: `PhaseInv`
gives for each phase of the firmware the flags of `rx_buf_state` it can meet, which status
bits are on their way, and what both take the size of the pool to be. That pages
are not lent twice is `LentOnce`: at most one frame's confirmation lends, and only before
the host has noticed. That a slot releases only a frame that the firmware has
confirmed is `Genuine`: a slot with the id of a frame is that frame's confirmation.

`Genuine` is the one part that a step can break: a frame may be pushed under an id that
an old slot still holds. The first attempt at the proof relied on `hostid_prefix`, and
failed: the prefix wraps, and an id may come back with the prefix it had, if its frame
stayed in the firmware meanwhile (TLC shows it with three prefixes and five pushes). So
`OnlyConfirmedReturn` does not use the prefix. Its argument is the order of the pool: the pool
is a queue, in which an id moves up no faster than the slot that holds it ages since
the host left it (`Aged`), since the host releases at most one id for each slot it
walks; and the pool has every id that no frame has (`PoolFull`), more than there are slots, so
that a slot is walked again, or overwritten, before its id comes up. For the first, a
frame must not be found in two slots, and a slot of the copy must not release one that the
ring would release elsewhere: `RingKeeps` says that a frame is confirmed in one slot at most,
the same in the ring and in its copy (`OneSlot`), and that where the copy still confirms a
frame the ring confirms one too, that one or the one written over it (`Covered`). Nothing in
this needs the firmware to wait for the host: a confirmation that is written over leaves
its frame waiting and its pages charged, which the counters allow for. With a pool as large
as the driver's the prefix is a second safeguard; in a smaller one, as in the runs, it is
the only one, and `IdsAreFresh` says how long it lasts.

`Recovery_proofs` (from `RecoveryAssumption`: finitely many interfaces and well-formed
scenarios):

- `WorkIsNotLost`: `Spec => []WorkNotLost`. The invariant `WorkInv` adds the types. Only
  an empty list sends the worker to sleep, and whoever adds a work is in `kick` until it
  has looked at `work_pending`; the argument needs no lock around that look.
- `BusErrorIsNotForgotten`: `Spec => []BusErrorNotForgotten`. `BusInv` adds `ClaimInv` (a claim
  is made only of a bus error, and there is none on PCIe) and `KickInv` (the timer's
  work is on the list while the timer is in `kick`). `HeldKept` shows for every step but
  two that the error stays in somebody's hands; those two are the delay, which gives
  the claim back, and the reset of the bus, which ends it.
- `RecoveryExcludes`: `Spec => []Exclusion`. `ExclusionInv` adds `FlagInv`: unless two threads
  crossed or an update was lost, `AML_RECY_STATE_ONGOING` is set exactly while a thread is
  in the recovery proper, an interface operation past its flag has a flag set, and
  the two threads exclude each other from their tests on.
- `FlagsTellTheTruth`: `Spec => []FlagsAccounted`. `AccountInv` adds that only an access point
  is stopped (`CallInv`): the flag that a stop may leave behind is accounted for by the
  access point it failed to stop.

`TcpAck_proofs` (from `TcpAckAssumption`, which the last three use for the indices of the
sessions):

- `HeldAcksHaveTimers`: `Spec => []HeldHasTimer`. `HeldInv` adds that sessions stay records;
  `ReplacedHeld` says what a replacement leaves in a session.
- `AcksHaveOneOwner`: `Spec => []AckOnce`. `OnceInv` says of every acknowledgement that the set
  of its places has one element, and adds the shapes; each action has a lemma that
  says which acknowledgement it moves, and from where to where.
- `NothingDroppedInVain`: `Spec => []DroppedIsSuperseded`. `SupersededInv` adds `Honest`: what a
  session holds is of its connection and no newer than what it has seen, and of what it
  has seen something is still alive.
- `SessionsHearOfPushes`: `Spec => []InTxqIsTracked`. `TrackedInv` adds that no session takes
  for queued what a thread is still about to replace or to set up.

`Txq_proofs` (from `TxqAssumption`: at least one queue, listed once, `hwq->size` of at most 124, so
that an `u8` counts its frames, and agreements worth an `s8`), for every combination of
features, also those that no run combines:

- `CreditsAreConserved`: `Spec => []CreditsConserved`. The invariant `Inv` says the same of
  queues that are not active (`CreditInv`), since a queue can be taken over by a new
  station only when the firmware has released its frames. A credit comes back with a
  confirmation, so `CfmInv` adds that the confirmations under way, read or not (`Waiting`),
  are for different frames in the firmware, each worth one credit on SDIO and USB unless
  its frame is postponed: that one's credit comes back in `aml_tx_retry` instead.
- `PushesAreInOrder`: `Spec => []PushOrder`. `ListInv` adds that every queued frame is in the
  list of its queue and nowhere else, that those after the postponed ones are in
  increasing order, and that what waits for its first push is newer than whatever of the
  queue was pushed (`ListGood`, `FramesGood`).

Its proof has three layers. Lemmas about lists (`DropFirst`, `InsertedAt`, `CutOut`, `CutOff`) say
what the functions of `aml_txq.c` do to one queue, and end in two relations, `Cut` and
`Queued`: n frames leave after the first k, one enters after the first k. An effect lemma
for each action says which of them it is (`VisitPushes`, `ConfirmEffect`, ...), or that the
step only schedules (`Schedules`), and that the shapes stay. The invariant is then kept by
`CutKeepsLists` and `QueuedKeepsLists`, for all actions alike.

`TxqFlow_proofs` adds, of environments that do not have both postponed frames and agreements
(`Apart`; with both, the loop of `aml_tx.c:2430` drops frames without counting them, and both
properties are wrong):

- `PktReadyIsExact`: `Spec => []PktReadyExact`. The property sums lengths of lists;
  `ReadyInv` counts the queued frames of the station instead, which is the same by
  `BufferedIsBuf` (each place of a list is one queued frame, by `ListInv`). A step then moves
  one set of frames, and the counter with it modulo 2^16 (`ReadyLeaves`, `ReadyEnters`). It adds
  that a sleeping station is valid, so that flushing the queues of one that has left is
  no concern of the counter.
- `FlowControlIsExact`: `Spec => []FlowControlExact`. `FlowInv` drops the condition that nobody
  holds the lock and says who will wake an empty stopped queue meanwhile: the
  clean-up timer, between its two accesses (`TailOf`). That a queue which is not woken by a
  push keeps a frame needs `AML_NDEV_FLOW_CTRL_RESTART` to be positive.

`RetryInv`, that without the feature no confirmation and no queue has a postponed frame, is
what makes `Apart` useful: an update of the credits then drops nothing.

Its second half is about `hwq->list`:

- `ListIsSound`: `Spec => []ListSound`, of environments without the unlocked end of the clean-up
  timer (`NoRace`; with it and postponed frames a stale write of `status` loses the bit, see
  section 4). The list and the bits change together (`Relinked`, `AllRelinked`), but that only
  active queues are linked is not inductive: a service period or an update of the credits
  may link the queue of a station, so `StationsOk` adds that a sleeping station is valid and
  that the queues of a valid one are active. What `list_del` and `list_add_tail` make of a
  list is stated by `OnlyOfKeeps`, `TwoLists` and `AtTheTail`; the first counts the positions
  that are kept (`Numbering`), so that no induction over the list is needed.
- `ScheduleIsRight`: `Spec => []ScheduledIffReady`, if moreover no station sleeps (`NoSleep`) and
  `Apart` holds; section 4 has what goes wrong without each. `ReadyOk` is stronger
  than the property: a queue is linked if and only if it is active, has a frame and is
  not stopped, in every state, also while a loop holds `tx_lock`; and one without
  credits is stopped. `ReadyOps` and `FullAgain` say that starting and stopping a queue keep the
  equivalence, whatever the order of the reasons, `QueueSkbReady` that a new frame
  does, and `PushReady` that a queue loses its place in `aml_hwq_process` exactly when its last
  frame or its last credit goes.

`OffChan_proofs` (from `OffChanAssumption`: `None` is no interface, request or RoC,
`tx_cookie` has at least one entry, the bounds are natural numbers):

- `FramesKeepTheirChannel`: `Spec => []FramesOnTheirChannel`. That alone is not inductive: a
  frame joins the queue by its operation's channel, not by the RoC's. `FrameInv` adds the
  shapes of the records and `RocIsForOp`, that while an operation is between finding or
  making its RoC and `aml_start_mgmt_xmit` the RoC, if it still lasts, is on its channel.
- `WaitsAreCounted`: `Spec => []WaitCountExact`. `CountInv` adds that a frame is counted once
  (`CountedOnce`) and that `tx_cookie` holds frames that are waited for, each in one place
  (`TableOf`); it need not hold all of them, and a cookie may be lost to a later one.
- `BeginningsAndEndsArePaired`: `Spec => []EventsPaired`. That an end had its beginning needs
  `OnIsReady`: a RoC which is on its channel and not internal was reported. That a
  beginning has its end, while no wait has timed out, needs the firmware in step with
  the driver: `InStep` says that it has nothing to do with a RoC which the driver does not
  have or has not asked for, and that the expiry is the last it says of one. That in turn
  needs one answer at a time (`OneAnswer`), to the operation that sleeps on it
  (`ReqOfOp`), and the RoC to be that operation's (`OwnRoc`).

`RxBuf_proofs` (from `RxBufAssumption`: a narrowed ring of at least two descriptors, packets that
leave room for one more, at least one buffer):

- `RingInvariant`: `Spec => []RxInv`;
- `RingImplementsChannel`: `Spec => ImplementsRxChannel`, for every length of the two rings, all
  sizes of packets and any number of buffers and packets, with every feature.

Nothing in `RxChannel` says where a packet is, so that `RxInv` has to: there are a number `m`
of packets read and positions in the ring such that the packets from `m + 1` to `sent` lie one
after the other between the host's and the firmware's position, within one lap
(`Chain`), and the packets handled, those of each used buffer and `m` follow each other in
the order of `usedList` (`Queue`), where the packets of a buffer are what a walk from its
start finds (`Walk`). The walk knows the end of the ring only from the buffer, so `Geometry`
says for each phase of the exchange of memory what both sides take the end to be, and that
each buffer ends where the ring does when a switch begins, which is what the early
return of `aml_sdio_dynamic_buffer_check` relies on.

The proof follows a packet. `ChainExtended` writes one at the end of the chain and needs that
`Unread` covers all that lies there; `Filled` copies a part of the chain into a buffer, around
the end of the ring or not, and `Walk` follows from `Chain` for that part (the copy has the
same cells in the same order, less a rest too short for a descriptor); `RxPacket` takes
the first packet off a walk. Chains and walks are functions of the number of the packet,
not recursive definitions: each step extends them by one or cuts them, so that the
proof needs no induction over the data.

Three of these proofs changed the models. `FlagsTellTheTruth` failed on a state in which an
interface whose stop had timed out changed its type from access point to station and
was stopped again; the kernel stops only what beacons as an access point, and `ApRuns` of
`Recovery` now says so. `OnlyConfirmedReturn` led to the condition on the pool above.
`RingInvariant` failed on what the firmware shows after the reset of the ring, when the register is
cleared: the model let it show only what the register held, so that it never published
again after narrowing in that way; it now remembers its status (`Shown` of `RxBuf`).

## 12. What is only model-checked

Of `Txq` the service periods (`SpCountExact`), which agree only without the clean-up timer,
interruptions and agreements, and the schedule while a station sleeps.

Of `RxBuf` the reordering (`OrderKept`, `HeldAgrees`). Neither holds for every value of the
constants: ids must not begin again while the message of a time-out is on its way, which
the bound `MaxReorder` ensures (see the run `RxBuf_ring`). And what a range of ids takes out of
`reorder_list` is filtered and flattened by operators that the community modules define by
recursion, which the provers take as unknown.

All liveness, since TLAPS has no rule here for fairness and ENABLED.

## 13. What is not modelled

`PROJECT.json` lists every component with its status and reason. Not begun:
channel contexts, with the radar and the same-channel concurrency that rest on them;
TDLS; the rest of connect, and keys; suspend and resume; the receive path of
PCIe; the USB variant of the receive path, in which the read position travels with
other commands; the logic analyzer, which takes pages away from the transmit path.

Out of reach, or of no interest to a model checker: register and bulk transfers of the
bus drivers, firmware loading, layouts of descriptors and messages, rate tables, text
interfaces, the radar pulse matcher. Most of the repository's lines are of this kind:
register headers, the RF and calibration tables, the message layouts of `lmac_msg.h`, the
functions of `aml_msg_tx.c` that fill one message each, the capability tables of
`fullmac/aml_main.c` and the text commands of `aml_iwpriv_cmds.c`. They have no state of
their own and no order that could be wrong, so that the mapped lines
are a small part of the implementation, chosen where its concurrency is.
