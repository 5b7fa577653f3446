------------------------------- MODULE OffChan ------------------------------
(***************************************************************************)
(* Scans and remain-on-channel periods (RoC): the operations of cfg80211   *)
(* that take the radio away from the channels of the interfaces, and the   *)
(* messages of the firmware that end them.                                 *)
(*                                                                         *)
(* Two threads meet in scan_request, roc and the off-channel queue.  The   *)
(* operations run one at a time, since the kernel holds its configuration  *)
(* lock around each, but they sleep in the middle, on an acknowledgement,  *)
(* a confirmation or a delay; meanwhile the message thread handles what    *)
(* the firmware sent.  An operation is therefore a chain of steps, op.pc   *)
(* being where it sleeps, and a message is handled in one step.            *)
(*                                                                         *)
(* Abstracted: the command manager (module CmdMgr) to a request, taken by  *)
(* the firmware or failed, and its answer; the list of the off-channel     *)
(* queue to the set of its frames, its credits to none.  cancel_scan_cfm   *)
(* is left out: the confirmation that sets it is also the one that ends    *)
(* the blocking call, so that aml_cancel_scan finds it set.  The reading   *)
(* of scan_request or roc and the use of what was read, between which the  *)
(* code takes no lock and does not sleep, are one step.                    *)
(*                                                                         *)
(* A definition D_Variant is D with a plausible mistake, used only to see  *)
(* that the properties notice it.                                          *)
(***************************************************************************)
EXTENDS Naturals, Sequences, FiniteSets, SequencesExt

CONSTANTS
    Vif, StaMode,   \* the interfaces, and those with is_sta_mode: the one named wlan0
    Chan,           \* the channels of off-channel work
    None,
    RocTx,          \* NX_ROC_TX
    Bounds          \* what to explore: records of bounds on the scans, RoCs, frames, interruptions
                    \* and failing commands, and whether the wait for a cancelled RoC may time out
                    \* and whether a wait may be cancelled twice or after its RoC has ended

\* The requests that matter here; the two of a RoC are one message with two operations
ReqType == {"scan", "cancel_scan", "cancel_roc", "roc", "join", "remove_if"}

ASSUME OffChanAssumption ==
    /\ StaMode \subseteq Vif
    /\ None \notin Vif /\ None \notin [type : ReqType, vif : Vif \cup {None}]   \* no request, no RoC
    /\ None \notin [id : Nat, vif : Vif \cup {None}, chan : Chan \cup {None}, internal : BOOLEAN,
                    on_chan : BOOLEAN, tx_cnt : Nat, tx_cookie : [1..RocTx -> Nat]]
    /\ RocTx \in Nat \ {0}
    /\ \A b \in Bounds :
          /\ {b.scans, b.rocs, b.frames, b.others, b.faults} \subseteq Nat
          /\ {b.timeout, b.stale} \subseteq BOOLEAN

NoScan == 0      \* scans, RoCs and frames are numbered from 1
NoCookie == 0

VARIABLES
    bound,
    scan_request,  \* the scan that the driver will report, or NoScan
    roc,           \* the RoC of the driver, or None
    scan_hang,     \* the interfaces that may not scan
    up,
    offq,          \* the off-channel queue: "inactive", "stopped" or "started", and its frames
    op, req, answer,            \* the operation under way, its request and the answer
    kscan, kvif,                \* cfg80211: the scan it waits for, and its interface
    ready, expired,             \* cfg80211: RoCs reported to have begun, to have ended
    fw, toHost,                 \* firmware: what it is doing, and its messages
    scans, rocs, frames,        \* history: how many scans, who asked for each RoC, the channel of
                                \* each frame
    waiting,                    \* history: frames of this RoC whose wait is not cancelled
    closed, late, others, faults  \* history: RoCs that aml_close freed; a wait has timed out

drvVars  == <<scan_request, roc, scan_hang, up, offq>>
opVars   == <<op, req, answer>>
kernVars == <<kscan, kvif, ready, expired>>
fwVars   == <<fw, toHost>>
histVars == <<scans, rocs, frames, waiting, closed, late, others, faults>>
vars     == <<bound, drvVars, opVars, kernVars, fwVars, histVars>>

Idle == [pc |-> "idle", kind |-> "none", vif |-> None, chan |-> None, frame |-> 0]
Queue0 == [status |-> "inactive", frames |-> {}]

Init ==
    /\ bound \in Bounds
    /\ scan_request = NoScan /\ roc = None /\ scan_hang = {} /\ up = Vif /\ offq = Queue0
    /\ op = Idle /\ req = None /\ answer = "none"
    /\ kscan = NoScan /\ kvif = None /\ ready = {} /\ expired = {}
    /\ fw = [scan |-> FALSE, roc |-> "none", rvif |-> None, joining |-> {}] /\ toHost = <<>>
    /\ scans = 0 /\ rocs = <<>> /\ frames = <<>> /\ waiting = {} /\ closed = {}
    /\ late = FALSE /\ others = 0 /\ faults = 0

-----------------------------------------------------------------------------
\* aml_send_msg, and the wake-up of its caller

Send(type, v)  == req' = [type |-> type, vif |-> v] /\ answer' = "none"
NoSend         == req' = None /\ answer' = "none"
Woken(pc)      == op.pc = pc /\ answer # "none"
Goto(pc)       == op' = [op EXCEPT !.pc = pc]
Return         == op' = Idle
Starts(kind, v, c, pc) == op' = [Idle EXCEPT !.kind = kind, !.vif = v, !.chan = c, !.pc = pc]
May(v)         == op.pc = "idle" /\ v \in up

\* The command cannot be allocated or queued; aml_close ignores that, with the firmware lost
CommandFails ==
    /\ req # None /\ req.type # "remove_if" /\ faults < bound.faults
    /\ faults' = faults + 1 /\ req' = None /\ answer' = "error"
    /\ UNCHANGED <<bound, drvVars, op, kernVars, fwVars, scans, rocs, frames, waiting, closed,
                   late, others>>

-----------------------------------------------------------------------------
\* aml_cfg80211_scan

\* cfg80211 has one scan at a time and has noted this one before it calls the driver
Scan(v) ==
    /\ May(v) /\ kscan = NoScan /\ scans < bound.scans
    /\ v \notin scan_hang
    /\ roc # None => roc.vif \in StaMode
    /\ scans' = scans + 1 /\ kscan' = scans + 1 /\ kvif' = v
    /\ Starts("scan", v, None, IF roc = None THEN "scan" ELSE "scan_roc")
    /\ Send(IF roc = None THEN "scan" ELSE "cancel_roc", v)
    /\ UNCHANGED <<bound, drvVars, ready, expired, fwVars, rocs, frames, waiting, closed, late,
                   others, faults>>

ScanRefused == kscan' = NoScan /\ Return /\ NoSend

ScanAfterRoc ==
    /\ Woken("scan_roc")
    /\ \/ answer = "error" /\ ScanRefused
       \/ answer = "ok" /\ Goto("scan") /\ Send("scan", op.vif) /\ UNCHANGED kscan
    /\ UNCHANGED <<bound, drvVars, kvif, ready, expired, fwVars, histVars>>

\* The request is stored when the command has been acknowledged
ScanAccepted ==
    /\ Woken("scan")
    /\ \/ answer = "error" /\ ScanRefused /\ UNCHANGED scan_request
       \/ answer = "ok" /\ Return /\ NoSend /\ scan_request' = scans /\ UNCHANGED kscan
    /\ UNCHANGED <<bound, roc, scan_hang, up, offq, kvif, ready, expired, fwVars, histVars>>

-----------------------------------------------------------------------------
\* Operations that cancel a scan first.  aml_cancel_scan is asked for the interface that scans, but
\* connect passes its own, and aml_close cancels only its own scan.

Cancels(kind, v) == scan_request # NoScan /\ (kind = "close" => kvif = v)
CancelVif(kind, v) == IF kind \in {"connect", "close"} THEN v ELSE kvif

Operation(kind, v, c, rest) ==
    IF Cancels(kind, v)
    THEN /\ Starts(kind, v, c, "cancel_scan") /\ Send("cancel_scan", CancelVif(kind, v))
         /\ scan_hang' = scan_hang \cup {CancelVif(kind, v)}
    ELSE Starts(kind, v, c, rest) /\ UNCHANGED <<scan_hang, req, answer>>

\* aml_open of a further interface, aml_cfg80211_start_ap and _stop_ap: what follows the
\* cancellation does not touch this component
Interrupt(v) ==
    /\ op.pc = "idle" /\ (scan_request # NoScan \/ v \notin up) /\ others < bound.others
    /\ Operation("other", v, None, "idle") /\ up' = up \cup {v}
    /\ others' = others + 1
    /\ UNCHANGED <<bound, scan_request, roc, offq, kernVars, fwVars, scans, rocs, frames, waiting,
                   closed, late, faults>>

\* aml_cfg80211_connect; cfg80211 does not call it while an attempt is under way
Connect(v) ==
    /\ May(v) /\ v \notin fw.joining /\ others < bound.others
    /\ Operation("connect", v, None, "join")
    /\ others' = others + 1
    /\ UNCHANGED <<bound, scan_request, roc, up, offq, kernVars, fwVars, scans, rocs, frames,
                   waiting, closed, late, faults>>

\* aml_close
Close(v) ==
    /\ May(v) /\ others < bound.others
    /\ Operation("close", v, None, "remove")
    /\ others' = others + 1
    /\ UNCHANGED <<bound, scan_request, roc, up, offq, kernVars, fwVars, scans, rocs, frames,
                   waiting, closed, late, faults>>

\* aml_cancel_scan returns; whether it failed is not looked at
Cancelled ==
    /\ Woken("cancel_scan")
    /\ answer' = "none" /\ UNCHANGED req
    /\ scan_hang' = IF op.kind \in {"connect", "close"} THEN scan_hang ELSE scan_hang \ {kvif}
    /\ CASE op.kind = "other"   -> Return
         [] op.kind = "connect" -> Goto("join")
         [] op.kind = "close"   -> Goto("remove")
         [] OTHER               -> Goto("roc")
    /\ UNCHANGED <<bound, scan_request, roc, up, offq, kernVars, fwVars, histVars>>

Join ==
    /\ op.pc = "join" /\ req = None /\ answer = "none"
    /\ scan_hang' = scan_hang \cup {op.vif}
    /\ Goto("joining") /\ Send("join", op.vif)
    /\ UNCHANGED <<bound, scan_request, roc, up, offq, kernVars, fwVars, histVars>>

Joined_KeepsHang ==
    /\ Woken("joining") /\ Return /\ NoSend
    /\ UNCHANGED <<bound, drvVars, kernVars, fwVars, histVars>>

Joined ==
    /\ Woken("joining") /\ Return /\ NoSend
    /\ scan_hang' = IF answer = "error" THEN scan_hang \ {op.vif} ELSE scan_hang
    /\ UNCHANGED <<bound, scan_request, roc, up, offq, kernVars, fwVars, histVars>>

RemoveIf ==
    /\ op.pc = "remove" /\ req = None /\ answer = "none"
    /\ scan_hang' = scan_hang \ {op.vif}
    /\ Goto("removed") /\ Send("remove_if", op.vif)
    /\ UNCHANGED <<bound, scan_request, roc, up, offq, kernVars, fwVars, histVars>>

Removed_Keeps ==
    /\ Woken("removed") /\ Return /\ NoSend
    /\ up' = up \ {op.vif}
    /\ UNCHANGED <<bound, scan_request, scan_hang, roc, offq, kernVars, fwVars, histVars>>

\* The RoC of the interface is freed; its queue is left as it is
Removed ==
    /\ Woken("removed") /\ Return /\ NoSend
    /\ up' = up \ {op.vif}
    /\ IF roc # None /\ roc.vif = op.vif
       THEN roc' = None /\ closed' = closed \cup {roc.id} /\ waiting' = {}
       ELSE UNCHANGED <<roc, closed, waiting>>
    /\ UNCHANGED <<bound, scan_request, scan_hang, offq, kernVars, fwVars, scans, rocs, frames,
                   late, others, faults>>

-----------------------------------------------------------------------------
\* aml_cfg80211_remain_on_channel, called by cfg80211 or by aml_cfg80211_mgmt_tx

RemainOnChannel(v, c) ==
    /\ May(v) /\ Len(rocs) < bound.rocs
    /\ Operation("roc", v, c, "roc")
    /\ UNCHANGED <<bound, scan_request, roc, up, offq, kernVars, fwVars, histVars>>

NewRoc == [id |-> Len(rocs) + 1, vif |-> op.vif, chan |-> op.chan, internal |-> FALSE,
           on_chan |-> FALSE, tx_cnt |-> 0, tx_cookie |-> [i \in 1..RocTx |-> NoCookie]]

StartRoc ==
    /\ roc' = NewRoc /\ offq' = [Queue0 EXCEPT !.status = "stopped"]
    /\ rocs' = Append(rocs, IF op.kind = "tx" THEN "tx" ELSE "user") /\ waiting' = {}
    /\ Goto("roc_sent") /\ Send("roc", op.vif)

\* Another RoC must end first
RocBegin ==
    /\ op.pc = "roc" /\ req = None /\ answer = "none"
    /\ \/ roc # None /\ Goto("roc_cancel") /\ Send("cancel_roc", op.vif)
          /\ UNCHANGED <<roc, offq, rocs, waiting>>
       \/ roc = None /\ StartRoc
    /\ UNCHANGED <<bound, scan_request, scan_hang, up, kernVars, fwVars, scans, frames, closed,
                   late, others, faults>>

RocCancel ==
    /\ Woken("roc_cancel") /\ NoSend
    /\ IF answer = "error" THEN Return ELSE Goto("roc_wait")
    /\ UNCHANGED <<bound, drvVars, kernVars, fwVars, histVars>>

RocWait_Never ==
    /\ op.pc = "roc_wait"
    /\ StartRoc
    /\ UNCHANGED <<bound, scan_request, scan_hang, up, kernVars, fwVars, scans, frames, closed,
                   late, others, faults>>

\* The loop that waits for the other RoC to go, for about a second
RocWait ==
    /\ op.pc = "roc_wait"
    /\ \/ roc = None /\ UNCHANGED late
       \/ roc # None /\ bound.timeout /\ late' = TRUE
    /\ StartRoc
    /\ UNCHANGED <<bound, scan_request, scan_hang, up, kernVars, fwVars, scans, frames, closed,
                   others, faults>>

RocSent ==
    /\ Woken("roc_sent") /\ NoSend
    /\ IF answer = "error" THEN roc' = None /\ offq' = Queue0 /\ waiting' = {} /\ Return
       ELSE /\ IF op.kind = "tx" THEN Goto("mark") ELSE Return
            /\ UNCHANGED <<roc, offq, waiting>>
    /\ UNCHANGED <<bound, scan_request, scan_hang, up, kernVars, fwVars, scans, rocs, frames,
                   closed, late, others, faults>>

\* aml_cfg80211_cancel_remain_on_channel, with the cookie of roc
Stop(v) == IF v \in StaMode THEN UNCHANGED opVars
           ELSE Starts("stop", v, None, "stop") /\ Send("cancel_roc", v)

CancelRemainOnChannel ==
    /\ op.pc = "idle" /\ roc # None /\ roc.vif \in up \ StaMode /\ rocs[roc.id] = "user"
    /\ Stop(roc.vif)
    /\ UNCHANGED <<bound, drvVars, kernVars, fwVars, histVars>>

Stopped ==
    /\ Woken("stop") /\ Return /\ NoSend
    /\ UNCHANGED <<bound, drvVars, kernVars, fwVars, histVars>>

-----------------------------------------------------------------------------
\* aml_cfg80211_mgmt_tx of a frame for channel c, off the channel of interface v

Reusable_AnyChannel(v, c) == roc.vif = v

Reusable(v, c) == roc.vif = v /\ roc.chan = c

\* A frame that another RoC keeps from being sent is reported as failed: no state changes
MgmtTx(v, c) ==
    /\ May(v) /\ Len(frames) < bound.frames
    /\ \/ roc # None /\ Reusable(v, c) /\ Starts("tx", v, c, "xmit")
          /\ UNCHANGED <<scan_hang, req, answer>>
       \/ roc = None /\ Len(rocs) < bound.rocs /\ Operation("tx", v, c, "roc")
    /\ UNCHANGED <<bound, scan_request, roc, up, offq, kernVars, fwVars, histVars>>

Mark ==
    /\ op.pc = "mark" /\ Goto("xmit")
    /\ roc' = IF roc = None THEN None ELSE [roc EXCEPT !.internal = TRUE]
    /\ UNCHANGED <<bound, scan_request, scan_hang, up, offq, req, answer, kernVars, fwVars,
                   histVars>>

\* aml_start_mgmt_xmit; a frame for a known station goes to a queue of the station
Xmit(known) ==
    /\ op.pc = "xmit"
    /\ frames' = Append(frames, op.chan)
    /\ op' = [op EXCEPT !.pc = "count", !.frame = Len(frames) + 1]
    /\ offq' = IF known \/ offq.status = "inactive" THEN offq
               ELSE [offq EXCEPT !.frames = @ \cup {Len(frames) + 1}]
    /\ UNCHANGED <<bound, scan_request, roc, scan_hang, up, req, answer, kernVars, fwVars, scans,
                   rocs, waiting, closed, late, others, faults>>

Counted(r, f) == [r EXCEPT !.tx_cookie = IF r.tx_cnt < RocTx THEN [@ EXCEPT ![r.tx_cnt + 1] = f] ELSE @,
                           !.tx_cnt = @ + 1]

CountTx ==
    /\ op.pc = "count" /\ Return
    /\ IF roc = None THEN UNCHANGED <<roc, waiting>>
       ELSE roc' = Counted(roc, op.frame) /\ waiting' = waiting \cup {op.frame}
    /\ UNCHANGED <<bound, scan_request, scan_hang, up, offq, req, answer, kernVars, fwVars, scans,
                   rocs, frames, closed, late, others, faults>>

\* aml_cfg80211_mgmt_tx_cancel_wait: the cookie is struck out, or taken for one beyond the table
Cookies(r) == {i \in 1..RocTx : r.tx_cookie[i] # NoCookie}
Struck_TableOnly(r, f) ==
    IF \E i \in Cookies(r) : r.tx_cookie[i] = f
    THEN [r EXCEPT !.tx_cnt = @ - 1,
                   !.tx_cookie = [i \in 1..RocTx |-> IF @[i] = f THEN NoCookie ELSE @[i]]]
    ELSE r

Struck(r, f) ==
    IF \E i \in Cookies(r) : r.tx_cookie[i] = f
    THEN [r EXCEPT !.tx_cnt = @ - 1,
                   !.tx_cookie = [i \in 1..RocTx |-> IF @[i] = f THEN NoCookie ELSE @[i]]]
    ELSE IF Cardinality(Cookies(r)) # r.tx_cnt THEN [r EXCEPT !.tx_cnt = @ - 1]
    ELSE r

CancelWait(f) ==
    /\ op.pc = "idle" /\ roc # None /\ roc.vif \in up /\ roc.tx_cnt > 0
    /\ f \in waiting \/ bound.stale
    /\ roc' = Struck(roc, f) /\ waiting' = waiting \ {f}
    /\ IF roc' # roc /\ roc'.internal /\ roc'.tx_cnt = 0 THEN Stop(roc.vif) ELSE UNCHANGED opVars
    /\ UNCHANGED <<bound, scan_request, scan_hang, up, offq, kernVars, fwVars, scans, rocs, frames,
                   closed, late, others, faults>>

\* aml_txq_confirm_any and the push before it: a frame leaves the off-channel queue
Push(f) ==
    /\ offq.status = "started" /\ f \in offq.frames
    /\ offq' = [offq EXCEPT !.frames = @ \ {f}]
    /\ UNCHANGED <<bound, scan_request, roc, scan_hang, up, opVars, kernVars, fwVars, histVars>>

-----------------------------------------------------------------------------
\* The firmware

Post(type, v) == toHost' = Append(toHost, [type |-> type, vif |-> v])

FwTake ==
    /\ req # None /\ req' = None
    /\ CASE req.type = "scan" ->
               fw' = [fw EXCEPT !.scan = TRUE] /\ answer' = "ok" /\ UNCHANGED toHost
         [] req.type = "cancel_scan" ->
               fw' = [fw EXCEPT !.scan = FALSE] /\ Post("cancel_cfm", req.vif) /\ UNCHANGED answer
         [] req.type = "roc" ->
               /\ fw' = [fw EXCEPT !.roc = "asked", !.rvif = req.vif]
               /\ Post("cfm", req.vif) /\ UNCHANGED answer
         [] req.type = "cancel_roc" ->
               /\ fw' = [fw EXCEPT !.roc = "none", !.rvif = None] /\ answer' = "ok"
               /\ IF fw.roc = "none" THEN UNCHANGED toHost ELSE Post("exp_ind", fw.rvif)
         [] req.type = "join" ->
               /\ fw' = [fw EXCEPT !.joining = @ \cup {req.vif}]
               /\ Post("cfm", req.vif) /\ UNCHANGED answer
         [] OTHER ->
               /\ fw' = [fw EXCEPT !.joining = @ \ {req.vif},
                                   !.roc = IF fw.rvif = req.vif THEN "none" ELSE @,
                                   !.rvif = IF fw.rvif = req.vif THEN None ELSE @]
               /\ Post("cfm", req.vif) /\ UNCHANGED answer
    /\ UNCHANGED <<bound, drvVars, op, kernVars, histVars>>

FwScanDone ==
    /\ fw.scan /\ fw' = [fw EXCEPT !.scan = FALSE] /\ Post("start_cfm", None)
    /\ UNCHANGED <<bound, drvVars, opVars, kernVars, histVars>>

FwSwitch ==
    /\ fw.roc = "asked" /\ fw' = [fw EXCEPT !.roc = "on"] /\ Post("switch_ind", fw.rvif)
    /\ UNCHANGED <<bound, drvVars, opVars, kernVars, histVars>>

FwExpire ==
    /\ fw.roc = "on" /\ fw' = [fw EXCEPT !.roc = "none", !.rvif = None]
    /\ Post("exp_ind", fw.rvif)
    /\ UNCHANGED <<bound, drvVars, opVars, kernVars, histVars>>

FwJoin(v) ==
    /\ v \in fw.joining /\ fw' = [fw EXCEPT !.joining = @ \ {v}] /\ Post("join_ind", v)
    /\ UNCHANGED <<bound, drvVars, opVars, kernVars, histVars>>

-----------------------------------------------------------------------------
\* The message thread

Msg(type) == toHost # <<>> /\ Head(toHost).type = type /\ toHost' = Tail(toHost)

ReportScan_Keeps ==
    /\ kscan' = IF scan_request # NoScan /\ kscan = scan_request THEN NoScan ELSE kscan
    /\ UNCHANGED scan_request

\* aml_rx_scanu_start_cfm, and aml_scanu_cancel_cfm, which also answers
ReportScan ==
    /\ kscan' = IF scan_request # NoScan /\ kscan = scan_request THEN NoScan ELSE kscan
    /\ scan_request' = NoScan

ScanDone ==
    /\ \/ Msg("start_cfm") /\ UNCHANGED answer
       \/ Msg("cancel_cfm") /\ answer' = "ok"
    /\ ReportScan
    /\ UNCHANGED <<bound, roc, scan_hang, up, offq, op, req, kvif, ready, expired, fw, histVars>>

Confirmed ==
    /\ Msg("cfm") /\ answer' = "ok"
    /\ UNCHANGED <<bound, drvVars, op, req, kernVars, fw, histVars>>

\* aml_rx_sm_connect_ind
Connected ==
    /\ Msg("join_ind") /\ scan_hang' = scan_hang \ {Head(toHost).vif}
    /\ UNCHANGED <<bound, scan_request, roc, up, offq, opVars, kernVars, fw, histVars>>

\* aml_rx_chan_switch_ind, for a RoC
OnChannel ==
    /\ Msg("switch_ind")
    /\ IF roc = None THEN UNCHANGED <<roc, ready, offq>>
       ELSE /\ ready' = IF roc.internal THEN ready ELSE ready \cup {roc.id}
            /\ roc' = [roc EXCEPT !.on_chan = TRUE]
            /\ offq' = IF offq.status = "inactive" THEN offq ELSE [offq EXCEPT !.status = "started"]
    /\ UNCHANGED <<bound, scan_request, scan_hang, up, opVars, kscan, kvif, expired, fw, histVars>>

Expires_Early(r) == ~r.internal

\* aml_rx_remain_on_channel_exp_ind
Expires(r) == ~r.internal /\ r.on_chan
Expired ==
    /\ Msg("exp_ind")
    /\ IF roc = None THEN UNCHANGED <<roc, expired, offq, waiting>>
       ELSE /\ expired' = IF Expires(roc) THEN expired \cup {roc.id} ELSE expired
            /\ offq' = Queue0 /\ roc' = None /\ waiting' = {}
    /\ UNCHANGED <<bound, scan_request, scan_hang, up, opVars, kscan, kvif, ready, fw, scans, rocs,
                   frames, closed, late, others, faults>>

-----------------------------------------------------------------------------
Continue ==
    \/ ScanAfterRoc \/ ScanAccepted \/ Cancelled \/ Join \/ Joined \/ RemoveIf \/ Removed
    \/ RocBegin \/ RocCancel \/ RocWait \/ RocSent \/ Stopped \/ Mark \/ CountTx
    \/ \E known \in BOOLEAN : Xmit(known)

Ask ==
    \/ \E v \in Vif : Scan(v) \/ Interrupt(v) \/ Connect(v) \/ Close(v)
    \/ \E v \in Vif, c \in Chan : RemainOnChannel(v, c) \/ MgmtTx(v, c)
    \/ CancelRemainOnChannel
    \/ \E f \in 1..Len(frames) : CancelWait(f)

Firmware == FwTake \/ FwSwitch \/ FwExpire \/ FwScanDone \/ \E v \in Vif : FwJoin(v)
Handle   == ScanDone \/ Confirmed \/ Connected \/ OnChannel \/ Expired

Next == \/ Ask \/ Continue \/ CommandFails \/ Firmware \/ Handle
        \/ \E f \in offq.frames : Push(f)

Spec == Init /\ [][Next]_vars

\* The threads are scheduled; the firmware answers, and what it has begun comes to an end
Fairness == WF_vars(Continue) /\ WF_vars(Handle) /\ WF_vars(Firmware)
FairSpec == Spec /\ Fairness

-----------------------------------------------------------------------------
Served == fw.scan \/ \E i \in 1..Len(toHost) : toHost[i].type \in {"start_cfm", "cancel_cfm"}

\* A scan that the driver has to report is reported once the firmware is done with it, whichever
\* of the confirmations comes and whatever cancels it meanwhile ("will be valid until passed to
\* cfg80211_scan_done()", aml_cfg80211_scan); and no interface is kept from scanning for good.
ScanEnds ==
    /\ scan_request # NoScan /\ Served ~> scan_request = NoScan
    /\ []<>(scan_hang = {})

\* A RoC comes to its end, by its expiry, its cancellation or the closing of its interface, so
\* that the next one may begin; also when the wait for its predecessor has timed out.
RocEnds == []<>(roc = None)

UserRocs == {r \in 1..Len(rocs) : rocs[r] = "user"}

\* The end of a RoC is reported only if its beginning was, and a RoC of user space whose
\* beginning was reported is either still on or was reported to have ended, unless aml_close
\* freed it, in which case cfg80211 has no interface to hear of it.
EventsPaired ==
    /\ expired \subseteq ready
    /\ ~late => \A r \in ready \cap UserRocs : r \in expired \cup closed \/ (roc # None /\ roc.id = r)

\* tx_cnt counts the frames whose wait nobody has cancelled, also those that found no room in
\* tx_cookie, so that the internal RoC is given up with the last of them and not before; while
\* user space cancels each wait once, and only while its RoC lasts.
WaitCountExact == roc # None /\ ~bound.stale => roc.tx_cnt = Cardinality(waiting)

\* A frame of the off-channel queue is sent on the channel it was meant for: it never waits for
\* another RoC than its own ("off-channel" of aml_cfg80211_mgmt_tx).
FramesOnTheirChannel == roc # None => \A f \in offq.frames : frames[f] = roc.chan
=============================================================================
