------------------------------ MODULE Recovery ------------------------------
(***************************************************************************)
(* Detection and recovery of a dead firmware or bus: aml_recy.c, the work  *)
(* queue of aml_wq.c, and the operations of fullmac/aml_main.c that        *)
(* exclude a recovery by flags.  The detection timer posts a work item;    *)
(* the worker resets the interfaces, reloads the firmware and restarts the *)
(* interfaces, while the holder of the RTNL lock opens and closes them.    *)
(*                                                                         *)
(* aml_recy->flags is an unlocked word that three threads change by |= and *)
(* &=: a writer may be preempted between its load and its store (Load), and*)
(* its store then undoes what the others have written meanwhile.           *)
(*                                                                         *)
(* Left out: saving and replaying the association, power save and suspend  *)
(* counters, scan and remain-on-channel that the reset aborts, and the     *)
(* works that never touch the state below, which are all "OTHER".          *)
(*                                                                         *)
(* A definition D_Variant is D with a plausible mistake, used only to see  *)
(* that the properties notice it.                                          *)
(***************************************************************************)
EXTENDS Integers, Sequences, FiniteSets, SequencesExt, FiniteSetsExt

CONSTANTS
    Vif,         \* interfaces
    None,        \* no interface, or nothing loaded
    Scenarios,   \* what to consider: records of the bus ("SDIO", "USB", "PCIE"), the interfaces
                 \* that exist, the first type of each, the features of the environment ("torn",
                 \* "private", "alloc", "rx"), the bounds on the RTNL holder's calls and on faults
    Tries,       \* how often a reload is tried again, 3 in the code
    MaxWork      \* length of work_list

ASSUME RecoveryAssumption ==
    /\ IsFiniteSet(Vif) /\ None \notin Vif
    /\ Tries \in Nat /\ MaxWork \in Nat
    /\ \A s \in Scenarios :
         /\ s.bus \in {"SDIO", "USB", "PCIE"} /\ s.type \in [Vif -> {"STA", "AP"}]
         /\ s.vifs \subseteq Vif
         /\ s.calls \in Nat /\ s.faults \in Nat

Doer   == {"worker", "user"}     \* the threads that may run aml_recy_doit
Writer == Doer \cup {"rx"}
Index  == 0..Cardinality(Vif) - 1
\* The AML_RECY_* flags that order these threads, and one that only receive sets
Flag   == {"STATE", "FW", "IPC", "DROP", "STOP_AP", "OPEN", "CLOSE", "AP_INFO", "CHECK_SCC"}
Blocking == {"STOP_AP", "OPEN", "STATE", "CLOSE"}
FlagOf == [open |-> "OPEN", close |-> "CLOSE", stop |-> "STOP_AP"]

NoCall == [op |-> "none", vif |-> None, down |-> FALSE]

VARIABLES
    sc,            \* the scenario
    flags,
    load,          \* load[w]: the value of flags w has loaded and not yet stored
    crashed,       \* cmd_mgr.state is CRASHED
    linkLoss,      \* link_loss.is_requested
    busErr, resetOngoing, recyOngoing,   \* bus_state_detect
    enabled,       \* plat->enabled
    timer,         \* detection timer: "off", "armed", or running its callback
    workList, pending,
    kick,          \* who has added a work and not yet looked at work_pending
    pc,
    tries,         \* try_cnt of the reload
    ri,            \* ri[p]: i of aml_recy_vif_restart
    call,          \* the RTNL holder's call: operation, interface, whether a close follows
    vif,           \* per interface: type, up, vif_index, and what the kernel believes
    table,         \* vif_table
    fwVifs,        \* interfaces of the firmware
    calls, faults,
    crossed,       \* history: two threads were between their check and their flag at once
    lost,          \* history: a store of flags has undone another thread's
    unposted       \* history: a detection could not allocate its work

recyVars == <<flags, load, lost>>
busVars  == <<busErr, resetOngoing, recyOngoing>>
wqVars   == <<timer, workList, pending, kick, unposted>>
vifVars  == <<vif, table, fwVifs>>
hwVars   == <<crashed, linkLoss, busVars, enabled>>
locals   == <<tries, ri, call>>
bounds   == <<calls, faults>>
vars == <<sc, recyVars, hwVars, wqVars, pc, locals, vifVars, bounds, crossed>>

DoerPc == {"check", "begin", "reset", "undrop", "reload", "try", "power", "restart", "finish"}
Body   == DoerPc \ {"check", "begin"}   \* the recovery proper, under STATE

TypeOK ==
    /\ sc \in Scenarios /\ flags \subseteq Flag
    /\ load \in [Writer -> SUBSET Flag \cup {None}]
    /\ {crashed, linkLoss, busErr, resetOngoing, recyOngoing, enabled, pending, crossed, lost, unposted}
         \subseteq BOOLEAN
    /\ timer \in {"off", "armed", "found", "kick"}
    /\ workList \in Seq({"RECY", "OTHER"}) /\ kick \subseteq {"timer", "rx"}
    /\ pc["worker"] \in {"idle", "get"} \cup DoerPc
    /\ pc["user"] \in {"idle", "wait", "set", "body"} \cup DoerPc
    /\ tries \in [Doer -> 0..Tries] /\ ri \in [Doer -> Nat]
    /\ call \in [op: DOMAIN FlagOf, vif: Vif, down: BOOLEAN] \cup {NoCall}
    /\ vif \in [Vif -> [type: {"STA", "AP"}, up: BOOLEAN, index: Index, netUp: BOOLEAN, apOn: BOOLEAN]]
    /\ table \in [Index -> Vif \cup {None}] /\ fwVifs \subseteq Index
    /\ calls \in 0..sc.calls /\ faults \in 0..sc.faults

Init ==
    /\ sc \in Scenarios /\ flags = {} /\ load = [w \in Writer |-> None]
    /\ crashed = FALSE /\ linkLoss = FALSE
    /\ busErr = FALSE /\ resetOngoing = FALSE /\ recyOngoing = FALSE /\ enabled = TRUE
    /\ timer = "armed" /\ workList = <<>> /\ pending = FALSE /\ kick = {}
    /\ pc = [p \in Doer |-> "idle"]
    /\ tries = [p \in Doer |-> 0] /\ ri = [p \in Doer |-> 0]
    /\ call = NoCall
    /\ vif = [v \in Vif |->
                [type |-> sc.type[v], up |-> FALSE, index |-> 0, netUp |-> FALSE, apOn |-> FALSE]]
    /\ table = [i \in Index |-> None] /\ fwVifs = {}
    /\ calls = 0 /\ faults = 0 /\ crossed = FALSE /\ lost = FALSE /\ unposted = FALSE

-----------------------------------------------------------------------------
\* aml_recy_flags_set and aml_recy_flags_clr

Load(w) ==
    /\ "torn" \in sc.on /\ ~lost /\ \A u \in Writer : load[u] = None
    /\ load' = [load EXCEPT ![w] = flags]
    /\ UNCHANGED <<sc, flags, lost, hwVars, wqVars, pc, locals, vifVars, bounds, crossed>>

Update(w, del, add) ==
    LET base == IF load[w] = None THEN flags ELSE load[w]
    IN /\ flags' = (base \ del) \cup add
       /\ load' = [load EXCEPT ![w] = None]
       /\ lost' = (lost \/ base # flags)

Goto(p, l) == pc' = [pc EXCEPT ![p] = l]
Done_One(p) == Goto(p, "idle")
Done(p) == Goto(p, IF p = "worker" THEN "get" ELSE "idle")
Fault      == faults < sc.faults /\ faults' = faults + 1

\* p has checked the flags: is the other thread between its check and its flag?
Checked(p, l) ==
    /\ Goto(p, l)
    /\ crossed' = (crossed \/ \E q \in Doer \ {p} : pc[q] \in {"begin", "set"})

InTable(v) == v \in Range(table)
LowestFree == Min(Index \ fwVifs)   \* the index the firmware gives
\* The bus drops every message and reports success: the answer is never written
Dropped == sc.bus # "PCIE" /\ busErr

-----------------------------------------------------------------------------
\* Detection timer and work queue

TimerFires ==
    /\ timer = "armed" /\ Len(workList) < MaxWork
    /\ LET reset == sc.bus # "PCIE" /\ ~resetOngoing /\ busErr
       IN /\ crashed \/ linkLoss \/ reset
          /\ resetOngoing' = (resetOngoing \/ reset)
    /\ timer' = "found"
    /\ UNCHANGED <<sc, unposted, recyVars, crashed, linkLoss, busErr, recyOngoing, enabled, workList,
                   pending, kick, pc, locals, vifVars, bounds, crossed>>

AddWork(who, work) == workList' = Append(workList, work) /\ kick' = kick \cup {who}

TimerPosts ==
    /\ timer = "found" /\ timer' = "kick" /\ AddWork("timer", "RECY")
    /\ UNCHANGED <<sc, unposted, recyVars, hwVars, pending, pc, locals, vifVars, bounds, crossed>>

\* aml_wq_alloc fails: the callback returns and the timer is not armed again
TimerGivesUp ==
    /\ "alloc" \in sc.on /\ timer = "found" /\ Fault /\ timer' = "off" /\ unposted' = TRUE
    /\ UNCHANGED <<sc, recyVars, hwVars, workList, pending, kick, pc, locals, vifVars, calls, crossed>>

RxPosts ==
    /\ "rx" \in sc.on /\ Len(workList) < MaxWork /\ "rx" \notin kick /\ calls < sc.calls
    /\ calls' = calls + 1 /\ AddWork("rx", "OTHER")
    /\ UNCHANGED <<sc, unposted, recyVars, hwVars, timer, pending, pc, locals, vifVars, faults,
                   crossed>>

\* The end of aml_wq_add: queue_work unless the work is pending
Kick(who) ==
    /\ who \in kick /\ kick' = kick \ {who} /\ pending' = TRUE
    /\ timer' = IF who = "timer" THEN "armed" ELSE timer
    /\ UNCHANGED <<sc, unposted, recyVars, hwVars, workList, pc, locals, vifVars, bounds, crossed>>

WorkerStarts ==
    /\ pending /\ pc["worker"] = "idle"
    /\ pending' = FALSE /\ Goto("worker", "get")
    /\ UNCHANGED <<sc, unposted, recyVars, hwVars, timer, workList, kick, locals, vifVars, bounds,
                   crossed>>

WorkerGets ==
    /\ pc["worker"] = "get"
    /\ \/ workList = <<>> /\ Goto("worker", "idle") /\ UNCHANGED workList
       \/ /\ workList # <<>> /\ workList' = Tail(workList)
          /\ Goto("worker", IF Head(workList) = "RECY" THEN "check" ELSE "get")
    /\ UNCHANGED <<sc, unposted, recyVars, hwVars, timer, pending, kick, locals, vifVars, bounds,
                   crossed>>

\* A message sets AML_RECY_CHECK_SCC, aml_check_scc clears it
RxSetsFlag ==
    /\ "torn" \in sc.on
    /\ Update("rx", {"CHECK_SCC"}, {"CHECK_SCC"} \ flags)
    /\ UNCHANGED <<sc, hwVars, wqVars, pc, locals, vifVars, bounds, crossed>>

-----------------------------------------------------------------------------
\* aml_recy_doit

Delay_Claims(p) ==
    /\ pc[p] = "check" /\ flags \cap Blocking # {}
    /\ UNCHANGED resetOngoing
    /\ Done(p)
    /\ UNCHANGED <<sc, recyVars, crashed, linkLoss, busErr, recyOngoing, enabled, wqVars, locals,
                   vifVars, bounds, crossed>>
Delay(p) ==
    /\ pc[p] = "check" /\ flags \cap Blocking # {}
    /\ resetOngoing' = (resetOngoing /\ ~(sc.bus # "PCIE" /\ busErr))
    /\ Done(p)
    /\ UNCHANGED <<sc, recyVars, crashed, linkLoss, busErr, recyOngoing, enabled, wqVars, locals,
                   vifVars, bounds, crossed>>

Check(p) ==
    /\ pc[p] = "check" /\ flags \cap Blocking = {}
    /\ Checked(p, "begin")
    /\ UNCHANGED <<sc, recyVars, hwVars, wqVars, locals, vifVars, bounds>>

Begin(p) ==
    /\ pc[p] = "begin" /\ Goto(p, "reset")
    /\ Update(p, {}, {"STATE", "DROP"})
    /\ UNCHANGED <<sc, hwVars, wqVars, locals, vifVars, bounds, crossed>>

VifReset(p) ==
    /\ pc[p] = "reset" /\ Goto(p, "undrop")
    /\ vif' = [v \in Vif |-> IF InTable(v) THEN [vif[v] EXCEPT !.up = FALSE] ELSE vif[v]]
    /\ UNCHANGED <<sc, recyVars, hwVars, wqVars, locals, table, fwVifs, bounds, crossed>>

Undrop(p) ==
    /\ pc[p] = "undrop" /\ Goto(p, "reload")
    /\ Update(p, {"DROP"}, {})
    /\ UNCHANGED <<sc, hwVars, wqVars, locals, vifVars, bounds, crossed>>

Reload(p) ==
    /\ pc[p] = "reload" /\ (sc.bus = "PCIE" => enabled)
    /\ Update(p, {}, {"FW", "IPC"})
    /\ recyOngoing' = (sc.bus # "PCIE") /\ tries' = [tries EXCEPT ![p] = 0]
    /\ Goto(p, "try")
    /\ UNCHANGED <<sc, crashed, linkLoss, busErr, resetOngoing, enabled, wqVars, ri, call, vifVars,
                   bounds, crossed>>

ToRestart(p) == Goto(p, "restart") /\ ri' = [ri EXCEPT ![p] = 0]

\* On PCIe a platform that is not enabled is not loaded at all
SkipReload(p) ==
    /\ pc[p] = "reload" /\ sc.bus = "PCIE" /\ ~enabled
    /\ ToRestart(p)
    /\ UNCHANGED <<sc, recyVars, hwVars, wqVars, tries, call, vifVars, bounds, crossed>>

\* aml_platform_off, which ends the command manager, and the reset of the bus
PowerOff(p) ==
    /\ pc[p] = "try" /\ Goto(p, "power")
    /\ crashed' = (crashed /\ ~enabled) /\ enabled' = FALSE
    /\ IF sc.bus = "USB" \/ (sc.bus = "SDIO" /\ (busErr \/ tries[p] > 1))
       THEN /\ resetOngoing' = FALSE
            /\ \/ busErr' = FALSE /\ UNCHANGED faults
               \/ sc.bus = "SDIO" /\ Fault /\ busErr' = TRUE
       ELSE UNCHANGED <<resetOngoing, busErr, faults>>
    /\ UNCHANGED <<sc, recyVars, linkLoss, recyOngoing, wqVars, locals, vifVars, calls, crossed>>

\* aml_ipc_start and the commands that configure the firmware
PowerOn(p) ==
    /\ pc[p] = "power" /\ ~Dropped
    /\ enabled' = TRUE /\ crashed' = FALSE /\ recyOngoing' = FALSE /\ fwVifs' = {}
    /\ Update(p, {"IPC", "FW"}, {})
    /\ ToRestart(p)
    /\ UNCHANGED <<sc, linkLoss, busErr, resetOngoing, wqVars, tries, call, vif, table, bounds,
                   crossed>>

\* The platform does not come up, or it does and a command fails; a time-out crashes the
\* manager again.  PCIe returns 0 if it does not come up, and does not try again.
PowerOnFails(p) ==
    /\ pc[p] = "power"
    /\ IF Dropped THEN UNCHANGED faults ELSE Fault
    /\ enabled' \in BOOLEAN /\ crashed' \in {FALSE, enabled' /\ ~Dropped}
    /\ LET again == sc.bus # "PCIE" /\ tries[p] < Tries
           over  == sc.bus # "PCIE" /\ ~again
       IN /\ Update(p, (IF enabled' THEN {"IPC"} ELSE {}) \cup (IF over THEN {"FW"} ELSE {}), {})
          /\ tries' = [tries EXCEPT ![p] = IF again THEN @ + 1 ELSE @]
          /\ recyOngoing' = (recyOngoing /\ ~over)
          /\ IF again THEN Goto(p, "try") /\ UNCHANGED ri
             ELSE IF sc.bus = "PCIE" /\ ~enabled' THEN ToRestart(p)
             ELSE Goto(p, "finish") /\ UNCHANGED ri
    /\ fwVifs' = {}
    /\ UNCHANGED <<sc, linkLoss, busErr, resetOngoing, wqVars, call, vif, table, calls, crossed>>

NextVif(p) ==
    /\ pc[p] = "restart" /\ ri[p] \in Index /\ table[ri[p]] = None
    /\ ri' = [ri EXCEPT ![p] = @ + 1]
    /\ UNCHANGED <<sc, recyVars, hwVars, wqVars, pc, tries, call, vifVars, bounds, crossed>>

\* aml_send_add_if answers, or the message was dropped and the answer is what the stack held;
\* then the station is connected again or the access point started, either of which may fail
RestartVif(p) ==
    /\ pc[p] = "restart" /\ ri[p] \in Index /\ table[ri[p]] # None
    /\ ~crashed /\ "IPC" \notin flags /\ fwVifs # Index
    /\ LET v == table[ri[p]]
       IN \E i \in IF Dropped THEN Index ELSE {LowestFree}, ok \in BOOLEAN :
            /\ fwVifs' = fwVifs \cup {i}
            /\ table' = [table EXCEPT ![i] = v]
            /\ vif' = [vif EXCEPT ![v] = [@ EXCEPT !.up = TRUE, !.index = i]]
            /\ IF vif[v].type = "AP" THEN Update(p, {"OPEN"}, {}) ELSE UNCHANGED recyVars
            /\ IF ok THEN ri' = [ri EXCEPT ![p] = @ + 1] /\ UNCHANGED <<pc, faults>>
                     ELSE Goto(p, "finish") /\ Fault /\ UNCHANGED ri
    /\ UNCHANGED <<sc, hwVars, wqVars, tries, call, calls, crossed>>

RestartFails(p) ==
    /\ pc[p] = "restart" /\ ri[p] \in Index /\ table[ri[p]] # None
    /\ IF crashed \/ "IPC" \in flags \/ Dropped \/ fwVifs = Index THEN UNCHANGED faults ELSE Fault
    /\ Goto(p, "finish")
    /\ UNCHANGED <<sc, recyVars, hwVars, wqVars, locals, vifVars, calls, crossed>>

RestartEnds(p) ==
    /\ pc[p] = "restart" /\ ri[p] \notin Index /\ Goto(p, "finish")
    /\ UNCHANGED <<sc, recyVars, hwVars, wqVars, locals, vifVars, bounds, crossed>>

Finish(p) ==
    /\ pc[p] = "finish" /\ Done(p)
    /\ linkLoss' = FALSE
    /\ Update(p, {"STATE", "DROP"}, {})
    /\ tries' = [tries EXCEPT ![p] = 0] /\ ri' = [ri EXCEPT ![p] = 0]
    /\ UNCHANGED <<sc, crashed, busVars, enabled, wqVars, call, vifVars, bounds, crossed>>

Doit(p) ==
    \/ Delay(p) \/ Check(p) \/ Begin(p) \/ VifReset(p) \/ Undrop(p) \/ Reload(p) \/ SkipReload(p)
    \/ PowerOff(p) \/ PowerOn(p) \/ PowerOnFails(p) \/ NextVif(p) \/ RestartVif(p)
    \/ RestartFails(p) \/ RestartEnds(p) \/ Finish(p)

-----------------------------------------------------------------------------
\* The holder of the RTNL lock: aml_open, aml_close, aml_cfg80211_stop_ap, one after the other

Call == pc["user"] = "idle" /\ calls < sc.calls /\ calls' = calls + 1
Enter(op, v, down) ==
    Goto("user", "wait") /\ call' = [op |-> op, vif |-> v, down |-> down]

OpenRefused(v) ==
    /\ Call /\ ~vif[v].netUp /\ Dropped
    /\ IF vif[v].type # "AP" /\ "OPEN" \in flags THEN Update("user", {"OPEN"}, {})
                                                  ELSE UNCHANGED recyVars
    /\ UNCHANGED <<sc, hwVars, wqVars, pc, locals, vifVars, faults, crossed>>

OpenExists(v) ==
    /\ Call /\ ~vif[v].netUp /\ ~Dropped /\ InTable(v)
    /\ vif' = [vif EXCEPT ![v].netUp = TRUE]
    /\ UNCHANGED <<sc, recyVars, hwVars, wqVars, pc, locals, table, fwVifs, faults, crossed>>

Opens(v) ==
    /\ Call /\ ~vif[v].netUp /\ ~Dropped /\ ~InTable(v)
    /\ Enter("open", v, FALSE)
    /\ UNCHANGED <<sc, recyVars, hwVars, wqVars, tries, ri, vifVars, faults, crossed>>

\* The kernel takes the interface down, whatever aml_close answers; an access point is stopped first.
\* A stop that timed out leaves apOn set, but the kernel stops an interface of type AP only.
ApRuns(v) == vif[v].type = "AP" /\ vif[v].apOn
Closes(v) ==
    /\ Call /\ vif[v].netUp
    /\ vif' = [vif EXCEPT ![v].netUp = FALSE]
    /\ Enter(IF ApRuns(v) THEN "stop" ELSE "close", v, ApRuns(v))
    /\ UNCHANGED <<sc, recyVars, hwVars, wqVars, tries, ri, table, fwVifs, faults, crossed>>

StopsAp(v) ==
    /\ Call /\ vif[v].netUp /\ ApRuns(v)
    /\ Enter("stop", v, FALSE)
    /\ UNCHANGED <<sc, recyVars, hwVars, wqVars, tries, ri, vifVars, faults, crossed>>

\* The end of a call; a stop on the way down is followed by the close
Returns ==
    IF call.down THEN Enter("close", call.vif, FALSE) ELSE Goto("user", "idle") /\ call' = NoCall

UserWaits_Early ==
    /\ pc["user"] = "wait"
    /\ Checked("user", "set")
    /\ UNCHANGED <<sc, recyVars, hwVars, wqVars, locals, vifVars, bounds>>
UserWaits ==
    /\ pc["user"] = "wait" /\ "STATE" \notin flags
    /\ Checked("user", "set")
    /\ UNCHANGED <<sc, recyVars, hwVars, wqVars, locals, vifVars, bounds>>

UserTimesOut ==
    /\ pc["user"] = "wait" /\ "STATE" \in flags /\ Returns
    /\ UNCHANGED <<sc, recyVars, hwVars, wqVars, tries, ri, vifVars, bounds, crossed>>

UserSets ==
    /\ pc["user"] = "set" /\ Goto("user", "body")
    /\ Update("user", {}, {FlagOf[call.op]})
    /\ UNCHANGED <<sc, hwVars, wqVars, locals, vifVars, bounds, crossed>>

InBody(op) == pc["user"] = "body" /\ call.op = op

OpenDone ==
    /\ InBody("open") /\ ~crashed /\ "IPC" \notin flags /\ fwVifs # Index
    /\ \E i \in IF Dropped THEN Index ELSE {LowestFree} :
         /\ fwVifs' = fwVifs \cup {i}
         /\ table' = [table EXCEPT ![i] = call.vif]
         /\ vif' = [vif EXCEPT ![call.vif] = [@ EXCEPT !.up = TRUE, !.index = i, !.netUp = TRUE]]
    /\ IF vif[call.vif].type = "STA" THEN Update("user", {"OPEN"}, {}) ELSE UNCHANGED recyVars
    /\ Returns
    /\ UNCHANGED <<sc, hwVars, wqVars, tries, ri, calls, faults, crossed>>

OpenFails_Keeps ==
    /\ InBody("open")
    /\ IF crashed \/ "IPC" \in flags \/ Dropped \/ fwVifs = Index THEN UNCHANGED faults ELSE Fault
    /\ UNCHANGED recyVars /\ Returns
    /\ UNCHANGED <<sc, hwVars, wqVars, tries, ri, vifVars, calls, crossed>>
OpenFails ==
    /\ InBody("open")
    /\ IF crashed \/ "IPC" \in flags \/ Dropped \/ fwVifs = Index THEN UNCHANGED faults ELSE Fault
    /\ Update("user", {"OPEN"}, {}) /\ Returns
    /\ UNCHANGED <<sc, hwVars, wqVars, tries, ri, vifVars, calls, crossed>>

CloseDone_Keeps ==
    /\ InBody("close")
    /\ LET v == call.vif
       IN /\ vif' = [vif EXCEPT ![v].up = FALSE]
          /\ table' = [table EXCEPT ![vif[v].index] = None]
          /\ fwVifs' = fwVifs \ {vif[v].index}
          /\ Update("user", {}, {})
    /\ Returns
    /\ UNCHANGED <<sc, hwVars, wqVars, tries, ri, calls, faults, crossed>>
CloseDone ==
    /\ InBody("close")
    /\ LET v == call.vif
       IN /\ vif' = [vif EXCEPT ![v].up = FALSE]
          /\ table' = [table EXCEPT ![vif[v].index] = None]
          /\ fwVifs' = fwVifs \ {vif[v].index}
          /\ Update("user", {"CLOSE"} \cup (IF vif[v].type = "AP" THEN {"STOP_AP"} ELSE {}), {})
    /\ Returns
    /\ UNCHANGED <<sc, hwVars, wqVars, tries, ri, calls, faults, crossed>>

StopDone ==
    /\ InBody("stop")
    /\ vif' = [vif EXCEPT ![call.vif].apOn = FALSE]
    /\ Update("user", {"AP_INFO"}, {}) /\ Returns
    /\ UNCHANGED <<sc, hwVars, wqVars, tries, ri, table, fwVifs, bounds, crossed>>

\* aml_cfg80211_start_ap, which looks at no flag before it starts
StartAp(v) ==
    /\ Call /\ vif[v].type = "AP" /\ vif[v].netUp /\ ~vif[v].apOn
    /\ \E ok \in BOOLEAN :
         /\ IF ok THEN UNCHANGED faults ELSE Fault
         /\ vif' = [vif EXCEPT ![v].apOn = ok]
         /\ Update("user", {"OPEN"}, IF ok /\ "STATE" \notin flags THEN {"AP_INFO"} ELSE {})
    /\ UNCHANGED <<sc, hwVars, wqVars, pc, locals, table, fwVifs, crossed>>

ChangeIface(v) ==
    /\ Call /\ ~vif[v].netUp /\ ~vif[v].up /\ "STATE" \notin flags
    /\ IF vif[v].type = "AP" THEN Update("user", {"STOP_AP", "OPEN"}, {}) ELSE UNCHANGED recyVars
    /\ vif' = [vif EXCEPT ![v].type = IF @ = "AP" THEN "STA" ELSE "AP"]
    /\ UNCHANGED <<sc, hwVars, wqVars, pc, locals, table, fwVifs, faults, crossed>>

\* The private command that runs aml_recy_doit at once
Recover ==
    /\ "private" \in sc.on /\ Call /\ Goto("user", "check")
    /\ UNCHANGED <<sc, recyVars, hwVars, wqVars, locals, vifVars, faults, crossed>>

\* aml_recy_enable and aml_recy_disable, which waits for the callback
SwitchTimer ==
    /\ "private" \in sc.on /\ Call /\ timer \in {"off", "armed"}
    /\ timer' = IF timer = "off" THEN "armed" ELSE "off"
    /\ UNCHANGED <<sc, unposted, recyVars, hwVars, workList, pending, kick, pc, locals, vifVars,
                   faults, crossed>>

User ==
    \/ \E v \in sc.vifs \cap Vif :
           \/ OpenRefused(v) \/ OpenExists(v) \/ Opens(v) \/ Closes(v) \/ StopsAp(v)
           \/ StartAp(v) \/ ChangeIface(v)
    \/ Recover \/ SwitchTimer
UserSteps == UserWaits \/ UserTimesOut \/ UserSets \/ OpenDone \/ OpenFails \/ CloseDone \/ StopDone

-----------------------------------------------------------------------------
\* What goes wrong outside: a command that times out, a transfer that fails, beacons that stop

Crash ==
    /\ enabled /\ ~crashed /\ Fault /\ crashed' = TRUE
    /\ UNCHANGED <<sc, recyVars, linkLoss, busVars, enabled, wqVars, pc, locals, vifVars, calls,
                   crossed>>
BusError ==
    /\ sc.bus # "PCIE" /\ ~busErr /\ (sc.bus = "USB" => ~recyOngoing) /\ Fault /\ busErr' = TRUE
    /\ UNCHANGED <<sc, recyVars, crashed, linkLoss, resetOngoing, recyOngoing, enabled, wqVars, pc,
                   locals, vifVars, calls, crossed>>
LinkLoss ==
    /\ ~linkLoss /\ Fault /\ linkLoss' = TRUE
    /\ UNCHANGED <<sc, recyVars, crashed, busVars, enabled, wqVars, pc, locals, vifVars, calls,
                   crossed>>

Next ==
    \/ \E w \in Writer : Load(w)
    \/ TimerFires \/ TimerPosts \/ TimerGivesUp \/ RxPosts \/ \E a \in {"timer", "rx"} : Kick(a)
    \/ WorkerStarts \/ WorkerGets \/ RxSetsFlag
    \/ \E p \in Doer : Doit(p)
    \/ User \/ UserSteps
    \/ Crash \/ BusError \/ LinkLoss

\* The worker, the timer and a caller inside the driver keep going
Fairness ==
    /\ WF_vars(TimerFires) /\ WF_vars(TimerPosts) /\ \A a \in {"timer", "rx"} : WF_vars(Kick(a))
    /\ WF_vars(WorkerStarts) /\ WF_vars(WorkerGets) /\ \A p \in Doer : WF_vars(Doit(p))
    /\ WF_vars(UserSteps)

Spec == Init /\ [][Next]_vars /\ Fairness

-----------------------------------------------------------------------------
\* Properties

\* A bus error that the detection has claimed by bus_reset_ongoing, which keeps it from being
\* detected again, is always in the hands of a work that is posted, about to be, or running, unless
\* that work could not be allocated.
BusErrorNotForgotten ==
    busErr /\ resetOngoing =>
        \/ unposted \/ timer = "found"
        \/ "RECY" \in Range(workList)
        \/ \E p \in Doer : pc[p] \in {"check", "begin", "reset", "undrop", "reload", "try"}

\* aml_wq_add looks at work_pending after it has left wq_lock, and the worker finds the list
\* empty before it goes idle: between them no work stays on the list with nobody to run it.
WorkNotLost ==
    workList # <<>> => pending \/ kick # {} \/ pc["worker"] # "idle"

\* Nobody opens, closes or stops an interface during a recovery, and no two recoveries overlap,
\* unless both threads passed their checks before either set its flag, or a flag was lost.
Busy(p) == pc[p] \in Body \/ pc[p] = "body"
Exclusion == Busy("worker") /\ Busy("user") => crossed \/ lost

\* The flags say what is going on: none outlives the operation that set it, except OPEN and
\* STOP_AP, which only an access point that is to be started or closed may leave behind.
FlagsAccounted ==
    ~crossed /\ ~lost =>
        /\ "STATE" \in flags <=> \E p \in Doer : pc[p] \in Body
        /\ "DROP" \in flags => "STATE" \in flags
        /\ "CLOSE" \in flags <=> InBody("close")
        /\ "OPEN" \in flags => InBody("open") \/ \E v \in Vif : vif[v].type = "AP"
        /\ "STOP_AP" \in flags => \E v \in Vif : vif[v].type = "AP"

\* A dead firmware, bus or link is recovered, or the recovery is held off by an access point's
\* flags, by a detection that is switched off, or by a flag that was lost.
Trouble == crashed \/ Dropped \/ linkLoss
TroubleHandled ==
    Trouble ~> \/ ~Trouble \/ timer = "off" \/ unposted \/ lost \/ crossed
               \/ flags \cap {"OPEN", "STOP_AP"} # {}
=============================================================================
