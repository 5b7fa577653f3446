-------------------------- MODULE Recovery_proofs --------------------------
(* Theorems about detection and recovery, for any interfaces, scenarios,    *)
(* number of reload attempts and length of the work list.                   *)
EXTENDS Recovery, SequenceTheorems, TLAPS

-----------------------------------------------------------------------------
(* The parts of the type invariant that the arguments below need            *)

AnyPc == {"idle", "get", "wait", "set", "body"} \cup DoerPc
PcType == pc \in [Doer -> AnyPc]

Types ==
    /\ PcType
    /\ workList \in Seq({"RECY", "OTHER"})
    /\ sc.bus \in {"SDIO", "USB", "PCIE"}
    /\ busErr \in BOOLEAN /\ resetOngoing \in BOOLEAN
    /\ pc["user"] \in {"wait", "set", "body"} => call.op \in DOMAIN FlagOf

\* The types hold at first,
LEMMA InitTypes == Init => Types
<1>. SUFFICES ASSUME Init PROVE Types
  OBVIOUS
<1>1. PcType /\ (pc["user"] \in {"wait", "set", "body"} => call.op \in DOMAIN FlagOf)
  BY DEF Init, PcType, AnyPc, Doer
<1>2. workList \in Seq({"RECY", "OTHER"})
  BY EmptySeq DEF Init
<1>3. sc.bus \in {"SDIO", "USB", "PCIE"}
  BY RecoveryAssumption DEF Init
<1>4. busErr \in BOOLEAN /\ resetOngoing \in BOOLEAN
  BY DEF Init
<1>. QED  BY <1>1, <1>2, <1>3, <1>4 DEF Types

\* and every step keeps them.
LEMMA StepTypes == Types /\ [Next]_vars => Types'
<1>. SUFFICES ASSUME Types, [Next]_vars PROVE Types'
  OBVIOUS
<1>. USE DEF Types
<1>1. CASE UNCHANGED vars
  BY <1>1 DEF vars, hwVars, busVars, wqVars, locals, PcType
<1>2. ASSUME NEW w \in Writer, Load(w) PROVE Types'
  BY <1>2 DEF Load, hwVars, busVars, wqVars, locals, PcType
<1>3. CASE TimerFires \/ TimerPosts \/ TimerGivesUp \/ RxPosts
           \/ \E a \in {"timer", "rx"} : Kick(a)
  BY <1>3, AppendProperties DEF TimerFires, TimerPosts, TimerGivesUp, RxPosts, Kick, AddWork,
     hwVars, busVars, wqVars, locals, PcType
<1>4. CASE WorkerStarts \/ WorkerGets \/ RxSetsFlag
  <2>1. CASE WorkerStarts \/ RxSetsFlag
    BY <2>1 DEF WorkerStarts, RxSetsFlag, Goto, hwVars, busVars, wqVars, locals, PcType, AnyPc, Doer
  <2>2. CASE WorkerGets
    <3>1. workList' \in Seq({"RECY", "OTHER"})
      BY <2>2, HeadTailProperties DEF WorkerGets
    <3>2. pc' \in [Doer -> AnyPc] /\ pc'["user"] = pc["user"]
      BY <2>2 DEF WorkerGets, Goto, PcType, AnyPc, Doer, DoerPc
    <3>. QED  BY <2>2, <3>1, <3>2 DEF WorkerGets, hwVars, busVars, locals, PcType
  <2>. QED  BY <1>4, <2>1, <2>2
<1>5. ASSUME NEW p \in Doer, Doit(p) PROVE Types'
  <2>. USE DEF hwVars, busVars, wqVars, locals, PcType, AnyPc, Doer, DoerPc, Goto
  <2>1. CASE Delay(p) \/ Finish(p)
    <3>1. PcType' /\ (pc'["user"] = pc["user"] \/ pc'["user"] = "idle")
      BY <2>1 DEF Delay, Finish, Done
    <3>2. UNCHANGED <<sc, workList, call, busErr>>
      BY <2>1, Zenon DEF Delay, Finish
    <3>3. resetOngoing' \in BOOLEAN
      BY <2>1, Zenon DEF Delay, Finish
    <3>. QED  BY <3>1, <3>2, <3>3
  <2>2. CASE Check(p) \/ Begin(p) \/ VifReset(p) \/ Undrop(p) \/ Reload(p)
    BY <2>2 DEF Check, Checked, Begin, VifReset, Undrop, Reload
  <2>3. CASE SkipReload(p) \/ PowerOff(p)
    <3>1. CASE SkipReload(p)
      BY <3>1 DEF SkipReload, ToRestart
    <3>2. CASE PowerOff(p)
      <4>1. busErr' \in BOOLEAN /\ resetOngoing' \in BOOLEAN
        BY <3>2, Zenon DEF PowerOff
      <4>2. PcType' /\ (pc'["user"] = pc["user"] \/ pc'["user"] = "power")
        BY <3>2 DEF PowerOff
      <4>3. UNCHANGED <<sc, workList, call>>
        BY <3>2 DEF PowerOff
      <4>. QED  BY <4>1, <4>2, <4>3
    <3>. QED  BY <2>3, <3>1, <3>2
  <2>4. CASE PowerOn(p)
    BY <2>4 DEF PowerOn, ToRestart
  <2>5. CASE PowerOnFails(p)
    <3>1. PcType' /\ (pc'["user"] \notin {"wait", "set", "body"} \/ pc'["user"] = pc["user"])
      BY <2>5 DEF PowerOnFails, ToRestart
    <3>. QED  BY <2>5, <3>1 DEF PowerOnFails
  <2>6. CASE NextVif(p) \/ RestartVif(p)
    BY ZenonT(40), <2>6 DEF NextVif, RestartVif
  <2>7. CASE RestartFails(p) \/ RestartEnds(p)
    BY <2>7 DEF RestartFails, RestartEnds
  <2>. QED  BY <1>5, <2>1, <2>2, <2>3, <2>4, <2>5, <2>6, <2>7 DEF Doit
<1>6. CASE User
  <2>. USE DEF hwVars, busVars, wqVars, locals, PcType, AnyPc, Doer, DoerPc, Goto, Call, FlagOf
  <2>1. ASSUME NEW v \in Vif, OpenRefused(v) \/ OpenExists(v) \/ Opens(v) \/ Closes(v) \/ StopsAp(v)
        PROVE Types'
    BY <2>1 DEF OpenRefused, OpenExists, Opens, Closes, StopsAp, Enter
  <2>2. ASSUME NEW v \in Vif, StartAp(v) \/ ChangeIface(v) PROVE Types'
    BY <2>2 DEF StartAp, ChangeIface
  <2>3. CASE Recover \/ SwitchTimer
    BY <2>3 DEF Recover, SwitchTimer
  <2>. QED  BY <1>6, <2>1, <2>2, <2>3 DEF User
<1>7. CASE UserSteps
  <2>. USE DEF hwVars, busVars, wqVars, locals, PcType, AnyPc, Doer, DoerPc, Goto, FlagOf, InBody
  <2>1. CASE UserWaits \/ UserSets
    <3>1. PcType' /\ pc["user"] \in {"wait", "set"}
      BY <2>1 DEF UserWaits, UserSets, Checked
    <3>2. UNCHANGED <<sc, workList, call, busErr, resetOngoing>>
      BY <2>1, Zenon DEF UserWaits, UserSets
    <3>. QED  BY <3>1, <3>2
  <2>2. CASE UserTimesOut \/ OpenDone \/ OpenFails \/ CloseDone \/ StopDone
    <3>1. Returns
      BY <2>2, Zenon DEF UserTimesOut, OpenDone, OpenFails, CloseDone, StopDone
    <3>2. UNCHANGED <<sc, workList, busErr, resetOngoing>>
      BY <2>2, Zenon DEF UserTimesOut, OpenDone, OpenFails, CloseDone, StopDone
    <3>3. PcType' /\ (pc'["user"] = "idle" \/ call'.op = "close")
      BY <3>1 DEF Returns, Enter
    <3>. QED  BY <3>2, <3>3
  <2>. QED  BY <1>7, <2>1, <2>2 DEF UserSteps
<1>8. CASE Crash \/ BusError \/ LinkLoss
  BY <1>8 DEF Crash, BusError, LinkLoss, busVars, wqVars, locals, PcType
<1>. QED  BY <1>1, <1>2, <1>3, <1>4, <1>5, <1>6, <1>7, <1>8 DEF Next

-----------------------------------------------------------------------------
(* What a step leaves alone                                                 *)

\* The steps that touch the claim of a bus error.
LEMMA OtherSteps ==
  ASSUME [Next]_vars
  PROVE  \/ UNCHANGED <<sc, busErr, resetOngoing>>
         \/ TimerFires \/ BusError \/ \E p \in Doer : Delay(p) \/ PowerOff(p)
<1>. USE DEF hwVars, busVars
<1>1. CASE UNCHANGED vars
  BY <1>1 DEF vars
<1>2. ASSUME NEW w \in Writer, Load(w) PROVE UNCHANGED <<sc, busErr, resetOngoing>>
  BY <1>2 DEF Load
<1>3. ASSUME TimerPosts \/ TimerGivesUp \/ RxPosts \/ (\E a \in {"timer", "rx"} : Kick(a))
             \/ WorkerStarts \/ WorkerGets \/ RxSetsFlag
      PROVE  UNCHANGED <<sc, busErr, resetOngoing>>
  BY <1>3, Zenon DEF TimerPosts, TimerGivesUp, RxPosts, Kick, WorkerStarts, WorkerGets, RxSetsFlag
<1>4. ASSUME NEW p \in Doer, Doit(p), ~Delay(p), ~PowerOff(p)
      PROVE  UNCHANGED <<sc, busErr, resetOngoing>>
  BY <1>4, Zenon DEF Doit, Check, Begin, VifReset, Undrop, Reload, SkipReload, PowerOn, PowerOnFails, NextVif,
     RestartVif, RestartFails, RestartEnds, Finish
<1>5. ASSUME User \/ UserSteps PROVE UNCHANGED <<sc, busErr, resetOngoing>>
  BY <1>5, Zenon DEF User, UserSteps, OpenRefused, OpenExists, Opens, Closes, StopsAp, StartAp, ChangeIface,
     Recover, SwitchTimer, UserWaits, UserTimesOut, UserSets, OpenDone, OpenFails, CloseDone, StopDone
<1>6. ASSUME Crash \/ LinkLoss PROVE UNCHANGED <<sc, busErr, resetOngoing>>
  BY <1>6, Zenon DEF Crash, LinkLoss
<1>. QED  BY <1>1, <1>2, <1>3, <1>4, <1>5, <1>6, Zenon DEF Next

\* The steps that touch the timer and the authors of new work.
LEMMA StepsOfTimer ==
  ASSUME [Next]_vars
  PROVE  \/ UNCHANGED <<kick, timer, unposted>>
         \/ TimerFires \/ TimerPosts \/ TimerGivesUp \/ RxPosts
         \/ (\E a \in {"timer", "rx"} : Kick(a)) \/ SwitchTimer
<1>. USE DEF wqVars
<1>1. CASE UNCHANGED vars
  BY <1>1 DEF vars
<1>2. ASSUME NEW w \in Writer, Load(w) PROVE UNCHANGED <<kick, timer, unposted>>
  BY <1>2 DEF Load
<1>3. ASSUME WorkerStarts \/ WorkerGets \/ RxSetsFlag PROVE UNCHANGED <<kick, timer, unposted>>
  BY <1>3, Zenon DEF WorkerStarts, WorkerGets, RxSetsFlag
<1>4. ASSUME NEW p \in Doer, Doit(p) PROVE UNCHANGED <<kick, timer, unposted>>
  BY <1>4, Zenon DEF Doit, Delay, Check, Begin, VifReset, Undrop, Reload, SkipReload, PowerOff, PowerOn,
     PowerOnFails, NextVif, RestartVif, RestartFails, RestartEnds, Finish
<1>5. ASSUME User \/ UserSteps, ~SwitchTimer PROVE UNCHANGED <<kick, timer, unposted>>
  BY <1>5, Zenon DEF User, UserSteps, OpenRefused, OpenExists, Opens, Closes, StopsAp, StartAp, ChangeIface,
     Recover, UserWaits, UserTimesOut, UserSets, OpenDone, OpenFails, CloseDone, StopDone
<1>6. ASSUME Crash \/ BusError \/ LinkLoss PROVE UNCHANGED <<kick, timer, unposted>>
  BY <1>6, Zenon DEF Crash, BusError, LinkLoss
<1>. QED  BY <1>1, <1>2, <1>3, <1>4, <1>5, <1>6, Zenon DEF Next

\* The steps that touch the list of work.
LEMMA StepsOfList ==
  ASSUME [Next]_vars
  PROVE  UNCHANGED workList \/ TimerPosts \/ RxPosts \/ WorkerGets
<1>. USE DEF wqVars
<1>1. CASE UNCHANGED vars
  BY <1>1 DEF vars
<1>2. ASSUME NEW w \in Writer, Load(w) PROVE UNCHANGED workList
  BY <1>2 DEF Load
<1>3. ASSUME TimerFires \/ TimerGivesUp \/ (\E a \in {"timer", "rx"} : Kick(a)) \/ WorkerStarts \/ RxSetsFlag
      PROVE  UNCHANGED workList
  BY <1>3, Zenon DEF TimerFires, TimerGivesUp, Kick, WorkerStarts, RxSetsFlag
<1>4. ASSUME NEW p \in Doer, Doit(p) PROVE UNCHANGED workList
  BY <1>4, Zenon DEF Doit, Delay, Check, Begin, VifReset, Undrop, Reload, SkipReload, PowerOff, PowerOn,
     PowerOnFails, NextVif, RestartVif, RestartFails, RestartEnds, Finish
<1>5. ASSUME User \/ UserSteps PROVE UNCHANGED workList
  BY <1>5, Zenon DEF User, UserSteps, OpenRefused, OpenExists, Opens, Closes, StopsAp, StartAp, ChangeIface,
     Recover, SwitchTimer, UserWaits, UserTimesOut, UserSets, OpenDone, OpenFails, CloseDone, StopDone
<1>6. ASSUME Crash \/ BusError \/ LinkLoss PROVE UNCHANGED workList
  BY <1>6, Zenon DEF Crash, BusError, LinkLoss
<1>. QED  BY <1>1, <1>2, <1>3, <1>4, <1>5, <1>6, Zenon DEF Next

\* A thread in aml_recy_doit is moved by its own steps only.
LEMMA StepsOfThread ==
  ASSUME Types, [Next]_vars, NEW p \in Doer, pc[p] \in DoerPc, ~Doit(p)
  PROVE  pc'[p] = pc[p]
<1>. USE DEF Types, PcType, Doer, DoerPc, Goto
<1>1. CASE UNCHANGED vars
  BY <1>1 DEF vars
<1>2. ASSUME NEW w \in Writer, Load(w) PROVE pc' = pc
  BY <1>2 DEF Load
<1>3. ASSUME TimerFires \/ TimerPosts \/ TimerGivesUp \/ RxPosts
             \/ (\E a \in {"timer", "rx"} : Kick(a)) \/ RxSetsFlag
      PROVE  pc' = pc
  BY <1>3, Zenon DEF TimerFires, TimerPosts, TimerGivesUp, RxPosts, Kick, RxSetsFlag
<1>4. CASE WorkerStarts \/ WorkerGets
  BY <1>4 DEF WorkerStarts, WorkerGets
<1>5. ASSUME NEW q \in Doer, q # p, Doit(q) PROVE pc'[p] = pc[p]
  <2>1. CASE Delay(q) \/ Finish(q)
    BY <1>5, <2>1 DEF Delay, Finish, Done
  <2>2. CASE Check(q) \/ Begin(q) \/ VifReset(q) \/ Undrop(q) \/ Reload(q) \/ SkipReload(q)
    BY <1>5, <2>2 DEF Check, Checked, Begin, VifReset, Undrop, Reload, SkipReload, ToRestart
  <2>3. CASE PowerOff(q) \/ PowerOn(q)
    BY <1>5, <2>3 DEF PowerOff, PowerOn, ToRestart
  <2>4. CASE PowerOnFails(q)
    BY <1>5, <2>4 DEF PowerOnFails, ToRestart
  <2>5. CASE NextVif(q) \/ RestartVif(q) \/ RestartFails(q) \/ RestartEnds(q)
    BY <1>5, <2>5 DEF NextVif, RestartVif, RestartFails, RestartEnds
  <2>. QED  BY <1>5, <2>1, <2>2, <2>3, <2>4, <2>5 DEF Doit
<1>6. CASE User
  <2>1. pc' = pc \/ pc["user"] = "idle"
    BY <1>6, Zenon DEF User, OpenRefused, OpenExists, Opens, Closes, StopsAp, StartAp, ChangeIface, Recover,
       SwitchTimer, Call
  <2>2. pc'["worker"] = pc["worker"]
    BY <1>6 DEF User, OpenRefused, OpenExists, Opens, Closes, StopsAp, StartAp, ChangeIface, Recover,
       SwitchTimer, Enter, Call
  <2>. QED  BY <2>1, <2>2
<1>7. CASE UserSteps
  <2>1. pc["user"] \in {"wait", "set", "body"}
    BY <1>7 DEF UserSteps, UserWaits, UserTimesOut, UserSets, OpenDone, OpenFails, CloseDone, StopDone, InBody
  <2>2. pc'["worker"] = pc["worker"]
    <3>1. CASE UserWaits \/ UserSets
      BY <3>1 DEF UserWaits, UserSets, Checked
    <3>2. CASE UserTimesOut \/ OpenDone \/ OpenFails \/ CloseDone \/ StopDone
      <4>1. Returns
        BY <3>2, Zenon DEF UserTimesOut, OpenDone, OpenFails, CloseDone, StopDone
      <4>. QED  BY <4>1 DEF Returns, Enter
    <3>. QED  BY <1>7, <3>1, <3>2 DEF UserSteps
  <2>. QED  BY <2>1, <2>2
<1>8. ASSUME Crash \/ BusError \/ LinkLoss PROVE pc' = pc
  BY <1>8, Zenon DEF Crash, BusError, LinkLoss
<1>. QED  BY <1>1, <1>2, <1>3, <1>4, <1>5, <1>6, <1>7, <1>8, Zenon DEF Next

-----------------------------------------------------------------------------
(* Work is not lost                                                         *)

WorkInv == Types /\ WorkNotLost

\* Only an empty list sends the worker to sleep, and every addition leaves its author in kick.
LEMMA StepWorkNotLost == Types /\ WorkNotLost /\ [Next]_vars => WorkNotLost'
<1>. SUFFICES ASSUME Types, WorkNotLost, [Next]_vars PROVE WorkNotLost'
  OBVIOUS
<1>. USE DEF WorkNotLost, Types, PcType
<1>1. CASE UNCHANGED vars
  BY <1>1 DEF vars, wqVars
<1>2. ASSUME NEW w \in Writer, Load(w) PROVE WorkNotLost'
  BY <1>2 DEF Load, wqVars
<1>3. CASE TimerFires \/ TimerPosts \/ TimerGivesUp \/ RxPosts
  BY <1>3 DEF TimerFires, TimerPosts, TimerGivesUp, RxPosts, AddWork
<1>4. ASSUME NEW a \in {"timer", "rx"}, Kick(a) PROVE WorkNotLost'
  BY <1>4 DEF Kick
<1>5. CASE WorkerStarts \/ WorkerGets \/ RxSetsFlag
  BY <1>5 DEF WorkerStarts, WorkerGets, RxSetsFlag, Goto, wqVars, AnyPc, Doer
<1>6. ASSUME NEW p \in Doer, Doit(p) PROVE WorkNotLost'
  <2>1. UNCHANGED <<workList, pending, kick>>
    BY <1>6, Zenon DEF Doit, Delay, Check, Begin, VifReset, Undrop, Reload, SkipReload, PowerOff, PowerOn,
       PowerOnFails, NextVif, RestartVif, RestartFails, RestartEnds, Finish, wqVars
  <2>2. pc'["worker"] = pc["worker"] \/ pc'["worker"] # "idle"
    <3>. USE DEF Goto, Doer
    <3>1. CASE Delay(p) \/ Finish(p)
      BY <3>1 DEF Delay, Finish, Done
    <3>2. CASE Check(p) \/ Begin(p) \/ VifReset(p) \/ Undrop(p) \/ Reload(p) \/ SkipReload(p)
      BY <3>2 DEF Check, Checked, Begin, VifReset, Undrop, Reload, SkipReload, ToRestart
    <3>3. CASE PowerOff(p) \/ PowerOn(p)
      BY <3>3 DEF PowerOff, PowerOn, ToRestart
    <3>4. CASE PowerOnFails(p)
      BY <3>4 DEF PowerOnFails, ToRestart
    <3>5. CASE NextVif(p) \/ RestartVif(p) \/ RestartFails(p) \/ RestartEnds(p)
      BY <3>5 DEF NextVif, RestartVif, RestartFails, RestartEnds
    <3>. QED  BY <1>6, <3>1, <3>2, <3>3, <3>4, <3>5 DEF Doit
  <2>. QED  BY <2>1, <2>2
<1>7. CASE User
  <2>1. UNCHANGED <<workList, pending, kick>>
    BY <1>7, Zenon DEF User, OpenRefused, OpenExists, Opens, Closes, StopsAp, StartAp, ChangeIface, Recover,
       SwitchTimer, wqVars
  <2>2. pc'["worker"] = pc["worker"]
    BY <1>7 DEF User, OpenRefused, OpenExists, Opens, Closes, StopsAp, StartAp, ChangeIface, Recover,
       SwitchTimer, Goto, Enter, Call, Doer
  <2>. QED  BY <2>1, <2>2
<1>8. CASE UserSteps
  <2>1. UNCHANGED <<workList, pending, kick>>
    BY <1>8, Zenon DEF UserSteps, UserWaits, UserTimesOut, UserSets, OpenDone, OpenFails, CloseDone, StopDone,
       wqVars
  <2>2. pc'["worker"] = pc["worker"]
    <3>1. CASE UserWaits \/ UserSets
      BY <3>1 DEF UserWaits, UserSets, Checked, Goto, Doer
    <3>2. CASE UserTimesOut \/ OpenDone \/ OpenFails \/ CloseDone \/ StopDone
      <4>1. Returns
        BY <3>2, Zenon DEF UserTimesOut, OpenDone, OpenFails, CloseDone, StopDone
      <4>. QED  BY <4>1 DEF Returns, Enter, Goto, Doer
    <3>. QED  BY <1>8, <3>1, <3>2 DEF UserSteps
  <2>. QED  BY <2>1, <2>2
<1>9. CASE Crash \/ BusError \/ LinkLoss
  BY <1>9 DEF Crash, BusError, LinkLoss, wqVars
<1>. QED  BY <1>1, <1>2, <1>3, <1>4, <1>5, <1>6, <1>7, <1>8, <1>9 DEF Next

\* Work that aml_wq_add has put on the list always has somebody to run it.
THEOREM WorkIsNotLost == Spec => []WorkNotLost
<1>1. Init => WorkInv
  BY InitTypes DEF Init, WorkInv, WorkNotLost
<1>2. WorkInv /\ [Next]_vars => WorkInv'
  BY StepTypes, StepWorkNotLost DEF WorkInv
<1>3. WorkInv => WorkNotLost
  BY DEF WorkInv
<1>. QED  BY <1>1, <1>2, <1>3, PTL DEF Spec

-----------------------------------------------------------------------------
(* A claimed bus error is in somebody's hands                               *)

\* There is no bus detection on PCIe, and a claim does not outlive the error.
ClaimInv == /\ busErr => sc.bus # "PCIE"
            /\ resetOngoing => busErr

\* Only a bus error is ever claimed, whatever the step.
LEMMA StepClaimInv == Types /\ ClaimInv /\ [Next]_vars => ClaimInv'
<1>. SUFFICES ASSUME Types, ClaimInv, [Next]_vars PROVE ClaimInv'
  OBVIOUS
<1>. USE DEF ClaimInv
<1>1. CASE UNCHANGED <<sc, busErr, resetOngoing>>
  BY <1>1
<1>2. CASE TimerFires
  BY <1>2, Zenon DEF TimerFires
<1>3. ASSUME NEW p \in Doer, Delay(p) PROVE ClaimInv'
  BY <1>3, Zenon DEF Delay
<1>4. ASSUME NEW p \in Doer, PowerOff(p) PROVE ClaimInv'
  BY <1>4, Zenon DEF PowerOff
<1>5. CASE BusError
  BY <1>5, Zenon DEF BusError
<1>6. \/ UNCHANGED <<sc, busErr, resetOngoing>>
      \/ TimerFires \/ BusError \/ \E p \in Doer : Delay(p) \/ PowerOff(p)
  BY OtherSteps
<1>. QED  BY <1>1, <1>2, <1>3, <1>4, <1>5, <1>6

\* Somebody has taken notice: the right-hand side of BusErrorNotForgotten.
Held ==
    \/ unposted \/ timer = "found"
    \/ "RECY" \in Range(workList)
    \/ \E p \in Doer : pc[p] \in {"check", "begin", "reset", "undrop", "reload", "try"}

\* The callback holds its place in kick only until it arms the timer again.
KickInv == "timer" \in kick => timer = "kick"
BusInv  == Types /\ ClaimInv /\ KickInv /\ BusErrorNotForgotten

\* The work of the timer is listed until the timer has looked at work_pending.
LEMMA StepKickInv == KickInv /\ [Next]_vars => KickInv'
<1>. SUFFICES ASSUME KickInv, [Next]_vars PROVE KickInv'
  OBVIOUS
<1>. USE DEF KickInv
<1>1. CASE UNCHANGED <<kick, timer>>
  BY <1>1
<1>2. CASE TimerFires \/ TimerPosts \/ TimerGivesUp \/ RxPosts
  BY <1>2 DEF TimerFires, TimerPosts, TimerGivesUp, RxPosts, AddWork
<1>3. ASSUME NEW a \in {"timer", "rx"}, Kick(a) PROVE KickInv'
  BY <1>3 DEF Kick
<1>4. CASE SwitchTimer
  BY <1>4 DEF SwitchTimer
<1>5. \/ UNCHANGED <<kick, timer>>
      \/ TimerFires \/ TimerPosts \/ TimerGivesUp \/ RxPosts
      \/ (\E a \in {"timer", "rx"} : Kick(a)) \/ SwitchTimer
  BY StepsOfTimer
<1>. QED  BY <1>1, <1>2, <1>3, <1>4, <1>5

\* A work added to the list joins its works;
LEMMA RangeOfAppend ==
  ASSUME NEW S, NEW s \in Seq(S), NEW e \in S
  PROVE  e \in Range(Append(s, e)) /\ Range(s) \subseteq Range(Append(s, e))
BY AppendProperties, LenProperties DEF Range

\* taking the first one leaves no others behind.
LEMMA RangeOfTail ==
  ASSUME NEW S, NEW s \in Seq(S), s # <<>>, NEW x \in Range(s)
  PROVE  x = Head(s) \/ x \in Range(Tail(s))
<1>1. PICK i \in 1..Len(s) : x = s[i]
  BY LenProperties DEF Range
<1>2. CASE i = 1
  BY <1>1, <1>2, HeadTailProperties
<1>3. CASE i # 1
  <2>1. i - 1 \in 1..Len(Tail(s)) /\ Len(s) \in Nat
    BY <1>1, <1>3, HeadTailProperties, LenProperties
  <2>2. Tail(s)[i - 1] = x
    BY <1>1, <1>3, <2>1, HeadTailProperties
  <2>3. DOMAIN Tail(s) = 1..Len(Tail(s))
    BY HeadTailProperties, LenProperties
  <2>. QED  BY <2>1, <2>2, <2>3 DEF Range
<1>. QED  BY <1>2, <1>3

\* Only PowerOff and Delay let go of what was noticed, and they give the claim back.
LEMMA HeldKept ==
  ASSUME Types, KickInv, Held, [Next]_vars, sc.bus # "PCIE",
         \A p \in Doer : ~PowerOff(p) /\ ~Delay(p)
  PROVE  Held'
<1>. USE DEF Types
<1>1. CASE unposted
  <2>1. unposted' = unposted \/ unposted' = TRUE
    BY StepsOfTimer, Zenon DEF TimerFires, TimerPosts, TimerGivesUp, RxPosts, Kick, SwitchTimer
  <2>. QED  BY <1>1, <2>1 DEF Held
<1>2. CASE timer = "found"
  <2>1. TimerPosts => "RECY" \in Range(workList')
    BY RangeOfAppend DEF TimerPosts, AddWork
  <2>2. TimerPosts \/ unposted' \/ timer' = "found"
    BY <1>2, StepsOfTimer DEF TimerFires, TimerGivesUp, RxPosts, Kick, SwitchTimer, KickInv
  <2>. QED  BY <2>1, <2>2 DEF Held
<1>3. CASE "RECY" \in Range(workList)
  <2>1. CASE UNCHANGED workList
    BY <1>3, <2>1 DEF Held
  <2>2. CASE TimerPosts \/ RxPosts
    <3>1. PICK e \in {"RECY", "OTHER"} : workList' = Append(workList, e)
      BY <2>2 DEF TimerPosts, RxPosts, AddWork
    <3>2. "RECY" \in Range(workList')
      BY <1>3, <3>1, RangeOfAppend
    <3>. QED  BY <3>2 DEF Held
  <2>3. CASE WorkerGets
    <3>1. CASE workList = <<>>
      BY <1>3, <3>1 DEF Range
    <3>2. CASE Head(workList) = "RECY" /\ workList # <<>>
      BY <2>3, <3>2 DEF WorkerGets, Goto, PcType, Doer, Held
    <3>3. CASE Head(workList) # "RECY" /\ workList # <<>>
      <4>1. "RECY" \in Range(Tail(workList))
        BY <1>3, <3>3, RangeOfTail
      <4>2. workList' = Tail(workList)
        BY <2>3, <3>3 DEF WorkerGets
      <4>. QED  BY <4>1, <4>2 DEF Held
    <3>. QED  BY <3>1, <3>2, <3>3
  <2>. QED  BY <2>1, <2>2, <2>3, StepsOfList
<1>4. ASSUME NEW p \in Doer, pc[p] \in {"check", "begin", "reset", "undrop", "reload", "try"}
      PROVE Held'
  <2>1. CASE Doit(p)
    <3>. USE DEF PcType, Goto, Doer, Held
    <3>1. CASE Check(p) \/ Begin(p) \/ VifReset(p) \/ Undrop(p) \/ Reload(p)
      BY <3>1 DEF Check, Checked, Begin, VifReset, Undrop, Reload
    <3>2. CASE NextVif(p) \/ RestartVif(p) \/ RestartFails(p) \/ RestartEnds(p) \/ Finish(p)
      BY <1>4, <3>2 DEF NextVif, RestartVif, RestartFails, RestartEnds, Finish
    <3>3. ~(SkipReload(p) \/ PowerOn(p) \/ PowerOnFails(p))
      BY <1>4 DEF SkipReload, PowerOn, PowerOnFails
    <3>. QED  BY <2>1, <3>1, <3>2, <3>3 DEF Doit
  <2>2. CASE ~Doit(p)
    <3>0. pc[p] \in DoerPc
      BY <1>4 DEF DoerPc
    <3>1. pc'[p] = pc[p]
      BY <3>0, <2>2, StepsOfThread
    <3>. QED  BY <1>4, <3>1 DEF Held
  <2>. QED  BY <2>1, <2>2
<1>. QED  BY <1>1, <1>2, <1>3, <1>4 DEF Held

\* No step lets go of a claimed bus error.
LEMMA StepBusErrorNotForgotten == BusInv /\ [Next]_vars => BusErrorNotForgotten'
<1>. SUFFICES ASSUME BusInv, [Next]_vars, (busErr /\ resetOngoing)' PROVE Held'
  BY DEF BusErrorNotForgotten, Held
<1>. USE DEF BusInv, ClaimInv
<1>1. \A p \in Doer : ~Delay(p)
  BY Zenon DEF Delay
<1>2. \A p \in Doer : ~PowerOff(p)
  BY Zenon DEF PowerOff, Types
<1>3. CASE TimerFires
  BY <1>3 DEF TimerFires, Held
<1>4. ~BusError
  BY Zenon DEF BusError
<1>5. CASE UNCHANGED <<sc, busErr, resetOngoing>>
  BY <1>1, <1>2, <1>5, HeldKept DEF BusErrorNotForgotten, Held
<1>. QED  BY <1>1, <1>2, <1>3, <1>4, <1>5, OtherSteps

\* A bus error that bus_reset_ongoing hides from the detection is always being taken care of.
THEOREM BusErrorIsNotForgotten == Spec => []BusErrorNotForgotten
<1>1. Init => BusInv
  BY InitTypes DEF Init, BusInv, ClaimInv, KickInv, BusErrorNotForgotten
<1>2. BusInv /\ [Next]_vars => BusInv'
  BY StepTypes, StepClaimInv, StepKickInv, StepBusErrorNotForgotten DEF BusInv
<1>3. BusInv => BusErrorNotForgotten
  BY DEF BusInv
<1>. QED  BY <1>1, <1>2, <1>3, PTL DEF Spec

-----------------------------------------------------------------------------
(* Recovery and the operations on interfaces exclude each other             *)

\* While no flag was lost and no check crossed another, the flags tell who is where.
\* A thread that has passed its check and not yet set its flag has nobody beside it.
FlagInv ==
    ~crossed /\ ~lost =>
        /\ "STATE" \in flags <=> \E p \in Doer : pc[p] \in Body
        /\ pc["user"] = "body" => flags \cap {"OPEN", "CLOSE", "STOP_AP"} # {}
        /\ pc["worker"] \in {"begin"} \cup Body => pc["user"] \notin {"begin", "set", "body"} \cup Body
        /\ pc["user"] = "begin" => pc["worker"] \notin {"begin"} \cup Body
        /\ pc["worker"] # "body"

ExclusionInv == Types /\ FlagInv

\* A store that undoes nothing is an update of the flags as they are.
LEMMA UpdateOfFlags ==
  ASSUME NEW w, NEW del, NEW add, Update(w, del, add), ~lost'
  PROVE  ~lost /\ flags' = (flags \ del) \cup add
BY DEF Update

\* Every step keeps the flags in agreement with the threads they stand for.
LEMMA StepFlagInv == ExclusionInv /\ [Next]_vars => FlagInv'
<1>. SUFFICES ASSUME Types, FlagInv, [Next]_vars, ~crossed', ~lost'
     PROVE  FlagInv'
  BY DEF ExclusionInv, FlagInv
<1>. USE DEF FlagInv, Types, PcType, Doer, Body, DoerPc, Goto
<1>1. CASE UNCHANGED vars
  BY <1>1 DEF vars, recyVars
<1>2. CASE UNCHANGED <<flags, pc, crossed, lost>>
  BY <1>2
<1>3. CASE WorkerStarts \/ WorkerGets
  BY <1>3 DEF WorkerStarts, WorkerGets, recyVars
<1>4. ASSUME NEW p \in Doer, Doit(p) PROVE FlagInv'
  <2>1. CASE Delay(p)
    BY <2>1 DEF Delay, Done, recyVars
  <2>2. CASE Check(p)
    BY <2>2 DEF Check, Checked, Blocking, recyVars
  <2>3. CASE Begin(p)
    BY <2>3 DEF Begin, Update
  <2>4. CASE VifReset(p) \/ SkipReload(p) \/ RestartFails(p) \/ RestartEnds(p) \/ NextVif(p)
    BY <2>4 DEF VifReset, SkipReload, RestartFails, RestartEnds, NextVif, ToRestart, recyVars
  <2>5. CASE Undrop(p) \/ Reload(p)
    <3>1. /\ ~lost /\ ("STATE" \in flags' <=> "STATE" \in flags)
          /\ flags \cap {"OPEN", "CLOSE", "STOP_AP"} = flags' \cap {"OPEN", "CLOSE", "STOP_AP"}
      BY <2>5, UpdateOfFlags DEF Undrop, Reload
    <3>2. /\ pc[p] \in Body /\ crossed' = crossed
          /\ pc' = [pc EXCEPT ![p] = "reload"] \/ pc' = [pc EXCEPT ![p] = "try"]
      BY <2>5 DEF Undrop, Reload
    <3>. QED  BY <3>1, <3>2
  <2>6. CASE PowerOff(p)
    BY <2>6 DEF PowerOff, recyVars
  <2>7. CASE PowerOn(p)
    BY <2>7 DEF PowerOn, Update, ToRestart
  <2>8. CASE PowerOnFails(p)
    BY ZenonT(40), <2>8 DEF PowerOnFails, Update, ToRestart
  <2>9. CASE RestartVif(p)
    <3>1. ~lost /\ ("STATE" \in flags' <=> "STATE" \in flags)
      BY <2>9, UpdateOfFlags DEF RestartVif, recyVars
    <3>2. pc[p] = "restart" /\ crossed' = crossed
      BY <2>9, Zenon DEF RestartVif
    <3>3. pc' = pc \/ pc' = [pc EXCEPT ![p] = "finish"]
      BY <2>9, Zenon DEF RestartVif
    <3>. QED  BY <3>1, <3>2, <3>3
  <2>10. CASE Finish(p)
    BY <2>10 DEF Finish, Done, Update
  <2>. QED  BY <1>4, <2>1, <2>2, <2>3, <2>4, <2>5, <2>6, <2>7, <2>8, <2>9, <2>10 DEF Doit
<1>5. CASE RxSetsFlag
  BY <1>5 DEF RxSetsFlag, Update
<1>6. CASE User
  <2>1. ASSUME NEW v \in Vif, OpenRefused(v) \/ StartAp(v) \/ ChangeIface(v) PROVE FlagInv'
    <3>1. ~lost /\ ("STATE" \in flags' <=> "STATE" \in flags)
      BY <2>1, UpdateOfFlags DEF OpenRefused, StartAp, ChangeIface, recyVars
    <3>2. pc["user"] = "idle" /\ pc' = pc /\ crossed' = crossed
      BY <2>1, Zenon DEF OpenRefused, StartAp, ChangeIface, Call
    <3>. QED  BY <3>1, <3>2
  <2>2. ASSUME NEW v \in Vif, Opens(v) \/ Closes(v) \/ StopsAp(v) PROVE FlagInv'
    BY <2>2 DEF Opens, Closes, StopsAp, Call, Enter, recyVars
  <2>3. ASSUME NEW v \in Vif, OpenExists(v) PROVE FlagInv'
    BY <2>3 DEF OpenExists, recyVars
  <2>4. CASE Recover
    BY <2>4 DEF Recover, Call, recyVars
  <2>5. CASE SwitchTimer
    BY <2>5 DEF SwitchTimer, recyVars
  <2>. QED  BY <1>6, <2>1, <2>2, <2>3, <2>4, <2>5 DEF User
<1>7. CASE UserSteps
  <2>1. CASE UserWaits
    BY <2>1 DEF UserWaits, Checked, recyVars
  <2>2. CASE UserSets
    <3>1. FlagOf[call.op] \in {"OPEN", "CLOSE", "STOP_AP"}
      BY <2>2 DEF UserSets, FlagOf
    <3>2. ~lost /\ flags' = flags \cup {FlagOf[call.op]}
      BY <2>2, UpdateOfFlags DEF UserSets
    <3>3. pc["user"] = "set" /\ pc' = [pc EXCEPT !["user"] = "body"] /\ crossed' = crossed
      BY <2>2, Zenon DEF UserSets
    <3>. QED  BY <3>1, <3>2, <3>3
  <2>3. CASE UserTimesOut
    BY <2>3 DEF UserTimesOut, Returns, Enter, recyVars
  <2>4. CASE OpenDone \/ OpenFails \/ CloseDone \/ StopDone
    <3>1. Returns /\ pc["user"] = "body" /\ crossed' = crossed
      BY <2>4, Zenon DEF OpenDone, OpenFails, CloseDone, StopDone, InBody
    <3>2. ~lost /\ ("STATE" \in flags' <=> "STATE" \in flags)
      <4>1. CASE OpenDone
        BY <4>1, UpdateOfFlags DEF OpenDone, recyVars
      <4>2. CASE OpenFails
        BY <4>2, UpdateOfFlags DEF OpenFails
      <4>3. CASE CloseDone
        <5>1. PICK d \in {{"CLOSE"}, {"CLOSE", "STOP_AP"}} : Update("user", d, {})
          BY <4>3 DEF CloseDone
        <5>. QED  BY <5>1, UpdateOfFlags
      <4>4. CASE StopDone
        BY <4>4, UpdateOfFlags DEF StopDone
      <4>. QED  BY <2>4, <4>1, <4>2, <4>3, <4>4
    <3>. QED  BY <3>1, <3>2 DEF Returns, Enter
  <2>. QED  BY <1>7, <2>1, <2>2, <2>3, <2>4 DEF UserSteps
<1>8. ASSUME \/ (\E w \in Writer : Load(w)) \/ TimerFires \/ TimerPosts \/ TimerGivesUp \/ RxPosts
             \/ (\E a \in {"timer", "rx"} : Kick(a)) \/ Crash \/ BusError \/ LinkLoss
      PROVE  UNCHANGED <<flags, pc, crossed, lost>>
  BY <1>8, Zenon DEF Load, TimerFires, TimerPosts, TimerGivesUp, RxPosts, Kick, Crash, BusError, LinkLoss,
     recyVars
<1>. QED  BY <1>1, <1>2, <1>3, <1>4, <1>5, <1>6, <1>7, <1>8 DEF Next

\* No interface is opened, closed or stopped during a recovery, and no two recoveries run at
\* once, except after two checks crossed or a flag was lost.
THEOREM RecoveryExcludes == Spec => []Exclusion
<1>1. Init => ExclusionInv
  BY InitTypes DEF Init, ExclusionInv, FlagInv, Body, DoerPc, Doer
<1>2. ExclusionInv /\ [Next]_vars => ExclusionInv'
  BY StepTypes, StepFlagInv DEF ExclusionInv
<1>3. ExclusionInv => Exclusion
  BY DEF ExclusionInv, FlagInv, Exclusion, Busy, Types
<1>. QED  BY <1>1, <1>2, <1>3, PTL DEF Spec

-----------------------------------------------------------------------------
(* The flags account for what goes on                                       *)

\* All that the argument needs to know of the interfaces: each has a type,
VifShape ==
    /\ DOMAIN vif = Vif
    /\ \A v \in Vif : "type" \in DOMAIN vif[v] /\ vif[v].type \in {"STA", "AP"}
\* and only an access point is stopped.
CallInv  == pc["user"] \in {"wait", "set", "body"} =>
               call.vif \in Vif /\ (call.op = "stop" => vif[call.vif].type = "AP")

AccountInv == ExclusionInv /\ VifShape /\ CallInv /\ FlagsAccounted

\* Only a change of interface changes a type.
LEMMA StepVifs ==
  ASSUME VifShape, [Next]_vars
  PROVE  /\ VifShape'
         /\ (\E v \in Vif : ChangeIface(v)) \/ \A v \in Vif : vif'[v].type = vif[v].type
<1>. USE DEF VifShape
<1>1. CASE vif' = vif
  BY <1>1
<1>2. ASSUME NEW p \in Doer, VifReset(p) \/ RestartVif(p)
      PROVE  VifShape' /\ \A v \in Vif : vif'[v].type = vif[v].type
  <2>1. CASE VifReset(p)
    BY <2>1 DEF VifReset
  <2>2. CASE RestartVif(p)
    <3>1. PICK v, i : vif' = [vif EXCEPT ![v] = [@ EXCEPT !.up = TRUE, !.index = i]]
      BY <2>2 DEF RestartVif
    <3>. QED  BY <3>1
  <2>. QED  BY <1>2, <2>1, <2>2
<1>3. ASSUME NEW v \in Vif, OpenExists(v) \/ Closes(v) \/ StartAp(v)
      PROVE  VifShape' /\ \A w \in Vif : vif'[w].type = vif[w].type
  BY <1>3 DEF OpenExists, Closes, StartAp
<1>4. ASSUME OpenDone \/ CloseDone \/ StopDone
      PROVE  VifShape' /\ \A w \in Vif : vif'[w].type = vif[w].type
  <2>1. CASE OpenDone
    <3>1. PICK v, i : vif' = [vif EXCEPT ![v] = [@ EXCEPT !.up = TRUE, !.index = i, !.netUp = TRUE]]
      BY <2>1 DEF OpenDone
    <3>. QED  BY <3>1
  <2>2. CASE CloseDone \/ StopDone
    BY <2>2 DEF CloseDone, StopDone
  <2>. QED  BY <1>4, <2>1, <2>2
<1>5. ASSUME NEW v \in Vif, ChangeIface(v)
      PROVE  VifShape'
  BY <1>5 DEF ChangeIface
<1>6. \/ vif' = vif
      \/ \E p \in Doer : VifReset(p) \/ RestartVif(p)
      \/ \E v \in Vif : OpenExists(v) \/ Closes(v) \/ StartAp(v) \/ ChangeIface(v)
      \/ OpenDone \/ CloseDone \/ StopDone
  <2>. USE DEF vifVars
  <2>1. CASE UNCHANGED vars
    BY <2>1 DEF vars
  <2>2. ASSUME \/ (\E w \in Writer : Load(w)) \/ TimerFires \/ TimerPosts \/ TimerGivesUp \/ RxPosts
               \/ (\E a \in {"timer", "rx"} : Kick(a)) \/ Crash \/ BusError \/ LinkLoss
               \/ WorkerStarts \/ WorkerGets \/ RxSetsFlag
        PROVE  vif' = vif
    BY <2>2, Zenon DEF Load, TimerFires, TimerPosts, TimerGivesUp, RxPosts, Kick, Crash, BusError, LinkLoss,
       WorkerStarts, WorkerGets, RxSetsFlag
  <2>3. ASSUME NEW p \in Doer, Doit(p), ~VifReset(p), ~RestartVif(p) PROVE vif' = vif
    BY <2>3, Zenon DEF Doit, Delay, Check, Begin, Undrop, Reload, SkipReload, PowerOff, PowerOn,
       PowerOnFails, NextVif, RestartFails, RestartEnds, Finish
  <2>4. ASSUME NEW v \in Vif, OpenRefused(v) \/ Opens(v) \/ StopsAp(v) PROVE vif' = vif
    BY <2>4, Zenon DEF OpenRefused, Opens, StopsAp
  <2>5. ASSUME Recover \/ SwitchTimer \/ UserWaits \/ UserTimesOut \/ UserSets \/ OpenFails PROVE vif' = vif
    BY <2>5, Zenon DEF Recover, SwitchTimer, UserWaits, UserTimesOut, UserSets, OpenFails
  <2>. QED  BY <2>1, <2>2, <2>3, <2>4, <2>5, Zenon DEF Next, User, UserSteps
<1>. QED  BY <1>1, <1>2, <1>3, <1>4, <1>5, <1>6

\* What a recovery does to the flags and to the RTNL holder's call
LEMMA DoitFlags ==
  ASSUME Types, NEW p \in Doer, Doit(p), ~lost'
  PROVE  /\ "CLOSE" \in flags' <=> "CLOSE" \in flags
         /\ "STOP_AP" \in flags' <=> "STOP_AP" \in flags
         /\ "OPEN" \in flags' => "OPEN" \in flags
         /\ "DROP" \in flags' => "STATE" \in flags' \/ ("DROP" \in flags /\ "STATE" \notin flags)
         /\ call' = call
<1>. USE DEF recyVars, locals
<1>1. CASE Delay(p) \/ Check(p) \/ VifReset(p) \/ SkipReload(p) \/ PowerOff(p) \/ NextVif(p)
           \/ RestartFails(p) \/ RestartEnds(p)
  BY <1>1, Zenon DEF Delay, Check, VifReset, SkipReload, PowerOff, NextVif, RestartFails, RestartEnds
<1>2. CASE Begin(p) \/ Undrop(p) \/ Reload(p) \/ PowerOn(p)
  BY <1>2, UpdateOfFlags DEF Begin, Undrop, Reload, PowerOn
<1>5. CASE PowerOnFails(p)
  <2>1. PICK d \in SUBSET {"IPC", "FW"} : Update(p, d, {})
    BY <1>5 DEF PowerOnFails
  <2>2. flags' = (flags \ d) \cup {} /\ call' = call
    BY <1>5, <2>1, UpdateOfFlags DEF PowerOnFails
  <2>. QED  BY <2>2
<1>3. CASE RestartVif(p)
  BY <1>3, UpdateOfFlags DEF RestartVif
<1>4. CASE Finish(p)
  BY <1>4, UpdateOfFlags DEF Finish
<1>. QED  BY <1>1, <1>2, <1>3, <1>4, <1>5 DEF Doit

\* and to where they are.
LEMMA DoitUser ==
  ASSUME Types, NEW p \in Doer, Doit(p)
  PROVE  pc'["user"] = pc["user"] \/ (pc["user"] \in DoerPc /\ pc'["user"] \in DoerPc \cup {"idle"})
<1>. USE DEF Types, PcType, Doer, DoerPc, Goto
<1>1. CASE Delay(p) \/ Finish(p)
  BY <1>1 DEF Delay, Finish, Done
<1>2. CASE Check(p) \/ Begin(p) \/ VifReset(p) \/ Undrop(p) \/ Reload(p) \/ SkipReload(p)
  BY <1>2 DEF Check, Checked, Begin, VifReset, Undrop, Reload, SkipReload, ToRestart
<1>3. CASE PowerOff(p) \/ PowerOn(p)
  BY <1>3 DEF PowerOff, PowerOn, ToRestart
<1>4. CASE PowerOnFails(p)
  BY <1>4 DEF PowerOnFails, ToRestart
<1>5. CASE NextVif(p) \/ RestartVif(p) \/ RestartFails(p) \/ RestartEnds(p)
  BY <1>5 DEF NextVif, RestartVif, RestartFails, RestartEnds
<1>. QED  BY <1>1, <1>2, <1>3, <1>4, <1>5 DEF Doit

\* No interface is stopped but an access point.
LEMMA StepCallInv ==
  ASSUME Types, VifShape, CallInv, [Next]_vars
  PROVE  CallInv'
<1>. USE DEF CallInv
<1>1. /\ VifShape'
      /\ (\E v \in Vif : ChangeIface(v)) \/ \A v \in Vif : vif'[v].type = vif[v].type
  BY StepVifs
<1>2. (\E v \in Vif : ChangeIface(v)) => pc["user"] = "idle" /\ pc' = pc
  BY DEF ChangeIface, Call
<1>3. CASE call' = call /\ (pc'["user"] = pc["user"] \/ pc'["user"] \notin {"wait", "set", "body"})
  BY <1>1, <1>2, <1>3
<1>4. ASSUME NEW p \in Doer, Doit(p) PROVE CallInv'
  <2>1. call' = call
    BY <1>4, Zenon DEF Doit, Delay, Check, Begin, VifReset, Undrop, Reload, SkipReload, PowerOff, PowerOn,
       PowerOnFails, NextVif, RestartVif, RestartFails, RestartEnds, Finish, locals
  <2>2. pc'["user"] = pc["user"] \/ pc'["user"] \notin {"wait", "set", "body"}
    BY <1>4, DoitUser DEF DoerPc
  <2>. QED  BY <1>3, <2>1, <2>2
<1>5. ASSUME NEW v \in Vif, Opens(v) \/ Closes(v) \/ StopsAp(v) PROVE CallInv'
  <2>1. /\ call'.vif = v /\ (call'.op = "stop" => vif[v].type = "AP")
    BY <1>5 DEF Opens, Closes, StopsAp, Enter, ApRuns
  <2>2. vif'[v].type = vif[v].type
    <3>1. ~\E w \in Vif : ChangeIface(w)
      BY <1>5, <1>2 DEF Opens, Closes, StopsAp, Enter, Goto, Types, PcType, Doer
    <3>. QED  BY <1>1, <3>1
  <2>. QED  BY <2>1, <2>2
<1>6. ASSUME UserTimesOut \/ OpenDone \/ OpenFails \/ CloseDone \/ StopDone PROVE CallInv'
  <2>1. Returns /\ pc["user"] \in {"wait", "body"}
    BY <1>6, Zenon DEF UserTimesOut, OpenDone, OpenFails, CloseDone, StopDone, InBody
  <2>2. pc'["user"] = "idle" \/ (call'.vif = call.vif /\ call'.op = "close")
    BY <2>1 DEF Returns, Enter, Goto, Types, PcType, Doer
  <2>. QED  BY <2>1, <2>2
<1>7. ASSUME UserWaits \/ UserSets PROVE CallInv'
  <2>1. call' = call /\ pc["user"] \in {"wait", "set"}
    BY <1>7, Zenon DEF UserWaits, UserSets, locals
  <2>2. \A v \in Vif : ~ChangeIface(v)
    BY <1>2, <2>1
  <2>. QED  BY <1>1, <2>1, <2>2
<1>8. ASSUME \/ \E v \in Vif : OpenRefused(v) \/ OpenExists(v) \/ StartAp(v) \/ ChangeIface(v)
             \/ Recover \/ SwitchTimer
      PROVE  CallInv'
  <2>1. call' = call /\ (pc' = pc \/ pc'["user"] = "check")
    BY <1>8 DEF OpenRefused, OpenExists, StartAp, ChangeIface, Recover, SwitchTimer, Goto, locals, Types,
       PcType, Doer
  <2>. QED  BY <1>3, <2>1
<1>9. ASSUME \/ (\E w \in Writer : Load(w)) \/ TimerFires \/ TimerPosts \/ TimerGivesUp \/ RxPosts
             \/ (\E a \in {"timer", "rx"} : Kick(a)) \/ Crash \/ BusError \/ LinkLoss \/ RxSetsFlag
             \/ UNCHANGED vars
      PROVE  CallInv'
  <2>1. UNCHANGED <<call, pc>>
    BY <1>9, Zenon DEF Load, TimerFires, TimerPosts, TimerGivesUp, RxPosts, Kick, Crash, BusError, LinkLoss,
       RxSetsFlag, vars, locals
  <2>. QED  BY <1>3, <2>1
<1>10. ASSUME WorkerStarts \/ WorkerGets PROVE CallInv'
  <2>1. call' = call /\ pc'["user"] = pc["user"]
    BY <1>10 DEF WorkerStarts, WorkerGets, Goto, locals, Types, PcType, Doer
  <2>. QED  BY <1>3, <2>1
<1>. QED  BY <1>4, <1>5, <1>6, <1>7, <1>8, <1>9, <1>10 DEF Next, User, UserSteps

\* A step that clears flags only, by what it is about, and lets the RTNL holder be.
LEMMA QuietAccounted ==
  ASSUME FlagInv', FlagsAccounted, VifShape, ~crossed, ~lost, [Next]_vars,
         "CLOSE" \in flags' <=> "CLOSE" \in flags, "STOP_AP" \in flags' => "STOP_AP" \in flags,
         "OPEN" \in flags' => "OPEN" \in flags,
         "DROP" \in flags' => "STATE" \in flags' \/ ("DROP" \in flags /\ "STATE" \notin flags),
         InBody("open")' <=> InBody("open"), InBody("close")' <=> InBody("close"),
         \A v \in Vif : ~ChangeIface(v)
  PROVE  FlagsAccounted'
<1>1. \A v \in Vif : vif'[v].type = vif[v].type
  BY StepVifs
<1>. QED  BY <1>1 DEF FlagsAccounted, FlagInv

\* Every step keeps account.
LEMMA StepAccounted == AccountInv /\ [Next]_vars => FlagsAccounted'
<1>. SUFFICES ASSUME AccountInv, [Next]_vars, ~crossed', ~lost' PROVE FlagsAccounted'
  BY DEF FlagsAccounted
<1>. USE DEF AccountInv
<1>1. Types /\ Types' /\ FlagInv' /\ VifShape /\ CallInv /\ FlagsAccounted
  BY StepTypes, StepFlagInv DEF ExclusionInv
<1>2. ASSUME NEW v \in Vif, ChangeIface(v) PROVE FlagsAccounted'
  <2>1. /\ UNCHANGED <<pc, call, crossed>> /\ pc["user"] = "idle"
        /\ vif' = [vif EXCEPT ![v].type = IF @ = "AP" THEN "STA" ELSE "AP"]
        /\ IF vif[v].type = "AP" THEN Update("user", {"STOP_AP", "OPEN"}, {})
                                 ELSE UNCHANGED <<flags, lost>>
    BY <1>2 DEF ChangeIface, Call, locals, recyVars
  <2>2. CASE vif[v].type = "AP"
    <3>1. ~lost /\ flags' = flags \ {"STOP_AP", "OPEN"}
      BY <2>1, <2>2, UpdateOfFlags
    <3>. QED  BY <1>1, <2>1, <3>1 DEF FlagsAccounted, InBody
  <2>3. CASE vif[v].type # "AP"
    <3>1. vif'[v].type = "AP"
      BY <2>1, <2>3 DEF VifShape
    <3>. QED  BY <1>1, <2>1, <2>3, <3>1 DEF FlagsAccounted, InBody
  <2>. QED  BY <2>2, <2>3
<1>3. ASSUME \A v \in Vif : ~ChangeIface(v) PROVE FlagsAccounted'
  <2>. USE DEF InBody
  <2>0. \A v \in Vif : vif'[v].type = vif[v].type
    BY <1>3, StepVifs
  <2>1. ASSUME NEW p \in Doer, Doit(p) PROVE FlagsAccounted'
    <3>1. ~crossed
      BY <2>1 DEF Doit, Delay, Check, Checked, Begin, VifReset, Undrop, Reload, SkipReload, PowerOff, PowerOn,
         PowerOnFails, NextVif, RestartVif, RestartFails, RestartEnds, Finish
    <3>2. ~lost
      BY <2>1, UpdateOfFlags DEF Doit, Delay, Check, Begin, VifReset, Undrop, Reload, SkipReload, PowerOff,
         PowerOn, PowerOnFails, NextVif, RestartVif, RestartFails, RestartEnds, Finish, recyVars
    <3>3. /\ "CLOSE" \in flags' <=> "CLOSE" \in flags
          /\ "STOP_AP" \in flags' <=> "STOP_AP" \in flags
          /\ "OPEN" \in flags' => "OPEN" \in flags
          /\ "DROP" \in flags' => "STATE" \in flags' \/ ("DROP" \in flags /\ "STATE" \notin flags)
          /\ call' = call
      BY <1>1, <2>1, DoitFlags
    <3>4. \A op : InBody(op)' <=> InBody(op)
      BY <1>1, <2>1, <3>3, DoitUser DEF DoerPc
    <3>. QED  BY <1>1, <1>3, <3>1, <3>2, <3>3, <3>4, QuietAccounted
  <2>2. CASE RxSetsFlag
    <3>1. ~lost /\ UNCHANGED <<pc, call, crossed>>
          /\ flags' = (flags \ {"CHECK_SCC"}) \cup ({"CHECK_SCC"} \ flags)
      BY <2>2, UpdateOfFlags DEF RxSetsFlag, locals
    <3>. QED  BY <1>1, <1>3, <3>1, QuietAccounted
  <2>3. ASSUME UNCHANGED <<flags, lost, crossed>>,
               \A op \in {"open", "close"} : InBody(op)' <=> InBody(op)
        PROVE  FlagsAccounted'
    BY <1>1, <1>3, <2>3, QuietAccounted
  <2>4. ASSUME \/ (\E w \in Writer : Load(w)) \/ TimerFires \/ TimerPosts \/ TimerGivesUp \/ RxPosts
               \/ (\E a \in {"timer", "rx"} : Kick(a)) \/ Crash \/ BusError \/ LinkLoss \/ UNCHANGED vars
        PROVE  FlagsAccounted'
    <3>1. UNCHANGED <<flags, lost, crossed, pc, call>>
      BY <2>4, Zenon DEF Load, TimerFires, TimerPosts, TimerGivesUp, RxPosts, Kick, Crash, BusError, LinkLoss,
         vars, locals, recyVars
    <3>. QED  BY <2>3, <3>1
  <2>5. ASSUME WorkerStarts \/ WorkerGets PROVE FlagsAccounted'
    <3>1. UNCHANGED <<flags, lost, crossed, call>> /\ pc'["user"] = pc["user"]
      BY <1>1, <2>5 DEF WorkerStarts, WorkerGets, Goto, locals, recyVars, Types, PcType, Doer
    <3>. QED  BY <2>3, <3>1
  <2>6. ASSUME NEW v \in Vif, OpenRefused(v) \/ StartAp(v) PROVE FlagsAccounted'
    <3>1. /\ UNCHANGED <<pc, call, crossed>>
          /\ \/ UNCHANGED <<flags, lost>>
             \/ \E add \in SUBSET {"AP_INFO"} : Update("user", {"OPEN"}, add)
      BY <2>6 DEF OpenRefused, StartAp, locals, recyVars
    <3>2. ~lost /\ \/ flags' = flags
                   \/ \E add \in SUBSET {"AP_INFO"} : flags' = (flags \ {"OPEN"}) \cup add
      BY <3>1, UpdateOfFlags
    <3>. QED  BY <1>1, <1>3, <3>1, <3>2, QuietAccounted
  <2>7. ASSUME NEW v \in Vif, OpenExists(v) \/ Opens(v) \/ Closes(v) \/ StopsAp(v) PROVE FlagsAccounted'
    <3>1. UNCHANGED <<flags, lost, crossed>> /\ pc["user"] # "body" /\ pc'["user"] # "body"
      BY <1>1, <2>7 DEF OpenExists, Opens, Closes, StopsAp, Enter, Call, Goto, locals, recyVars, Types, PcType,
         Doer
    <3>. QED  BY <2>3, <3>1
  <2>8. ASSUME Recover \/ SwitchTimer \/ UserWaits \/ UserTimesOut PROVE FlagsAccounted'
    <3>1. pc["user"] # "body" /\ pc'["user"] # "body"
      <4>1. CASE Recover
        BY <1>1, <4>1 DEF Recover, Call, Goto, Types, PcType, Doer
      <4>2. CASE SwitchTimer
        BY <4>2 DEF SwitchTimer, Call
      <4>3. CASE UserWaits
        BY <1>1, <4>3 DEF UserWaits, Checked, Goto, Types, PcType, Doer
      <4>4. CASE UserTimesOut
        BY <1>1, <4>4 DEF UserTimesOut, Returns, Enter, Goto, Types, PcType, Doer
      <4>. QED  BY <2>8, <4>1, <4>2, <4>3, <4>4
    <3>2. UNCHANGED <<flags, lost>> /\ ~crossed
      <4>1. UNCHANGED <<flags, lost>>
        BY <2>8, Zenon DEF Recover, SwitchTimer, UserWaits, UserTimesOut, recyVars
      <4>2. UNCHANGED crossed \/ UserWaits
        BY <2>8, Zenon DEF Recover, SwitchTimer, UserTimesOut
      <4>3. UserWaits => (crossed => crossed')
        BY Zenon DEF UserWaits, Checked
      <4>4. ~crossed
        BY <4>2, <4>3, Zenon
      <4>. QED  BY <4>1, <4>4
    <3>. QED  BY <1>1, <1>3, <3>1, <3>2, QuietAccounted
  <2>9. CASE UserSets
    <3>1. /\ pc["user"] = "set" /\ call' = call /\ crossed' = crossed /\ pc' = [pc EXCEPT !["user"] = "body"]
          /\ ~lost /\ flags' = flags \cup {FlagOf[call.op]}
      BY <2>9, UpdateOfFlags DEF UserSets, Goto, locals
    <3>2. /\ pc'["user"] = "body" /\ call.op \in {"open", "close", "stop"} /\ call.vif \in Vif
          /\ call.op = "stop" => vif'[call.vif].type = "AP"
      BY <1>1, <2>0, <3>1 DEF Types, PcType, Doer, FlagOf, CallInv
    <3>3. /\ "STATE" \in flags' <=> "STATE" \in flags
          /\ "DROP" \in flags' <=> "DROP" \in flags
          /\ "CLOSE" \in flags' <=> "CLOSE" \in flags \/ call.op = "close"
          /\ "OPEN" \in flags' <=> "OPEN" \in flags \/ call.op = "open"
          /\ "STOP_AP" \in flags' <=> "STOP_AP" \in flags \/ call.op = "stop"
      BY <3>1, <3>2 DEF FlagOf
    <3>. QED  BY <1>1, <2>0, <3>1, <3>2, <3>3 DEF FlagsAccounted, FlagInv
  <2>10. ASSUME Returns, pc["user"] = "body" PROVE pc'["user"] # "body"
    BY <1>1, <2>10 DEF Returns, Enter, Goto, Types, PcType, Doer
  <2>11. CASE OpenDone
    <3>1. /\ InBody("open") /\ Returns /\ crossed' = crossed
          /\ IF vif[call.vif].type = "STA" THEN Update("user", {"OPEN"}, {}) ELSE UNCHANGED <<flags, lost>>
      BY <2>11 DEF OpenDone, recyVars
    <3>2. pc'["user"] # "body" /\ call.vif \in Vif
      BY <1>1, <2>10, <3>1 DEF CallInv
    <3>3. ~lost /\ flags' = flags \ (IF vif[call.vif].type = "STA" THEN {"OPEN"} ELSE {})
      BY <3>1, UpdateOfFlags
    <3>4. vif[call.vif].type = "STA" \/ vif'[call.vif].type = "AP"
      BY <1>1, <2>0, <3>2 DEF VifShape
    <3>. QED  BY <1>1, <2>0, <3>1, <3>2, <3>3, <3>4 DEF FlagsAccounted, FlagInv
  <2>12. CASE OpenFails \/ StopDone
    <3>1. /\ InBody("open") \/ InBody("stop")
          /\ Returns /\ crossed' = crossed
          /\ \/ InBody("open") /\ Update("user", {"OPEN"}, {})
             \/ InBody("stop") /\ Update("user", {"AP_INFO"}, {})
      BY <2>12 DEF OpenFails, StopDone
    <3>2. pc'["user"] # "body"
      BY <2>10, <3>1
    <3>3. ~lost /\ \/ InBody("open") /\ flags' = flags \ {"OPEN"}
                   \/ InBody("stop") /\ flags' = flags \ {"AP_INFO"}
      BY <3>1, UpdateOfFlags
    <3>. QED  BY <1>1, <2>0, <3>1, <3>2, <3>3 DEF FlagsAccounted, FlagInv
  <2>13. CASE CloseDone
    <3>1. /\ InBody("close") /\ Returns /\ crossed' = crossed
          /\ \E d \in SUBSET {"STOP_AP"} : Update("user", {"CLOSE"} \cup d, {})
      BY <2>13 DEF CloseDone
    <3>2. pc'["user"] # "body"
      BY <2>10, <3>1
    <3>3. ~lost /\ \E d \in SUBSET {"STOP_AP"} : flags' = flags \ ({"CLOSE"} \cup d)
      BY <3>1, UpdateOfFlags
    <3>. QED  BY <1>1, <2>0, <3>1, <3>2, <3>3 DEF FlagsAccounted, FlagInv
  <2>. QED  BY <1>3, <2>1, <2>2, <2>4, <2>5, <2>6, <2>7, <2>8, <2>9, <2>11, <2>12, <2>13
            DEF Next, User, UserSteps
<1>. QED  BY <1>2, <1>3

\* The recovery flags tell what goes on as long as no flag was lost and no check crossed another:
\* STATE and CLOSE stand for a recovery and a close that run, DROP for a part of a recovery, and an
\* open or a stop outlives its call only for the sake of an access point.
THEOREM FlagsTellTheTruth == Spec => []FlagsAccounted
<1>1. Init => AccountInv
  <2>. SUFFICES ASSUME Init PROVE AccountInv
    OBVIOUS
  <2>1. ExclusionInv
    BY InitTypes DEF Init, ExclusionInv, FlagInv, Body, DoerPc, Doer
  <2>2. VifShape /\ CallInv /\ FlagsAccounted
    BY RecoveryAssumption DEF Init, VifShape, CallInv, FlagsAccounted, InBody, Body, DoerPc, Doer
  <2>. QED  BY <2>1, <2>2 DEF AccountInv
<1>2. AccountInv /\ [Next]_vars => AccountInv'
  BY StepTypes, StepFlagInv, StepVifs, StepCallInv, StepAccounted DEF AccountInv, ExclusionInv
<1>3. AccountInv => FlagsAccounted
  BY DEF AccountInv
<1>. QED  BY <1>1, <1>2, <1>3, PTL DEF Spec
=============================================================================
