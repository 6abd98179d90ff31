--------------------------- MODULE Swi7Port_proofs ---------------------------
(***************************************************************************)
(* Proofs about Swi7Port, for every set of MACs and every bound: the types *)
(* without further assumptions; then, when mac_control is used in balance  *)
(* and set_status tries the lock that suspend and resume hold, the lock,   *)
(* the suspend counters, the queues and the registers, from one inductive  *)
(* invariant that is the conjunction of CountInv, MutualExclusion, GateInv *)
(* and LinkInv, each preserved by every step on the strength of those      *)
(* named before it.                                                        *)
(***************************************************************************)
EXTENDS Swi7Port, Mac7Port_proofs, EthTxQueue_proofs

(* A PHY in LINK_FAILED has asked its MAC to suspend.                      *)
FailedIsHeld == \A m \in phyFailed : phyHeld[m] > 0

TypeInv == TypeOK /\ FailedIsHeld

(***************************************************************************)
(* Types.                                                                  *)
(***************************************************************************)
(* Boot leaves every variable in its type (avmnet_config.c:924-972).       *)
LEMMA TypeInit == Init => TypeInv
  <1> SUFFICES ASSUME Init PROVE TypeInv
    OBVIOUS
  <1>1. MacTypeOK
    BY MacInitFacts DEF Init
  <1>2. QueueTypeOK
    BY QueueInitFacts, ClientsAssumption DEF Init
  <1>3. /\ sem \in Nat /\ swSusp \in Nat
        /\ phyFailed \in SUBSET Macs /\ phyHeld \in [Macs -> Nat]
        /\ wpc \in WorkerSteps /\ wmac \in Macs /\ wst \in LinkStatus
        /\ wup \in 0..1 /\ todo \in SUBSET Macs
    BY NoLinkType DEF Init, WorkerSteps
  <1>4. /\ dpc \in DataSteps /\ loaded \in BOOLEAN /\ left \in SUBSET Macs
        /\ ppc \in ProcSteps /\ pmac \in Macs /\ pcmd \in {"suspend", "resume"}
        /\ procHeld \in [Macs -> Nat]
    BY DEF Init, DataSteps, ProcSteps
  <1>5. /\ npc \in DevSteps /\ nmac \in Macs
        /\ devUp \in [Macs -> BOOLEAN] /\ powered \in [Macs -> BOOLEAN]
    BY DEF Init, DevSteps
  <1>6. FailedIsHeld
    BY DEF Init, FailedIsHeld
  <1> QED BY <1>1, <1>2, <1>3, <1>4, <1>5, <1>6 DEF TypeInv, TypeOK

(* What a PHY does to its MAC keeps the types: a failure counts up what    *)
(* the restart counts down (avmnet_ar803x.c:196-231, 334-347).             *)
PhyActs(m) == PhyFails(m) \/ PhyRestarts(m) \/ PhyFailsAgain(m)

LEMMA PhyTypes ==
    ASSUME TypeInv, NEW m \in Macs, PhyActs(m)
    PROVE  /\ MacTypeOK' /\ sem' \in Nat
           /\ phyFailed' \in SUBSET Macs /\ phyHeld' \in [Macs -> Nat] /\ FailedIsHeld'
  <1> USE DEF TypeInv, TypeOK, FailedIsHeld
  <1>1. CASE PhyFails(m)
    <2>1. MacTypeOK'
      BY <1>1, MacSuspendFacts DEF PhyFails
    <2> QED BY <1>1, <2>1 DEF PhyFails
  <1>2. CASE PhyRestarts(m)
    <2>1. MacTypeOK' /\ sem' \in Nat
      BY <1>2, MacResumeFacts DEF PhyRestarts, Up, MacTypeOK, macVars
    <2> QED BY <1>2, <2>1 DEF PhyRestarts
  <1>3. CASE PhyFailsAgain(m)
    <2>1. MacTypeOK' /\ sem' \in Nat
      BY <1>3, ForgetLinkFacts, MacSuspendFacts DEF PhyFailsAgain, Up
    <2> QED BY <1>3, <2>1 DEF PhyFailsAgain, phyVars
  <1> QED BY <1>1, <1>2, <1>3 DEF PhyActs

(* The worker's part of the types, its MAC and its status among them.      *)
LEMMA TypeWorker == TypeInv /\ Worker => TypeInv'
  <1> SUFFICES ASSUME TypeInv, Worker PROVE TypeInv'
    OBVIOUS
  <1> USE DEF TypeInv, TypeOK, FailedIsHeld, WorkerSteps, macVars, queueVars, phyVars,
              dataVars, procVars, devVars
  <1>1. ASSUME NEW m \in Macs, PollPoweredDown(m) \/ PollStatus(m) PROVE TypeInv'
    BY <1>1, NoLinkType DEF PollPoweredDown, PollStatus, PollReturns, MacTypeOK, QueueTypeOK
  <1>2. ASSUME NEW m \in Macs, PollLinkFails(m) \/ PollRestarts(m) \/ PollFailsAgain(m)
        PROVE  TypeInv'
    <2>1. PhyActs(m) /\ QueueTypeOK'
      BY <1>2 DEF PollLinkFails, PollRestarts, PollFailsAgain, PhyActs, QueueTypeOK
    <2>2. wst' \in LinkStatus
      BY <1>2, NoLinkType DEF PollLinkFails, PollRestarts, PollFailsAgain, PollReturns, LinkStatus
    <2> QED BY <1>2, <2>1, <2>2, PhyTypes
            DEF PollLinkFails, PollRestarts, PollFailsAgain, PollReturns
  <1>5. CASE WorkerLock \/ WorkerTryLock \/ WorkerCheck
    BY <1>5 DEF WorkerLock, WorkerTryLock, WorkerCheck, Down, Up, MacTypeOK, QueueTypeOK
  <1>6. CASE WorkerSetup
    BY <1>6 DEF WorkerSetup, LinkstFor, LinkStatus, MacTypeOK, QueueTypeOK
  <1>7. CASE WorkerWrite
    <2>1. MacTypeOK' /\ QueueTypeOK'
      BY <1>7 DEF WorkerWrite, SetupMacSpeed, MacTypeOK, QueueTypeOK, LinkStatus
    <2> QED BY <1>7, <2>1 DEF WorkerWrite
  <1>8. CASE WorkerRecord
    <2>1. MacTypeOK' /\ QueueTypeOK' /\ wst' \in LinkStatus /\ sem' \in Nat
      BY <1>8 DEF WorkerRecord, RecordStatus, ReportedStatus, Up, MacTypeOK, QueueTypeOK, LinkStatus
    <2> QED BY <1>8, <2>1 DEF WorkerRecord
  <1>9. CASE WorkerCarrier \/ WorkerStopQueue
    <2>1. QueueTypeOK'
      BY <1>9, NotGateFacts DEF WorkerCarrier, WorkerStopQueue, NotGate
    <2> QED BY <1>9, <2>1, NoLinkType DEF WorkerCarrier, WorkerStopQueue, MacTypeOK
  <1>10. CASE WorkerWake
    <2>1. QueueTypeOK'
      BY <1>10, GateFacts DEF WorkerWake
    <2> QED BY <1>10, <2>1 DEF WorkerWake, Up, MacTypeOK
  <1> QED BY <1>1, <1>2, <1>5, <1>6, <1>7, <1>8, <1>9, <1>10 DEF Worker

(* The load and unload of the datapath driver keep the types; the switch's *)
(* counter is taken down only after it was seen above 0                    *)
(* (swi_7port.c:617-740, vr9_e5.c:6336-6825).                              *)
LEMMA TypeDatapath == TypeInv /\ Datapath => TypeInv'
  <1> SUFFICES ASSUME TypeInv, Datapath PROVE TypeInv'
    OBVIOUS
  <1> USE DEF TypeInv, TypeOK, FailedIsHeld, DataSteps, macVars, queueVars, phyVars,
              workerVars, procVars, devVars
  <1>1. CASE DataStart \/ DataFinish \/ DataStopDma \/ DataStartDma
    <2>1. QueueTypeOK'
      BY <1>1, NotGateFacts DEF DataStart, DataFinish, DataStopDma, DataStartDma, NotGate
    <2> QED BY <1>1, <2>1 DEF DataStart, DataFinish, DataStopDma, DataStartDma, MacTypeOK
  <1>2. CASE DataInterrupted \/ DataFails
    BY <1>2 DEF DataInterrupted, DataFails, MacTypeOK, QueueTypeOK
  <1>3. CASE SuspendLock \/ ResumeLock
    BY <1>3 DEF SuspendLock, ResumeLock, Down, MacTypeOK, QueueTypeOK
  <1>4. CASE SuspendQueues
    <2>1. QueueTypeOK'
      BY <1>4, NotGateFacts DEF SuspendQueues, NotGate, QueueTypeOK
    <2> QED BY <1>4, <2>1 DEF SuspendQueues, MacTypeOK
  <1>5. CASE SuspendMacs
    <2>1. MacTypeOK'
      BY <1>5, MacSuspendFacts DEF SuspendMacs, MacTypeOK
    <2> QED BY <1>5, <2>1 DEF SuspendMacs, Up, QueueTypeOK
  <1>6. CASE ResumeCount
    BY <1>6 DEF ResumeCount, Up, MacTypeOK, QueueTypeOK
  <1>7. CASE ResumeMacs
    <2>1. MacTypeOK'
      BY <1>7, MacResumeFacts DEF ResumeMacs
    <2>2. left' \in SUBSET Macs /\ sem' \in Nat /\ dpc' \in DataSteps
      BY <1>7 DEF ResumeMacs, Up
    <2> QED BY <1>7, <2>1, <2>2 DEF ResumeMacs, QueueTypeOK
  <1>8. CASE ResumeQueues
    <2>1. QueueTypeOK'
      BY <1>8, GateFacts DEF ResumeQueues
    <2> QED BY <1>8, <2>1 DEF ResumeQueues, Up, MacTypeOK
  <1> QED BY <1>1, <1>2, <1>3, <1>4, <1>5, <1>6, <1>7, <1>8 DEF Datapath, DataStep

(* The mac_control writer keeps the types: a resume at counter 0 returns   *)
(* before it counts down (mac_7port.c:342-360, 433-437).                   *)
LEMMA TypeProc == TypeInv /\ Proc => TypeInv'
  <1> SUFFICES ASSUME TypeInv, Proc PROVE TypeInv'
    OBVIOUS
  <1> USE DEF TypeInv, TypeOK, FailedIsHeld, ProcSteps, macVars, queueVars, phyVars,
              workerVars, dataVars, devVars
  <1>1. CASE (\E m \in ProcMacs, cmd \in {"suspend", "resume"} : ProcWrite(m, cmd)) \/ ProcLeave
    BY <1>1, ClientsAssumption DEF ProcWrite, ProcLeave, Down, Up, MacTypeOK, QueueTypeOK
  <1>2. CASE ProcRun
    <2>1. MacTypeOK'
      BY <1>2, MacSuspendFacts, MacResumeFacts DEF ProcRun, MacTypeOK
    <2>2. procHeld' \in [Macs -> Nat]
      <3>1. \/ procHeld' = [procHeld EXCEPT ![pmac] = @ + 1]
            \/ procHeld' = [procHeld EXCEPT ![pmac] = IF @ > 0 THEN @ - 1 ELSE 0]
        BY <1>2 DEF ProcRun
      <3> QED BY <3>1
    <2>3. sem' \in Nat /\ ppc' \in ProcSteps
      BY <1>2 DEF ProcRun, Up
    <2> QED BY <1>2, <2>1, <2>2, <2>3 DEF ProcRun, QueueTypeOK
  <1> QED BY <1>1, <1>2 DEF Proc

(* What opening and stopping a device does to its queue is nothing that    *)
(* the gate would allow (avmnet_config.c:1412-1492).                       *)
LEMMA DeviceIsNotGate ==
    ASSUME TypeInv,
           \/ \E m \in OpenMacs : DevOpen(m) \/ DevStop(m)
           \/ DevStartQueue \/ DevCarrierOff
    PROVE  NotGate
  <1>0. nmac \in Macs /\ OpenMacs \subseteq Macs
    BY ClientsAssumption DEF TypeInv, TypeOK
  <1>1. ASSUME NEW m \in OpenMacs, DevOpen(m) PROVE NotGate
    BY <1>0, <1>1 DEF DevOpen, NotGate
  <1>2. ASSUME NEW m \in OpenMacs, DevStop(m) PROVE NotGate
    <2>1. {m} \in SUBSET Macs /\ StopQueues({m})
      BY <1>0, <1>2 DEF DevStop
    <2> QED BY <2>1 DEF NotGate
  <1>3. ASSUME DevStartQueue PROVE NotGate
    <2>1. {nmac} \in SUBSET Macs /\ WakeQueues({nmac}, "forced")
      BY <1>0, <1>3 DEF DevStartQueue
    <2> QED BY <2>1 DEF NotGate
  <1>4. ASSUME DevCarrierOff PROVE NotGate
    BY <1>0, <1>4 DEF DevCarrierOff, NotGate
  <1> QED BY <1>1, <1>2, <1>3, <1>4

(* Opening and stopping a device keeps the types                           *)
(* (avmnet_config.c:1412-1492, avmnet_ar803x.c:1091-1159).                 *)
LEMMA TypeDevice == TypeInv /\ Device => TypeInv'
  <1> SUFFICES ASSUME TypeInv, Device PROVE TypeInv'
    OBVIOUS
  <1> USE DEF TypeInv, TypeOK, FailedIsHeld, DevSteps, macVars, queueVars, phyVars,
              workerVars, dataVars, procVars
  <1>1. CASE \/ \E m \in OpenMacs : DevOpen(m) \/ DevStop(m)
             \/ DevStartQueue \/ DevCarrierOff
    <2>1. QueueTypeOK'
      BY <1>1, DeviceIsNotGate, NotGateFacts
    <2>2. devUp' \in [Macs -> BOOLEAN] /\ npc' \in DevSteps /\ nmac' \in Macs
      <3>1. CASE \E m \in OpenMacs : DevOpen(m) \/ DevStop(m)
        BY <3>1, ClientsAssumption DEF DevOpen, DevStop
      <3>2. CASE DevStartQueue \/ DevCarrierOff
        BY <3>2 DEF DevStartQueue, DevCarrierOff
      <3> QED BY <1>1, <3>1, <3>2
    <2>3. UNCHANGED <<macVars, sem, swSusp, phyVars, workerVars, dataVars, procVars, powered>>
      BY <1>1 DEF DevOpen, DevStop, DevStartQueue, DevCarrierOff
    <2> QED BY <2>1, <2>2, <2>3 DEF MacTypeOK
  <1>2. CASE DevPowerup
    <2>1. MacTypeOK'
      BY <1>2, MacSuspendResumeFacts DEF DevPowerup, MacTypeOK
    <2> QED BY <1>2, <2>1 DEF DevPowerup, QueueTypeOK
  <1>3. CASE DevPowerdown \/ DevInterrupted
    BY <1>3 DEF DevPowerdown, DevInterrupted, MacTypeOK, QueueTypeOK
  <1>4. ASSUME NEW m \in Macs, EthtoolLook(m) PROVE TypeInv'
    <2>1. PhyActs(m) /\ QueueTypeOK'
      BY <1>4 DEF EthtoolLook, PhyActs, QueueTypeOK
    <2> QED BY <1>4, <2>1, PhyTypes DEF EthtoolLook, devVars
  <1> QED BY <1>1, <1>2, <1>3, <1>4, ClientsAssumption DEF Device, DevStep

(* The DMA interrupts and the watchdog keep the types and touch neither    *)
(* counters nor registers (ifxmips_ppa_datapath_common.h:6257-6321).       *)
LEMMA TypeInterrupt ==
    TypeInv /\ (RingFull \/ RingDrained \/ \E m \in Macs : Watchdog(m)) => TypeInv'
  <1> SUFFICES ASSUME TypeInv, RingFull \/ RingDrained \/ \E m \in Macs : Watchdog(m)
               PROVE  TypeInv'
    OBVIOUS
  <1>1. QueueTypeOK'
    <2>1. \A m \in Macs : devUp[m] \in BOOLEAN
      BY DEF TypeInv, TypeOK
    <2> QED BY <2>1, NotGateFacts DEF RingFull, RingDrained, Watchdog, NotGate, TypeInv, TypeOK
  <1> QED BY <1>1 DEF RingFull, RingDrained, Watchdog, TypeInv, TypeOK, FailedIsHeld, MacTypeOK,
             macVars, phyVars, workerVars, dataVars, procVars, devVars

(* No step of any thread leaves the types.                                 *)
LEMMA TypeStep == TypeInv /\ [Next]_vars => TypeInv'
  <1>1. TypeInv /\ UNCHANGED vars => TypeInv'
    BY DEF TypeInv, TypeOK, FailedIsHeld, MacTypeOK, QueueTypeOK, vars, macVars, queueVars,
           phyVars, workerVars, dataVars, procVars, devVars
  <1> QED BY <1>1, TypeWorker, TypeDatapath, TypeProc, TypeDevice, TypeInterrupt DEF Next

(* Every variable keeps its type, whatever the bounds and whichever of the *)
(* misuses the constants allow: no counter is ever decremented below 0.    *)
THEOREM TypeCorrect == Spec => []TypeOK
  <1>1. TypeInv => TypeOK
    BY DEF TypeInv
  <1> QED BY <1>1, TypeInit, TypeStep, PTL DEF Spec

(***************************************************************************)
(* The inductive invariant of the balanced use of the shared lock.         *)
(***************************************************************************)
(* The suspend counters: a resume is only under way for what was suspended.*)
CountInv ==
    /\ SuspendCountsBalanced
    /\ dpc \in {"macs", "wakeq"} => swSusp = 0
    /\ dpc # "macs" => left = {}
    /\ ppc = "run" /\ pcmd = "resume" => procHeld[pmac] > 0

(* The queues: the worker still has a free way when it wakes one, and none *)
(* is gated from the moment the suspend has stopped them.                  *)
GateInv ==
    /\ wpc = "wake" => swSusp = 0
    /\ swSusp > 0 \/ dpc = "count" => NoneGated

(* The registers, also while set_status is between programming a MAC and   *)
(* remembering the status it programmed.                                   *)
LinkInv ==
    /\ LinkObeysSuspend
    /\ wpc = "write" => wmac \notin SwitchPorts /\ wup = LinkstFor(wmac, wst)
    /\ wpc = "record" /\ wmac \notin SwitchPorts => Programmed(wmac, wst)
    /\ \A m \in Macs \ SwitchPorts :
          ~(wpc \in {"write", "record"} /\ wmac = m) => Programmed(m, lastKnown[m])

(* A balanced count rules out the unbalanced branch of every resume, the   *)
(* one that gives back a lock it did not take.                             *)
LEMMA NoUnbalancedResume ==
    ASSUME TypeInv, CountInv
    PROVE  /\ \A m \in phyFailed \cup left : macSusp[m] > 0
           /\ ppc = "run" /\ pcmd = "resume" => macSusp[pmac] > 0
  <1>1. \A m \in Macs : macSusp[m] \in Nat /\ phyHeld[m] \in Nat /\ procHeld[m] \in Nat
    BY DEF TypeInv, TypeOK, MacTypeOK
  <1>2. ASSUME NEW m \in phyFailed PROVE macSusp[m] > 0
    BY <1>1, <1>2 DEF TypeInv, TypeOK, FailedIsHeld, CountInv, SuspendCountsBalanced
  <1>3. ASSUME NEW m \in left PROVE macSusp[m] > 0
    BY <1>1, <1>3 DEF TypeInv, TypeOK, CountInv, SuspendCountsBalanced
  <1>4. ASSUME ppc = "run", pcmd = "resume" PROVE macSusp[pmac] > 0
    BY <1>1, <1>4 DEF TypeInv, TypeOK, CountInv, SuspendCountsBalanced
  <1> QED BY <1>2, <1>3, <1>4

(* So a PHY moves its MAC's counter along with what it has asked for, and  *)
(* leaves the lock as it found it.                                         *)
LEMMA PhyCounts ==
    ASSUME TypeInv, CountInv, NEW m \in Macs, PhyActs(m)
    PROVE  /\ UNCHANGED sem
           /\ \A k \in Macs : macSusp'[k] + phyHeld[k] = macSusp[k] + phyHeld'[k]
           /\ macSusp' \in [Macs -> Nat] /\ phyHeld' \in [Macs -> Nat]
  <1>0. macSusp' \in [Macs -> Nat] /\ phyHeld' \in [Macs -> Nat]
    BY PhyTypes DEF MacTypeOK
  <1> USE DEF TypeInv, TypeOK, MacTypeOK
  <1>1. CASE PhyFails(m)
    BY <1>1 DEF PhyFails, MacSuspend
  <1>2. CASE PhyRestarts(m)
    <2>1. MacResume({m}) /\ UNCHANGED sem /\ phyHeld' = [phyHeld EXCEPT ![m] = @ - 1]
      BY <1>2, NoUnbalancedResume DEF PhyRestarts
    <2>2. ASSUME NEW k \in Macs
          PROVE  macSusp'[k] + phyHeld[k] = macSusp[k] + phyHeld'[k]
      <3>1. macSusp[k] \in Nat /\ phyHeld[k] \in Nat
        OBVIOUS
      <3>2. CASE k = m
        BY <2>1, <3>1, <3>2 DEF MacResume
      <3>3. CASE k # m
        BY <2>1, <3>1, <3>3 DEF MacResume
      <3> QED BY <3>2, <3>3
    <2> QED BY <1>0, <2>1, <2>2
  <1>3. CASE PhyFailsAgain(m)
    <2>1. UNCHANGED <<macSusp, phyHeld, sem>>
      BY <1>3, NoUnbalancedResume DEF PhyFailsAgain, ForgetLink, phyVars
    <2> QED BY <2>1
  <1> QED BY <1>0, <1>1, <1>2, <1>3 DEF PhyActs

(* The counters are changed by suspends and resumes and by nothing else.   *)
LEMMA CountStep ==
    ASSUME ProcBalanced, TypeInv, CountInv, [Next]_vars
    PROVE  CountInv'
  <1> USE DEF CountInv, SuspendCountsBalanced, phyVars, workerVars, dataVars, procVars, devVars
  <1>a. ASSUME NEW m \in Macs, PhyActs(m), UNCHANGED <<swSusp, dataVars, procVars>> PROVE CountInv'
    <2>1. /\ \A k \in Macs : macSusp'[k] + phyHeld[k] = macSusp[k] + phyHeld'[k]
          /\ macSusp' \in [Macs -> Nat] /\ phyHeld' \in [Macs -> Nat]
      BY <1>a, PhyCounts
    <2>2. macSusp \in [Macs -> Nat] /\ phyHeld \in [Macs -> Nat] /\ procHeld \in [Macs -> Nat]
      BY DEF TypeInv, TypeOK, MacTypeOK
    <2>3. UNCHANGED <<swSusp, dpc, left, ppc, pmac, pcmd, procHeld>> /\ CountInv
      BY <1>a
    <2>4. ASSUME NEW k \in Macs
          PROVE  macSusp'[k] = phyHeld'[k] + procHeld[k] + (IF swSusp > 0 \/ k \in left THEN 1 ELSE 0)
      <3> DEFINE bySwitch == IF swSusp > 0 \/ k \in left THEN 1 ELSE 0
      <3>1. bySwitch \in Nat /\ macSusp[k] = phyHeld[k] + procHeld[k] + bySwitch
        BY <2>3
      <3>2. macSusp'[k] + phyHeld[k] = macSusp[k] + phyHeld'[k]
        BY <2>1
      <3>3. macSusp'[k] \in Nat /\ phyHeld'[k] \in Nat /\ macSusp[k] \in Nat /\ phyHeld[k] \in Nat
            /\ procHeld[k] \in Nat
        BY <2>1, <2>2
      <3> HIDE DEF bySwitch
      <3>4. macSusp'[k] = phyHeld'[k] + procHeld[k] + bySwitch
        BY <3>1, <3>2, <3>3
      <3> QED BY <3>4 DEF bySwitch
    <2> QED BY <2>3, <2>4
  <1>1. ASSUME Worker PROVE CountInv'
    <2>1. CASE \/ \E m \in Macs : PollPoweredDown(m) \/ PollStatus(m)
               \/ WorkerLock \/ WorkerSetup \/ WorkerCarrier \/ WorkerStopQueue
               \/ WorkerTryLock \/ WorkerCheck \/ WorkerWake
      BY <2>1 DEF PollPoweredDown, PollStatus, WorkerLock, WorkerSetup, WorkerCarrier,
         WorkerStopQueue, WorkerTryLock, WorkerCheck, WorkerWake, macVars
    <2>2. CASE WorkerWrite \/ WorkerRecord
      BY <2>2 DEF WorkerWrite, WorkerRecord, SetupMacSpeed, RecordStatus
    <2>3. ASSUME NEW m \in Macs, PollLinkFails(m) \/ PollRestarts(m) \/ PollFailsAgain(m)
          PROVE  CountInv'
      <3>1. PhyActs(m)
        BY <2>3 DEF PollLinkFails, PollRestarts, PollFailsAgain, PhyActs
      <3>2. UNCHANGED <<swSusp, dataVars, procVars>>
        BY <2>3 DEF PollLinkFails, PollRestarts, PollFailsAgain
      <3> QED BY <1>a, <3>1, <3>2
    <2> QED BY <1>1, <2>1, <2>2, <2>3 DEF Worker
  <1>2. ASSUME Datapath PROVE CountInv'
    <2>1. CASE \/ DataStart \/ DataInterrupted \/ DataFails \/ SuspendLock \/ SuspendQueues
               \/ DataStopDma \/ DataStartDma \/ ResumeLock \/ ResumeQueues \/ DataFinish
      BY <2>1 DEF DataStart, DataInterrupted, DataFails, SuspendLock, SuspendQueues, DataStopDma,
         DataStartDma, ResumeLock, ResumeQueues, DataFinish, macVars
    <2>2. CASE SuspendMacs
      BY <2>2 DEF SuspendMacs, MacSuspend, macVars, TypeInv, TypeOK, MacTypeOK
    <2>3. CASE ResumeCount
      BY <2>3 DEF ResumeCount, macVars, TypeInv, TypeOK, MacTypeOK
    <2>4. CASE ResumeMacs
      <3>1. MacResume(left) /\ left' = {} /\ dpc' = "wakeq"
        BY <2>4, NoUnbalancedResume DEF ResumeMacs
      <3> QED BY <2>4, <3>1 DEF ResumeMacs, MacResume, TypeInv, TypeOK, MacTypeOK
    <2> QED BY <1>2, <2>1, <2>2, <2>3, <2>4 DEF Datapath, DataStep
  <1>3. ASSUME Proc PROVE CountInv'
    <2>1. CASE (\E m \in ProcMacs, cmd \in {"suspend", "resume"} : ProcWrite(m, cmd)) \/ ProcLeave
      BY <2>1 DEF ProcWrite, ProcLeave, macVars
    <2>2. CASE ProcRun
      <3>1. CASE pcmd = "suspend"
        <4>1. MacSuspend({pmac}) /\ procHeld' = [procHeld EXCEPT ![pmac] = @ + 1]
          BY <2>2, <3>1 DEF ProcRun
        <4> QED BY <2>2, <4>1 DEF ProcRun, MacSuspend, TypeInv, TypeOK, MacTypeOK
      <3>2. CASE pcmd = "resume"
        <4>1. /\ MacResume({pmac}) /\ procHeld[pmac] > 0
              /\ procHeld' = [procHeld EXCEPT ![pmac] = IF @ > 0 THEN @ - 1 ELSE 0]
          BY <2>2, <3>2, NoUnbalancedResume DEF ProcRun
        <4>2. procHeld' = [procHeld EXCEPT ![pmac] = @ - 1]
          BY <4>1
        <4> QED BY <2>2, <3>2, <4>1, <4>2 DEF ProcRun, MacResume, TypeInv, TypeOK, MacTypeOK
      <3> QED BY <3>1, <3>2 DEF TypeInv, TypeOK
    <2> QED BY <1>3, <2>1, <2>2 DEF Proc
  <1>4. ASSUME Device PROVE CountInv'
    <2>1. CASE \E m \in EthtoolMacs : EthtoolLook(m)
      BY <1>a, <2>1, ClientsAssumption DEF EthtoolLook, PhyActs
    <2> QED BY <1>4, <2>1 DEF Device, DevStep, DevOpen, DevStop, DevPowerup, DevStartQueue,
            DevPowerdown, DevCarrierOff, DevInterrupted, MacSuspendResume, macVars
  <1>5. ASSUME RingFull \/ RingDrained \/ (\E m \in Macs : Watchdog(m)) \/ UNCHANGED vars
        PROVE  CountInv'
    BY <1>5 DEF RingFull, RingDrained, Watchdog, vars, macVars
  <1> QED BY <1>1, <1>2, <1>3, <1>4, <1>5 DEF Next

(* Every step that enters takes the lock and every step that leaves gives  *)
(* it back, once each.                                                     *)
LEMMA LockStep ==
    ASSUME ProcBalanced, TypeInv, CountInv, MutualExclusion, [Next]_vars
    PROVE  MutualExclusion'
  <1> USE DEF MutualExclusion, WorkerInside, StatusInside, DataInside, ProcInside,
              workerVars, dataVars, procVars
  <1>1. ASSUME Worker PROVE MutualExclusion'
    <2>1. CASE \E m \in Macs : PollPoweredDown(m) \/ PollStatus(m)
      BY <2>1 DEF PollPoweredDown, PollStatus, PollReturns, Pollable
    <2>2. CASE \E m \in Macs : PollLinkFails(m) \/ PollRestarts(m) \/ PollFailsAgain(m)
      <3>1. UNCHANGED sem
        BY <2>2, PhyCounts DEF PollLinkFails, PollRestarts, PollFailsAgain, PhyActs
      <3> QED BY <2>2, <3>1 DEF PollLinkFails, PollRestarts, PollFailsAgain, PollReturns, Pollable
    <2>3. CASE WorkerLock \/ WorkerSetup \/ WorkerWrite \/ WorkerRecord
      BY <2>3 DEF WorkerLock, WorkerSetup, WorkerWrite, WorkerRecord, Down, Up
    <2>4. CASE WorkerCarrier \/ WorkerStopQueue
      BY <2>4 DEF WorkerCarrier, WorkerStopQueue
    <2>5. CASE WorkerTryLock \/ WorkerCheck \/ WorkerWake
      BY <2>5 DEF WorkerTryLock, WorkerCheck, WorkerWake, Down, Up
    <2> QED BY <1>1, <2>1, <2>2, <2>3, <2>4, <2>5 DEF Worker
  <1>2. ASSUME Datapath PROVE MutualExclusion'
    <2>1. CASE DataStart \/ DataInterrupted \/ DataFails \/ DataStopDma \/ DataStartDma \/ DataFinish
      BY <2>1 DEF DataStart, DataInterrupted, DataFails, DataStopDma, DataStartDma, DataFinish
    <2>2. CASE SuspendLock \/ SuspendQueues \/ SuspendMacs
      BY <2>2 DEF SuspendLock, SuspendQueues, SuspendMacs, Down, Up
    <2>3. CASE ResumeLock \/ ResumeCount \/ ResumeQueues
      BY <2>3 DEF ResumeLock, ResumeCount, ResumeQueues, Up
    <2>4. CASE ResumeMacs
      <3>1. UNCHANGED sem /\ dpc' = "wakeq"
        BY <2>4, NoUnbalancedResume DEF ResumeMacs
      <3> QED BY <2>4, <3>1 DEF ResumeMacs
    <2> QED BY <1>2, <2>1, <2>2, <2>3, <2>4 DEF Datapath, DataStep
  <1>3. ASSUME Proc PROVE MutualExclusion'
    <2>1. CASE (\E m \in ProcMacs, cmd \in {"suspend", "resume"} : ProcWrite(m, cmd)) \/ ProcLeave
      BY <2>1 DEF ProcWrite, ProcLeave, Down, Up
    <2>2. CASE ProcRun
      <3>1. UNCHANGED sem
        BY <2>2, NoUnbalancedResume DEF ProcRun
      <3> QED BY <2>2, <3>1 DEF ProcRun
    <2> QED BY <1>3, <2>1, <2>2 DEF Proc
  <1>4. ASSUME Device PROVE MutualExclusion'
    <2>1. CASE \E m \in EthtoolMacs : EthtoolLook(m)
      <3>1. UNCHANGED sem
        BY <2>1, PhyCounts, ClientsAssumption DEF EthtoolLook, PhyActs
      <3> QED BY <2>1, <3>1 DEF EthtoolLook
    <2> QED BY <1>4, <2>1 DEF Device, DevStep, DevOpen, DevStop, DevPowerup, DevStartQueue,
            DevPowerdown, DevCarrierOff, DevInterrupted
  <1>5. ASSUME RingFull \/ RingDrained \/ (\E m \in Macs : Watchdog(m)) \/ UNCHANGED vars
        PROVE  MutualExclusion'
    BY <1>5 DEF RingFull, RingDrained, Watchdog, vars
  <1> QED BY <1>1, <1>2, <1>3, <1>4, <1>5 DEF Next

(* Nobody suspends the switch between the worker's look at the counter and *)
(* its wake, and nothing wakes a queue as gated between the suspend's stop *)
(* of the queues and its count.                                            *)
LEMMA GateStep ==
    ASSUME TypeInv, CountInv, MutualExclusion, GateInv, [Next]_vars
    PROVE  GateInv'
  <1> USE DEF GateInv, NoneGated, workerVars, dataVars
  <1>1. ASSUME Worker PROVE GateInv'
    <2>1. CASE \/ \E m \in Macs : \/ PollPoweredDown(m) \/ PollStatus(m) \/ PollLinkFails(m)
                                  \/ PollRestarts(m) \/ PollFailsAgain(m)
               \/ WorkerLock \/ WorkerSetup \/ WorkerWrite \/ WorkerRecord
               \/ WorkerTryLock \/ WorkerCheck
      BY <2>1 DEF PollPoweredDown, PollStatus, PollLinkFails, PollRestarts, PollFailsAgain,
         PollReturns, WorkerLock, WorkerSetup, WorkerWrite, WorkerRecord, WorkerTryLock,
         WorkerCheck, queueVars
    <2>2. CASE WorkerCarrier \/ WorkerStopQueue
      <3>1. NoneGated => NoneGated'
        BY <2>2, NotGateFacts DEF WorkerCarrier, WorkerStopQueue, NotGate, TypeInv, TypeOK
      <3> QED BY <2>2, <3>1 DEF WorkerCarrier, WorkerStopQueue
    <2>3. CASE WorkerWake
      <3>1. swSusp = 0 /\ dpc # "count"
        BY <2>3 DEF WorkerWake, MutualExclusion, StatusInside, DataInside
      <3> QED BY <2>3, <3>1 DEF WorkerWake
    <2> QED BY <1>1, <2>1, <2>2, <2>3 DEF Worker
  <1>2. ASSUME Datapath PROVE GateInv'
    <2>1. CASE DataStart \/ DataFinish \/ DataStopDma \/ DataStartDma
      <3>1. NoneGated => NoneGated'
        BY <2>1, NotGateFacts
        DEF DataStart, DataFinish, DataStopDma, DataStartDma, NotGate, TypeInv, TypeOK
      <3> QED BY <2>1, <3>1 DEF DataStart, DataFinish, DataStopDma, DataStartDma
    <2>2. CASE DataInterrupted \/ DataFails \/ SuspendLock \/ ResumeLock
      BY <2>2 DEF DataInterrupted, DataFails, SuspendLock, ResumeLock, queueVars
    <2>3. CASE SuspendQueues
      <3>1. NoneGated'
        BY <2>3, StopAllFacts DEF SuspendQueues, queueVars, TypeInv, TypeOK
      <3> QED BY <2>3, <3>1 DEF SuspendQueues
    <2>4. CASE SuspendMacs
      BY <2>4 DEF SuspendMacs, MutualExclusion, StatusInside, DataInside, queueVars
    <2>5. CASE ResumeCount \/ ResumeMacs
      BY <2>5 DEF ResumeCount, ResumeMacs, queueVars, TypeInv, TypeOK
    <2>6. CASE ResumeQueues
      BY <2>6 DEF ResumeQueues, CountInv
    <2> QED BY <1>2, <2>1, <2>2, <2>3, <2>4, <2>5, <2>6 DEF Datapath, DataStep
  <1>3. ASSUME Proc \/ UNCHANGED vars PROVE GateInv'
    BY <1>3 DEF Proc, ProcWrite, ProcRun, ProcLeave, vars, queueVars
  <1>4. ASSUME Device \/ RingFull \/ RingDrained \/ \E m \in Macs : Watchdog(m) PROVE GateInv'
    <2>1. CASE DevPowerup \/ DevPowerdown \/ DevInterrupted \/ \E m \in EthtoolMacs : EthtoolLook(m)
      BY <2>1 DEF DevPowerup, DevPowerdown, DevInterrupted, EthtoolLook, queueVars
    <2>2. CASE \/ \E m \in OpenMacs : DevOpen(m) \/ DevStop(m)
               \/ DevStartQueue \/ DevCarrierOff
      <3>1. NoneGated => NoneGated'
        BY <2>2, DeviceIsNotGate, NotGateFacts DEF TypeInv, TypeOK
      <3> QED BY <2>2, <3>1 DEF DevOpen, DevStop, DevStartQueue, DevCarrierOff
    <2>3. CASE RingFull \/ RingDrained \/ \E m \in Macs : Watchdog(m)
      <3>1. \A m \in Macs : devUp[m] \in BOOLEAN
        BY DEF TypeInv, TypeOK
      <3>2. NoneGated => NoneGated'
        BY <2>3, <3>1, NotGateFacts DEF RingFull, RingDrained, Watchdog, NotGate, TypeInv, TypeOK
      <3> QED BY <2>3, <3>2 DEF RingFull, RingDrained, Watchdog
    <2> QED BY <1>4, <2>1, <2>2, <2>3 DEF Device, DevStep
  <1> QED BY <1>1, <1>2, <1>3, <1>4 DEF Next

(* A PHY's suspends and resumes leave the registers in line.               *)
LEMMA PhyLinks ==
    ASSUME TypeInv, CountInv, LinkObeysSuspend, NEW m \in Macs, PhyActs(m)
    PROVE  /\ LinkObeysSuspend'
           /\ \A k \in Macs \ SwitchPorts :
                 Programmed(k, lastKnown[k]) => Programmed(k, lastKnown[k])'
  <1>1. MacTypeOK /\ {m} \in SUBSET Macs
    BY DEF TypeInv, TypeOK
  <1>2. CASE PhyFails(m)
    BY <1>1, <1>2, MacSuspendFacts DEF PhyFails
  <1>3. CASE PhyRestarts(m)
    <2>1. MacResume({m}) /\ macSusp[m] > 0
      BY <1>3, NoUnbalancedResume DEF PhyRestarts
    <2> QED BY <1>1, <2>1, MacResumeFacts
  <1>4. CASE PhyFailsAgain(m)
    <2>1. ForgetLink(m) /\ macSusp[m] > 0
      BY <1>4, NoUnbalancedResume DEF PhyFailsAgain
    <2> QED BY <1>1, <2>1, ForgetLinkFacts
  <1> QED BY <1>2, <1>3, <1>4 DEF PhyActs

(* The registers are only programmed inside the lock, and the counter they *)
(* are programmed from only moves inside the lock.                         *)
LEMMA LinkStep ==
    ASSUME ProcBalanced, TypeInv, CountInv, MutualExclusion, LinkInv, [Next]_vars
    PROVE  LinkInv'
  <1> USE DEF LinkInv, workerVars
  <1>0. MacTypeOK /\ LinkObeysSuspend /\ wmac \in Macs /\ wst \in LinkStatus /\ wup \in 0..1
    BY DEF TypeInv, TypeOK
  (* A step of somebody else, who holds the lock or finds it free, keeps   *)
  (* the registers in line, and the worker is not programming one.         *)
  <1>a. ASSUME wpc' \notin {"write", "record"}, wpc \notin {"write", "record"}, LinkObeysSuspend',
               \A m \in Macs \ SwitchPorts :
                   Programmed(m, lastKnown[m]) => Programmed(m, lastKnown[m])'
        PROVE  LinkInv'
    BY <1>a
  <1>b. ASSUME UNCHANGED <<macVars, wpc, wmac, wst, wup>> PROVE LinkInv'
    BY <1>b DEF macVars, LinkObeysSuspend, Programmed, LinkstFor
  <1>1. ASSUME Worker PROVE LinkInv'
    <2>1. ASSUME wpc' \notin {"write", "record"}, wpc \notin {"write", "record"}, UNCHANGED macVars
          PROVE  LinkInv'
      BY <2>1, <1>a DEF macVars, LinkObeysSuspend, Programmed
    <2>2. CASE \E m \in Macs : PollPoweredDown(m) \/ PollStatus(m)
      BY <2>1, <2>2 DEF PollPoweredDown, PollStatus, PollReturns, Pollable
    <2>3. ASSUME NEW m \in Macs, PollLinkFails(m) \/ PollRestarts(m) \/ PollFailsAgain(m)
          PROVE  LinkInv'
      <3>1. PhyActs(m) /\ wpc' \notin {"write", "record"} /\ wpc \notin {"write", "record"}
        BY <2>3 DEF PollLinkFails, PollRestarts, PollFailsAgain, PollReturns, Pollable, PhyActs
      <3> QED BY <1>0, <1>a, <3>1, PhyLinks
    <2>6. CASE \/ WorkerLock \/ WorkerCarrier \/ WorkerStopQueue \/ WorkerTryLock
               \/ WorkerCheck \/ WorkerWake
      BY <2>1, <2>6 DEF WorkerLock, WorkerCarrier, WorkerStopQueue, WorkerTryLock, WorkerCheck,
         WorkerWake
    <2>7. CASE WorkerSetup
      <3>1. /\ wpc = "setup" /\ UNCHANGED <<macSusp, linkst, cfgSpeed, lastKnown, wmac, wst>>
            /\ \A m \in Macs \ SwitchPorts : Programmed(m, lastKnown[m])
        BY <2>7 DEF WorkerSetup, macVars
      <3>2. /\ LinkObeysSuspend'
            /\ \A m \in Macs \ SwitchPorts : Programmed(m, lastKnown[m])'
        BY <1>0, <3>1 DEF LinkObeysSuspend, Programmed
      <3>3. CASE NeedsSetup(wmac, wst)
        <4>1. wpc' = "write" /\ wup' = LinkstFor(wmac, wst) /\ wmac \notin SwitchPorts
          BY <2>7, <3>3 DEF WorkerSetup, NeedsSetup
        <4> QED BY <3>1, <3>2, <4>1 DEF LinkstFor
      <3>4. CASE ~NeedsSetup(wmac, wst)
        <4>1. wpc' = "record" /\ (wmac \notin SwitchPorts => lastKnown[wmac] = wst)
          BY <2>7, <3>4 DEF WorkerSetup, NeedsSetup
        <4> QED BY <1>0, <3>1, <3>2, <4>1 DEF Programmed
      <3> QED BY <3>3, <3>4
    <2>8. CASE WorkerWrite
      <3>1. /\ wpc = "write" /\ wpc' = "record" /\ SetupMacSpeed(wmac, wup, wst)
            /\ UNCHANGED <<wmac, wst>>
        BY <2>8 DEF WorkerWrite
      <3>2. LinkObeysSuspend' /\ Programmed(wmac, wst)'
        BY <1>0, <3>1, SetupMacSpeedFacts
      <3>3. \A k \in Macs \ {wmac} : Programmed(k, lastKnown[k]) => Programmed(k, lastKnown[k])'
        BY <1>0, <3>1, SetupMacSpeedFacts
      <3> QED BY <3>1, <3>2, <3>3
    <2>9. CASE WorkerRecord
      <3>1. /\ wpc = "record" /\ wpc' = "carrier" /\ UNCHANGED <<macSusp, linkst, cfgSpeed>>
            /\ lastKnown' = [lastKnown EXCEPT ![wmac] = wst]
        BY <2>9 DEF WorkerRecord, RecordStatus
      <3>2. LinkObeysSuspend'
        BY <1>0, <3>1 DEF LinkObeysSuspend
      <3>3. ASSUME NEW m \in Macs \ SwitchPorts PROVE Programmed(m, lastKnown[m])'
        <4>1. lastKnown'[m] = IF m = wmac THEN wst ELSE lastKnown[m]
          BY <1>0, <3>1 DEF MacTypeOK
        <4> QED BY <3>1, <4>1 DEF Programmed
      <3> QED BY <3>1, <3>2, <3>3
    <2> QED BY <1>1, <2>2, <2>3, <2>6, <2>7, <2>8, <2>9 DEF Worker
  <1>2. ASSUME Datapath PROVE LinkInv'
    <2>1. CASE \/ DataStart \/ DataInterrupted \/ DataFails \/ SuspendLock \/ SuspendQueues
               \/ DataStopDma \/ DataStartDma \/ ResumeLock \/ ResumeCount \/ ResumeQueues
               \/ DataFinish
      BY <1>b, <2>1 DEF DataStart, DataInterrupted, DataFails, SuspendLock, SuspendQueues,
         DataStopDma, DataStartDma, ResumeLock, ResumeCount, ResumeQueues, DataFinish
    <2>2. CASE SuspendMacs
      <3>1. CASE MacSuspend(Macs)
        BY <1>0, <1>a, <2>2, <3>1, MacSuspendFacts
        DEF SuspendMacs, MutualExclusion, WorkerInside, DataInside
      <3>2. CASE UNCHANGED macVars
        BY <1>b, <2>2, <3>2 DEF SuspendMacs
      <3> QED BY <2>2, <3>1, <3>2 DEF SuspendMacs
    <2>3. CASE ResumeMacs
      <3>1. MacResume(left) /\ left \in SUBSET Macs /\ \A m \in left : macSusp[m] > 0
        BY <2>3, NoUnbalancedResume DEF ResumeMacs, TypeInv, TypeOK
      <3> QED BY <1>0, <1>a, <2>3, <3>1, MacResumeFacts
              DEF ResumeMacs, MutualExclusion, WorkerInside, DataInside
    <2> QED BY <1>2, <2>1, <2>2, <2>3 DEF Datapath, DataStep
  <1>3. ASSUME Proc PROVE LinkInv'
    <2>1. CASE (\E m \in ProcMacs, cmd \in {"suspend", "resume"} : ProcWrite(m, cmd)) \/ ProcLeave
      BY <1>b, <2>1 DEF ProcWrite, ProcLeave
    <2>2. CASE ProcRun
      <3>1. \/ MacSuspend({pmac})
            \/ MacResume({pmac}) /\ macSusp[pmac] > 0
        BY <2>2, NoUnbalancedResume DEF ProcRun
      <3>2. pmac \in Macs /\ wpc \notin {"write", "record"} /\ wpc' = wpc
        BY <2>2 DEF ProcRun, MutualExclusion, WorkerInside, ProcInside, TypeInv, TypeOK
      <3>3. CASE MacSuspend({pmac})
        BY <1>0, <1>a, <3>2, <3>3, MacSuspendFacts
      <3>4. CASE MacResume({pmac}) /\ macSusp[pmac] > 0
        BY <1>0, <1>a, <3>2, <3>4, MacResumeFacts
      <3> QED BY <3>1, <3>3, <3>4
    <2> QED BY <1>3, <2>1, <2>2 DEF Proc
  <1>4. ASSUME Device PROVE LinkInv'
    <2>1. CASE \/ \E m \in OpenMacs : DevOpen(m) \/ DevStop(m)
               \/ DevStartQueue \/ DevPowerdown \/ DevCarrierOff \/ DevInterrupted
      BY <1>b, <2>1 DEF DevOpen, DevStop, DevStartQueue, DevPowerdown, DevCarrierOff,
         DevInterrupted
    <2>2. CASE DevPowerup
      <3>1. nmac \in Macs /\ wpc \notin {"write", "record"} /\ wpc' = wpc
        BY <2>2 DEF DevPowerup, MutualExclusion, WorkerInside, TypeInv, TypeOK
      <3>2. CASE MacSuspendResume(nmac)
        BY <1>0, <1>a, <3>1, <3>2, MacSuspendResumeFacts
      <3>3. CASE UNCHANGED macVars
        BY <1>b, <2>2, <3>3 DEF DevPowerup
      <3> QED BY <2>2, <3>2, <3>3 DEF DevPowerup
    <2>3. ASSUME NEW m \in Macs, EthtoolLook(m) PROVE LinkInv'
      <3>1. PhyActs(m) /\ wpc' = wpc /\ sem > 0
        BY <2>3 DEF EthtoolLook, PhyActs
      <3>2. wpc \notin {"write", "record"}
        BY <3>1 DEF MutualExclusion, WorkerInside
      <3> QED BY <1>0, <1>a, <3>1, <3>2, PhyLinks
    <2> QED BY <1>4, <2>1, <2>2, <2>3, ClientsAssumption DEF Device, DevStep
  <1>5. ASSUME RingFull \/ RingDrained \/ (\E m \in Macs : Watchdog(m)) \/ UNCHANGED vars
        PROVE  LinkInv'
    BY <1>b, <1>5 DEF RingFull, RingDrained, Watchdog, vars
  <1> QED BY <1>1, <1>2, <1>3, <1>4, <1>5 DEF Next

(***************************************************************************)
(* The results.                                                            *)
(***************************************************************************)
IInv == TypeInv /\ CountInv /\ MutualExclusion /\ GateInv /\ LinkInv

(* Boot establishes every part of the inductive invariant.                 *)
LEMMA InvInit == Init => IInv
  <1> SUFFICES ASSUME Init PROVE IInv
    OBVIOUS
  <1>1. TypeInv /\ LinkObeysSuspend /\ \A m \in Macs \ SwitchPorts : Programmed(m, lastKnown[m])
    BY TypeInit, MacInitFacts DEF Init
  <1>2. LinkInv
    BY <1>1 DEF Init, LinkInv
  <1>3. CountInv
    BY DEF Init, MacInit, CountInv, SuspendCountsBalanced
  <1>4. MutualExclusion
    BY DEF Init, MutualExclusion, WorkerInside, StatusInside, DataInside, ProcInside
  <1>5. GateInv
    BY DEF Init, GateInv
  <1> QED BY <1>1, <1>2, <1>3, <1>4, <1>5 DEF IInv

(* The inductive invariant: with mac_control used in balance, counts,      *)
(* lock, queues and registers agree in every state (the four parts are     *)
(* argued for in the lemmas above).                                        *)
THEOREM Invariance ==
    ASSUME ProcBalanced
    PROVE  Spec => []IInv
  <1>1. IInv /\ [Next]_vars => IInv'
    BY TypeStep, CountStep, LockStep, GateStep, LinkStep DEF IInv
  <1> QED BY <1>1, InvInit, PTL DEF Spec

(* swi_7port_mutex works: of the worker, the datapath driver and the proc  *)
(* writer one at most is inside, and the count is 0 exactly then           *)
(* (swi_7port.c:984-1007).                                                 *)
THEOREM LockIsExclusive ==
    ASSUME ProcBalanced
    PROVE  Spec => []MutualExclusion
  <1>1. IInv => MutualExclusion
    BY DEF IInv
  <1> QED BY <1>1, Invariance, PTL

(* With balanced use, the functions that check for it find the lock held   *)
(* (mac_7port.c:373, 426, 585): the warning is the unbalanced resume's.    *)
THEOREM AlwaysCalledWithMutex ==
    ASSUME ProcBalanced
    PROVE  Spec => []CalledWithMutexHeld
  <1>1. IInv => CalledWithMutexHeld
    BY DEF IInv, MutualExclusion, WorkerInside, DataInside, ProcInside, CalledWithMutexHeld
  <1> QED BY <1>1, Invariance, PTL

(* A MAC's suspend counter is the sum of what its clients asked for        *)
(* (mac_7port.c:364-466, swi_7port.c:617-739).                             *)
THEOREM CountsStayBalanced ==
    ASSUME ProcBalanced
    PROVE  Spec => []SuspendCountsBalanced
  <1>1. IInv => SuspendCountsBalanced
    BY DEF IInv, CountInv
  <1> QED BY <1>1, Invariance, PTL

(* A suspended MAC stays down, whatever its PHY reports meanwhile          *)
(* (mac_7port.c:380-387, 621).                                             *)
THEOREM SuspendedMacsStayDown ==
    ASSUME ProcBalanced
    PROVE  Spec => []SuspendedMacIsDown
  <1>1. IInv => SuspendedMacIsDown
    BY DEF IInv, LinkInv, LinkObeysSuspend, SuspendedMacIsDown
  <1> QED BY <1>1, Invariance, PTL

(* The registers follow the last known status (mac_7port.c:640-666).       *)
THEOREM RegistersFollowStatus ==
    ASSUME ProcBalanced
    PROVE  Spec => []MacFollowsStatus
  <1>1. IInv => MacFollowsStatus
    BY DEF IInv, LinkInv, Programmed, MacFollowsStatus
  <1> QED BY <1>1, Invariance, PTL

(* No queue of a suspended switch runs on the switch's own word            *)
(* (swi_7port.c:1060-1081).                                                *)
THEOREM SuspendedSwitchIsQuiet ==
    ASSUME ProcBalanced
    PROVE  Spec => []QuietWhileSuspended
  <1>1. IInv => QuietWhileSuspended
    BY DEF IInv, GateInv, NoneGated, QuietWhileSuspended
  <1> QED BY <1>1, Invariance, PTL

(* A fixed link is up whenever nothing suspends it (mac_7port.c:441-448).  *)
THEOREM FixedLinksComeBack ==
    ASSUME ProcBalanced
    PROVE  Spec => []SwitchPortUp
  <1>1. IInv => SwitchPortUp
    <2> SUFFICES ASSUME IInv, NEW m \in SwitchPorts
                 PROVE  linkst[m] = 1 <=> macSusp[m] = 0
      BY DEF SwitchPortUp
    <2>1. m \in Macs /\ macSusp[m] \in Nat
      BY MacsAssumption DEF IInv, TypeInv, TypeOK, MacTypeOK
    <2> QED BY <2>1 DEF IInv, LinkInv, LinkObeysSuspend
  <1> QED BY <1>1, Invariance, PTL

(* The driver rebuilds the DMA only while the switch is suspended, and a   *)
(* resume counts down only what was counted up.                            *)
RebuildInv == dpc \in {"stopdma", "startdma", "uncount"} => swSusp > 0

(* A suspend that no signal can interrupt has counted when the rebuild     *)
(* begins.                                                                 *)
LEMMA RebuildStep ==
    ASSUME "load" \notin Interruptible, TypeInv, RebuildInv, [Next]_vars
    PROVE  RebuildInv'
  <1> USE DEF RebuildInv, dataVars
  <1>1. CASE Worker
    BY <1>1 DEF Worker, PollPoweredDown, PollStatus, PollLinkFails, PollRestarts, PollFailsAgain,
       WorkerLock, WorkerSetup, WorkerWrite, WorkerRecord, WorkerCarrier, WorkerStopQueue,
       WorkerTryLock, WorkerCheck, WorkerWake
  <1>2. CASE Datapath
    <2>1. CASE \/ DataStart \/ DataFails \/ SuspendLock \/ SuspendQueues \/ DataStopDma
               \/ DataStartDma \/ ResumeLock \/ ResumeQueues \/ DataFinish
      BY <2>1 DEF DataStart, DataFails, SuspendLock, SuspendQueues, DataStopDma,
         DataStartDma, ResumeLock, ResumeQueues, DataFinish
    <2>2. CASE DataInterrupted
      BY <2>2 DEF DataInterrupted, Interrupted
    <2>3. CASE SuspendMacs
      BY <2>3 DEF SuspendMacs, TypeInv, TypeOK
    <2>4. CASE ResumeCount \/ ResumeMacs
      BY <2>4 DEF ResumeCount, ResumeMacs
    <2> QED BY <1>2, <2>1, <2>2, <2>3, <2>4 DEF Datapath, DataStep
  <1>3. CASE Proc
    BY <1>3 DEF Proc, ProcWrite, ProcRun, ProcLeave
  <1>4. CASE Device
    BY <1>4 DEF Device, DevStep, DevOpen, DevStop, DevPowerup, DevStartQueue, DevPowerdown,
       DevCarrierOff, DevInterrupted, EthtoolLook
  <1>5. CASE RingFull \/ RingDrained \/ (\E m \in Macs : Watchdog(m)) \/ UNCHANGED vars
    BY <1>5 DEF RingFull, RingDrained, Watchdog, vars
  <1> QED BY <1>1, <1>2, <1>3, <1>4, <1>5 DEF Next

LEMMA RebuildInvariance ==
    ASSUME ProcBalanced, "load" \notin Interruptible
    PROVE  Spec => [](IInv /\ RebuildInv)
  <1>1. Init => RebuildInv
    BY DEF Init, RebuildInv
  <1>2. IInv /\ RebuildInv /\ [Next]_vars => RebuildInv'
    BY RebuildStep DEF IInv
  <1> QED BY <1>1, <1>2, Invariance, PTL DEF Spec

(* While the DMA is rebuilt every port is blocked, provided no signal can  *)
(* interrupt the suspend (vr9_e5.c:6357-6361, 6700-6703).                  *)
THEOREM RebuildBlocksPorts ==
    ASSUME ProcBalanced, "load" \notin Interruptible
    PROVE  Spec => []PortsBlockedDuringRebuild
  <1>1. ASSUME IInv, RebuildInv PROVE PortsBlockedDuringRebuild
    <2> SUFFICES ASSUME dpc \in {"stopdma", "startdma"}, NEW m \in Macs
                 PROVE  linkst[m] = 0 /\ queue[m] # "gated"
      BY DEF PortsBlockedDuringRebuild
    <2>1. swSusp > 0 /\ macSusp[m] > 0
      BY <1>1 DEF RebuildInv, IInv, TypeInv, TypeOK, MacTypeOK, CountInv, SuspendCountsBalanced
    <2> QED BY <1>1, <2>1 DEF IInv, LinkInv, LinkObeysSuspend, GateInv, NoneGated
  <1> QED BY <1>1, RebuildInvariance, PTL

(* A suspended switch has no link up and no queue awake.                   *)
LEMMA GateClosed ==
    ASSUME IInv, swSusp > 0, NEW m \in Macs
    PROVE  linkst[m] = 0 /\ queue[m] # "gated"
  <1>1. macSusp[m] > 0
    BY DEF IInv, TypeInv, TypeOK, MacTypeOK, CountInv, SuspendCountsBalanced
  <1> QED BY <1>1 DEF IInv, LinkInv, LinkObeysSuspend, GateInv, NoneGated

(* How a step can change the suspend counter of the switch and the DMA: at *)
(* most one of them, the counter by one, the DMA only while suspended, and *)
(* neither a resume nor the DMA takes links and queues along.              *)
GateSteps ==
    \/ swSusp' = swSusp /\ dmaUp' = dmaUp
    \/ swSusp' = swSusp + 1 /\ dmaUp' = dmaUp
    \/ swSusp > 0 /\ swSusp' = swSusp - 1 /\ UNCHANGED <<linkst, queue, dmaUp>>
    \/ swSusp > 0 /\ dmaUp' = ~dmaUp /\ UNCHANGED <<linkst, queue, swSusp>>

LEMMA GateStepKinds ==
    ASSUME TypeInv, RebuildInv, [Next]_vars
    PROVE  GateSteps
  <1> USE DEF GateSteps
  <1>1. CASE Worker
    BY <1>1 DEF Worker, PollPoweredDown, PollStatus, PollLinkFails, PollRestarts, PollFailsAgain,
       WorkerLock, WorkerSetup, WorkerWrite, WorkerRecord, WorkerCarrier, WorkerStopQueue,
       WorkerTryLock, WorkerCheck, WorkerWake, queueVars, SetCarrier, StopQueues, WakeQueues
  <1>2. CASE Datapath
    <2>1. CASE \/ DataStart \/ DataInterrupted \/ DataFails \/ SuspendLock \/ SuspendQueues
               \/ ResumeLock \/ ResumeMacs \/ ResumeQueues \/ DataFinish
      BY <2>1 DEF DataStart, DataInterrupted, DataFails, SuspendLock, SuspendQueues, ResumeLock,
         ResumeMacs, ResumeQueues, DataFinish, queueVars, SetStopFlag, StopQueues, WakeQueues
    <2>2. CASE SuspendMacs
      BY <2>2 DEF SuspendMacs, queueVars
    <2>3. CASE ResumeCount
      BY <2>3 DEF ResumeCount, RebuildInv, macVars, queueVars
    <2>4. CASE DataStopDma \/ DataStartDma
      <3>1. swSusp > 0 /\ dmaUp \in BOOLEAN /\ dmaUp' \in BOOLEAN
        BY <2>4 DEF DataStopDma, DataStartDma, StopDma, StartDma, RebuildInv, TypeInv, TypeOK,
           QueueTypeOK
      <3>2. UNCHANGED <<linkst, queue, swSusp>>
        BY <2>4 DEF DataStopDma, DataStartDma, StopDma, StartDma, macVars
      <3> QED BY <3>1, <3>2
    <2> QED BY <1>2, <2>1, <2>2, <2>3, <2>4 DEF Datapath, DataStep
  <1>3. CASE Proc
    BY <1>3 DEF Proc, ProcWrite, ProcRun, ProcLeave, queueVars
  <1>4. CASE Device
    BY <1>4 DEF Device, DevStep, DevOpen, DevStop, DevPowerup, DevStartQueue, DevPowerdown,
       DevCarrierOff, DevInterrupted, EthtoolLook, queueVars, SetCarrier, StopQueues, WakeQueues
  <1>5. CASE RingFull \/ RingDrained \/ (\E m \in Macs : Watchdog(m)) \/ UNCHANGED vars
    BY <1>5 DEF RingFull, RingDrained, Watchdog, TxBufFull, TransmitCpt, TxTimeout, vars, queueVars
  <1> QED BY <1>1, <1>2, <1>3, <1>4, <1>5 DEF Next

(* The 7-port switch implements the gate the datapath driver relies on:    *)
(* every step is a step of SuspendGate or leaves it alone, if mac_control  *)
(* is used in balance and no signal interrupts the driver's suspend        *)
(* (swi_7port.c:605-741, vr9_e5.c:6353-6366).                              *)
THEOREM SwitchIsGate ==
    ASSUME ProcBalanced, "load" \notin Interruptible
    PROVE  Spec => ImplementsGate
  <1> DEFINE ups   == {m \in Macs : linkst[m] = 1}
             gated == {m \in Macs : queue[m] = "gated"}
  <1>1. Init => Gate!Init
    <2> SUFFICES ASSUME Init PROVE Gate!Init
      OBVIOUS
    <2>1. swSusp = 0 /\ dmaUp = TRUE /\ gated = {}
      BY DEF Init, QueueInit
    <2> QED BY <2>1 DEF Gate!Init
  <1>2. ASSUME IInv, IInv', RebuildInv, [Next]_vars
        PROVE  [Gate!Next]_(Gate!gateVars)
    <2>1. swSusp > 0 => ups = {} /\ gated = {}
      BY <1>2, GateClosed
    <2>2. swSusp' > 0 => ups' = {} /\ gated' = {}
      <3>1. ASSUME swSusp' > 0 PROVE \A m \in Macs : linkst'[m] = 0 /\ queue'[m] # "gated"
        <4>1. \A m \in Macs : macSusp'[m] > 0
          BY <1>2, <3>1 DEF IInv, TypeInv, TypeOK, MacTypeOK, CountInv, SuspendCountsBalanced
        <4> QED BY <1>2, <3>1, <4>1 DEF IInv, LinkInv, LinkObeysSuspend, GateInv, NoneGated
      <3> QED BY <3>1
    <2>3. swSusp \in Nat /\ swSusp' \in Nat
      BY <1>2 DEF IInv, TypeInv, TypeOK
    <2>4. GateSteps
      BY <1>2, GateStepKinds DEF IInv
    <2>5. CASE swSusp' = swSusp /\ dmaUp' = dmaUp
      <3>1. CASE swSusp = 0
        BY <2>5, <3>1 DEF Gate!Next, Gate!Traffic
      <3>2. CASE swSusp > 0
        BY <2>1, <2>2, <2>5, <3>2 DEF Gate!gateVars
      <3> QED BY <2>3, <3>1, <3>2
    <2>6. CASE swSusp' = swSusp + 1 /\ dmaUp' = dmaUp
      BY <2>2, <2>3, <2>6 DEF Gate!Next, Gate!Suspend
    <2>7. CASE swSusp > 0 /\ swSusp' = swSusp - 1 /\ UNCHANGED <<linkst, queue, dmaUp>>
      BY <2>7 DEF Gate!Next, Gate!Resume
    <2>8. CASE swSusp > 0 /\ dmaUp' = ~dmaUp /\ UNCHANGED <<linkst, queue, swSusp>>
      BY <2>8 DEF Gate!Next, Gate!RebuildDma
    <2> QED BY <2>4, <2>5, <2>6, <2>7, <2>8 DEF GateSteps
  <1> QED BY <1>1, <1>2, RebuildInvariance, PTL DEF Spec, ImplementsGate, Gate!Spec

(* Whatever the writers of mac_control do, somebody can always take the    *)
(* lock as soon as nobody is inside (swi_7port.c:984-1007,                 *)
(* mac_7port.c:342-360, 433-437, 583-588).                                 *)
THEOREM LockIsNeverLost ==
    Spec => []LockNeverLost
  <1>1. Init => LockNeverLost
    BY DEF Init, LockNeverLost
  <1>2. ASSUME TypeInv, LockNeverLost, [Next]_vars PROVE LockNeverLost'
    <2> USE DEF LockNeverLost, WorkerInside, StatusInside, DataInside, ProcInside,
                workerVars, dataVars, procVars, TypeInv, TypeOK
    <2>1. CASE Worker
      <3>1. CASE \E m \in Macs : \/ PollPoweredDown(m) \/ PollStatus(m) \/ PollLinkFails(m)
                                 \/ PollRestarts(m) \/ PollFailsAgain(m)
        BY <1>2, <3>1 DEF PollPoweredDown, PollStatus, PollLinkFails, PollRestarts, PollFailsAgain,
           PhyFails, PhyRestarts, PhyFailsAgain, PollReturns, Pollable, Up
      <3>2. CASE \/ WorkerLock \/ WorkerSetup \/ WorkerWrite \/ WorkerRecord \/ WorkerCarrier
                 \/ WorkerStopQueue \/ WorkerTryLock \/ WorkerCheck \/ WorkerWake
        BY <1>2, <3>2 DEF WorkerLock, WorkerSetup, WorkerWrite, WorkerRecord, WorkerCarrier,
           WorkerStopQueue, WorkerTryLock, WorkerCheck, WorkerWake, Down, Up
      <3> QED BY <2>1, <3>1, <3>2 DEF Worker
    <2>2. CASE Datapath
      <3>1. CASE \/ DataStart \/ DataInterrupted \/ DataFails \/ SuspendQueues \/ DataStopDma
                 \/ DataStartDma \/ DataFinish
        BY <1>2, <3>1 DEF DataStart, DataInterrupted, DataFails, SuspendQueues, DataStopDma,
           DataStartDma, DataFinish
      <3>2. CASE SuspendLock \/ SuspendMacs \/ ResumeLock \/ ResumeQueues
        BY <1>2, <3>2 DEF SuspendLock, SuspendMacs, ResumeLock, ResumeQueues, Down, Up
      <3>3. CASE ResumeCount \/ ResumeMacs
        BY <1>2, <3>3 DEF ResumeCount, ResumeMacs, Up
      <3> QED BY <2>2, <3>1, <3>2, <3>3 DEF Datapath, DataStep
    <2>3. CASE Proc
      BY <1>2, <2>3 DEF Proc, ProcWrite, ProcRun, ProcLeave, Down, Up
    <2>4. CASE Device
      <3>1. ASSUME NEW m \in Macs, EthtoolLook(m) PROVE LockNeverLost'
        <4>1. sem > 0 /\ (sem' = sem \/ sem' = sem + 1)
          BY <3>1 DEF EthtoolLook, PhyFails, PhyRestarts, PhyFailsAgain, Up
        <4> QED BY <1>2, <4>1
      <3> QED BY <1>2, <2>4, <3>1, ClientsAssumption DEF Device, DevStep, DevOpen, DevStop, DevPowerup, DevStartQueue,
              DevPowerdown, DevCarrierOff, DevInterrupted
    <2>5. CASE RingFull \/ RingDrained \/ (\E m \in Macs : Watchdog(m)) \/ UNCHANGED vars
      BY <1>2, <2>5 DEF RingFull, RingDrained, Watchdog, vars
    <2> QED BY <1>2, <2>1, <2>2, <2>3, <2>4, <2>5 DEF Next
  <1> QED BY <1>1, <1>2, TypeInit, TypeStep, PTL DEF Spec

(***************************************************************************)
(* What a MAC is promised by its PHY, when no signal interrupts the stop   *)
(* of a device and no device is opened while its PHY has failed.           *)
(***************************************************************************)
(* A PHY that is being powered up has no power yet, so nobody looks at it, *)
(* and a device that is not up has none unless it is still being stopped.  *)
ClientInv ==
    /\ \A m \in Macs : phyHeld[m] = IF m \in phyFailed THEN 1 ELSE 0
    /\ npc = "powerup" => nmac \notin phyFailed /\ ~powered[nmac] /\ devUp[nmac]
    /\ \A m \in Macs : ~devUp[m] /\ powered[m] => npc = "powerdown" /\ nmac = m

(* The only steps that touch a PHY's failure, and what they make of it.    *)
ClientSteps(m) ==
    \/ UNCHANGED <<phyFailed, phyHeld>>
    \/ /\ m \notin phyFailed /\ phyFailed' = phyFailed \cup {m}
       /\ phyHeld' = [phyHeld EXCEPT ![m] = @ + 1]
    \/ /\ m \in phyFailed /\ phyFailed' = phyFailed \ {m}
       /\ phyHeld' = [phyHeld EXCEPT ![m] = @ - 1]

LEMMA ClientStepKinds ==
    ASSUME ClientInv, [Next]_vars
    PROVE  \/ /\ UNCHANGED devVars
              /\ \E m \in Macs : ClientSteps(m) /\ powered[m]
           \/ UNCHANGED <<phyFailed, phyHeld, devVars>>
           \/ Device /\ UNCHANGED <<phyFailed, phyHeld>>
  <1> USE DEF ClientSteps, phyVars
  <1>1. CASE Worker
    <2>1. CASE \E m \in Macs : PollLinkFails(m) \/ PollRestarts(m) \/ PollFailsAgain(m)
      BY <2>1 DEF PollLinkFails, PollRestarts, PollFailsAgain, PhyFails, PhyRestarts, PhyFailsAgain
    <2>2. CASE \/ \E m \in Macs : PollPoweredDown(m) \/ PollStatus(m)
               \/ WorkerLock \/ WorkerSetup \/ WorkerWrite \/ WorkerRecord \/ WorkerCarrier
               \/ WorkerStopQueue \/ WorkerTryLock \/ WorkerCheck \/ WorkerWake
      BY <2>2 DEF PollPoweredDown, PollStatus, WorkerLock, WorkerSetup, WorkerWrite, WorkerRecord,
         WorkerCarrier, WorkerStopQueue, WorkerTryLock, WorkerCheck, WorkerWake
    <2> QED BY <1>1, <2>1, <2>2 DEF Worker
  <1>2. CASE Datapath
    BY <1>2 DEF Datapath, DataStep, DataStart, DataInterrupted, DataFails, SuspendLock, SuspendQueues,
       SuspendMacs, DataStopDma, DataStartDma, ResumeLock, ResumeCount, ResumeMacs, ResumeQueues,
       DataFinish
  <1>3. CASE Proc
    BY <1>3 DEF Proc, ProcWrite, ProcRun, ProcLeave
  <1>4. CASE Device
    <2>1. CASE \E m \in EthtoolMacs : EthtoolLook(m)
      BY <2>1, ClientsAssumption DEF EthtoolLook, PhyFails, PhyRestarts, PhyFailsAgain
    <2>2. CASE DevPowerup
      BY <1>4, <2>2 DEF DevPowerup, ClientInv
    <2>3. CASE \/ DevStartQueue \/ DevPowerdown \/ DevCarrierOff \/ DevInterrupted
               \/ \E m \in OpenMacs : DevOpen(m) \/ DevStop(m)
      BY <1>4, <2>3 DEF DevStartQueue, DevPowerdown, DevCarrierOff, DevInterrupted, DevOpen, DevStop
    <2> QED BY <1>4, <2>1, <2>2, <2>3 DEF Device, DevStep
  <1>5. CASE RingFull \/ RingDrained \/ (\E m \in Macs : Watchdog(m)) \/ UNCHANGED vars
    BY <1>5 DEF RingFull, RingDrained, Watchdog, vars
  <1> QED BY <1>1, <1>2, <1>3, <1>4, <1>5 DEF Next

LEMMA ClientStep ==
    ASSUME ~ReopenFailed, "device" \notin Interruptible, TypeInv, ClientInv, [Next]_vars
    PROVE  ClientInv'
  <1>1. /\ phyHeld \in [Macs -> Nat] /\ powered \in [Macs -> BOOLEAN]
        /\ devUp \in [Macs -> BOOLEAN] /\ nmac \in Macs
    BY DEF TypeInv, TypeOK
  <1> USE DEF ClientInv
  <1>2. ASSUME NEW m \in Macs, ClientSteps(m), powered[m], UNCHANGED devVars PROVE ClientInv'
    BY <1>1, <1>2 DEF ClientSteps, devVars
  <1>3. CASE UNCHANGED <<phyFailed, phyHeld, devVars>>
    BY <1>3 DEF devVars
  <1>4. CASE Device /\ UNCHANGED <<phyFailed, phyHeld>>
    <2>1. CASE \E m \in OpenMacs : DevOpen(m)
      BY <1>1, <1>4, <2>1, ClientsAssumption DEF DevOpen
    <2>2. CASE \E m \in OpenMacs : DevStop(m)
      BY <1>1, <1>4, <2>2, ClientsAssumption DEF DevStop
    <2>3. CASE DevPowerup
      BY <1>1, <1>4, <2>3 DEF DevPowerup
    <2>4. CASE DevPowerdown
      BY <1>1, <1>4, <2>4 DEF DevPowerdown
    <2>5. CASE DevStartQueue \/ DevCarrierOff \/ \E m \in EthtoolMacs : EthtoolLook(m)
      BY <1>4, <2>5 DEF DevStartQueue, DevCarrierOff, EthtoolLook, devVars
    <2>6. ~DevInterrupted
      BY DEF DevInterrupted, Interrupted
    <2> QED BY <1>4, <2>1, <2>2, <2>3, <2>4, <2>5, <2>6 DEF Device, DevStep
  <1> QED BY <1>2, <1>3, <1>4, ClientStepKinds

(* Each PHY is to its MAC what the model of one AR803x PHY alone is shown  *)
(* to be: it asks for a suspend when it fails and takes it back when it    *)
(* leaves the failure, and nothing else that looks at it or powers it up   *)
(* comes between (avmnet_ar803x.c:196-231, 334-337, 1105-1143,             *)
(* 1162-1175).                                                             *)
THEOREM PhysKeepTheirPromise ==
    ASSUME ~ReopenFailed, "device" \notin Interruptible, NEW m \in Macs
    PROVE  Spec => Client(m)!Spec
  <1>1. Init => ClientInv /\ Client(m)!Init
    <2> SUFFICES ASSUME Init PROVE ClientInv /\ Client(m)!Init
      OBVIOUS
    <2>1. /\ phyFailed = {} /\ phyHeld = [k \in Macs |-> 0] /\ npc = "idle"
          /\ devUp \in [Macs -> BOOLEAN] /\ powered = devUp
      BY DEF Init
    <2> QED BY <2>1 DEF ClientInv, Client!Init
  <1>2. TypeInv /\ ClientInv /\ [Next]_vars => [Client(m)!Next]_(Client(m)!phyClientVars)
    <2> SUFFICES ASSUME TypeInv, ClientInv, [Next]_vars
                 PROVE  [Client(m)!Next]_(Client(m)!phyClientVars)
      OBVIOUS
    <2>1. phyHeld \in [Macs -> Nat] /\ \A k \in phyFailed : phyHeld[k] > 0
      BY DEF TypeInv, TypeOK, FailedIsHeld
    <2>2. ASSUME NEW k \in Macs, ClientSteps(k)
          PROVE  [Client(m)!Next]_(Client(m)!phyClientVars)
      BY <2>1, <2>2 DEF ClientSteps, Client!Next, Client!Fails, Client!Recovers, Client!phyClientVars
    <2>3. CASE UNCHANGED <<phyFailed, phyHeld>>
      BY <2>3 DEF Client!phyClientVars
    <2> QED BY <2>2, <2>3, ClientStepKinds
  <1>3. TypeInv /\ ClientInv /\ [Next]_vars => ClientInv'
    BY ClientStep
  <1> QED BY <1>1, <1>2, <1>3, TypeInit, TypeStep, PTL DEF Spec, Client!Spec
=============================================================================
