------------------------------ MODULE Swi7Port ------------------------------
(***************************************************************************)
(* The 7-port switch module (switch/ifx/7port/swi_7port.c) with everything *)
(* that runs into it: the heartbeat worker that carries link status from   *)
(* the PHYs through the MACs to the switch, the datapath driver that       *)
(* suspends the switch while it rebuilds the DMA, the mac_control proc     *)
(* file, the kernel opening and closing network devices, and the DMA       *)
(* interrupts.  One semaphore, swi_7port_mutex, guards the suspend         *)
(* counters and the registers; the queues and g_stop_datapath are not      *)
(* under it.  A step of a thread is what it does between two points where  *)
(* another thread or an interrupt could observe or disturb it.             *)
(***************************************************************************)
EXTENDS Mac7Port, EthTxQueue

CONSTANTS
    ResetPhys,      \* MACs whose PHY has AVMNET_CONFIG_FLAG_RST_ON_LINKFAIL
    ProcMacs,       \* MACs whose mac_control file is written
    OpenMacs,       \* MACs whose device is opened and stopped; the others stay open
    EthtoolMacs,    \* MACs whose device is asked for its settings with ethtool
    ReopenFailed,   \* a device may be reopened while its PHY is in LINK_FAILED
    ProcBalanced,   \* mac_control is only written "resume" after "suspend"
    LoadMayFail,    \* loading the datapath module may fail half way
    Interruptible,  \* who may be interrupted by a signal while it waits for the lock:
                    \* the "load" of the datapath driver, the opening of a "device"
    MaxSwitchSuspends, \* bound on suspends of the switch, in DataStart
    MaxSuspends,    \* bound on suspends by each PHY and by mac_control, in the guards
    MaxSem          \* bound on surplus unlocks, in the guards of unbalanced resumes

ASSUME ResetPhysAssumption == ResetPhys \subseteq Macs \ SwitchPorts
ASSUME ClientsAssumption ==
    ProcMacs \subseteq Macs /\ OpenMacs \subseteq Macs /\ EthtoolMacs \subseteq Macs
ASSUME SwitchesAssumption ==
    {ReopenFailed, ProcBalanced, LoadMayFail} \subseteq BOOLEAN
ASSUME SignalsAssumption == Interruptible \subseteq {"load", "device"}
ASSUME BoundAssumption == {MaxSuspends, MaxSwitchSuspends, MaxSem} \subseteq Nat

VARIABLES
    sem,        \* count of swi_7port_mutex
    swSusp,     \* the switch's ctx->suspend_cnt
    phyFailed,  \* the MACs whose PHY is in LINK_FAILED
    phyHeld,    \* suspends a PHY asked its MAC for and has not taken back
    procHeld,   \* suspends made through mac_control and not taken back
    wpc, wmac, wst, wup, todo,  \* the worker: step, MAC, status and LINKST at hand, MACs left
    dpc, loaded,                \* the datapath driver: step, g_datapath_mod_count
    left,                       \* the MACs a resume of the switch has not resumed yet
    ppc, pmac, pcmd,            \* the mac_control writer
    npc, nmac, devUp, powered   \* device open and stop; netif_running, PHY power

phyVars    == <<phyFailed, phyHeld>>
workerVars == <<wpc, wmac, wst, wup, todo>>
dataVars   == <<dpc, loaded, left>>
procVars   == <<ppc, pmac, pcmd, procHeld>>
devVars    == <<npc, nmac, devUp, powered>>
vars == <<macVars, queueVars, sem, swSusp, phyVars, workerVars, dataVars, procVars, devVars>>

WorkerSteps == {"idle", "lock", "setup", "write", "record",
                "carrier", "stop", "try", "check", "wake"}
DataSteps   == {"idle", "suspend", "stopq", "count", "stopdma", "startdma",
                "resume", "uncount", "macs", "wakeq", "finish"}
ProcSteps   == {"idle", "run", "leave"}
DevSteps    == {"idle", "powerup", "start", "powerdown", "down"}

TypeOK ==
    /\ MacTypeOK /\ QueueTypeOK
    /\ sem \in Nat /\ swSusp \in Nat
    /\ phyFailed \in SUBSET Macs /\ phyHeld \in [Macs -> Nat]
    /\ wpc \in WorkerSteps /\ wmac \in Macs /\ wst \in LinkStatus
    /\ wup \in 0..1 /\ todo \in SUBSET Macs
    /\ dpc \in DataSteps /\ loaded \in BOOLEAN /\ left \in SUBSET Macs
    /\ ppc \in ProcSteps /\ pmac \in Macs /\ pcmd \in {"suspend", "resume"}
    /\ procHeld \in [Macs -> Nat]
    /\ npc \in DevSteps /\ nmac \in Macs
    /\ devUp \in [Macs -> BOOLEAN] /\ powered \in [Macs -> BOOLEAN]

Init ==
    /\ MacInit /\ QueueInit(Macs \ OpenMacs)
    /\ sem = 1 /\ swSusp = 0
    /\ phyFailed = {} /\ phyHeld = [m \in Macs |-> 0]
    /\ wpc = "idle" /\ wmac \in Macs /\ wst = NoLink /\ wup = 0 /\ todo = Macs
    /\ dpc = "idle" /\ loaded = FALSE /\ left = {}
    /\ ppc = "idle" /\ pmac = wmac /\ pcmd = "suspend" /\ procHeld = [m \in Macs |-> 0]
    /\ npc = "idle" /\ nmac = wmac
    /\ devUp = [m \in Macs |-> m \notin OpenMacs]
    /\ powered = devUp

(***************************************************************************)
(* The semaphore.                                                          *)
(***************************************************************************)
Down == sem > 0 /\ sem' = sem - 1
Up   == sem' = sem + 1

(* down_interruptible fails only for a user process that has to wait.      *)
Interrupted(caller) == caller \in Interruptible /\ sem = 0

(***************************************************************************)
(* The heartbeat worker.  switch.poll -> mac.poll -> phy.poll, and the     *)
(* PHY's own link work on the same single-threaded workqueue: read the PHY *)
(* under the lock, then report upwards, mac.set_status and then            *)
(* switch.set_status.                                                      *)
(***************************************************************************)
PollReturns(m, status) ==
    /\ wpc' = "lock" /\ wmac' = m /\ wst' = status
    /\ todo' = IF todo \subseteq {m} THEN Macs ELSE todo \ {m}
    /\ UNCHANGED wup

(* The heartbeat polls every MAC in turn, link work a failed PHY at once.  *)
Pollable(m) == wpc = "idle" /\ m \in todo \cup phyFailed

(* get_status of a PHY that is powered down returns before the lock.       *)
PollPoweredDown(m) ==
    /\ Pollable(m) /\ ~powered[m]
    /\ PollReturns(m, NoLink)
    /\ UNCHANGED <<macVars, queueVars, sem, swSusp, phyVars, dataVars, procVars, devVars>>

PollStatus(m) ==
    /\ Pollable(m) /\ powered[m] /\ sem > 0 /\ m \notin phyFailed
    /\ \E status \in PhyStatus : PollReturns(m, status)
    /\ UNCHANGED <<macVars, queueVars, sem, swSusp, phyVars, dataVars, procVars, devVars>>

(* check_linkfail decides the PHY is broken and asks the MAC to suspend;   *)
(* the next look resets the PHY.                                           *)
PhyFails(m) ==
    /\ m \notin phyFailed /\ m \in ResetPhys /\ phyHeld[m] < MaxSuspends
    /\ MacSuspend({m})
    /\ phyFailed' = phyFailed \cup {m}
    /\ phyHeld' = [phyHeld EXCEPT ![m] = @ + 1]
    /\ UNCHANGED sem

(* That look asks the MAC to resume, whether it resets the PHY or finds    *)
(* the thrash limit met.  A MAC that is not suspended answers with an      *)
(* extra unlock.                                                           *)
PhyRestarts(m) ==
    /\ m \in phyFailed
    /\ \/ macSusp[m] > 0 /\ MacResume({m}) /\ UNCHANGED sem
       \/ macSusp[m] = 0 /\ sem < MaxSem /\ Up /\ UNCHANGED macVars
    /\ phyFailed' = phyFailed \ {m}
    /\ phyHeld' = [phyHeld EXCEPT ![m] = @ - 1]

(* The thrash limit is met, so the PHY was not reset, and what it reports  *)
(* is a failure again: resume and suspend in one call.                     *)
PhyFailsAgain(m) ==
    /\ m \in phyFailed
    /\ \/ macSusp[m] > 0 /\ ForgetLink(m) /\ UNCHANGED sem
       \/ macSusp[m] = 0 /\ sem < MaxSem /\ Up /\ MacSuspend({m})
    /\ UNCHANGED phyVars

(* What a poll then reports: no link with a failure, status 0 after a      *)
(* reset, anything if there was none.                                      *)
PollLinkFails(m) ==
    /\ Pollable(m) /\ powered[m] /\ sem > 0
    /\ PhyFails(m)
    /\ \E speed \in Speeds : PollReturns(m, [link |-> 0, speed |-> speed])
    /\ UNCHANGED <<queueVars, swSusp, dataVars, procVars, devVars>>

PollRestarts(m) ==
    /\ Pollable(m) /\ powered[m] /\ sem > 0
    /\ PhyRestarts(m)
    /\ \E status \in PhyStatus : PollReturns(m, status)
    /\ UNCHANGED <<queueVars, swSusp, dataVars, procVars, devVars>>

PollFailsAgain(m) ==
    /\ Pollable(m) /\ powered[m] /\ sem > 0
    /\ PhyFailsAgain(m)
    /\ PollReturns(m, NoLink)
    /\ UNCHANGED <<queueVars, swSusp, dataVars, procVars, devVars>>

(* mac.set_status: lock; program the MAC if the status changed; record it; *)
(* mask the link of a suspended MAC; unlock.                               *)
WorkerLock ==
    /\ wpc = "lock" /\ Down /\ wpc' = "setup"
    /\ UNCHANGED <<macVars, queueVars, swSusp, phyVars, wmac, wst, wup, todo,
                   dataVars, procVars, devVars>>

(* setup_mac_speed.  Its check of the lock takes it, twice, if it is free. *)
WorkerSetup ==
    /\ wpc = "setup"
    /\ \/ /\ NeedsSetup(wmac, wst)
          /\ wpc' = "write"
          /\ wup' = LinkstFor(wmac, wst)
          /\ sem' = IF sem > 2 THEN sem - 2 ELSE 0
       \/ /\ ~NeedsSetup(wmac, wst)
          /\ wpc' = "record"
          /\ UNCHANGED <<wup, sem>>
    /\ UNCHANGED <<macVars, queueVars, swSusp, phyVars, wmac, wst, todo,
                   dataVars, procVars, devVars>>

WorkerWrite ==
    /\ wpc = "write" /\ wpc' = "record"
    /\ SetupMacSpeed(wmac, wup, wst)
    /\ wup' = 0
    /\ UNCHANGED <<queueVars, sem, swSusp, phyVars, wmac, wst, todo,
                   dataVars, procVars, devVars>>

WorkerRecord ==
    /\ wpc = "record" /\ wpc' = "carrier"
    /\ RecordStatus(wmac, wst)
    /\ wst' = ReportedStatus(wmac, wst)
    /\ Up
    /\ UNCHANGED <<queueVars, swSusp, phyVars, wmac, wup, todo, dataVars, procVars, devVars>>

(* Mutant of WorkerCarrier: nothing to do for a device without carrier.    *)
WorkerCarrierOnce ==
    /\ wpc = "carrier"
    /\ wpc' = IF wst.link = 1 THEN "try" ELSE IF carrier[wmac] THEN "stop" ELSE "idle"
    /\ SetCarrier(wmac, wst.link = 1)
    /\ wst' = NoLink
    /\ UNCHANGED <<macVars, sem, swSusp, phyVars, wmac, wup, todo, dataVars, procVars, devVars>>

(* switch.set_status: with a link, carrier on and, if the lock is free and *)
(* nothing forbids it, wake the queue; without one, carrier off and stop.  *)
WorkerCarrier ==
    /\ wpc = "carrier"
    /\ wpc' = IF wst.link = 1 THEN "try" ELSE "stop"
    /\ SetCarrier(wmac, wst.link = 1)
    /\ wst' = NoLink
    /\ UNCHANGED <<macVars, sem, swSusp, phyVars, wmac, wup, todo, dataVars, procVars, devVars>>

WorkerStopQueue ==
    /\ wpc = "stop" /\ wpc' = "idle"
    /\ StopQueues({wmac})
    /\ UNCHANGED <<macVars, sem, swSusp, phyVars, wmac, wst, wup, todo,
                   dataVars, procVars, devVars>>

(* Mutant of WorkerTryLock: the result of the trylock is not looked at.    *)
WorkerTryLockIgnored ==
    /\ wpc = "try" /\ wpc' = "check"
    /\ sem' = IF sem > 0 THEN sem - 1 ELSE sem
    /\ UNCHANGED <<macVars, queueVars, swSusp, phyVars, wmac, wst, wup, todo,
                   dataVars, procVars, devVars>>

WorkerTryLock ==
    /\ wpc = "try"
    /\ \/ Down /\ wpc' = "check"
       \/ sem = 0 /\ wpc' = "idle" /\ UNCHANGED sem
    /\ UNCHANGED <<macVars, queueVars, swSusp, phyVars, wmac, wst, wup, todo,
                   dataVars, procVars, devVars>>

(* Mutants of WorkerCheck: the lock is given back before the queue is      *)
(* woken; it is kept when the queue is not woken.                          *)
WorkerCheckUnlocksEarly ==
    /\ wpc = "check" /\ Up
    /\ wpc' = IF MayTransmit(wmac) /\ swSusp = 0 THEN "wake" ELSE "idle"
    /\ UNCHANGED <<macVars, queueVars, swSusp, phyVars, wmac, wst, wup, todo,
                   dataVars, procVars, devVars>>

WorkerCheckKeepsLock ==
    /\ wpc = "check"
    /\ wpc' = IF MayTransmit(wmac) /\ swSusp = 0 THEN "wake" ELSE "idle"
    /\ UNCHANGED <<macVars, queueVars, sem, swSusp, phyVars, wmac, wst, wup, todo,
                   dataVars, procVars, devVars>>

WorkerCheck ==
    /\ wpc = "check"
    /\ \/ MayTransmit(wmac) /\ swSusp = 0 /\ wpc' = "wake" /\ UNCHANGED sem
       \/ ~(MayTransmit(wmac) /\ swSusp = 0) /\ wpc' = "idle" /\ Up
    /\ UNCHANGED <<macVars, queueVars, swSusp, phyVars, wmac, wst, wup, todo,
                   dataVars, procVars, devVars>>

WorkerWake ==
    /\ wpc = "wake" /\ wpc' = "idle"
    /\ WakeQueues({wmac}, "gated")
    /\ Up
    /\ UNCHANGED <<macVars, swSusp, phyVars, wmac, wst, wup, todo, dataVars, procVars, devVars>>

Worker ==
    \/ \E m \in Macs : \/ PollPoweredDown(m) \/ PollStatus(m)
                       \/ PollLinkFails(m) \/ PollRestarts(m) \/ PollFailsAgain(m)
    \/ WorkerLock \/ WorkerSetup \/ WorkerWrite \/ WorkerRecord
    \/ WorkerCarrier \/ WorkerStopQueue \/ WorkerTryLock \/ WorkerCheck \/ WorkerWake

(***************************************************************************)
(* The datapath driver: ppe_e5_init and ppe_e5_exit under the rtnl offload *)
(* lock.  Both raise the stop flag, suspend the switch, rebuild the DMA,   *)
(* resume the switch and drop the flag.  What suspend and resume return is *)
(* not looked at.                                                          *)
(***************************************************************************)
DataStart ==
    /\ dpc = "idle" /\ swSusp < MaxSwitchSuspends
    /\ dpc' = "suspend"
    /\ SetStopFlag(TRUE)
    /\ UNCHANGED <<macVars, sem, swSusp, phyVars, workerVars, loaded, left, procVars, devVars>>

DataInterrupted ==
    /\ Interrupted("load")
    /\ \/ dpc = "suspend" /\ dpc' = "stopdma"
       \/ dpc = "resume" /\ dpc' = "finish"
    /\ UNCHANGED <<macVars, queueVars, sem, swSusp, phyVars, workerVars, loaded, left,
                   procVars, devVars>>

SuspendLock ==
    /\ dpc = "suspend" /\ Down /\ dpc' = "stopq"
    /\ UNCHANGED <<macVars, queueVars, swSusp, phyVars, workerVars, loaded, left, procVars, devVars>>

(* switch.suspend: the first one stops every queue and suspends the MACs.  *)
SuspendQueues ==
    /\ dpc = "stopq" /\ dpc' = "count"
    /\ IF swSusp = 0 THEN StopQueues(Macs) ELSE UNCHANGED queueVars
    /\ UNCHANGED <<macVars, sem, swSusp, phyVars, workerVars, loaded, left, procVars, devVars>>

(* Mutant of SuspendMacs: every suspend of the switch suspends the MACs.   *)
SuspendMacsEveryTime ==
    /\ dpc = "count" /\ dpc' = "stopdma"
    /\ MacSuspend(Macs)
    /\ swSusp' = swSusp + 1
    /\ Up
    /\ UNCHANGED <<queueVars, phyVars, workerVars, loaded, left, procVars, devVars>>

SuspendMacs ==
    /\ dpc = "count" /\ dpc' = "stopdma"
    /\ IF swSusp = 0 THEN MacSuspend(Macs) ELSE UNCHANGED macVars
    /\ swSusp' = swSusp + 1
    /\ Up
    /\ UNCHANGED <<queueVars, phyVars, workerVars, loaded, left, procVars, devVars>>

(* NAPI is disabled first; after a load that failed it never was enabled   *)
(* again, and napi_disable waits for ever (RxBacklog has the detail).      *)
DataStopDma ==
    /\ dpc = "stopdma" /\ dmaUp /\ dpc' = "startdma"
    /\ StopDma
    /\ UNCHANGED <<macVars, sem, swSusp, phyVars, workerVars, loaded, left, procVars, devVars>>

DataStartDma ==
    /\ dpc = "startdma" /\ dpc' = "resume"
    /\ StartDma
    /\ UNCHANGED <<macVars, sem, swSusp, phyVars, workerVars, loaded, left, procVars, devVars>>

(* The error labels of ppe_e5_init: free what was set up and return.  The  *)
(* switch stays suspended and the stop flag up.                            *)
DataFails ==
    /\ dpc = "startdma" /\ ~loaded /\ LoadMayFail
    /\ dpc' = "idle"
    /\ UNCHANGED <<macVars, queueVars, sem, swSusp, phyVars, workerVars, loaded, left,
                   procVars, devVars>>

(* switch.resume; an unbalanced call gives the lock back and returns.      *)
ResumeLock ==
    /\ dpc = "resume" /\ sem > 0
    /\ \/ swSusp > 0 /\ sem' = sem - 1 /\ dpc' = "uncount"
       \/ swSusp = 0 /\ UNCHANGED sem /\ dpc' = "finish"
    /\ UNCHANGED <<macVars, queueVars, swSusp, phyVars, workerVars, loaded, left, procVars, devVars>>

ResumeCount ==
    /\ dpc = "uncount"
    /\ swSusp' = swSusp - 1
    /\ \/ swSusp > 1 /\ dpc' = "finish" /\ Up /\ UNCHANGED left
       \/ swSusp = 1 /\ dpc' = "macs" /\ left' = Macs /\ UNCHANGED sem
    /\ UNCHANGED <<macVars, queueVars, phyVars, workerVars, loaded, procVars, devVars>>

(* The last resume goes through the MACs.  One that is not suspended gives *)
(* the lock away, fails and is called again and again.                     *)
ResumeMacs ==
    /\ dpc = "macs"
    /\ \/ /\ \A m \in left : macSusp[m] > 0
          /\ MacResume(left) /\ left' = {} /\ dpc' = "wakeq" /\ UNCHANGED sem
       \/ \E before \in SUBSET left :
             /\ \A m \in before : macSusp[m] > 0
             /\ \E m \in left \ before : macSusp[m] = 0
             /\ MacResume(before) /\ left' = left \ before /\ UNCHANGED dpc
             /\ sem < MaxSem /\ Up
    /\ UNCHANGED <<queueVars, swSusp, phyVars, workerVars, loaded, procVars, devVars>>

ResumeQueues ==
    /\ dpc = "wakeq" /\ dpc' = "finish"
    /\ WakeQueues({m \in Macs : carrier[m] /\ MayTransmit(m)}, "gated")
    /\ Up
    /\ UNCHANGED <<macVars, swSusp, phyVars, workerVars, loaded, left, procVars, devVars>>

DataFinish ==
    /\ dpc = "finish" /\ dpc' = "idle"
    /\ SetStopFlag(FALSE)
    /\ loaded' = ~loaded
    /\ UNCHANGED <<macVars, sem, swSusp, phyVars, workerVars, left, procVars, devVars>>

DataStep ==
    \/ SuspendLock \/ SuspendQueues \/ SuspendMacs \/ DataStopDma \/ DataStartDma
    \/ ResumeLock \/ ResumeCount \/ ResumeMacs \/ ResumeQueues \/ DataFinish
Datapath == DataStart \/ DataStep \/ DataInterrupted \/ DataFails

(***************************************************************************)
(* A user writes "suspend" or "resume" to a MAC's mac_control proc file.   *)
(***************************************************************************)
ProcWrite(m, cmd) ==
    /\ ppc = "idle" /\ Down /\ ppc' = "run"
    /\ \/ cmd = "suspend" /\ procHeld[m] < MaxSuspends
       \/ cmd = "resume" /\ (procHeld[m] > 0 \/ ~ProcBalanced) /\ sem <= MaxSem
    /\ pmac' = m /\ pcmd' = cmd
    /\ UNCHANGED <<macVars, queueVars, swSusp, phyVars, workerVars, dataVars,
                   procHeld, devVars>>

ProcRun ==
    /\ ppc = "run" /\ ppc' = "leave"
    /\ \/ /\ pcmd = "suspend"
          /\ MacSuspend({pmac}) /\ UNCHANGED sem
          /\ procHeld' = [procHeld EXCEPT ![pmac] = @ + 1]
       \/ /\ pcmd = "resume" /\ macSusp[pmac] > 0
          /\ MacResume({pmac}) /\ UNCHANGED sem
          /\ procHeld' = [procHeld EXCEPT ![pmac] = IF @ > 0 THEN @ - 1 ELSE 0]
       \/ /\ pcmd = "resume" /\ macSusp[pmac] = 0
          /\ Up /\ UNCHANGED macVars
          /\ procHeld' = [procHeld EXCEPT ![pmac] = IF @ > 0 THEN @ - 1 ELSE 0]
    /\ UNCHANGED <<queueVars, swSusp, phyVars, workerVars, dataVars, pmac, pcmd, devVars>>

ProcLeave ==
    /\ ppc = "leave" /\ ppc' = "idle" /\ Up
    /\ pcmd' = "suspend"
    /\ UNCHANGED <<macVars, queueVars, swSusp, phyVars, workerVars, dataVars,
                   pmac, procHeld, devVars>>

Proc ==
    \/ \E m \in ProcMacs, cmd \in {"suspend", "resume"} : ProcWrite(m, cmd)
    \/ ProcRun \/ ProcLeave

(***************************************************************************)
(* The kernel opens and stops network devices, and ethtool looks at their  *)
(* PHYs, one at a time (rtnl).                                             *)
(***************************************************************************)
DevOpen(m) ==
    /\ npc = "idle" /\ ~devUp[m] /\ (m \in phyFailed => ReopenFailed)
    /\ npc' = "powerup" /\ nmac' = m
    /\ devUp' = [devUp EXCEPT ![m] = TRUE]
    /\ SetCarrier(m, FALSE)
    /\ UNCHANGED <<macVars, sem, swSusp, phyVars, workerVars, dataVars, procVars, powered>>

(* phy.powerup, with the lock held throughout.  A PHY that is reset on     *)
(* link failure suspends its MAC, is set up again, which leaves it in      *)
(* LINK_DOWN unless it hangs, and resumes its MAC.                         *)
DevPowerup ==
    /\ npc = "powerup" /\ sem > 0 /\ npc' = "start"
    /\ powered' = [powered EXCEPT ![nmac] = TRUE]
    /\ IF nmac \in ResetPhys
       THEN /\ MacSuspendResume(nmac)
            /\ phyFailed' \in {phyFailed \ {nmac}, phyFailed}
       ELSE UNCHANGED <<macVars, phyFailed>>
    /\ UNCHANGED <<queueVars, sem, swSusp, phyHeld, workerVars, dataVars, procVars,
                   nmac, devUp>>

DevStartQueue ==
    /\ npc = "start" /\ npc' = "idle"
    /\ WakeQueues({nmac}, "forced")
    /\ UNCHANGED <<macVars, sem, swSusp, phyVars, workerVars, dataVars, procVars,
                   nmac, devUp, powered>>

DevStop(m) ==
    /\ npc = "idle" /\ devUp[m]
    /\ npc' = "powerdown" /\ nmac' = m
    /\ devUp' = [devUp EXCEPT ![m] = FALSE]
    /\ StopQueues({m})
    /\ UNCHANGED <<macVars, sem, swSusp, phyVars, workerVars, dataVars, procVars, powered>>

DevPowerdown ==
    /\ npc = "powerdown" /\ sem > 0 /\ npc' = "down"
    /\ powered' = [powered EXCEPT ![nmac] = FALSE]
    /\ UNCHANGED <<macVars, queueVars, sem, swSusp, phyVars, workerVars, dataVars, procVars,
                   nmac, devUp>>

DevCarrierOff ==
    /\ npc = "down" /\ npc' = "idle"
    /\ SetCarrier(nmac, FALSE)
    /\ UNCHANGED <<macVars, sem, swSusp, phyVars, workerVars, dataVars, procVars,
                   nmac, devUp, powered>>

(* An interrupted wait for the lock is warned about; open and stop go on.  *)
DevInterrupted ==
    /\ Interrupted("device")
    /\ \/ npc = "powerup" /\ npc' = "start"
       \/ npc = "powerdown" /\ npc' = "down"
    /\ UNCHANGED <<macVars, queueVars, sem, swSusp, phyVars, workerVars, dataVars, procVars,
                   nmac, devUp, powered>>

(* ethtool asks for settings: a look at the PHY whose status nobody hears  *)
(* of, though it may suspend or resume the MAC.                            *)
EthtoolLook(m) ==
    /\ npc = "idle" /\ powered[m] /\ sem > 0
    /\ PhyFails(m) \/ PhyRestarts(m) \/ PhyFailsAgain(m)
    /\ UNCHANGED <<queueVars, swSusp, workerVars, dataVars, procVars, devVars>>

DevStep == DevPowerup \/ DevStartQueue \/ DevPowerdown \/ DevCarrierOff
Device  ==
    \/ DevStep \/ DevInterrupted
    \/ \E m \in OpenMacs : DevOpen(m) \/ DevStop(m)
    \/ \E m \in EthtoolMacs : EthtoolLook(m)

(***************************************************************************)
(* Interrupts and the transmit watchdog.                                   *)
(***************************************************************************)
RingFull ==
    /\ TxBufFull
    /\ UNCHANGED <<macVars, sem, swSusp, phyVars, workerVars, dataVars, procVars, devVars>>

RingDrained ==
    /\ TransmitCpt
    /\ UNCHANGED <<macVars, sem, swSusp, phyVars, workerVars, dataVars, procVars, devVars>>

Watchdog(m) ==
    /\ TxTimeout(m, devUp[m])
    /\ UNCHANGED <<macVars, sem, swSusp, phyVars, workerVars, dataVars, procVars, devVars>>

Next ==
    \/ Worker \/ Datapath \/ Proc \/ Device \/ RingFull \/ RingDrained
    \/ \E m \in Macs : Watchdog(m)

Spec == Init /\ [][Next]_vars

(* The heartbeat re-queues itself for ever and the semaphore wakes its     *)
(* waiters in order; started calls run to their end; the hardware and the  *)
(* kernel's timer deliver.  Nobody has to start a call, and what a PHY     *)
(* reports, signals and failures are free.                                 *)
Fairness ==
    /\ SF_vars(Worker)
    /\ SF_vars(DataStep)
    /\ SF_vars(ProcRun \/ ProcLeave)
    /\ SF_vars(DevStep)
    /\ WF_vars(RingDrained)
    /\ \A m \in Macs : WF_vars(Watchdog(m))

FairSpec == Spec /\ Fairness

(***************************************************************************)
(* Safety.                                                                 *)
(***************************************************************************)
WorkerInside == wpc \in {"setup", "write", "record"}
StatusInside == wpc \in {"check", "wake"}
DataInside   == dpc \in {"stopq", "count", "uncount", "macs", "wakeq"}
ProcInside   == ppc \in {"run", "leave"}

(* swi_7port_mutex: of the threads that took it one at most is inside, and *)
(* it is free exactly when none is (swi_7port.c:984-1007).  A call that    *)
(* gives back a lock it did not take, as the MAC's unbalanced resume does, *)
(* would let two threads in.                                               *)
MutualExclusion ==
    /\ sem = IF WorkerInside \/ StatusInside \/ DataInside \/ ProcInside THEN 0 ELSE 1
    /\ ~(DataInside /\ ProcInside)
    /\ ~((WorkerInside \/ StatusInside) /\ (DataInside \/ ProcInside))

(* What suspend, resume and setup_mac_speed of the MAC check on entry with *)
(* a trylock: "Called without MUTEX held!" (mac_7port.c:373, 426, 585).    *)
CalledWithMutexHeld ==
    (\/ wpc = "setup" /\ NeedsSetup(wmac, wst)
     \/ dpc = "count" /\ swSusp = 0
     \/ dpc = "macs"
     \/ ppc = "run") => sem = 0

(* Whatever unbalanced resumes and the double trylock of setup_mac_speed do *)
(* to the count, the semaphore is never lost: while nobody is inside it is *)
(* not 0 (mac_7port.c:433-437, 583-588).                                   *)
LockNeverLost ==
    sem > 0 \/ WorkerInside \/ StatusInside \/ DataInside \/ ProcInside

(* Each MAC is suspended exactly as often as its three clients ask: once   *)
(* until the switch has resumed it, once per outstanding request of its PHY, *)
(* once per mac_control write.  So no resume finds the counter at 0.       *)
SuspendCountsBalanced ==
    \A m \in Macs :
        macSusp[m] = phyHeld[m] + procHeld[m] + (IF swSusp > 0 \/ m \in left THEN 1 ELSE 0)

(* The link of a suspended MAC is down, whatever its PHY reports and       *)
(* however reports interleave with suspends (mac_7port.c:380-387, 621).    *)
SuspendedMacIsDown == \A m \in Macs : macSusp[m] > 0 => linkst[m] = 0

(* While the switch is suspended no queue runs because the switch woke it, *)
(* neither from a status report that looked before the suspend nor from a  *)
(* resume (swi_7port.c:1067-1081).                                         *)
QuietWhileSuspended == \A m \in Macs : swSusp > 0 => queue[m] # "gated"

(* Between status reports a MAC is programmed as its last known status     *)
(* says: link up if and only if that is and nothing suspends the MAC, and  *)
(* then at that speed.  After a suspension it is not believed to be up     *)
(* (mac_7port.c:450, 653-658).                                             *)
MacFollowsStatus ==
    \A m \in Macs \ SwitchPorts :
        ~(wpc \in {"write", "record"} /\ wmac = m) =>
            /\ linkst[m] = 1 <=> lastKnown[m].link = 1 /\ macSusp[m] = 0
            /\ linkst[m] = 1 => cfgSpeed[m] = lastKnown[m].speed

(* A fixed link is up whenever nothing suspends it (mac_7port.c:441-448).  *)
SwitchPortUp == \A m \in SwitchPorts : linkst[m] = 1 <=> macSusp[m] = 0

(* "block all incoming switch ports": while the DMA is down or being       *)
(* rebuilt every MAC is down and no queue was woken by the switch          *)
(* (vr9_e5.c:6357, 6700).                                                  *)
PortsBlockedDuringRebuild ==
    dpc \in {"stopdma", "startdma"} =>
        \A m \in Macs : linkst[m] = 0 /\ queue[m] # "gated"

(* What the datapath driver is promised: the switch, seen from outside, is *)
(* a gate that lets nothing through while it is suspended, however often   *)
(* suspends nest and whatever the PHYs, the MACs, the users, the kernel    *)
(* and the interrupts do meanwhile (swi_7port.c:605-741).                  *)
Gate == INSTANCE SuspendGate WITH
    nest  <- swSusp,
    up    <- {m \in Macs : linkst[m] = 1},
    awake <- {m \in Macs : queue[m] = "gated"},
    dma   <- dmaUp
ImplementsGate == Gate!Spec

(* What a MAC is promised by its PHY: a resume for every suspend and       *)
(* nothing else, although polls, ethtool and the opening of the device     *)
(* each set the PHY up again (avmnet_ar803x.c:196-231, 1134-1143).         *)
Client(m) == INSTANCE SuspendingPhy WITH failed <- m \in phyFailed, held <- phyHeld[m]

(***************************************************************************)
(* Liveness, under FairSpec.                                               *)
(***************************************************************************)
(* What the worker carries upwards for m is a link, or is no link.         *)
ReportsLink(m)   == wpc = "lock" /\ wmac = m => wst.link = 1
ReportsNoLink(m) == wpc = "lock" /\ wmac = m => wst.link = 0

Undisturbed(m) ==
    /\ devUp[m] /\ powered[m]
    /\ swSusp = 0 /\ macSusp[m] = 0 /\ ~stopDatapath
    /\ dpc = "idle" /\ ppc = "idle"

(* A device whose PHY keeps reporting a link, once nobody suspends it any  *)
(* more, gets to transmit again and again, although the load of the        *)
(* datapath resumes the switch before it drops the stop flag and a rebuild *)
(* or a watchdog run may leave the full flag set with no interrupt to      *)
(* clear it (swi_7port.c:715-726, 1067-1081).                              *)
LinkUpWakesQueue ==
    \A m \in Macs :
        <>[](ReportsLink(m) /\ Undisturbed(m)) => []<>(queue[m] # "stopped")

(* A device without a link is stopped again and again, even if interrupts, *)
(* the watchdog or an open start its queue (swi_7port.c:1098-1113).        *)
LinkLossStopsQueue ==
    \A m \in Macs : <>[]ReportsNoLink(m) => []<>(queue[m] = "stopped")

(* A MAC that nobody suspends any more and whose open device's PHY keeps   *)
(* reporting a link ends with its link up for good: a resume forgets the   *)
(* last known link so that the next report programs it                     *)
(* (mac_7port.c:441-451).                                                  *)
MacRestored ==
    \A m \in Macs :
        <>[](ReportsLink(m) /\ devUp[m] /\ macSusp[m] = 0) => <>[](linkst[m] = 1)

=============================================================================
