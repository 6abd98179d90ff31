----------------------------- MODULE RxBacklog -----------------------------
(***************************************************************************)
(* The receive side of the 7-port datapath: per CPU a backlog of frames    *)
(* that the DMA interrupt fills and a NAPI poll empties                    *)
(* (7port/ifxmips_ppa_datapath_7port_common.c), and the exchange of the    *)
(* common datapath for the VR9 E5 one and back, which stops NAPI, flushes  *)
(* the backlogs and changes the poll function under the feet of both       *)
(* (vr9/ifxmips_ppa_datapath_vr9_e5.c).                                    *)
(*                                                                         *)
(* A frame is the datapath whose DMA device delivered it, which says what  *)
(* header it has.  The handler and the poll of one CPU interleave freely,  *)
(* more than the CPU lets them.  The switch, which load and unload suspend *)
(* and resume, is Swi7Port's.                                              *)
(***************************************************************************)
EXTENDS Naturals, Sequences

CONSTANTS
    NCpus,        \* possible CPUs, 0..NCpus-1
    QueueLimit,   \* 1000: a longer backlog takes no frame
    LoadMayFail,  \* the E5 datapath may fail to start its firmware or interrupts
    DelayDrains   \* udelay(1000) outlasts a handler that has read the stop flag

ASSUME NCpusAssumption == NCpus \in Nat \ {0}
ASSUME QueueLimitAssumption == QueueLimit \in Nat
ASSUME ChoicesAssumption == {LoadMayFail, DelayDrains} \subseteq BOOLEAN

VARIABLES
    queue,     \* input_pkt_queue of every CPU
    sched,     \* NAPI_STATE_SCHED of its backlog
    disabling, \* NAPI_STATE_DISABLE
    listed,    \* the backlog is on the CPU's poll list
    poll,      \* backlog.poll: of which datapath, or none
    polling,   \* the poll function runs
    rx,        \* the interrupt handler: idle, or with a frame it is about to queue
    dma,       \* whose DMA device receives, or none
    stop,      \* g_stop_datapath
    loader,    \* where load or unload is
    goal,      \* which of the two it is
    cpu,       \* how far its loop over the CPUs is
    loaded,    \* g_datapath_mod_count
    failed     \* history: a load has failed

napiVars == <<sched, disabling, listed>>
loadVars == <<loader, goal, cpu, loaded, failed>>
vars == <<queue, napiVars, poll, polling, rx, dma, stop, loadVars>>

Cpus  == 0..NCpus - 1
Paths == {"common", "e5"}
None  == "none"

TypeOK ==
    /\ queue \in [Cpus -> Seq(Paths)]
    /\ sched \in [Cpus -> BOOLEAN] /\ disabling \in [Cpus -> BOOLEAN]
    /\ listed \in [Cpus -> BOOLEAN] /\ polling \in [Cpus -> BOOLEAN]
    /\ poll \in [Cpus -> Paths \cup {None}]
    /\ rx \in [Cpus -> Paths \cup {None}]
    /\ dma \in Paths \cup {None}
    /\ stop \in BOOLEAN /\ loaded \in BOOLEAN /\ failed \in BOOLEAN
    /\ loader \in {"idle", "drain", "disable", "wait", "flush", "dma", "setup", "enable", "resume"}
    /\ goal \in {"load", "unload"}
    /\ cpu \in Cpus

(* After ppe_eth_init.                                                     *)
Init ==
    /\ queue = [c \in Cpus |-> <<>>]
    /\ sched = [c \in Cpus |-> FALSE] /\ disabling = sched /\ listed = sched /\ polling = sched
    /\ poll = [c \in Cpus |-> "common"] /\ rx = [c \in Cpus |-> None]
    /\ dma = "common" /\ stop = FALSE
    /\ loader = "idle" /\ goal = "load" /\ cpu = 0 /\ loaded = FALSE /\ failed = FALSE

(***************************************************************************)
(* The interrupt handler: switch_hw_receive, dma_rx_int_handler.           *)
(***************************************************************************)
(* A frame passes the stop flag; the others are dropped.                   *)
Receive(c) ==
    /\ dma # None /\ rx[c] = None /\ ~stop
    /\ rx' = [rx EXCEPT ![c] = dma]
    /\ UNCHANGED <<queue, napiVars, poll, polling, dma, stop, loadVars>>

(* napi_schedule                                                           *)
Schedules(c) == ~disabling[c] /\ ~sched[c]

(* Mutant of Wakes: the frame is queued first.                             *)
WakesAfterQueueing(c) == Len(queue[c]) = 1 /\ Schedules(c)

(* Only the first frame of a backlog schedules its poll.                   *)
Wakes(c) == queue[c] = <<>> /\ Schedules(c)

QueueFrame(c) ==
    /\ rx[c] # None
    /\ rx' = [rx EXCEPT ![c] = None]
    /\ IF Len(queue[c]) <= QueueLimit
       THEN /\ queue' = [queue EXCEPT ![c] = Append(@, rx[c])]
            /\ sched' = [sched EXCEPT ![c] = @ \/ Wakes(c)]
            /\ listed' = [listed EXCEPT ![c] = @ \/ Wakes(c)]
       ELSE UNCHANGED <<queue, sched, listed>>
    /\ UNCHANGED <<disabling, poll, polling, dma, stop, loadVars>>

(***************************************************************************)
(* net_rx_action and the poll functions.                                   *)
(***************************************************************************)
StartPoll(c) ==
    /\ listed[c] /\ ~polling[c]
    /\ polling' = [polling EXCEPT ![c] = TRUE]
    /\ UNCHANGED <<queue, napiVars, poll, rx, dma, stop, loadVars>>

Complete(c) ==
    /\ sched' = [sched EXCEPT ![c] = FALSE]
    /\ listed' = [listed EXCEPT ![c] = FALSE]

(* Mutant of ReturnEarly: a malformed frame is the last of the poll.       *)
ReturnEarlyCompletes(c) == polling' = [polling EXCEPT ![c] = FALSE] /\ Complete(c)

(* A malformed frame or the next jiffy: less than the quota is done, and   *)
(* the backlog stays on the list.                                          *)
ReturnEarly(c) == polling' = [polling EXCEPT ![c] = FALSE] /\ UNCHANGED <<sched, listed>>

(* Mutant of UseUpQuota: whoever has used up the quota is off the list.    *)
UseUpQuotaCompletes(c) == polling' = [polling EXCEPT ![c] = FALSE] /\ Complete(c)

(* The kernel takes a backlog that shall be disabled off the list then.    *)
UseUpQuota(c) ==
    /\ polling' = [polling EXCEPT ![c] = FALSE]
    /\ IF disabling[c] THEN Complete(c) ELSE UNCHANGED <<sched, listed>>

PollFrame(c) ==
    /\ polling[c] /\ queue[c] # <<>>
    /\ queue' = [queue EXCEPT ![c] = Tail(@)]
    /\ \/ UNCHANGED <<polling, sched, listed>>
       \/ ReturnEarly(c)
       \/ UseUpQuota(c)
    /\ UNCHANGED <<disabling, poll, rx, dma, stop, loadVars>>

PollEmpty(c) ==
    /\ polling[c] /\ queue[c] = <<>>
    /\ polling' = [polling EXCEPT ![c] = FALSE]
    /\ Complete(c)
    /\ UNCHANGED <<queue, disabling, poll, rx, dma, stop, loadVars>>

(***************************************************************************)
(* ppe_e5_init and ppe_e5_exit, one at a time.                             *)
(***************************************************************************)
(* The datapath there will be when the loader is done.                     *)
Target == IF goal = "load" THEN "e5" ELSE "common"

Goto(step) == loader' = step /\ UNCHANGED <<goal, loaded, failed>>

(* The loop over the CPUs: the next one, or the step after the loop.       *)
NextCpu(again, then) ==
    IF cpu < NCpus - 1 THEN cpu' = cpu + 1 /\ Goto(again) ELSE cpu' = 0 /\ Goto(then)

Begin ==
    /\ loader = "idle"
    /\ stop' = TRUE
    /\ loader' = "drain" /\ goal' = IF loaded THEN "unload" ELSE "load"
    /\ UNCHANGED <<queue, napiVars, poll, polling, rx, dma, cpu, loaded, failed>>

(* avmnet_swi_7port_drop_everything, and the suspend of the switch.        *)
Drain ==
    /\ loader = "drain" /\ (DelayDrains => \A c \in Cpus : rx[c] = None)
    /\ Goto("disable")
    /\ UNCHANGED <<queue, napiVars, poll, polling, rx, dma, stop, cpu>>

NapiDisable ==
    /\ loader = "disable"
    /\ disabling' = [disabling EXCEPT ![cpu] = TRUE]
    /\ Goto("wait")
    /\ UNCHANGED <<queue, sched, listed, poll, polling, rx, dma, stop, cpu>>

(* Mutant of NapiDisabled: the poll is not waited for.                     *)
NapiDisabledAtOnce ==
    /\ loader = "wait"
    /\ sched' = [sched EXCEPT ![cpu] = TRUE]
    /\ disabling' = [disabling EXCEPT ![cpu] = FALSE]
    /\ poll' = [poll EXCEPT ![cpu] = None]
    /\ Goto("flush")
    /\ UNCHANGED <<queue, listed, polling, rx, dma, stop, cpu>>

(* napi_disable takes NAPI_STATE_SCHED once it is free, and keeps it.      *)
NapiDisabled ==
    /\ loader = "wait" /\ ~sched[cpu]
    /\ sched' = [sched EXCEPT ![cpu] = TRUE]
    /\ disabling' = [disabling EXCEPT ![cpu] = FALSE]
    /\ poll' = [poll EXCEPT ![cpu] = None]
    /\ Goto("flush")
    /\ UNCHANGED <<queue, listed, polling, rx, dma, stop, cpu>>

(* Mutant of Flush: the backlog is left alone.                             *)
FlushNothing ==
    /\ loader = "flush"
    /\ NextCpu("disable", "dma")
    /\ UNCHANGED <<queue, napiVars, poll, polling, rx, dma, stop>>

Flush ==
    /\ loader = "flush"
    /\ queue' = [queue EXCEPT ![cpu] = <<>>]
    /\ NextCpu("disable", "dma")
    /\ UNCHANGED <<napiVars, poll, polling, rx, dma, stop>>

(* stop_7port_dma_gracefully                                               *)
StopDma ==
    /\ loader = "dma" /\ dma' = None
    /\ Goto("setup")
    /\ UNCHANGED <<queue, napiVars, poll, polling, rx, stop, cpu>>

(* A load that fails returns with everything stopped.                      *)
LoadFails ==
    /\ loader = "setup" /\ goal = "load" /\ LoadMayFail
    /\ loader' = "idle" /\ failed' = TRUE
    /\ UNCHANGED <<queue, napiVars, poll, polling, rx, dma, stop, goal, cpu, loaded>>

(* The new datapath; when it is the common one, its DMA device is there    *)
(* but receives nothing yet.                                               *)
SetUp ==
    /\ loader = "setup"
    /\ Goto("enable")
    /\ UNCHANGED <<queue, napiVars, poll, polling, rx, dma, stop, cpu>>

(* Only a load initialises the backlog again.                              *)
NapiEnable ==
    /\ loader = "enable"
    /\ queue' = IF goal = "load" THEN [queue EXCEPT ![cpu] = <<>>] ELSE queue
    /\ poll' = [poll EXCEPT ![cpu] = Target]
    /\ sched' = [sched EXCEPT ![cpu] = FALSE]
    /\ NextCpu("enable", "resume")
    /\ UNCHANGED <<disabling, listed, polling, rx, dma, stop>>

(* The DMA channels are opened, the switch is resumed, frames are welcome. *)
Resume ==
    /\ loader = "resume"
    /\ dma' = Target
    /\ stop' = FALSE
    /\ loader' = "idle" /\ loaded' = (goal = "load")
    /\ UNCHANGED <<queue, napiVars, poll, polling, rx, goal, cpu, failed>>

RxSoftirq(c) == StartPoll(c) \/ PollFrame(c) \/ PollEmpty(c)
Loading == Drain \/ NapiDisable \/ NapiDisabled \/ Flush \/ StopDma \/ SetUp \/ NapiEnable \/ Resume

Next ==
    \/ \E c \in Cpus : Receive(c) \/ QueueFrame(c) \/ RxSoftirq(c)
    \/ Begin \/ Loading \/ LoadFails

Spec == Init /\ [][Next]_vars

(* Handlers and softirqs of every CPU get on, so does the loader.          *)
FairSpec ==
    /\ Spec /\ WF_vars(Loading)
    /\ \A c \in Cpus : WF_vars(QueueFrame(c)) /\ WF_vars(RxSoftirq(c))

(***************************************************************************)
(* Properties.                                                             *)
(***************************************************************************)
(* Load and unload have NAPI_STATE_SCHED of this CPU's backlog.            *)
Disabled(c) == poll[c] = None

(* No backlog is stranded: a frame in the backlog of an enabled NAPI has   *)
(* its poll coming, or no later frame would ever schedule it, since only   *)
(* an empty backlog is scheduled (7port_common.c:804, vr9_e5.c:6706-6722). *)
BacklogIsScheduled ==
    \A c \in Cpus : queue[c] # <<>> /\ ~Disabled(c) => disabling[c] \/ (sched[c] /\ listed[c])

(* "Caller must disable NAPI before calling": no poll runs while its       *)
(* function is exchanged, and none is called that is not there             *)
(* (7port_common.c:1592-1601, vr9_e5.c:6378-6379, 6588).                   *)
PollIsThere == \A c \in Cpus : polling[c] \/ listed[c] => ~Disabled(c)

(* No frame of one datapath is handled by the other, whose header it does  *)
(* not have (vr9_e5.c:6371-6388, 6706-6722).                               *)
FramesMatchPoll ==
    \A c \in Cpus : ~Disabled(c) => \A i \in DOMAIN queue[c] : queue[c][i] = poll[c]

(* A backlog is emptied, or served again and again.                        *)
BacklogIsServed ==
    \A c \in Cpus : []<>(queue[c] = <<>>) \/ []<><<PollFrame(c)>>_vars
=============================================================================
