-------------------------- MODULE RxBacklog_proofs --------------------------
(***************************************************************************)
(* Proofs about RxBacklog for any number of CPUs and any length of the     *)
(* backlog.                                                                *)
(***************************************************************************)
EXTENDS RxBacklog, TLAPS

LEMMA TypeInit == Init => TypeOK
  <1> SUFFICES ASSUME Init PROVE TypeOK
    OBVIOUS
  <1>1. 0 \in Cpus
    BY NCpusAssumption DEF Cpus
  <1>2. <<>> \in Seq(Paths) /\ "common" \in Paths
    BY DEF Paths
  <1> QED BY <1>1, <1>2 DEF Init, TypeOK

LEMMA TypeStep == TypeOK /\ [Next]_vars => TypeOK'
  <1> SUFFICES ASSUME TypeOK, [Next]_vars PROVE TypeOK'
    OBVIOUS
  <1> USE DEF TypeOK, napiVars, loadVars
  <1>1. ASSUME NEW c \in Cpus, Receive(c) \/ QueueFrame(c) PROVE TypeOK'
    <2>1. CASE Receive(c)
      BY <1>1, <2>1 DEF Receive
    <2>2. CASE QueueFrame(c)
      <3>1. rx[c] \in Paths /\ queue[c] \in Seq(Paths)
        BY <2>2 DEF QueueFrame
      <3>2. Append(queue[c], rx[c]) \in Seq(Paths) /\ None \in Paths \cup {None}
        BY <3>1
      <3> QED BY <2>2, <3>2 DEF QueueFrame, Wakes, Schedules
    <2> QED BY <1>1, <2>1, <2>2
  <1>2. ASSUME NEW c \in Cpus, RxSoftirq(c) PROVE TypeOK'
    <2>1. queue[c] # <<>> => Tail(queue[c]) \in Seq(Paths)
      OBVIOUS
    <2> QED BY <1>2, <2>1 DEF RxSoftirq, StartPoll, PollFrame, PollEmpty, ReturnEarly, UseUpQuota,
               Complete
  <1>3. CASE Begin \/ Drain \/ NapiDisable \/ NapiDisabled
    BY <1>3 DEF Begin, Drain, NapiDisable, NapiDisabled, Goto, None
  <1>4. CASE Flush \/ NapiEnable
    <2>1. cpu' \in Cpus
      BY <1>4, NCpusAssumption DEF Flush, NapiEnable, NextCpu, Cpus
    <2>2. Target \in Paths /\ <<>> \in Seq(Paths)
      BY DEF Target, Paths
    <2> QED BY <1>4, <2>1, <2>2 DEF Flush, NapiEnable, NextCpu, Goto
  <1>5. CASE StopDma \/ SetUp \/ LoadFails \/ Resume
    BY <1>5 DEF StopDma, SetUp, LoadFails, Resume, Goto, Target, Paths
  <1>6. CASE UNCHANGED vars
    BY <1>6 DEF vars
  <1> QED BY <1>1, <1>2, <1>3, <1>4, <1>5, <1>6 DEF Next, Loading

(* Load, unload, handlers and polls keep to their types.                   *)
THEOREM BacklogTypeCorrect == Spec => []TypeOK
  BY TypeInit, TypeStep, PTL DEF Spec

(***************************************************************************)
(* NAPI: who has NAPI_STATE_SCHED of which CPU.                            *)
(***************************************************************************)
(* A poll is on the list while it has the bit, and whoever has taken the   *)
(* poll function away has it too.                                          *)
OwnerInv ==
    \A c \in Cpus :
        /\ polling[c] => listed[c]
        /\ Disabled(c) => sched[c] /\ ~listed[c]
        /\ ~Disabled(c) => (sched[c] <=> listed[c])

(* How far the loops over the CPUs are.                                    *)
LoopInv ==
    /\ loader \in {"idle", "drain", "dma", "setup", "resume"} => cpu = 0
    /\ loader \in {"disable", "wait"} => \A c \in Cpus : c < cpu => Disabled(c)
    /\ loader = "flush" => \A c \in Cpus : c <= cpu => Disabled(c)
    /\ loader \in {"dma", "setup"} => \A c \in Cpus : Disabled(c)
    /\ loader = "enable" => \A c \in Cpus : IF c >= cpu THEN Disabled(c) ELSE poll[c] = Target
    /\ loader = "resume" => \A c \in Cpus : poll[c] = Target

NapiInv == TypeOK /\ OwnerInv /\ LoopInv

LEMMA NapiInit == Init => NapiInv
  BY TypeInit DEF Init, NapiInv, OwnerInv, LoopInv, Disabled, None, Cpus

LEMMA NapiStep == NapiInv /\ [Next]_vars => NapiInv'
  <1> SUFFICES ASSUME NapiInv, [Next]_vars PROVE OwnerInv' /\ LoopInv'
    BY TypeStep DEF NapiInv
  <1>0. TypeOK /\ TypeOK' /\ OwnerInv /\ LoopInv
    BY TypeStep DEF NapiInv
  <1> USE DEF Disabled, napiVars, loadVars
  <1>1. ASSUME NEW c \in Cpus, Receive(c) \/ QueueFrame(c) PROVE OwnerInv' /\ LoopInv'
    BY <1>0, <1>1 DEF Receive, QueueFrame, Wakes, Schedules, OwnerInv, LoopInv, TypeOK, Target
  <1>2. ASSUME NEW c \in Cpus, RxSoftirq(c) PROVE OwnerInv' /\ LoopInv'
    <2>1. UNCHANGED <<poll, loadVars>>
      BY <1>2 DEF RxSoftirq, StartPoll, PollFrame, PollEmpty
    <2>2. LoopInv'
      BY <1>0, <2>1 DEF LoopInv, Target
    <2>3. /\ sched \in [Cpus -> BOOLEAN] /\ listed \in [Cpus -> BOOLEAN]
          /\ polling \in [Cpus -> BOOLEAN] /\ OwnerInv
      BY <1>0 DEF TypeOK
    <2>4. SUFFICES ASSUME NEW d \in Cpus
                   PROVE  /\ polling'[d] => listed'[d]
                          /\ Disabled(d) => sched'[d] /\ ~listed'[d]
                          /\ ~Disabled(d) => (sched'[d] <=> listed'[d])
      BY <2>1, <2>2 DEF OwnerInv
    <2>5. /\ polling[d] => listed[d]
          /\ Disabled(d) => sched[d] /\ ~listed[d]
          /\ ~Disabled(d) => (sched[d] <=> listed[d])
      BY <2>3 DEF OwnerInv
    <2>6. CASE StartPoll(c)
      BY <2>3, <2>5, <2>6 DEF StartPoll
    <2>7. CASE PollFrame(c) \/ PollEmpty(c)
      BY <2>3, <2>5, <2>7 DEF PollFrame, PollEmpty, ReturnEarly, UseUpQuota, Complete
    <2> QED BY <1>2, <2>6, <2>7 DEF RxSoftirq
  <1>3. CASE Begin \/ Drain \/ NapiDisable
    BY <1>0, <1>3 DEF Begin, Drain, NapiDisable, Goto, OwnerInv, LoopInv, Cpus, TypeOK
  <1>4. CASE NapiDisabled
    BY <1>0, <1>4 DEF NapiDisabled, Goto, OwnerInv, LoopInv, TypeOK, Cpus
  <1>5. CASE Flush
    <2>1. OwnerInv'
      BY <1>0, <1>5 DEF Flush, OwnerInv
    <2>2. cpu \in Nat /\ NCpus \in Nat \ {0} /\ \A c \in Cpus : c \in Nat /\ c <= NCpus - 1
      BY <1>0, NCpusAssumption DEF TypeOK, Cpus
    <2> QED BY <1>0, <1>5, <2>1, <2>2 DEF Flush, NextCpu, Goto, LoopInv
  <1>6. CASE StopDma \/ SetUp \/ LoadFails \/ Resume
    BY <1>0, <1>6 DEF StopDma, SetUp, LoadFails, Resume, Goto, OwnerInv, LoopInv, Target, Cpus
  <1>7. CASE NapiEnable
    <2>1. cpu \in Cpus /\ poll' = [poll EXCEPT ![cpu] = Target] /\ Target # None /\ Target' = Target
          /\ Disabled(cpu)
      BY <1>0, <1>7 DEF NapiEnable, NextCpu, Goto, Target, None, TypeOK, LoopInv, Cpus
    <2>2. OwnerInv'
      BY <1>0, <1>7, <2>1 DEF NapiEnable, OwnerInv, TypeOK
    <2>3. cpu \in Nat /\ NCpus \in Nat \ {0} /\ \A c \in Cpus : c \in Nat /\ c <= NCpus - 1
      BY <1>0, NCpusAssumption DEF TypeOK, Cpus
    <2>4. \A c \in Cpus : poll'[c] = IF c = cpu THEN Target ELSE poll[c]
      BY <1>0, <2>1 DEF TypeOK
    <2> QED BY <1>0, <1>7, <2>1, <2>2, <2>3, <2>4 DEF NapiEnable, NextCpu, Goto, LoopInv
  <1>8. CASE UNCHANGED vars
    BY <1>0, <1>8 DEF vars, OwnerInv, LoopInv, Target
  <1> QED BY <1>1, <1>2, <1>3, <1>4, <1>5, <1>6, <1>7, <1>8 DEF Next, Loading

(* No poll runs while its function is exchanged, and none is called that   *)
(* is not there, whatever the frames and the loader do and however often   *)
(* loads fail (vr9_e5.c:6378-6379, 6588, 7port_common.c:1592-1601).        *)
THEOREM PollsAreThere == Spec => []PollIsThere
  <1>1. NapiInv => PollIsThere
    BY DEF NapiInv, OwnerInv, PollIsThere
  <1> QED BY <1>1, NapiInit, NapiStep, PTL DEF Spec

(***************************************************************************)
(* The backlogs, as long as no handler outlasts the delay that load and    *)
(* unload give it.                                                         *)
(***************************************************************************)
(* Once the delay is over no handler is under way, nor will there be one   *)
(* before the stop flag is taken back.                                     *)
DrainInv ==
    /\ loader # "idle" => stop
    /\ loader \notin {"idle", "drain"} => \A c \in Cpus : rx[c] = None
    /\ ~stop => \A c \in Cpus : poll[c] = dma
    /\ \A c \in Cpus : rx[c] # None => rx[c] = poll[c]
    /\ \A c \in Cpus : Disabled(c) => stop /\ (queue[c] = <<>> \/ (loader = "flush" /\ c = cpu))

BacklogInv == DrainInv /\ FramesMatchPoll /\ BacklogIsScheduled

LEMMA BacklogInit == Init => BacklogInv
  BY DEF Init, BacklogInv, DrainInv, FramesMatchPoll, BacklogIsScheduled, Disabled, None

LEMMA QueueKeeps ==
    ASSUME NapiInv, BacklogInv, NEW c \in Cpus, QueueFrame(c)
    PROVE  BacklogInv'
  <1>1. /\ rx[c] # None /\ rx[c] = poll[c] /\ rx[c] \in Paths /\ ~Disabled(c)
        /\ loader \in {"idle", "drain"} /\ queue[c] \in Seq(Paths)
    BY DEF NapiInv, TypeOK, QueueFrame, BacklogInv, DrainInv, Disabled
  <1>2. UNCHANGED <<disabling, poll, polling, dma, stop, loadVars>> /\ rx' = [rx EXCEPT ![c] = None]
    BY DEF QueueFrame
  <1>3. \A d \in Cpus : d # c => queue'[d] = queue[d] /\ sched'[d] = sched[d] /\ listed'[d] = listed[d]
    BY DEF QueueFrame, NapiInv, TypeOK
  <1>4. DrainInv'
    BY <1>1, <1>2, <1>3 DEF BacklogInv, DrainInv, Disabled, loadVars, NapiInv, TypeOK
  <1>5. CASE Len(queue[c]) <= QueueLimit
    <2>1. queue'[c] = Append(queue[c], rx[c])
      BY <1>5 DEF QueueFrame, NapiInv, TypeOK
    <2>2. FramesMatchPoll'
      BY <1>1, <1>2, <1>3, <2>1 DEF BacklogInv, FramesMatchPoll, Disabled
    <2>3. /\ sched'[c] = (sched[c] \/ Wakes(c)) /\ listed'[c] = (listed[c] \/ Wakes(c))
          /\ disabling'[c] = disabling[c] /\ (sched[c] <=> listed[c])
      BY <1>1, <1>5 DEF QueueFrame, NapiInv, OwnerInv, TypeOK
    <2>4. disabling'[c] \/ (sched'[c] /\ listed'[c])
      BY <1>1, <2>3 DEF Wakes, Schedules, BacklogInv, BacklogIsScheduled
    <2>5. BacklogIsScheduled'
      BY <1>2, <1>3, <2>4 DEF BacklogInv, BacklogIsScheduled, Disabled
    <2> QED BY <1>4, <2>2, <2>5 DEF BacklogInv
  <1>6. CASE ~(Len(queue[c]) <= QueueLimit)
    <2>1. UNCHANGED <<queue, sched, listed>>
      BY <1>6 DEF QueueFrame
    <2> QED BY <1>2, <1>4, <2>1 DEF BacklogInv, FramesMatchPoll, BacklogIsScheduled, Disabled
  <1> QED BY <1>5, <1>6

LEMMA PollKeeps ==
    ASSUME NapiInv, BacklogInv, NEW c \in Cpus, RxSoftirq(c)
    PROVE  BacklogInv'
  <1>1. UNCHANGED <<disabling, poll, rx, dma, stop, loadVars>>
    BY DEF RxSoftirq, StartPoll, PollFrame, PollEmpty, napiVars
  <1>2. CASE StartPoll(c)
    BY <1>1, <1>2 DEF StartPoll, BacklogInv, DrainInv, FramesMatchPoll, BacklogIsScheduled, Disabled,
       napiVars, loadVars
  <1>3. CASE PollFrame(c) \/ PollEmpty(c)
    <2>1. ~Disabled(c) /\ queue[c] \in Seq(Paths)
      BY <1>3 DEF PollFrame, PollEmpty, NapiInv, OwnerInv, TypeOK
    <2>2. \A d \in Cpus : d # c => queue'[d] = queue[d] /\ sched'[d] = sched[d] /\ listed'[d] = listed[d]
      BY <1>3 DEF PollFrame, PollEmpty, ReturnEarly, UseUpQuota, Complete, NapiInv, TypeOK
    <2>3. DrainInv'
      BY <1>1, <2>1, <2>2 DEF BacklogInv, DrainInv, Disabled, loadVars
    <2>4. queue'[c] = queue[c] \/ (queue[c] # <<>> /\ queue'[c] = Tail(queue[c]))
      BY <1>3 DEF PollFrame, PollEmpty, NapiInv, TypeOK
    <2>5. \A i \in DOMAIN queue'[c] : queue'[c][i] = poll[c]
      <3>1. \A i \in DOMAIN queue[c] : queue[c][i] = poll[c]
        BY <2>1 DEF BacklogInv, FramesMatchPoll
      <3>2. CASE queue[c] # <<>> /\ queue'[c] = Tail(queue[c])
        <4>1. queue'[c] \in Seq(Paths) /\ Len(queue'[c]) = Len(queue[c]) - 1
          BY <2>1, <3>2
        <4>2. \A i \in 1..Len(queue'[c]) : queue'[c][i] = queue[c][i + 1] /\ i + 1 \in 1..Len(queue[c])
          BY <2>1, <3>2, <4>1
        <4> QED BY <2>1, <3>1, <4>1, <4>2
      <3> QED BY <2>4, <3>1, <3>2
    <2>6. FramesMatchPoll'
      BY <1>1, <2>2, <2>5 DEF BacklogInv, FramesMatchPoll, Disabled
    <2>7. queue'[c] # <<>> => disabling'[c] \/ (sched'[c] /\ listed'[c])
      <3>1. CASE PollEmpty(c)
        BY <3>1 DEF PollEmpty
      <3>2. CASE PollFrame(c)
        <4>1. disabling[c] \/ (sched[c] /\ listed[c])
          BY <2>1, <3>2 DEF PollFrame, BacklogInv, BacklogIsScheduled
        <4>2. disabling[c] \/ UNCHANGED <<sched, listed>>
          BY <3>2 DEF PollFrame, ReturnEarly, UseUpQuota
        <4> QED BY <1>1, <4>1, <4>2
      <3> QED BY <1>3, <3>1, <3>2
    <2>8. BacklogIsScheduled'
      BY <1>1, <2>2, <2>7 DEF BacklogInv, BacklogIsScheduled, Disabled
    <2> QED BY <2>3, <2>6, <2>8 DEF BacklogInv
  <1> QED BY <1>2, <1>3 DEF RxSoftirq

(* One CPU's NAPI is enabled again, with nothing in its backlog.           *)
LEMMA EnableKeeps ==
    ASSUME NapiInv, BacklogInv, NapiEnable
    PROVE  BacklogInv'
  <1>1. /\ cpu \in Cpus /\ Target \in Paths /\ Target # None
        /\ stop /\ \A c \in Cpus : rx[c] = None
    BY DEF NapiInv, TypeOK, Target, Paths, None, NapiEnable, BacklogInv, DrainInv
  <1>2. Disabled(cpu) /\ queue[cpu] = <<>>
    BY <1>1 DEF NapiInv, LoopInv, NapiEnable, BacklogInv, DrainInv, Cpus
  <1>3. /\ UNCHANGED <<disabling, listed, polling, rx, dma, stop>>
        /\ \A c \in Cpus : c # cpu => poll'[c] = poll[c] /\ sched'[c] = sched[c] /\ queue'[c] = queue[c]
        /\ poll'[cpu] = Target /\ queue'[cpu] = <<>>
    BY <1>1, <1>2 DEF NapiEnable, NapiInv, TypeOK
  <1>4. loader = "enable" /\ loader' \in {"enable", "resume"}
    BY DEF NapiEnable, NextCpu, Goto
  <1> QED BY <1>1, <1>3, <1>4 DEF BacklogInv, DrainInv, FramesMatchPoll, BacklogIsScheduled, Disabled

LEMMA BacklogStep ==
    ASSUME DelayDrains
    PROVE  NapiInv /\ BacklogInv /\ [Next]_vars => BacklogInv'
  <1> SUFFICES ASSUME NapiInv, BacklogInv, [Next]_vars PROVE BacklogInv'
    OBVIOUS
  <1> USE DEF napiVars, loadVars
  <1>1. ASSUME NEW c \in Cpus, Receive(c) PROVE BacklogInv'
    <2>1. ~stop /\ rx' = [rx EXCEPT ![c] = dma] /\ loader = "idle" /\ poll[c] = dma
      BY <1>1 DEF Receive, BacklogInv, DrainInv
    <2> QED BY <1>1, <2>1 DEF Receive, BacklogInv, DrainInv, FramesMatchPoll, BacklogIsScheduled,
               Disabled, NapiInv, TypeOK
  <1>2. ASSUME NEW c \in Cpus, QueueFrame(c) \/ RxSoftirq(c) PROVE BacklogInv'
    BY <1>2, QueueKeeps, PollKeeps
  <1>3. CASE Begin \/ Drain \/ NapiDisable
    BY <1>3 DEF Begin, Drain, NapiDisable, Goto, BacklogInv, DrainInv, FramesMatchPoll,
       BacklogIsScheduled, Disabled, NapiInv, TypeOK
  <1>4. CASE NapiDisabled
    <2>1. /\ cpu \in Cpus /\ loader' = "flush" /\ cpu' = cpu /\ stop' = stop /\ stop
          /\ UNCHANGED <<queue, listed, rx, dma>> /\ \A c \in Cpus : rx[c] = None
          /\ poll' = [poll EXCEPT ![cpu] = None]
      BY <1>4 DEF NapiDisabled, Goto, NapiInv, TypeOK, BacklogInv, DrainInv
    <2>2. \A c \in Cpus : c # cpu => /\ poll'[c] = poll[c] /\ sched'[c] = sched[c]
                                    /\ disabling'[c] = disabling[c]
      BY <1>4 DEF NapiDisabled, NapiInv, TypeOK
    <2>3. poll'[cpu] = None
      BY <2>1 DEF NapiInv, TypeOK
    <2> QED BY <1>4, <2>1, <2>2, <2>3 DEF NapiDisabled, BacklogInv, DrainInv, FramesMatchPoll,
               BacklogIsScheduled, Disabled
  <1>5. CASE Flush
    <2>1. /\ UNCHANGED <<sched, disabling, listed, poll, rx, dma, stop>> /\ loader = "flush"
          /\ loader' \in {"disable", "dma"} /\ cpu \in Cpus
          /\ queue' = [queue EXCEPT ![cpu] = <<>>]
      BY <1>5 DEF Flush, NextCpu, Goto, NapiInv, TypeOK
    <2>2. queue'[cpu] = <<>> /\ \A c \in Cpus : c # cpu => queue'[c] = queue[c]
      BY <2>1 DEF NapiInv, TypeOK
    <2> QED BY <2>1, <2>2 DEF BacklogInv, DrainInv, FramesMatchPoll, BacklogIsScheduled, Disabled
  <1>6. CASE StopDma \/ SetUp \/ LoadFails
    BY <1>6 DEF StopDma, SetUp, LoadFails, Goto, BacklogInv, DrainInv, FramesMatchPoll,
       BacklogIsScheduled, Disabled
  <1>7. CASE NapiEnable
    BY <1>7, EnableKeeps
  <1>8. CASE Resume
    <2>1. \A c \in Cpus : poll[c] = Target /\ Target # None
      BY <1>8 DEF Resume, NapiInv, LoopInv, Target, None
    <2> QED BY <1>8, <2>1 DEF Resume, BacklogInv, DrainInv, FramesMatchPoll, BacklogIsScheduled, Disabled
  <1>9. CASE UNCHANGED vars
    BY <1>9 DEF vars, BacklogInv, DrainInv, FramesMatchPoll, BacklogIsScheduled, Disabled
  <1> QED BY <1>1, <1>2, <1>3, <1>4, <1>5, <1>6, <1>7, <1>8, <1>9 DEF Next, Loading

(* No backlog is stranded: a frame that waits has its poll coming, on      *)
(* every CPU, through any number of loads and unloads, failed ones         *)
(* included (7port_common.c:802-812, vr9_e5.c:6371-6388, 6578-6590,        *)
(* 6709-6722).                                                             *)
THEOREM NoBacklogIsStranded ==
    ASSUME DelayDrains
    PROVE  Spec => []BacklogIsScheduled
  <1>1. BacklogInv => BacklogIsScheduled
    BY DEF BacklogInv
  <1>2. NapiInv /\ BacklogInv /\ [Next]_vars => BacklogInv'
    BY BacklogStep
  <1> QED BY <1>1, <1>2, NapiInit, NapiStep, BacklogInit, PTL DEF Spec

(* No frame is handled by the datapath whose DMA device did not deliver it *)
(* (vr9_e5.c:6371-6388, 6709-6722).                                        *)
THEOREM FramesGoToTheirDatapath ==
    ASSUME DelayDrains
    PROVE  Spec => []FramesMatchPoll
  <1>1. BacklogInv => FramesMatchPoll
    BY DEF BacklogInv
  <1>2. NapiInv /\ BacklogInv /\ [Next]_vars => BacklogInv'
    BY BacklogStep
  <1> QED BY <1>1, <1>2, NapiInit, NapiStep, BacklogInit, PTL DEF Spec
=============================================================================
