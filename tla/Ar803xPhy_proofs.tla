-------------------------- MODULE Ar803xPhy_proofs --------------------------
(***************************************************************************)
(* Proofs about Ar803xPhy, for every set of flags, of speeds, and all      *)
(* times and limits: the types, confirmed losses and limited resets; and,  *)
(* when a device is not stopped while its PHY has failed, that suspends of *)
(* the parent are balanced.                                                *)
(***************************************************************************)
EXTENDS Ar803xPhy, TLAPS

(* A resume finds a suspend to take back.                                  *)
FailedIsHeld == Has("RST") /\ state = "failed" => held > 0

TypeInv == TypeOK /\ FailedIsHeld

(***************************************************************************)
(* What check_linkfail computes has the right type.                        *)
(***************************************************************************)
LEMMA SeenType ==
    ASSUME TypeOK
    PROVE  /\ Seen \in Status /\ LastSeen \in Status /\ NewStatus \in Status
           /\ CountNow \in Nat /\ CountNext \in Nat /\ LostAgeNow \in Nat /\ JabberAgeNow \in Nat
           /\ NewState \in {"down", "up", "lost", "failed", "pwrdown"}
  <1>1. CountNow \in Nat /\ CountNext \in Nat
    BY TimesAssumption DEF TypeOK, CountNow, CountNext
  <1>2. LostAgeNow \in Nat /\ JabberAgeNow \in Nat
    BY DEF TypeOK, LostAgeNow, JabberAgeNow
  <1>3. 0 \in Speeds
    BY SpeedsAssumption
  <1>4. Seen \in Status
    BY <1>3 DEF TypeOK, Seen, Status
  <1>5. LastSeen \in Status
    BY <1>3 DEF TypeOK, LastSeen, Status, NoLink
  <1>6. NewStatus \in Status
    BY <1>4, <1>5 DEF NewStatus, Status
  <1>7. NewState \in {"down", "up", "lost", "failed", "pwrdown"}
    BY DEF TypeOK, NewState, StateLost, StateUp, StateJabbered, StatePowered, StateRestarted
  <1> QED BY <1>1, <1>2, <1>4, <1>5, <1>6, <1>7

(* A look at the registers, by the worker or a user.                       *)
LEMMA TypeLook ==
    ASSUME TypeInv, GetStatus
    PROVE  /\ FailedIsHeld'
           /\ held' \in Nat /\ lastStatus' \in Status /\ resets' \in [0..ThrashTime - 1 -> Nat]
           /\ {lostAge', jabberAge', thrashAge', thrashCount', sinceUp'} \subseteq Nat
           /\ state' \in {"down", "up", "lost", "failed", "pwrdown"}
  <1> USE SeenType DEF TypeInv, GetStatus
  <1>1. CASE Supervised
    <2>1. /\ lastStatus' \in Status
          /\ {lostAge', jabberAge', thrashAge', thrashCount'} \subseteq Nat
          /\ state' \in {"down", "up", "lost", "failed", "pwrdown"}
      BY <1>1 DEF CheckLinkfail, TypeOK
    <2>2. held' \in Nat /\ FailedIsHeld'
      BY <1>1 DEF CheckLinkfail, TypeOK, FailedIsHeld, Has, Restarts, Suspends
    <2>3. resets' \in [0..ThrashTime - 1 -> Nat]
      <3>1. \A age \in 0..ThrashTime - 1 : resets[age] + (IF SetsUp THEN 1 ELSE 0) \in Nat
        BY DEF TypeOK
      <3> QED BY <1>1, <3>1 DEF CheckLinkfail
    <2> QED BY <2>1, <2>2, <2>3 DEF TypeOK
  <1>2. CASE ~Supervised
    BY <1>2 DEF TypeOK, machine, FailedIsHeld, Has
  <1> QED BY <1>1, <1>2

(***************************************************************************)
(* Types.                                                                  *)
(***************************************************************************)
LEMMA TypeInit == Init => TypeInv
  <1> SUFFICES ASSUME Init PROVE TypeInv
    OBVIOUS
  <1>1. LinkfTime \in Nat /\ 0 \in Speeds
    BY TimesAssumption, SpeedsAssumption
  <1>2. {partner, line, jabber, latch, ints, pwrBit, powerdown, lockedUp} \subseteq BOOLEAN
    BY DEF Init
  <1>3. lastStatus \in Status /\ FailedIsHeld
    BY <1>1 DEF Init, NoLink, Status, FailedIsHeld
  <1>4. resets \in [0..ThrashTime - 1 -> Nat]
    BY DEF Init
  <1> QED BY <1>1, <1>2, <1>3, <1>4 DEF Init, TypeInv, TypeOK

LEMMA TypeTick == TypeInv /\ Tick => TypeInv'
  <1> SUFFICES ASSUME TypeInv, Tick PROVE TypeInv'
    OBVIOUS
  <1>1. LossDelay \in Nat /\ {LinkfTime, JabberTime, ThrashTime} \subseteq Nat
    BY TimesAssumption DEF LossDelay
  <1>2. {lostAge', jabberAge', thrashAge', sinceUp'} \subseteq Nat
    <2>1. ASSUME NEW age \in Nat, NEW limit \in Nat PROVE Older(age, limit) \in Nat
      BY <2>1 DEF Older
    <2>2. lostAge \in Nat /\ jabberAge \in Nat /\ thrashAge \in Nat /\ sinceUp \in Nat
      BY DEF TypeInv, TypeOK
    <2>3. lostAge' \in Nat /\ jabberAge' \in Nat
      BY <1>1, <2>1, <2>2 DEF Tick
    <2>4. thrashAge' \in Nat /\ sinceUp' \in Nat
      BY <1>1, <2>1, <2>2 DEF Tick
    <2> QED BY <2>3, <2>4
  <1>3. resets' \in [0..ThrashTime - 1 -> Nat]
    <2>1. \A age \in 0..ThrashTime - 1 : age # 0 => age - 1 \in 0..ThrashTime - 1
      BY <1>1
    <2>2. \A age \in 0..ThrashTime - 1 : (IF age = 0 THEN 0 ELSE resets[age - 1]) \in Nat
      BY <2>1 DEF TypeInv, TypeOK
    <2> QED BY <2>2 DEF Tick
  <1>4. FailedIsHeld'
    BY DEF Tick, TypeInv, FailedIsHeld, Has
  <1> QED BY <1>2, <1>3, <1>4 DEF Tick, TypeInv, TypeOK, lineVars, powerVars

LEMMA TypeStep == TypeInv /\ [Next]_vars => TypeInv'
  <1> SUFFICES ASSUME TypeInv, [Next]_vars PROVE TypeInv'
    OBVIOUS
  <1>1. LinkfTime \in Nat /\ 0 \in Speeds
    BY TimesAssumption, SpeedsAssumption
  <1> USE DEF TypeInv, TypeOK, FailedIsHeld, Has, lineVars, powerVars, machine, historyVars
  <1>2. CASE Line
    BY <1>1, <1>2 DEF Line, Unplug, Plug, LinkUp, LinkFlap, Jabber
  <1>3. CASE Tick
    BY <1>3, TypeTick
  <1>4. CASE LinkIntr
    BY <1>4 DEF LinkIntr
  <1>5. CASE WorkerCheck \/ (WorkerLook /\ LocksUp)
    <2>1. CASE WorkerCheck
      BY <2>1 DEF WorkerCheck
    <2>2. CASE WorkerLook /\ LocksUp
      BY <2>2 DEF LocksUp
    <2> QED BY <1>5, <2>1, <2>2
  <1>6. CASE (WorkerLook /\ Reads) \/ UserLook
    <2>1. GetStatus /\ told' \in 0..1 /\ wpc' \in {"idle", "look"}
      BY <1>6, SeenType DEF Reads, UserLook, Status
    <2>2. {partner', line', jabber', latch', ints', pwrBit', powerdown', lockedUp'} \subseteq BOOLEAN
      BY <2>1 DEF GetStatus
    <2>3. flags' \in FlagSets /\ speed' \in Speeds /\ irqDisabled' \in 0..1
      BY <1>1, <2>1 DEF GetStatus
    <2> QED BY <2>1, <2>2, <2>3, TypeLook
  <1>7. CASE SetSettings \/ DumpStatus \/ DumpIntStatus
    BY <1>1, <1>7 DEF SetSettings, DumpStatus, DumpIntStatus
  <1>8. CASE PowerDown \/ PowerUp
    <2>1. CASE PowerDown
      BY <1>1, <2>1 DEF PowerDown
    <2>2. CASE PowerUp
      <3>1. {partner', line', jabber', latch', ints', pwrBit', powerdown', lockedUp'} \subseteq BOOLEAN
        BY <2>2 DEF PowerUp
      <3>2. {lostAge', jabberAge', thrashAge', thrashCount', held', sinceUp'} \subseteq Nat
        BY <1>1, <2>2 DEF PowerUp
      <3> QED BY <1>1, <2>2, <3>1, <3>2 DEF PowerUp
    <2> QED BY <1>8, <2>1, <2>2
  <1>9. CASE UNCHANGED vars
    BY <1>9 DEF vars
  <1> QED BY <1>2, <1>3, <1>4, <1>5, <1>6, <1>7, <1>8, <1>9 DEF Next, Worker, WorkerLook, User

(* Every variable keeps its type, whenever devices are stopped; above all, *)
(* the PHY never takes back a suspend it did not make.                     *)
THEOREM PhyTypeCorrect == Spec => []TypeOK
  <1>1. TypeInv => TypeOK
    BY DEF TypeInv
  <1> QED BY <1>1, TypeInit, TypeStep, PTL DEF Spec

(***************************************************************************)
(* A device that is not stopped while its PHY has failed.                  *)
(***************************************************************************)
(* While the device is stopped its PHY has not failed, and a look that     *)
(* began before finds it without power.                                    *)
StoppedIsQuiet ==
    powerdown => state # "failed" /\ (wpc = "look" => pwrBit)

PhyInv == TypeInv /\ SuspendedWhileFailed /\ NoSelfDeadlock /\ StoppedIsQuiet

(* A PHY without power that has not failed does not fail.                  *)
LEMMA NoPowerNoFailure ==
    ASSUME state # "failed", pwrBit
    PROVE  NewState # "failed" /\ ~SetsUp
  <1>1. ~SetsUp /\ ~PoweredUp /\ Seen.link = 0
    BY DEF SetsUp, Restarts, PoweredUp, Seen
  <1>2. StateLost = "pwrdown" /\ ~SpeedDropped
    BY <1>1 DEF StateLost, StateUp, StateJabbered, Jabbering, StatePowered, SpeedDropped
  <1> QED BY <1>1, <1>2 DEF NewState

(* A look keeps suspends in step with LINK_FAILED: it resumes for the      *)
(* failure it found and suspends for the one it leaves behind.             *)
LEMMA LookBalances ==
    ASSUME TypeInv, SuspendedWhileFailed, GetStatus
    PROVE  SuspendedWhileFailed'
  <1> USE DEF SuspendedWhileFailed, GetStatus, Has
  <1>1. CASE Supervised
    BY <1>1 DEF CheckLinkfail, Restarts, Suspends, TypeInv, TypeOK
  <1>2. CASE ~Supervised
    BY <1>2 DEF machine
  <1> QED BY <1>1, <1>2

LEMMA PhyStep ==
    ASSUME ~StopRaces, PhyInv, [Next]_vars
    PROVE  PhyInv'
  <1>1. TypeInv'
    BY TypeStep DEF PhyInv
  <1> USE DEF PhyInv, SuspendedWhileFailed, NoSelfDeadlock, StoppedIsQuiet, Has, machine, lineVars,
              powerVars
  <1>2. CASE Line \/ LinkIntr \/ Tick
    BY <1>1, <1>2 DEF Line, Unplug, Plug, LinkUp, LinkFlap, Jabber, LinkIntr, Tick
  <1>3. CASE WorkerCheck
    BY <1>1, <1>3 DEF WorkerCheck
  <1>4. CASE WorkerLook /\ Reads
    <2>0. wpc = "look" /\ ~lockedUp
      BY <1>4 DEF WorkerLook
    <2>1. SuspendedWhileFailed'
      BY <1>4, LookBalances DEF Reads
    <2>2. powerdown' => state' # "failed"
      <3>1. CASE Supervised /\ powerdown
        BY <1>4, <2>0, <3>1, NoPowerNoFailure DEF Reads, GetStatus, CheckLinkfail
      <3>2. CASE ~Supervised /\ powerdown
        BY <1>4, <3>2 DEF Reads, GetStatus
      <3>3. CASE ~powerdown
        BY <1>4, <3>3 DEF Reads, GetStatus
      <3> QED BY <3>1, <3>2, <3>3
    <2>3. ~lockedUp' /\ wpc' = "idle"
      BY <1>4, <2>0 DEF Reads, GetStatus
    <2> QED BY <1>1, <2>1, <2>2, <2>3
  <1>5. CASE WorkerLook /\ LocksUp /\ SetsUp /\ powerdown
    BY <1>5 DEF SetsUp, Restarts
  <1>6. CASE UserLook
    <2>1. SuspendedWhileFailed'
      BY <1>6, LookBalances DEF UserLook
    <2>2. ~powerdown' /\ ~lockedUp'
      BY <1>6 DEF UserLook, GetStatus
    <2> QED BY <1>1, <2>1, <2>2
  <1>7. CASE SetSettings \/ DumpStatus \/ DumpIntStatus
    BY <1>1, <1>7 DEF SetSettings, DumpStatus, DumpIntStatus
  <1>8. CASE PowerDown
    BY <1>1, <1>8 DEF PowerDown
  <1>9. CASE PowerUp
    BY <1>1, <1>9 DEF PowerUp
  <1>10. CASE UNCHANGED vars
    BY <1>1, <1>10 DEF vars
  <1> QED BY <1>2, <1>3, <1>4, <1>5, <1>6, <1>7, <1>8, <1>9, <1>10 DEF Next, Worker, WorkerLook, User

LEMMA PhyInvariance ==
    ASSUME ~StopRaces
    PROVE  Spec => []PhyInv
  <1>1. Init => PhyInv
    BY TypeInit DEF Init, PhyInv, SuspendedWhileFailed, NoSelfDeadlock, StoppedIsQuiet
  <1>2. PhyInv /\ [Next]_vars => PhyInv'
    BY PhyStep
  <1> QED BY <1>1, <1>2, PTL DEF Spec

(* The parent of a broken PHY is asked to suspend when the PHY fails and   *)
(* to resume when it leaves LINK_FAILED, once each, and is asked for       *)
(* nothing else (avmnet_ar803x.c:210-234, 334-337, 1134-1143).             *)
THEOREM SuspendsMatchFailures ==
    ASSUME ~StopRaces
    PROVE  Spec => ImplementsClient
  <1> DEFINE hasFailed == Has("RST") /\ state = "failed"
  <1>1. PhyInv => SuspendedWhileFailed
    BY DEF PhyInv
  <1>2. Init => Client!Init
    BY DEF Init, Client!Init
  <1>3. SuspendedWhileFailed /\ SuspendedWhileFailed' => [Client!Next]_(Client!phyClientVars)
    <2> SUFFICES ASSUME SuspendedWhileFailed, SuspendedWhileFailed'
                 PROVE  [Client!Next]_(Client!phyClientVars)
      OBVIOUS
    <2>1. held = (IF hasFailed THEN 1 ELSE 0) /\ held' = (IF hasFailed' THEN 1 ELSE 0)
      BY DEF SuspendedWhileFailed
    <2>2. CASE hasFailed' = hasFailed
      BY <2>1, <2>2 DEF Client!phyClientVars
    <2>3. CASE ~hasFailed /\ hasFailed'
      BY <2>1, <2>3 DEF Client!Next, Client!Fails
    <2>4. CASE hasFailed /\ ~hasFailed'
      BY <2>1, <2>4 DEF Client!Next, Client!Recovers
    <2> QED BY <2>2, <2>3, <2>4
  <1> QED BY <1>1, <1>2, <1>3, PhyInvariance, PTL DEF Spec, ImplementsClient, Client!Spec

(***************************************************************************)
(* A PHY whose losses are kept back.                                       *)
(***************************************************************************)
Filtered == Has("TIME") /\ ~Has("RST") /\ ~powerdown

(* In every state the machine knows how long ago the link was last found:  *)
(* just so in LINK_LOST, and long enough where it has given the link up.   *)
LossInv ==
    /\ ~powerdown => ~pwrBit
    /\ Filtered =>
          /\ state # "pwrdown"
          /\ state \in {"up", "lost"} => lastStatus.link = 1
          /\ IF state = "lost" THEN sinceUp >= lostAge ELSE lostAge = 0
          /\ state \in {"down", "failed"} => sinceUp >= LinkfTime

(* What a look at such a PHY can make of its state.                        *)
LEMMA FilteredLook ==
    ASSUME TypeInv, LossInv, Filtered
    PROVE  /\ ~SetsUp /\ LastSeen = lastStatus /\ Supervised
           /\ Seen.link = 1 => NewState = "up"
           /\ Seen.link = 0 => \/ NewState = "down" /\ state \in {"down", "failed"}
                               \/ NewState = "lost" /\ state = "up" /\ LostAgeNow = 0
                               \/ NewState = "lost" /\ state = "lost" /\ LostAgeNow < LinkfTime
                               \/ NewState = "failed" /\ state = "lost" /\ LostAgeNow >= LinkfTime
  <1>1. ~SetsUp /\ LastSeen = lastStatus /\ Supervised /\ PoweredUp
    BY DEF Filtered, LossInv, SetsUp, LastSeen, Supervised, PoweredUp
  <1>2. LossDelay = LinkfTime /\ LinkfTime > 0 /\ LostAgeNow \in Nat /\ LinkfTime \in Nat
    BY SeenType, TimesAssumption DEF Filtered, LossDelay, TypeInv
  <1>3. state \in {"down", "up", "lost", "failed"} /\ Seen.link \in 0..1
    BY SeenType DEF TypeInv, TypeOK, LossInv, Status
  <1>4. StateJabbered = (IF state = "failed" THEN "down" ELSE state) /\ ~SpeedDropped
    BY <1>1 DEF Filtered, StateJabbered, Jabbering, StatePowered, StateRestarted, Restarts, SpeedDropped
  <1>5. CASE Seen.link = 1
    BY <1>1, <1>3, <1>4, <1>5 DEF NewState, StateLost, StateUp
  <1>6. CASE Seen.link = 0
    <2>1. StateLost = (IF state = "failed" THEN "down" ELSE IF state = "up" THEN "lost" ELSE state)
      BY <1>3, <1>4, <1>6 DEF StateLost, StateUp, LinkLost
    <2>2. state # "lost" => LostAgeNow = 0
      BY DEF LostAgeNow
    <2> QED BY <1>1, <1>2, <1>3, <1>4, <1>6, <2>1, <2>2 DEF NewState
  <1> QED BY <1>1, <1>3, <1>5, <1>6

LEMMA LossLook ==
    ASSUME TypeInv, LossInv, GetStatus
    PROVE  LossInv'
  <1>1. UNCHANGED <<powerdown, pwrBit>> /\ Filtered' = Filtered
    BY DEF GetStatus, powerVars, Filtered, Has
  <1>2. CASE Filtered
    <2>1. CheckLinkfail /\ sinceUp' = (IF Seen.link = 1 THEN 0 ELSE sinceUp)
      BY <1>2, FilteredLook DEF GetStatus
    <2>2. Seen.link \in 0..1 /\ sinceUp \in Nat /\ lostAge \in Nat /\ LinkfTime \in Nat
      BY SeenType, TimesAssumption DEF TypeInv, TypeOK, Status
    <2>3. CASE Seen.link = 1
      <3>1. NewStatus = Seen
        BY <1>2, <2>3, FilteredLook DEF NewStatus
      <3> QED BY <1>1, <1>2, <2>1, <2>3, <3>1, FilteredLook DEF CheckLinkfail, LossInv
    <2>4. CASE Seen.link = 0
      <3>1. /\ state' = NewState /\ sinceUp' = sinceUp
            /\ NewState \in {"down", "lost"} => lastStatus' = lastStatus
            /\ lostAge' = IF NewState = "lost" THEN LostAgeNow ELSE 0
        BY <1>2, <2>1, <2>4, FilteredLook DEF CheckLinkfail
      <3>2. state = "lost" => LostAgeNow = lostAge
        BY DEF LostAgeNow
      <3>3. CASE NewState = "down"
        BY <1>1, <1>2, <2>4, <3>1, <3>3, FilteredLook DEF LossInv
      <3>4. CASE NewState = "lost"
        BY <1>1, <1>2, <2>2, <2>4, <3>1, <3>2, <3>4, FilteredLook DEF LossInv
      <3>5. CASE NewState = "failed"
        BY <1>1, <1>2, <2>2, <2>4, <3>1, <3>2, <3>5, FilteredLook DEF LossInv
      <3> QED BY <1>2, <2>4, <3>3, <3>4, <3>5, FilteredLook
    <2> QED BY <2>2, <2>3, <2>4
  <1>3. CASE ~Filtered
    BY <1>1, <1>3 DEF LossInv
  <1> QED BY <1>2, <1>3

LEMMA LossStep == TypeInv /\ LossInv /\ [Next]_vars => LossInv'
  <1> SUFFICES ASSUME TypeInv, LossInv, [Next]_vars PROVE LossInv'
    OBVIOUS
  <1>1. LinkfTime \in Nat /\ sinceUp \in Nat /\ lostAge \in Nat /\ LinkfTime > 0
    BY TimesAssumption DEF TypeInv, TypeOK
  <1> USE DEF LossInv, Filtered, Has, machine, powerVars, historyVars
  <1>2. CASE Line \/ LinkIntr \/ WorkerCheck
    BY <1>2 DEF Line, Unplug, Plug, LinkUp, LinkFlap, Jabber, LinkIntr, WorkerCheck
  <1>3. CASE Tick
    <2>1. CASE Filtered
      <3>1. LossDelay = LinkfTime
        BY <2>1 DEF LossDelay
      <3> QED BY <1>1, <1>3, <2>1, <3>1 DEF Tick, Older
    <2>2. CASE ~Filtered
      BY <1>3, <2>2 DEF Tick
    <2> QED BY <2>1, <2>2
  <1>4. CASE (WorkerLook /\ Reads) \/ UserLook
    BY <1>4, LossLook DEF Reads, UserLook
  <1>5. CASE LocksUp /\ powerdown
    BY <1>5 DEF LocksUp
  <1>6. CASE SetSettings \/ DumpIntStatus
    BY <1>6 DEF SetSettings, DumpIntStatus
  <1>7. CASE DumpStatus
    BY <1>1, <1>7 DEF DumpStatus
  <1>8. CASE PowerDown \/ PowerUp
    BY <1>1, <1>8 DEF PowerDown, PowerUp
  <1>9. CASE UNCHANGED vars
    BY <1>9 DEF vars
  <1> QED BY <1>2, <1>3, <1>4, <1>5, <1>6, <1>7, <1>8, <1>9 DEF Next, Worker, WorkerLook, User

(* A loss is reported only when no look has found the link for as long as  *)
(* the board configuration asks, whoever else looks at the PHY or dumps    *)
(* its registers meanwhile (avmnet_ar803x.c:272-314, 1755-1763).           *)
THEOREM LossesAreConfirmed == Spec => LossIsConfirmed
  <1>1. Init => LossInv
    BY DEF Init, LossInv, Filtered
  <1>2. TypeInv /\ LossInv /\ [Next]_vars => [ConfirmedLoss]_vars
    <2> SUFFICES ASSUME TypeInv, LossInv, Next, told = 1, told' = 0, Filtered
                 PROVE  sinceUp >= LinkfTime
      BY DEF ConfirmedLoss, Filtered
    <2>1. Reads
      BY DEF Next, Line, Unplug, Plug, LinkUp, LinkFlap, Jabber, Tick, LinkIntr, Worker, WorkerCheck,
         WorkerLook, LocksUp, User, UserLook, SetSettings, DumpStatus, DumpIntStatus, PowerDown, PowerUp,
         Filtered
    <2>2. NewStatus.link = 0
      BY <2>1, FilteredLook DEF Reads
    <2>3. Seen.link = 0 /\ sinceUp \in Nat /\ lostAge \in Nat /\ LinkfTime \in Nat
      <3>1. Seen.link \in 0..1
        BY SeenType DEF TypeInv, Status
      <3>2. Seen.link = 1 => NewStatus = Seen
        BY FilteredLook DEF NewStatus
      <3> QED BY <2>2, <3>1, <3>2, TimesAssumption DEF TypeInv, TypeOK
    <2>4. state = "lost" => LostAgeNow = lostAge
      BY DEF LostAgeNow
    <2>5. CASE NewState = "lost"
      BY <2>2, <2>3, <2>5, FilteredLook, TimesAssumption DEF NewStatus, LossInv
    <2>6. CASE NewState # "lost"
      BY <2>3, <2>4, <2>6, FilteredLook DEF LossInv
    <2> QED BY <2>5, <2>6
  <1>3. TypeInv /\ LossInv /\ [Next]_vars => LossInv'
    BY LossStep
  <1> QED BY <1>1, <1>2, <1>3, TypeInit, TypeStep, PTL DEF Spec, LossIsConfirmed

(***************************************************************************)
(* A PHY that fails all the time.                                          *)
(***************************************************************************)
(* The resets the running count may have let through: one for every        *)
(* failure counted that has been dealt with, none for the last of all.     *)
Allowed ==
    IF thrashCount >= ThrashLimit THEN ThrashLimit - 1
    ELSE thrashCount - (IF state = "failed" THEN 1 ELSE 0)

(* Resets younger than the count were let through by it; any stretch holds *)
(* besides them at most those of the count before, and the one between.    *)
ThrashInv ==
    /\ thrashCount <= ThrashLimit
    /\ state = "failed" => thrashCount > 0
    /\ \A age \in 0..ThrashTime - 1 : resets[age] <= ThrashLimit + Allowed
    /\ thrashCount > 0 =>
          \A age \in 0..ThrashTime - 1 : age < thrashAge => resets[age] <= Allowed

LEMMA AllowedRange ==
    ASSUME TypeInv, ThrashInv
    PROVE  Allowed \in 0..ThrashLimit - 1
  BY TimesAssumption DEF TypeInv, TypeOK, ThrashInv, Allowed

(* A PHY that has just been reset does not fail in the same look.          *)
LEMMA ResetDoesNotFail ==
    ASSUME SetsUp
    PROVE  NewState # "failed"
  <1>1. Seen.link = 0 /\ Restarts
    BY DEF SetsUp, Seen
  <1> QED BY <1>1 DEF NewState, StateLost, StateUp, StateJabbered, Jabbering, StatePowered,
                      StateRestarted, SpeedDropped

LEMMA ThrashLook ==
    ASSUME TypeInv, ThrashInv, GetStatus
    PROVE  ThrashInv'
  <1> DEFINE One == IF SetsUp THEN 1 ELSE 0
             Ages == 0..ThrashTime - 1
  <1>1. CASE Supervised
    <2>1. /\ state' = NewState /\ thrashCount' = CountNext
          /\ thrashAge' = (IF CountNow = 0 THEN 0 ELSE thrashAge)
          /\ \A age \in Ages : resets'[age] = resets[age] + One
      BY <1>1 DEF GetStatus, CheckLinkfail
    <2>2. /\ ThrashLimit \in Nat \ {0} /\ ThrashTime \in Nat \ {0}
          /\ thrashCount \in Nat /\ thrashAge \in Nat /\ \A age \in Ages : resets[age] \in Nat
      BY TimesAssumption DEF TypeInv, TypeOK
    <2>3. SetsUp => NewState # "failed" /\ state = "failed" /\ CountNow < ThrashLimit
      BY ResetDoesNotFail DEF SetsUp, Restarts
    <2>4. thrashCount' <= ThrashLimit /\ (state' = "failed" => thrashCount' > 0)
      BY <2>1, <2>2 DEF ThrashInv, CountNext, CountNow
    <2>5. CASE thrashAge >= ThrashTime /\ thrashCount > 0
      <3>1. \A age \in Ages : resets[age] <= ThrashLimit - 1
        BY <2>2, <2>5, AllowedRange DEF ThrashInv
      <3>2. CountNow = 0 /\ thrashAge' = 0 /\ Allowed' = 0
        BY <2>1, <2>2, <2>5 DEF CountNow, CountNext, Allowed
      <3>3. \A age \in Ages : resets'[age] <= ThrashLimit
        BY <2>1, <2>2, <3>1
      <3> QED BY <2>2, <2>4, <3>2, <3>3 DEF ThrashInv
    <2>6. CASE thrashCount = 0
      <3>1. CountNow = 0 /\ thrashAge' = 0 /\ Allowed = 0 /\ Allowed' = 0 /\ ~SetsUp
        <4>1. state # "failed" /\ CountNow = 0
          BY <2>6 DEF CountNow, ThrashInv
        <4>2. Allowed = 0 /\ Allowed' = 0
          <5>1. Allowed = 0
            <6>1. ~(thrashCount >= ThrashLimit)
              BY <2>2, <2>6
            <6>2. Allowed = thrashCount - 0
              BY <4>1, <6>1, Zenon DEF Allowed
            <6> QED BY <2>6, <6>2
          <5>2. thrashCount' = IF state' = "failed" THEN 1 ELSE 0
            BY <2>1, <2>2, <4>1 DEF CountNext
          <5> QED BY <2>2, <5>1, <5>2 DEF Allowed
        <4> QED BY <2>1, <2>3, <4>1, <4>2
      <3>2. \A age \in Ages : resets'[age] <= ThrashLimit
        BY <2>1, <2>2, <3>1 DEF ThrashInv
      <3> QED BY <2>2, <2>4, <3>1, <3>2 DEF ThrashInv
    <2>7. CASE thrashAge < ThrashTime /\ thrashCount > 0
      <3>1. CountNow = thrashCount /\ thrashAge' = thrashAge
        BY <2>1, <2>2, <2>7 DEF CountNow
      <3>2. Allowed' >= Allowed + One
        BY <2>1, <2>2, <2>3, <3>1 DEF Allowed, CountNext, ThrashInv
      <3>3. Allowed \in Nat /\ Allowed' \in Int
        BY <2>1, <2>2, <3>1, AllowedRange DEF Allowed, CountNext
      <3>4. \A age \in Ages : resets'[age] <= ThrashLimit + Allowed'
        BY <2>1, <2>2, <3>2, <3>3 DEF ThrashInv
      <3>5. \A age \in Ages : age < thrashAge' => resets'[age] <= Allowed'
        BY <2>1, <2>2, <2>7, <3>1, <3>2, <3>3 DEF ThrashInv
      <3> QED BY <2>4, <3>4, <3>5 DEF ThrashInv
    <2> QED BY <2>2, <2>5, <2>6, <2>7
  <1>2. CASE ~Supervised
    BY <1>2 DEF GetStatus, machine, ThrashInv, Allowed
  <1> QED BY <1>1, <1>2

LEMMA ThrashTick ==
    ASSUME TypeInv, ThrashInv, Tick
    PROVE  ThrashInv'
  <1> DEFINE Ages == 0..ThrashTime - 1
  <1>1. /\ ThrashLimit \in Nat \ {0} /\ ThrashTime \in Nat \ {0}
        /\ thrashCount \in Nat /\ thrashAge \in Nat /\ \A age \in Ages : resets[age] \in Nat
    BY TimesAssumption DEF TypeInv, TypeOK
  <1>2. /\ thrashCount' = thrashCount /\ state' = state /\ Allowed' = Allowed
        /\ thrashCount > 0 => thrashAge' = Older(thrashAge, ThrashTime)
        /\ \A age \in Ages : resets'[age] = IF age = 0 THEN 0 ELSE resets[age - 1]
    BY DEF Tick, Allowed
  <1>3. Allowed \in Nat
    BY <1>1, AllowedRange
  <1>4. ASSUME NEW age \in Ages PROVE resets'[age] <= ThrashLimit + Allowed
    <2>1. CASE age = 0
      BY <1>1, <1>2, <1>3, <2>1
    <2>2. CASE age # 0
      BY <1>1, <1>2, <2>2 DEF ThrashInv
    <2> QED BY <2>1, <2>2
  <1>5. ASSUME thrashCount > 0, NEW age \in Ages, age < thrashAge' PROVE resets'[age] <= Allowed
    <2>1. CASE age = 0
      BY <1>1, <1>2, <1>3, <2>1
    <2>2. CASE age # 0
      <3>1. age - 1 \in Ages /\ age - 1 < thrashAge
        BY <1>1, <1>2, <1>5, <2>2 DEF Older
      <3> QED BY <1>2, <1>5, <2>2, <3>1 DEF ThrashInv
    <2> QED BY <2>1, <2>2
  <1> QED BY <1>2, <1>4, <1>5 DEF ThrashInv

LEMMA ThrashStep == TypeInv /\ ThrashInv /\ [Next]_vars => ThrashInv'
  <1> SUFFICES ASSUME TypeInv, ThrashInv, [Next]_vars PROVE ThrashInv'
    OBVIOUS
  <1>1. CASE (WorkerLook /\ Reads) \/ UserLook
    BY <1>1, ThrashLook DEF Reads, UserLook
  <1>2. CASE Tick
    BY <1>2, ThrashTick
  <1>3. CASE Line \/ LinkIntr \/ WorkerCheck \/ SetSettings \/ DumpIntStatus \/ PowerDown \/ UNCHANGED vars
    BY <1>3 DEF Line, Unplug, Plug, LinkUp, LinkFlap, Jabber, LinkIntr, WorkerCheck, SetSettings,
                DumpIntStatus, PowerDown, vars, machine, historyVars, ThrashInv, Allowed
  <1>4. CASE LocksUp \/ DumpStatus \/ PowerUp
    <2>1. /\ UNCHANGED <<thrashCount, thrashAge, resets>>
          /\ state' = "failed" => state = "failed"
      BY <1>4 DEF LocksUp, DumpStatus, PowerUp, historyVars
    <2>2. Allowed' >= Allowed /\ Allowed \in Nat /\ Allowed' \in Int
      BY <2>1, TimesAssumption, AllowedRange DEF Allowed, TypeInv, TypeOK, ThrashInv
    <2>3. /\ ThrashLimit \in Nat /\ \A age \in 0..ThrashTime - 1 : resets[age] \in Nat
      BY TimesAssumption DEF TypeInv, TypeOK
    <2> QED BY <2>1, <2>2, <2>3 DEF ThrashInv
  <1> QED BY <1>1, <1>2, <1>3, <1>4 DEF Next, Worker, WorkerLook, User

(* However its link fails, and whoever looks at it or powers it down       *)
(* meanwhile, a broken PHY is reset at most this often in any stretch of   *)
(* LINK_THRASH_TIME (avmnet_ar803x.c:196-218, 341-347).                    *)
THEOREM ResetsAreLimited == Spec => []ThrashingIsLimited
  <1>1. Init => ThrashInv
    BY TimesAssumption DEF Init, ThrashInv, Allowed
  <1>2. TypeInv /\ ThrashInv => ThrashingIsLimited
    <2> SUFFICES ASSUME TypeInv, ThrashInv PROVE ThrashingIsLimited
      OBVIOUS
    <2>1. ThrashTime - 1 \in 0..ThrashTime - 1 /\ ThrashLimit \in Nat
      BY TimesAssumption
    <2>2. resets[ThrashTime - 1] <= ThrashLimit + Allowed /\ resets[ThrashTime - 1] \in Nat
      BY <2>1 DEF ThrashInv, TypeInv, TypeOK
    <2> QED BY <2>1, <2>2, AllowedRange DEF ThrashingIsLimited
  <1> QED BY <1>1, <1>2, ThrashStep, TypeInit, TypeStep, PTL DEF Spec
=============================================================================
