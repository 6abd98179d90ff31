----------------------------- MODULE Ar803xPhy -----------------------------
(***************************************************************************)
(* The link supervision of one AR803x PHY (phy/avmnet_ar803x.c): what      *)
(* get_status makes of the registers, above all check_linkfail, the        *)
(* work-around for PHYs that lose their link or hang, with its timers, its *)
(* extra polls and its suspends of the parent; the link interrupt; power   *)
(* down and up by the device, ethtool and the register dump.               *)
(*                                                                         *)
(* Everything between a lock and its unlock is one step.  Reading the      *)
(* registers of the PHY is taken to be instantaneous, and a reset to       *)
(* succeed.  Time is counted in ticks of HZ/2, the delay of an extra poll; *)
(* the ages of time stamps stop counting where no comparison can tell the  *)
(* difference.                                                             *)
(***************************************************************************)
EXTENDS Integers

CONSTANTS
    FlagSets,      \* the choices for the flags of the PHY, sets of PhyFlags
    Speeds,        \* 0 is 10 MBit
    LinkfTime,     \* lnkf_time: a lost link is reported after this time
    LinkDownDelay, \* LINK_DOWN_DELAY: a broken PHY is reset after this time
    JabberTime,    \* HZ: or after jabbering this long
    ThrashTime,    \* LINK_THRASH_TIME
    ThrashLimit,   \* LINK_THRASH_LIMIT
    SharedIrq,     \* another PHY is on the same interrupt
    StopRaces      \* the device may be stopped while its PHY is in LINK_FAILED, and
                   \* configured while stopped before a look begun earlier ends

(* AVMNET_CONFIG_FLAG_RST_ON_LINKFAIL, _LINKFAIL_TIME and _IRQ             *)
PhyFlags == {"RST", "TIME", "IRQ"}

ASSUME FlagSetsAssumption == FlagSets \subseteq SUBSET PhyFlags
ASSUME SpeedsAssumption == 0 \in Speeds /\ Speeds \subseteq Nat
ASSUME TimesAssumption ==
    {LinkfTime, LinkDownDelay, JabberTime, ThrashTime, ThrashLimit} \subseteq Nat \ {0}
ASSUME ChoicesAssumption == {SharedIrq, StopRaces} \subseteq BOOLEAN

VARIABLES
    flags,                        \* initdata.phy.flags
    partner, line, speed, jabber, \* the link: someone at the other end, link, speed, jabber
    latch, ints,                  \* a loss latched in MDIO_STATUS, bits of INTR_STATUS
    pwrBit,                       \* MDIO_CONTROL_POWERDOWN
    powerdown,                    \* phy->powerdown
    state,                        \* phy->state
    lastStatus,                   \* phy->last_status
    lostAge, jabberAge,           \* time since lost_time and jabber_time
    thrashAge, thrashCount,       \* time since thrash_time; thrash_count
    held,                         \* suspends of the parent not taken back
    irqDisabled,                  \* phy->irq_disabled
    wpc,                          \* the worker: idle, or about to take the lock
    lockedUp,                     \* the worker waits for the lock it holds
    told,                         \* the link in the status last reported to the parent
    sinceUp,                      \* history: time since a look found the link, while powered
    resets                        \* history: how many resets were made within the last so many ticks

lineVars   == <<partner, line, speed, jabber, latch, ints>>
powerVars  == <<pwrBit, powerdown>>
machine    == <<state, lastStatus, lostAge, jabberAge, thrashAge, thrashCount>>
historyVars == <<sinceUp, resets>>
vars == <<flags, lineVars, powerVars, machine, held, irqDisabled, wpc, lockedUp, told,
          historyVars>>

Status == [link : 0..1, speed : Speeds]
NoLink == [link |-> 0, speed |-> 0]

Has(flag) == flag \in flags
Supervised == Has("RST") \/ Has("TIME")

(* phy->linkdown_delay, as set up from the flags.                          *)
LossDelay == IF Has("RST") /\ LinkDownDelay > LinkfTime THEN LinkDownDelay ELSE LinkfTime

TypeOK ==
    /\ flags \in FlagSets
    /\ {partner, line, jabber, latch, ints, pwrBit, powerdown, lockedUp} \subseteq BOOLEAN
    /\ speed \in Speeds
    /\ state \in {"down", "up", "lost", "failed", "pwrdown"}
    /\ lastStatus \in Status /\ told \in 0..1
    /\ {lostAge, jabberAge, thrashAge, thrashCount, held, sinceUp} \subseteq Nat
    /\ irqDisabled \in 0..1
    /\ wpc \in {"idle", "look"}
    /\ resets \in [0..ThrashTime - 1 -> Nat]

(* After avmnet_ar803x_setup, which ends with the PHY powered down.        *)
Init ==
    /\ flags \in FlagSets
    /\ partner \in BOOLEAN /\ line = FALSE /\ speed = 0 /\ jabber = FALSE
    /\ latch = TRUE /\ ints = FALSE
    /\ pwrBit = TRUE /\ powerdown = TRUE
    /\ state = "down" /\ lastStatus = NoLink
    /\ lostAge = 0 /\ jabberAge = 0 /\ thrashAge = 0 /\ thrashCount = 0
    /\ held = 0 /\ irqDisabled = 0 /\ wpc = "idle" /\ lockedUp = FALSE
    /\ told = 0
    /\ sinceUp = LinkfTime /\ resets = [age \in 0..ThrashTime - 1 |-> 0]

(***************************************************************************)
(* The hardware and the clock.                                             *)
(***************************************************************************)
Unplug ==
    /\ partner /\ partner' = FALSE
    /\ line' = FALSE /\ speed' = 0 /\ jabber' = FALSE
    /\ latch' = TRUE /\ ints' = (ints \/ line)
    /\ UNCHANGED <<flags, powerVars, machine, held, irqDisabled, wpc, lockedUp, told,
                   historyVars>>

Plug ==
    /\ ~partner /\ partner' = TRUE
    /\ UNCHANGED <<flags, line, speed, jabber, latch, ints, powerVars, machine, held,
                   irqDisabled, wpc, lockedUp, told, historyVars>>

(* Autonegotiation comes to an end.                                        *)
LinkUp ==
    /\ partner /\ ~line /\ ~pwrBit
    /\ line' = TRUE /\ speed' \in Speeds /\ ints' = TRUE
    /\ UNCHANGED <<flags, partner, jabber, latch, powerVars, machine, held, irqDisabled,
                   wpc, lockedUp, told, historyVars>>

(* A link drops by itself.                                                 *)
LinkFlap ==
    /\ line
    /\ line' = FALSE /\ speed' = 0 /\ jabber' = FALSE /\ latch' = TRUE /\ ints' = TRUE
    /\ UNCHANGED <<flags, partner, powerVars, machine, held, irqDisabled, wpc, lockedUp,
                   told, historyVars>>

Jabber ==
    /\ line /\ Has("RST") /\ jabber' = ~jabber
    /\ UNCHANGED <<flags, partner, line, speed, latch, ints, powerVars, machine, held,
                   irqDisabled, wpc, lockedUp, told, historyVars>>

Older(age, limit) == IF age < limit THEN age + 1 ELSE limit

Tick ==
    /\ lostAge' = IF state = "lost" THEN Older(lostAge, LossDelay) ELSE 0
    /\ jabberAge' = IF Has("RST") THEN Older(jabberAge, JabberTime) ELSE 0
    /\ thrashAge' = IF thrashCount > 0 THEN Older(thrashAge, ThrashTime) ELSE 0
    /\ sinceUp' = Older(sinceUp, LinkfTime)
    /\ resets' = [age \in 0..ThrashTime - 1 |-> IF age = 0 THEN 0 ELSE resets[age - 1]]
    /\ UNCHANGED <<flags, lineVars, powerVars, state, lastStatus, thrashCount, held,
                   irqDisabled, wpc, lockedUp, told>>

(* Mutant of LinkIntr: the interrupt is masked again and again.            *)
LinkIntrMasksAgain ==
    /\ Has("IRQ") /\ (ints \/ SharedIrq)
    /\ irqDisabled' = irqDisabled + 1
    /\ UNCHANGED <<flags, lineVars, powerVars, machine, held, wpc, lockedUp, told, historyVars>>

(* ar803x_link_intr: mask the interrupt and have the link looked at, which *)
(* the worker may do at any time.                                          *)
LinkIntr ==
    /\ Has("IRQ") /\ irqDisabled = 0 /\ (ints \/ SharedIrq)
    /\ irqDisabled' = 1
    /\ UNCHANGED <<flags, lineVars, powerVars, machine, held, wpc, lockedUp, told, historyVars>>

(***************************************************************************)
(* get_status under the lock.  The steps of check_linkfail, in its order.  *)
(***************************************************************************)
(* The thrash monitor starts again.                                        *)
CountNow == IF thrashAge >= ThrashTime THEN 0 ELSE thrashCount

(* Mutant of Restarts: a failed PHY waits for its link.                    *)
RestartsOnLink == state = "failed" /\ line

(* A failed PHY is set up again, unless that has happened too often.       *)
Restarts == state = "failed"
SetsUp   == Restarts /\ Has("RST") /\ CountNow < ThrashLimit

(* What the registers say, or what is left of it after a reset.            *)
Seen == [link  |-> IF line /\ ~pwrBit /\ ~SetsUp THEN 1 ELSE 0,
         speed |-> IF line /\ ~pwrBit /\ ~SetsUp THEN speed ELSE 0]
PoweredUp == IF SetsUp THEN ~powerdown ELSE ~pwrBit
LastSeen  == IF SetsUp THEN NoLink ELSE lastStatus

StateRestarted == IF Restarts THEN "down" ELSE state
StatePowered   == IF PoweredUp THEN StateRestarted ELSE "pwrdown"

Jabbering     == Seen.link = 1 /\ jabber /\ Has("RST")
JabberAgeNow  == IF Restarts \/ ~Jabbering THEN 0 ELSE jabberAge
StateJabbered == IF Jabbering /\ JabberAgeNow >= JabberTime THEN "failed" ELSE StatePowered

StateUp == IF Seen.link = 1 /\ StateJabbered = "down" THEN "up" ELSE StateJabbered

(* The link is down, or was down since the last look.                      *)
LinkLost  == latch \/ ints \/ Seen.link = 0
StateLost == IF LinkLost /\ StateUp = "up" THEN "lost" ELSE StateUp

(* Mutant of LostAgeNow: every look takes the time anew.                   *)
LostAgeRenewed == 0

LostAgeNow == IF state = "lost" THEN lostAge ELSE 0

(* Mutant of SpeedDropped: 10 MBit is always a failure.                    *)
SpeedIsLow == Has("RST") /\ Seen.link = 1 /\ Seen.speed = 0

SpeedDropped ==
    /\ StateLost = "lost" /\ Has("RST")
    /\ Seen.link = 1 /\ Seen.speed = 0 /\ LastSeen.speed # 0

(* A link that came back is up; one that stays away fails in the end.      *)
NewState ==
    IF SpeedDropped THEN "failed"
    ELSE IF StateLost # "lost" THEN StateLost
    ELSE IF Seen.link = 1 THEN "up"
    ELSE IF LostAgeNow >= LossDelay THEN "failed" ELSE "lost"

(* Mutant of NewStatus: a loss is reported at once.                        *)
NewStatusAtOnce == IF NewState = "failed" THEN [Seen EXCEPT !.link = 0] ELSE Seen

(* A loss is kept back for LinkfTime.                                      *)
NewStatus ==
    IF NewState = "failed" THEN [Seen EXCEPT !.link = 0]
    ELSE IF NewState = "lost" /\ LostAgeNow < LinkfTime THEN LastSeen
    ELSE Seen

(* Mutant of Suspends: a PHY that fails again is resumed but once.         *)
SuspendsFreshOnly == NewState = "failed" /\ ~Restarts

(* A broken PHY that fails has its parent suspended.                       *)
Suspends == NewState = "failed"

(* Mutant of CountNext: the count begins anew with every failure.          *)
CountNextForgets == IF NewState = "failed" THEN 1 ELSE CountNow

CountNext ==
    IF NewState # "failed" THEN CountNow
    ELSE IF CountNow < ThrashLimit THEN CountNow + 1 ELSE ThrashLimit

(* check_linkfail as a whole.                                              *)
CheckLinkfail ==
    /\ state' = NewState
    /\ lastStatus' = IF NewState \in {"up", "failed"} THEN NewStatus ELSE LastSeen
    /\ lostAge' = IF NewState = "lost" THEN LostAgeNow ELSE 0
    /\ jabberAge' = JabberAgeNow
    /\ thrashCount' = CountNext
    /\ thrashAge' = IF CountNow = 0 THEN 0 ELSE thrashAge
    /\ held' = IF Has("RST")
               THEN held - (IF Restarts THEN 1 ELSE 0) + (IF Suspends THEN 1 ELSE 0)
               ELSE held
    /\ resets' = [age \in 0..ThrashTime - 1 |-> resets[age] + (IF SetsUp THEN 1 ELSE 0)]

(* get_status between lock and unlock.  setup_phy drops the link; reading  *)
(* clears the latched bits; the interrupt is enabled again.                *)
GetStatus ==
    /\ IF Supervised THEN CheckLinkfail ELSE UNCHANGED <<machine, held, resets>>
    /\ line' = (line /\ ~SetsUp) /\ speed' = (IF SetsUp THEN 0 ELSE speed)
    /\ jabber' = (jabber /\ ~SetsUp)
    /\ latch' = (~line \/ SetsUp) /\ ints' = FALSE
    /\ irqDisabled' = 0
    /\ sinceUp' = IF Seen.link = 1 THEN 0 ELSE sinceUp
    /\ UNCHANGED <<flags, partner, powerVars, lockedUp>>

(***************************************************************************)
(* The worker: the heartbeat's poll and link_work, which the interrupt and *)
(* check_linkfail queue for an extra poll, on one single-threaded queue.   *)
(* The power-down flag is looked at before the lock is taken.              *)
(***************************************************************************)
WorkerCheck ==
    /\ wpc = "idle"
    /\ IF powerdown THEN told' = 0 /\ UNCHANGED wpc
                    ELSE wpc' = "look" /\ UNCHANGED told
    /\ UNCHANGED <<flags, lineVars, powerVars, machine, held, irqDisabled, lockedUp, historyVars>>

Reads ==
    /\ wpc' = "idle"
    /\ GetStatus
    /\ told' = IF Supervised THEN NewStatus.link ELSE Seen.link

(* A reset of a PHY that was powered down meanwhile: setup_phy, under the  *)
(* lock, calls powerdown, which takes it.                                  *)
LocksUp ==
    /\ lockedUp' = TRUE
    /\ state' = "down" /\ pwrBit' = FALSE
    /\ UNCHANGED <<flags, lineVars, powerdown, lastStatus, lostAge, jabberAge, thrashAge,
                   thrashCount, held, irqDisabled, wpc, told, historyVars>>

WorkerLook ==
    /\ wpc = "look" /\ ~lockedUp
    /\ IF SetsUp /\ powerdown THEN LocksUp ELSE Reads

Worker == WorkerCheck \/ WorkerLook

(***************************************************************************)
(* The user.  ethtool and the opening and stopping of devices exclude one  *)
(* another (rtnl); the register dump runs at any time.                     *)
(***************************************************************************)
(* get_settings, get_pauseparam, get_link: a look whose result only the    *)
(* user sees.                                                              *)
UserLook ==
    /\ ~powerdown /\ ~lockedUp
    /\ GetStatus
    /\ UNCHANGED <<wpc, told>>

(* set_settings, set_pauseparam: set_config writes MDIO_CONTROL, power bit *)
(* included, and autonegotiation begins again.                             *)
SetSettings ==
    /\ ~lockedUp /\ (powerdown /\ wpc = "look" => StopRaces)
    /\ pwrBit' = FALSE
    /\ line' = FALSE /\ speed' = 0 /\ jabber' = FALSE
    /\ latch' = TRUE /\ ints' = (ints \/ line)
    /\ UNCHANGED <<flags, partner, powerdown, machine, held, irqDisabled, wpc, lockedUp,
                   told, historyVars>>

(* phy_reg_show reads every register, one lock each.  It notes a loss that *)
(* reading MDIO_STATUS clears; what INTR_STATUS said is gone.              *)
DumpStatus ==
    /\ ~lockedUp
    /\ latch' = ~line
    /\ state' = IF state = "up" /\ latch THEN "lost" ELSE state
    /\ UNCHANGED <<flags, partner, line, speed, jabber, ints, powerVars, lastStatus, lostAge,
                   jabberAge, thrashAge, thrashCount, held, irqDisabled, wpc, lockedUp,
                   told, historyVars>>

DumpIntStatus ==
    /\ ~lockedUp /\ ints
    /\ ints' = FALSE
    /\ UNCHANGED <<flags, partner, line, speed, jabber, latch, powerVars, machine, held,
                   irqDisabled, wpc, lockedUp, told, historyVars>>

PowerDown ==
    /\ ~powerdown /\ ~lockedUp /\ (state = "failed" => StopRaces)
    /\ pwrBit' = TRUE /\ powerdown' = TRUE
    /\ line' = FALSE /\ speed' = 0 /\ jabber' = FALSE
    /\ latch' = TRUE /\ ints' = (ints \/ line)
    /\ sinceUp' = LinkfTime
    /\ UNCHANGED <<flags, partner, machine, held, irqDisabled, wpc, lockedUp, told, resets>>

(* A broken PHY is set up again, with the parent suspended and resumed     *)
(* around that, any other gets its configuration back.                     *)
PowerUp ==
    /\ powerdown /\ ~lockedUp
    /\ pwrBit' = FALSE /\ powerdown' = FALSE
    /\ line' = FALSE /\ speed' = 0 /\ jabber' = FALSE /\ latch' = TRUE
    /\ ints' = (ints /\ ~(Has("RST") /\ Has("IRQ")))
    /\ state' = "down" /\ lostAge' = 0
    /\ sinceUp' = LinkfTime
    /\ UNCHANGED <<flags, partner, lastStatus, jabberAge, thrashAge, thrashCount, held,
                   irqDisabled, wpc, lockedUp, told, resets>>

Line == Unplug \/ Plug \/ LinkUp \/ LinkFlap \/ Jabber
User == UserLook \/ SetSettings \/ DumpStatus \/ DumpIntStatus \/ PowerDown \/ PowerUp
Next == Line \/ Tick \/ LinkIntr \/ Worker \/ User

Spec == Init /\ [][Next]_vars

(* The heartbeat comes again and again, time passes, and autonegotiation   *)
(* with a partner comes to an end.                                         *)
FairSpec == Spec /\ WF_vars(Worker) /\ WF_vars(Tick) /\ WF_vars(LinkUp)

(***************************************************************************)
(* Properties.                                                             *)
(***************************************************************************)
(* A broken PHY has its parent suspended exactly while it is in            *)
(* LINK_FAILED, once (:221-223, 334-337).                                  *)
SuspendedWhileFailed ==
    held = IF Has("RST") /\ state = "failed" THEN 1 ELSE 0

(* What the parent is promised: a suspend when the PHY fails, a resume     *)
(* when it leaves LINK_FAILED, and nothing else.  The reset that follows a *)
(* failure is undisturbed, and no path through the state machine, by a     *)
(* poll, ethtool, the register dump or a stop and start of the device,     *)
(* forgets or repeats the resume (:210-234, 334-337, 1134-1143).           *)
Client == INSTANCE SuspendingPhy WITH failed <- Has("RST") /\ state = "failed"
ImplementsClient == Client!Spec

(* "Now we can hard reset the PHY": when the worker finds a failure, under *)
(* the lock, the reset can be done there and then.  It looks at the        *)
(* power-down flag before it takes the lock and setup_phy looks again, and *)
(* then calls powerdown, which takes the lock (:206-214, 386-390, 918-919, *)
(* 1105).                                                                  *)
NoSelfDeadlock == ~lockedUp

(* A PHY that loses its link all the time is not reset all the time:       *)
(* no stretch of LINK_THRASH_TIME, wherever it begins, holds more resets   *)
(* than this; two counting periods may meet in it, and a reset in between  *)
(* them is not counted (:196-200, 211-218, 341-347).                       *)
ThrashingIsLimited == resets[ThrashTime - 1] <= 2 * ThrashLimit - 1

ConfirmedLoss ==
    told = 1 /\ told' = 0 /\ ~powerdown /\ Has("TIME") /\ ~Has("RST") => sinceUp >= LinkfTime

(* "We only want to report this upwards if the link is really down for at  *)
(* least linkf_time": on a PHY that is not reset, the report that takes a  *)
(* link away comes only when for that long no look at the powered PHY has  *)
(* found it (:300-314).                                                    *)
LossIsConfirmed == [][ConfirmedLoss]_vars

(* A link that stays gone is reported as gone in the end, in spite of the  *)
(* status that is kept back (:300-326).                                    *)
LastingLossIsTold == <>[](~line /\ ~powerdown) => <>[](told = 0)

(* A partner that stays gets its link, and keeps it: resets and failures   *)
(* come to an end when the line and the user leave the PHY alone.          *)
LastingLinkIsTold ==
    <>[](partner /\ ~powerdown /\ ~jabber) /\ <>[][~LinkFlap /\ ~SetSettings]_vars
        => <>[](told = 1)

(* "ask parent to resume sending us frames": a suspended parent is resumed *)
(* or the device is stopped (:221-223).                                    *)
ParentIsResumed == held > 0 ~> held = 0 \/ powerdown
=============================================================================
