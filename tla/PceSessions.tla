----------------------------- MODULE PceSessions -----------------------------
(***************************************************************************)
(* The packet accelerator's sessions in the 7-port switch (swi_7port.c,    *)
(* CONFIG_AVM_PA).  A session that is offloaded has a block of memory on   *)
(* the list pce_sessions, rules in the PCE table and, if one is free, an   *)
(* RMON counter.  swi_pa_mutex guards list, rules and counters; the        *)
(* accelerator, which must not sleep, only tries it, and leaves a session  *)
(* it could not remove to the heartbeat.  A counter is read through the    *)
(* registers BM_RAM_ADDR, CTRL and VAL, which everybody shares.            *)
(* Threads: "pa" is the accelerator, which adds and removes one session at *)
(* a time; "stats" the timer that asks for the counts of its sessions;     *)
(* "beat" the heartbeat; "show" a reader of pa_pce_sessions; "rmon" a      *)
(* reader of the port counters, and of all other holders of                *)
(* swi_7port_mutex.                                                        *)
(***************************************************************************)
EXTENDS Naturals

CONSTANTS
    Handles,        \* sessions of the accelerator
    Blocks,         \* memory for struct avmnet_7port_pce_session
    NoBlock,        \* the null pointer
    Slots, FixedSlots,       \* the PCE rule table; the rules written at start
    Counters, FixedCounters, \* the RMON counters; those taken at start
    PortCounter,    \* any RMON counter of a port
    WriteMayFail,   \* writing or deleting a rule may fail
    Interruptible   \* a signal may interrupt the reader of pa_pce_sessions

ASSUME BlocksAssumption == NoBlock \notin Blocks /\ PortCounter \notin Nat
ASSUME TablesAssumption ==
    /\ Slots \subseteq Nat /\ FixedSlots \subseteq Slots
    /\ Counters \subseteq Nat /\ FixedCounters \subseteq Counters
ASSUME PceSwitchesAssumption == {WriteMayFail, Interruptible} \subseteq BOOLEAN

None    == PortCounter         \* no counter
Threads == {"pa", "stats", "beat", "show", "rmon"}

VARIABLES
    paSem, swSem,       \* counts of swi_pa_mutex and swi_7port_mutex
    hwSession,          \* hw_session of the accelerator's sessions
    allocated, listed,  \* the blocks in use; those on pce_sessions
    removed,            \* the blocks marked removed
    rules, counter,     \* slots of the rules and counter_id of a block
    slotUsed, taken,    \* pce_tbl_used, rmon_taken
    stuck,              \* history: slots whose rule could not be written or deleted
    pc, block,          \* step of each thread, the session it works on
    handle,             \* the session the accelerator adds
    left,               \* what heartbeat and reader have still to visit
    bm, want,           \* reading a counter: step, and the counter asked for
    ramAddr, ramVal     \* the BM_RAM registers: address, and whose value

semVars   == <<paSem, swSem>>
tableVars == <<rules, counter, slotUsed, taken, stuck>>
listVars  == <<hwSession, allocated, listed, removed>>
ramVars   == <<bm, want, ramAddr, ramVal>>
vars == <<semVars, tableVars, listVars, pc, block, handle, left, ramVars>>

Steps == {"idle", "create", "set", "mark", "delete", "free",
          "visit", "print", "gone", "lock", "read", "report"}

TypeOK ==
    /\ paSem \in 0..1 /\ swSem \in 0..1
    /\ hwSession \in [Handles -> Blocks \cup {NoBlock}]
    /\ allocated \in SUBSET Blocks /\ listed \in SUBSET Blocks
    /\ removed \in SUBSET Blocks
    /\ rules \in [Blocks -> SUBSET Slots]
    /\ counter \in [Blocks -> Counters \cup {None}]
    /\ slotUsed \in SUBSET Slots /\ taken \in SUBSET Counters
    /\ stuck \in SUBSET Slots
    /\ pc \in [Threads -> Steps] /\ block \in [Threads -> Blocks \cup {NoBlock}]
    /\ handle \in Handles \cup {NoBlock} /\ left \in [Threads -> SUBSET Blocks]
    /\ bm \in [Threads -> {"idle", "addr", "start", "fetch"}]
    /\ want \in [Threads -> Counters \cup {PortCounter}]
    /\ ramAddr \in Counters \cup {PortCounter}
    /\ ramVal \in Counters \cup {PortCounter}

Init ==
    /\ paSem = 1 /\ swSem = 1
    /\ hwSession = [h \in Handles |-> NoBlock]
    /\ allocated = {} /\ listed = {} /\ removed = {}
    /\ rules = [b \in Blocks |-> {}] /\ counter = [b \in Blocks |-> None]
    /\ slotUsed = FixedSlots /\ taken = FixedCounters /\ stuck = {}
    /\ pc = [t \in Threads |-> "idle"] /\ block = [t \in Threads |-> NoBlock]
    /\ handle = NoBlock /\ left = [t \in Threads |-> {}]
    /\ bm = [t \in Threads |-> "idle"] /\ want = [t \in Threads |-> PortCounter]
    /\ ramAddr = PortCounter /\ ramVal = PortCounter

At(t, step) == pc[t] = step /\ bm[t] = "idle"
Go(t, step) == pc' = [pc EXCEPT ![t] = step]
WorkOn(t, b) == block' = [block EXCEPT ![t] = b]

(***************************************************************************)
(* Reading counter c: write its address, start the access, fetch the       *)
(* value.  The thread goes on when bm is "idle" again.                     *)
(***************************************************************************)
ReadCounter(t, c) ==
    /\ bm' = [bm EXCEPT ![t] = "addr"]
    /\ want' = [want EXCEPT ![t] = c]
    /\ UNCHANGED <<ramAddr, ramVal>>

(* read_rmon_pce_counter and unset_pce_rules read only what there is.      *)
ReadCounterOf(t, b) ==
    IF counter[b] # None THEN ReadCounter(t, counter[b]) ELSE UNCHANGED ramVars

(* The counter_id found in memory that is free, or somebody else's.        *)
ReadGarbage(t) == UNCHANGED ramVars \/ \E c \in Counters : ReadCounter(t, c)

BmAccess(t) ==
    /\ \/ bm[t] = "addr" /\ ramAddr' = want[t] /\ UNCHANGED <<ramVal, want>>
          /\ bm' = [bm EXCEPT ![t] = "start"]
       \/ bm[t] = "start" /\ ramVal' = ramAddr /\ UNCHANGED <<ramAddr, want>>
          /\ bm' = [bm EXCEPT ![t] = "fetch"]
       \/ bm[t] = "fetch" /\ UNCHANGED <<ramAddr, ramVal>>
          /\ bm' = [bm EXCEPT ![t] = "idle"]
          /\ want' = [want EXCEPT ![t] = PortCounter]
    /\ UNCHANGED <<semVars, tableVars, listVars, pc, block, handle, left>>

(***************************************************************************)
(* add_session.  A call that finds no memory or the lock taken changes     *)
(* nothing.                                                                *)
(***************************************************************************)
AddSession(h) ==
    /\ At("pa", "idle") /\ hwSession[h] = NoBlock
    /\ paSem > 0 /\ paSem' = paSem - 1
    /\ \E b \in Blocks \ allocated : allocated' = allocated \cup {b} /\ WorkOn("pa", b)
    /\ Go("pa", "create") /\ handle' = h
    /\ UNCHANGED <<swSem, tableVars, hwSession, listed, removed, left, ramVars>>

(* i is the first free place of a table.                                   *)
FirstFree(i, table, used) ==
    i \in table \ used /\ \A j \in table \ used : i <= j

(* Mutant of CreateRules: the counter is not marked.                       *)
CreateRulesUnmarked ==
    /\ At("pa", "create") /\ Go("pa", "set")
    /\ \/ \E c \in Counters :
             /\ FirstFree(c, Counters, taken)
             /\ counter' = [counter EXCEPT ![block["pa"]] = c]
             /\ ReadCounter("pa", c)
       \/ Counters \subseteq taken /\ UNCHANGED <<counter, ramVars>>
    /\ UNCHANGED <<semVars, rules, slotUsed, taken, stuck, listVars, block, handle, left>>

(* create_pce_rules: take the first free counter and read it; without one  *)
(* the session goes uncounted.                                             *)
CreateRules ==
    /\ At("pa", "create") /\ Go("pa", "set")
    /\ \/ \E c \in Counters :
             /\ FirstFree(c, Counters, taken)
             /\ taken' = taken \cup {c}
             /\ counter' = [counter EXCEPT ![block["pa"]] = c]
             /\ ReadCounter("pa", c)
       \/ Counters \subseteq taken /\ UNCHANGED <<taken, counter, ramVars>>
    /\ UNCHANGED <<semVars, rules, slotUsed, stuck, listVars, block, handle, left>>

(* What kfree leaves: kzalloc clears the block before it is used again.    *)
Cleared(b) ==
    /\ allocated' = allocated \ {b} /\ removed' = removed \ {b}
    /\ rules' = [rules EXCEPT ![b] = {}] /\ counter' = [counter EXCEPT ![b] = None]

(* set_pce_rules: write the rule for the one egress port into the first    *)
(* free slot.                                                              *)
SetRules ==
    /\ At("pa", "set")
    /\ \E i \in Slots : /\ FirstFree(i, Slots, slotUsed)
                        /\ slotUsed' = slotUsed \cup {i}
                        /\ rules' = [rules EXCEPT ![block["pa"]] = {i}]
    /\ hwSession' = [hwSession EXCEPT ![handle] = block["pa"]]
    /\ listed' = listed \cup {block["pa"]}
    /\ paSem' = paSem + 1
    /\ Go("pa", "idle") /\ WorkOn("pa", NoBlock) /\ handle' = NoBlock
    /\ UNCHANGED <<swSem, counter, taken, stuck, allocated, removed, left, ramVars>>

(* A rule that could not be written or deleted may leave its slot marked.  *)
MayStick(i) == \/ slotUsed' = slotUsed \cup {i} /\ stuck' = stuck \cup {i}
               \/ slotUsed' = slotUsed \ {i} /\ UNCHANGED stuck

(* The call fails: no egress port, before a counter was taken; no slot; or *)
(* the rule could not be written.  The lock is given back and the memory   *)
(* freed.                                                                  *)
AddFails ==
    /\ \/ At("pa", "create") /\ UNCHANGED <<slotUsed, stuck>>
       \/ At("pa", "set") /\ Slots \subseteq slotUsed /\ UNCHANGED <<slotUsed, stuck>>
       \/ /\ At("pa", "set") /\ WriteMayFail
          /\ \E i \in Slots : FirstFree(i, Slots, slotUsed) /\ MayStick(i)
    /\ Cleared(block["pa"])
    /\ paSem' = paSem + 1
    /\ Go("pa", "idle") /\ WorkOn("pa", NoBlock) /\ handle' = NoBlock
    /\ UNCHANGED <<swSem, taken, hwSession, listed, left, ramVars>>

(***************************************************************************)
(* remove_session.  With the lock taken the session is only marked.        *)
(***************************************************************************)
(* Mutant of RemoveSession: the pointer is not reset.                      *)
RemoveSessionKeepsPointer(h) ==
    /\ At("pa", "idle") /\ hwSession[h] # NoBlock
    /\ WorkOn("pa", hwSession[h])
    /\ \/ paSem > 0 /\ paSem' = paSem - 1 /\ Go("pa", "delete")
       \/ paSem = 0 /\ UNCHANGED paSem /\ Go("pa", "mark")
    /\ UNCHANGED <<swSem, tableVars, listVars, handle, left, ramVars>>

RemoveSession(h) ==
    /\ At("pa", "idle") /\ hwSession[h] # NoBlock
    /\ hwSession' = [hwSession EXCEPT ![h] = NoBlock]
    /\ WorkOn("pa", hwSession[h])
    /\ \/ paSem > 0 /\ paSem' = paSem - 1 /\ Go("pa", "delete")
       \/ paSem = 0 /\ UNCHANGED paSem /\ Go("pa", "mark")
    /\ UNCHANGED <<swSem, tableVars, allocated, listed, removed, handle, left, ramVars>>

MarkRemoved ==
    /\ At("pa", "mark") /\ Go("pa", "idle") /\ WorkOn("pa", NoBlock)
    /\ removed' = removed \cup {block["pa"]}
    /\ UNCHANGED <<semVars, tableVars, hwSession, allocated, listed, handle, left, ramVars>>

(* The rule of a session is deleted.                                       *)
DeleteRule(b) ==
    \/ slotUsed' = slotUsed \ rules[b] /\ UNCHANGED stuck
    \/ WriteMayFail /\ \E i \in rules[b] : MayStick(i)

(* Mutant of Delete: nothing to undo for a session without a counter.      *)
DeleteCounted(t) ==
    /\ At(t, "delete") /\ Go(t, "free")
    /\ listed' = listed \ {block[t]}
    /\ IF counter[block[t]] = None THEN UNCHANGED <<slotUsed, stuck>>
                                   ELSE DeleteRule(block[t])
    /\ ReadCounterOf(t, block[t])
    /\ UNCHANGED <<semVars, rules, counter, taken, hwSession, allocated, removed,
                   block, handle, left>>

(* remove_session_entry, by accelerator and heartbeat: off the list, the   *)
(* rule deleted, the counter read, given back, the memory freed.           *)
Delete(t) ==
    /\ At(t, "delete") /\ Go(t, "free")
    /\ listed' = listed \ {block[t]}
    /\ DeleteRule(block[t])
    /\ ReadCounterOf(t, block[t])
    /\ UNCHANGED <<semVars, rules, counter, taken, hwSession, allocated, removed,
                   block, handle, left>>

Free(t) ==
    /\ At(t, "free")
    /\ taken' = taken \ {counter[block[t]]}
    /\ Cleared(block[t])
    /\ \/ t = "pa" /\ paSem' = paSem + 1 /\ Go(t, "idle")
       \/ t = "beat" /\ UNCHANGED paSem /\ Go(t, "visit")
    /\ WorkOn(t, NoBlock)
    /\ UNCHANGED <<swSem, slotUsed, stuck, hwSession, listed, handle, left, ramVars>>

AcceleratorStep ==
    \/ CreateRules \/ SetRules \/ AddFails \/ MarkRemoved
    \/ Delete("pa") \/ Free("pa") \/ BmAccess("pa")
Accelerator ==
    AcceleratorStep \/ \E h \in Handles : AddSession(h) \/ RemoveSession(h)

(***************************************************************************)
(* session_stats, called by the multiplexer's timer without the lock under *)
(* which it adds and removes.  The pointer is kept from its first step to  *)
(* the last, which writes last_report.  With swi_7port_mutex taken there   *)
(* is no count in this cycle.                                              *)
(***************************************************************************)
StatsBegin(h) ==
    /\ At("stats", "idle") /\ hwSession[h] # NoBlock
    /\ Go("stats", "lock") /\ WorkOn("stats", hwSession[h])
    /\ UNCHANGED <<semVars, tableVars, listVars, handle, left, ramVars>>

StatsLock ==
    /\ At("stats", "lock") /\ swSem > 0 /\ swSem' = swSem - 1
    /\ Go("stats", "read")
    /\ IF block["stats"] \in allocated THEN ReadCounterOf("stats", block["stats"])
                                       ELSE ReadGarbage("stats")
    /\ UNCHANGED <<paSem, tableVars, listVars, block, handle, left>>

StatsBusy ==
    /\ At("stats", "lock") /\ swSem = 0
    /\ Go("stats", "idle") /\ WorkOn("stats", NoBlock)
    /\ UNCHANGED <<semVars, tableVars, listVars, handle, left, ramVars>>

StatsUnlock ==
    /\ At("stats", "read") /\ Go("stats", "report")
    /\ swSem' = swSem + 1
    /\ UNCHANGED <<paSem, tableVars, listVars, block, handle, left, ramVars>>

StatsReport ==
    /\ At("stats", "report") /\ Go("stats", "idle") /\ WorkOn("stats", NoBlock)
    /\ UNCHANGED <<semVars, tableVars, listVars, handle, left, ramVars>>

StatsStep == StatsLock \/ StatsBusy \/ StatsUnlock \/ StatsReport \/ BmAccess("stats")
Stats == StatsStep \/ \E h \in Handles : StatsBegin(h)

(***************************************************************************)
(* The heartbeat (switch.poll) tries the lock and goes through the list.   *)
(***************************************************************************)
(* Mutants of BeatLock and BeatUnlock: the result of the trylock is not    *)
(* looked at; the lock is not given back.                                  *)
BeatLockIgnored ==
    /\ At("beat", "idle") /\ Go("beat", "visit")
    /\ paSem' = 0
    /\ left' = [left EXCEPT !["beat"] = listed]
    /\ UNCHANGED <<swSem, tableVars, listVars, block, handle, ramVars>>

BeatLock ==
    /\ At("beat", "idle") /\ Go("beat", "visit")
    /\ paSem > 0 /\ paSem' = paSem - 1
    /\ left' = [left EXCEPT !["beat"] = listed]
    /\ UNCHANGED <<swSem, tableVars, listVars, block, handle, ramVars>>

(* Mutant of BeatVisit: every session is taken for a removed one.          *)
BeatVisitAny(b) ==
    /\ At("beat", "visit") /\ b \in left["beat"]
    /\ left' = [left EXCEPT !["beat"] = @ \ {b}]
    /\ WorkOn("beat", b) /\ Go("beat", "delete")
    /\ UNCHANGED <<semVars, tableVars, listVars, handle, ramVars>>

BeatVisit(b) ==
    /\ At("beat", "visit") /\ b \in left["beat"]
    /\ left' = [left EXCEPT !["beat"] = @ \ {b}]
    /\ \/ b \in removed /\ WorkOn("beat", b) /\ Go("beat", "delete")
       \/ b \notin removed /\ UNCHANGED <<block, pc>>
    /\ UNCHANGED <<semVars, tableVars, listVars, handle, ramVars>>

BeatUnlockForgotten ==
    /\ At("beat", "visit") /\ left["beat"] = {} /\ Go("beat", "idle")
    /\ UNCHANGED <<semVars, tableVars, listVars, block, handle, left, ramVars>>

BeatUnlock ==
    /\ At("beat", "visit") /\ left["beat"] = {} /\ Go("beat", "idle")
    /\ paSem' = paSem + 1
    /\ UNCHANGED <<swSem, tableVars, listVars, block, handle, left, ramVars>>

Heartbeat ==
    \/ BeatLock \/ BeatUnlock \/ Delete("beat") \/ Free("beat") \/ BmAccess("beat")
    \/ \E b \in Blocks : BeatVisit(b)

(***************************************************************************)
(* pa_sessions_show: under swi_pa_mutex, and under swi_7port_mutex for     *)
(* each session's counter.  A signal while it waits for the latter makes   *)
(* it return with the former, and no other reader gets in again.           *)
(***************************************************************************)
ShowLock ==
    /\ At("show", "idle") /\ Go("show", "visit")
    /\ paSem > 0 /\ paSem' = paSem - 1
    /\ left' = [left EXCEPT !["show"] = listed]
    /\ UNCHANGED <<swSem, tableVars, listVars, block, handle, ramVars>>

ShowCounter(b) ==
    /\ At("show", "visit") /\ b \in left["show"]
    /\ swSem > 0 /\ swSem' = swSem - 1
    /\ ReadCounterOf("show", b)
    /\ Go("show", "print") /\ WorkOn("show", b)
    /\ UNCHANGED <<paSem, tableVars, listVars, handle, left>>

ShowPrint ==
    /\ At("show", "print") /\ Go("show", "visit") /\ WorkOn("show", NoBlock)
    /\ swSem' = swSem + 1
    /\ left' = [left EXCEPT !["show"] = @ \ {block["show"]}]
    /\ UNCHANGED <<paSem, tableVars, listVars, handle, ramVars>>

ShowInterrupted ==
    /\ At("show", "visit") /\ left["show"] # {} /\ swSem = 0 /\ Interruptible
    /\ Go("show", "gone")
    /\ left' = [left EXCEPT !["show"] = {}]
    /\ UNCHANGED <<semVars, tableVars, listVars, block, handle, ramVars>>

ShowUnlock ==
    /\ At("show", "visit") /\ left["show"] = {} /\ Go("show", "idle")
    /\ paSem' = paSem + 1
    /\ UNCHANGED <<swSem, tableVars, listVars, block, handle, left, ramVars>>

ShowStep ==
    \/ ShowPrint \/ ShowUnlock \/ BmAccess("show") \/ \E b \in Blocks : ShowCounter(b)

(***************************************************************************)
(* get_rmon_data.                                                          *)
(***************************************************************************)
RmonLock ==
    /\ At("rmon", "idle") /\ Go("rmon", "read")
    /\ swSem > 0 /\ swSem' = swSem - 1
    /\ ReadCounter("rmon", PortCounter)
    /\ UNCHANGED <<paSem, tableVars, listVars, block, handle, left>>

RmonUnlock ==
    /\ At("rmon", "read") /\ Go("rmon", "idle")
    /\ swSem' = swSem + 1
    /\ UNCHANGED <<paSem, tableVars, listVars, block, handle, left, ramVars>>

Next ==
    \/ Accelerator \/ Stats \/ Heartbeat \/ ShowLock \/ ShowStep \/ ShowInterrupted
    \/ RmonLock \/ RmonUnlock \/ BmAccess("rmon")

Spec == Init /\ [][Next]_vars

(* The heartbeat comes back for ever, every call runs to its end, and the  *)
(* semaphore wakes the reader that waits for it.                           *)
Fairness ==
    /\ WF_vars(Heartbeat)
    /\ SF_vars(ShowStep)
    /\ WF_vars(RmonUnlock \/ BmAccess("rmon"))
    /\ WF_vars(AcceleratorStep)
    /\ WF_vars(StatsStep)

FairSpec == Spec /\ Fairness

(***************************************************************************)
(* Properties.                                                             *)
(***************************************************************************)
HoldsPa(t) ==
    \/ t = "pa" /\ pc[t] \in {"create", "set", "delete", "free"}
    \/ t \in {"beat", "show"} /\ pc[t] # "idle"

(* "Must be called with the swi_pa_mutex held!" (swi_7port.c:2289): at     *)
(* most one of accelerator, heartbeat and reader is inside, and while one  *)
(* is, the semaphore is taken.                                             *)
PaLockExclusive ==
    /\ \A t, u \in Threads : HoldsPa(t) /\ HoldsPa(u) => t = u
    /\ paSem > 0 => \A t \in Threads : ~HoldsPa(t)

(* What the accelerator keeps of a session is on the list and not about to *)
(* be freed by the heartbeat, and no two sessions have it                  *)
(* (swi_7port.c:2206, 2270, 2277).                                         *)
HwSessionIsLive ==
    \A h \in Handles : hwSession[h] # NoBlock =>
        /\ hwSession[h] \in listed \ removed
        /\ \A g \in Handles : hwSession[g] = hwSession[h] => g = h

(* Whoever goes through the list or changes it never meets a session that  *)
(* was freed: neither the reader, nor the heartbeat that frees others, nor *)
(* a removal that marks its session without the lock while either of them  *)
(* has it (swi_7port.c:1196, 2277, 2299, 2367).                            *)
ListUseIsLive ==
    /\ listed \subseteq allocated
    /\ \A t \in Threads \ {"stats"} : /\ block[t] # NoBlock => block[t] \in allocated
                                      /\ left[t] \subseteq listed

(* "read an PA session count, must be called with the swi_7port_mutex      *)
(* held!": the session that session_stats reads under that lock, and       *)
(* writes to afterwards, has not been freed (swi_7port.c:2304-2306, 2439,  *)
(* 2443).                                                                  *)
StatsUseIsLive == pc["stats"] \in {"read", "report"} => block["stats"] \in allocated

(* No two sessions have a rule or a counter in common, and none has one of *)
(* those set up at start (swi_7port.c:1644, 1757, 1812).                   *)
NoSharing ==
    \A a \in allocated :
        /\ rules[a] \cap FixedSlots = {} /\ counter[a] \notin FixedCounters
        /\ \A b \in allocated \ {a} :
              /\ rules[a] \cap rules[b] = {}
              /\ counter[a] # None => counter[a] # counter[b]

(* What the accelerator is promised, whoever cleans up: a session keeps    *)
(* its rules and its counter, unshared, from the end of add_session until  *)
(* remove_session was called for it, marked or not; then they go, once     *)
(* (swi_7port.c:2193-2206, 2264-2302).                                     *)
Store == INSTANCE SessionStore WITH
    Sessions  <- Blocks,
    NoSession <- NoBlock,
    Slots     <- Slots \ FixedSlots,
    Counters  <- Counters \ FixedCounters,
    NoCounter <- None,
    session   <- hwSession,
    holds     <- [b \in listed |-> [rules |-> rules[b], counter |-> counter[b]]]
ImplementsStore == Store!Spec

(* The slots marked are those of the rules that sessions on the list have, *)
(* and those that a failing call left behind, which no session gets or     *)
(* gives back: no slot is lost in any other way, and none is free while    *)
(* its rule is in the table (swi_7port.c:1809-1829, 2229-2233).            *)
RulesMatchSessions ==
    /\ slotUsed = FixedSlots \cup stuck \cup UNION {rules[b] : b \in listed}
    /\ \A b \in listed : rules[b] \cap stuck = {}

(* A session that the accelerator has given up goes off the list: at once, *)
(* or by the heartbeat if the lock was taken, unless the reader keeps the  *)
(* lock, or readers and calls of the accelerator keep coming, for ever     *)
(* (swi_7port.c:1190-1204, 2274-2282).                                     *)
GivenUp(b) == b \in listed /\ \A h \in Handles : hwSession[h] # b
RemovalHappens ==
    \A b \in Blocks :
        <>[](~HoldsPa("show") /\ ~HoldsPa("pa")) => (GivenUp(b) ~> ~GivenUp(b))

(* "mark this one as to be removed and let our heart beat func clean it    *)
(* up" (swi_7port.c:2275-2276): a marked session is freed, unless readers  *)
(* and calls of the accelerator keep coming for ever.                      *)
DeferredRemovalHappens ==
    \A b \in Blocks :
        <>[](pc["show"] \notin {"visit", "print"} /\ ~HoldsPa("pa"))
            => (b \in removed ~> b \notin removed)
=============================================================================
