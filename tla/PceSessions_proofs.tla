-------------------------- MODULE PceSessions_proofs --------------------------
(***************************************************************************)
(* Proofs about PceSessions, for every set of sessions, blocks, slots and  *)
(* counters, with failing rule writes and with signals.  One inductive     *)
(* invariant in four parts: LockInv, who is inside which semaphore;        *)
(* BlockInv, what the block a thread works on is to the list; ListInv, the *)
(* list, the pointers to it and the marks; TableInv, rules and counters.   *)
(***************************************************************************)
EXTENDS PceSessions, TLAPS

SwHolds(t) ==
    \/ t = "stats" /\ pc[t] = "read"
    \/ t = "show" /\ pc[t] = "print"
    \/ t = "rmon" /\ pc[t] # "idle"

(* The steps each thread can be at, and the two semaphores.                *)
LockInv ==
    /\ pc["pa"] \in {"idle", "create", "set", "mark", "delete", "free"}
    /\ pc["stats"] \in {"idle", "lock", "read", "report"}
    /\ pc["beat"] \in {"idle", "visit", "delete", "free"}
    /\ pc["show"] \in {"idle", "visit", "print", "gone"}
    /\ pc["rmon"] \in {"idle", "read"}
    /\ PaLockExclusive
    /\ \A t, u \in Threads : SwHolds(t) /\ SwHolds(u) => t = u
    /\ swSem > 0 => \A t \in Threads : ~SwHolds(t)

(* What each thread's block is to the list, at each of its steps.          *)
BlockInv ==
    /\ pc["pa"] = "idle" => block["pa"] = NoBlock
    /\ pc["pa"] \in {"create", "set"} =>
          block["pa"] \in allocated \ (listed \cup removed) /\ handle \in Handles
          /\ hwSession[handle] = NoBlock
    /\ pc["pa"] = "create" => counter[block["pa"]] = None
    /\ pc["pa"] \in {"mark", "delete"} =>
          block["pa"] \in listed \ removed /\ \A h \in Handles : hwSession[h] # block["pa"]
    /\ pc["pa"] = "free" => block["pa"] \in allocated \ listed
    /\ pc["beat"] \in {"idle", "visit"} => block["beat"] = NoBlock
    /\ pc["beat"] = "delete" => block["beat"] \in (listed \cap removed) \ left["beat"]
    /\ pc["beat"] = "free" => block["beat"] \in allocated \ listed
    /\ pc["show"] \in {"idle", "visit", "gone"} => block["show"] = NoBlock
    /\ pc["show"] = "print" => block["show"] \in listed
    /\ block["rmon"] = NoBlock

(* The list, what is left of it to visit, the pointers into it and marks.  *)
ListInv ==
    /\ listed \subseteq allocated /\ removed \subseteq allocated
    /\ left["pa"] = {} /\ left["stats"] = {} /\ left["rmon"] = {}
    /\ left["beat"] \subseteq listed /\ left["show"] \subseteq listed
    /\ pc["beat"] = "idle" => left["beat"] = {}
    /\ pc["show"] \in {"idle", "gone"} => left["show"] = {}
    /\ HwSessionIsLive

(* Every counter and, on the list, every rule of a block is marked; two    *)
(* blocks have none in common; a block that is free has none.              *)
TableInv ==
    /\ FixedSlots \subseteq slotUsed /\ FixedCounters \subseteq taken
    /\ \A b \in allocated : counter[b] # None => counter[b] \in taken
    /\ \A b \in listed : rules[b] \subseteq slotUsed
    /\ \A b \in allocated \ listed :
          rules[b] # {} => \E t \in {"pa", "beat"} : pc[t] = "free" /\ block[t] = b
    /\ \A b \in Blocks \ allocated : rules[b] = {} /\ counter[b] = None
    /\ NoSharing

IInv == TypeOK /\ LockInv /\ BlockInv /\ ListInv /\ TableInv

(***************************************************************************)
(* Every step preserves each part.                                         *)
(***************************************************************************)
(* Every step keeps every variable in its type; the semaphores never count *)
(* beyond 1, because only who is inside gives them back.                   *)
LEMMA TypeStep == TypeOK /\ LockInv /\ BlockInv /\ [Next]_vars => TypeOK'
  <1> SUFFICES ASSUME TypeOK, LockInv, BlockInv, [Next]_vars PROVE TypeOK'
    OBVIOUS
  <1> USE DEF TypeOK, LockInv, BlockInv, PaLockExclusive, HoldsPa, SwHolds,
              Steps, Threads, None, semVars, tableVars, listVars, ramVars
  <1>1. ASSUME NEW h \in Handles, AddSession(h) PROVE TypeOK'
    BY <1>1 DEF AddSession, At, Go, WorkOn
  <1>2. CASE CreateRules
    BY <1>2 DEF CreateRules, At, Go, ReadCounter, FirstFree
  <1>3. CASE SetRules
    BY <1>3 DEF SetRules, At, Go, WorkOn, FirstFree
  <1>4. CASE AddFails
    BY <1>4 DEF AddFails, At, Go, WorkOn, Cleared, FirstFree, MayStick
  <1>5. ASSUME NEW h \in Handles, RemoveSession(h) PROVE TypeOK'
    BY <1>5 DEF RemoveSession, At, Go, WorkOn
  <1>6. CASE MarkRemoved
    BY <1>6 DEF MarkRemoved, At, Go, WorkOn
  <1>7. ASSUME NEW t \in {"pa", "beat"}, Delete(t) PROVE TypeOK'
    BY <1>7 DEF Delete, At, Go, ReadCounterOf, ReadCounter, DeleteRule, MayStick
  <1>8. ASSUME NEW t \in {"pa", "beat"}, Free(t) PROVE TypeOK'
    BY <1>8 DEF Free, At, Go, WorkOn, Cleared
  <1>9. ASSUME NEW h \in Handles, StatsBegin(h) PROVE TypeOK'
    BY <1>9 DEF StatsBegin, At, Go, WorkOn
  <1>10. CASE StatsLock
    BY <1>10 DEF StatsLock, At, Go, ReadCounterOf, ReadGarbage, ReadCounter
  <1>11. ASSUME NEW t \in Threads, BmAccess(t) PROVE TypeOK'
    BY <1>11 DEF BmAccess
  <1>12. CASE BeatLock
    BY <1>12 DEF BeatLock, At, Go
  <1>13. ASSUME NEW b \in Blocks, BeatVisit(b) PROVE TypeOK'
    BY <1>13 DEF BeatVisit, At, Go, WorkOn
  <1>14. CASE BeatUnlock
    BY <1>14 DEF BeatUnlock, At, Go
  <1>15. CASE ShowLock
    BY <1>15 DEF ShowLock, At, Go
  <1>16. ASSUME NEW b \in Blocks, ShowCounter(b) PROVE TypeOK'
    BY <1>16 DEF ShowCounter, At, Go, WorkOn, ReadCounterOf, ReadCounter
  <1>17. CASE ShowPrint
    BY <1>17 DEF ShowPrint, At, Go, WorkOn
  <1>18. CASE ShowInterrupted
    BY <1>18 DEF ShowInterrupted, At, Go
  <1>19. CASE ShowUnlock
    BY <1>19 DEF ShowUnlock, At, Go
  <1>20. CASE RmonLock
    BY <1>20 DEF RmonLock, At, Go, ReadCounter
  <1>21. CASE RmonUnlock
    BY <1>21 DEF RmonUnlock, At, Go
  <1>22. CASE UNCHANGED vars
    BY <1>22 DEF vars, ramVars
  <1>23. CASE StatsBusy \/ StatsUnlock \/ StatsReport
    BY <1>23 DEF StatsBusy, StatsUnlock, StatsReport, At, Go, WorkOn
  <1> QED BY <1>1, <1>2, <1>3, <1>4, <1>5, <1>6, <1>7, <1>8, <1>9, <1>10, <1>11,
           <1>12, <1>13, <1>14, <1>15, <1>16, <1>17, <1>18, <1>19, <1>20, <1>21, <1>22, <1>23
           DEF Next, Accelerator, AcceleratorStep, Stats, StatsStep, Heartbeat, ShowStep

(* Every step leaves at most one thread inside each semaphore.             *)
LEMMA LockStep == TypeOK /\ LockInv /\ [Next]_vars => LockInv'
  <1> SUFFICES ASSUME TypeOK, LockInv, [Next]_vars PROVE LockInv'
    OBVIOUS
  <1> USE DEF TypeOK, LockInv, PaLockExclusive, HoldsPa, SwHolds, Steps,
              Threads, semVars, tableVars, listVars, ramVars
  <1>1. ASSUME NEW h \in Handles, AddSession(h) PROVE LockInv'
    BY <1>1 DEF AddSession, At, Go, WorkOn
  <1>2. CASE CreateRules
    BY <1>2 DEF CreateRules, At, Go, ReadCounter, FirstFree
  <1>3. CASE SetRules
    BY <1>3 DEF SetRules, At, Go, WorkOn, FirstFree
  <1>4. CASE AddFails
    BY <1>4 DEF AddFails, At, Go, WorkOn, Cleared, FirstFree, MayStick
  <1>5. ASSUME NEW h \in Handles, RemoveSession(h) PROVE LockInv'
    BY <1>5 DEF RemoveSession, At, Go, WorkOn
  <1>6. CASE MarkRemoved
    BY <1>6 DEF MarkRemoved, At, Go, WorkOn
  <1>7. ASSUME NEW t \in {"pa", "beat"}, Delete(t) PROVE LockInv'
    BY <1>7 DEF Delete, At, Go, ReadCounterOf, ReadCounter, DeleteRule, MayStick
  <1>8. ASSUME NEW t \in {"pa", "beat"}, Free(t) PROVE LockInv'
    BY <1>8 DEF Free, At, Go, WorkOn, Cleared
  <1>9. ASSUME NEW h \in Handles, StatsBegin(h) PROVE LockInv'
    BY <1>9 DEF StatsBegin, At, Go, WorkOn
  <1>10. CASE StatsLock
    BY <1>10 DEF StatsLock, At, Go, ReadCounterOf, ReadGarbage, ReadCounter
  <1>11. ASSUME NEW t \in Threads, BmAccess(t) PROVE LockInv'
    BY <1>11 DEF BmAccess
  <1>12. CASE BeatLock
    BY <1>12 DEF BeatLock, At, Go
  <1>13. ASSUME NEW b \in Blocks, BeatVisit(b) PROVE LockInv'
    BY <1>13 DEF BeatVisit, At, Go, WorkOn
  <1>14. CASE BeatUnlock
    BY <1>14 DEF BeatUnlock, At, Go
  <1>15. CASE ShowLock
    BY <1>15 DEF ShowLock, At, Go
  <1>16. ASSUME NEW b \in Blocks, ShowCounter(b) PROVE LockInv'
    BY <1>16 DEF ShowCounter, At, Go, WorkOn, ReadCounterOf, ReadCounter
  <1>17. CASE ShowPrint
    BY <1>17 DEF ShowPrint, At, Go, WorkOn
  <1>18. CASE ShowInterrupted
    BY <1>18 DEF ShowInterrupted, At, Go
  <1>19. CASE ShowUnlock
    BY <1>19 DEF ShowUnlock, At, Go
  <1>20. CASE RmonLock
    BY <1>20 DEF RmonLock, At, Go, ReadCounter
  <1>21. CASE RmonUnlock
    BY <1>21 DEF RmonUnlock, At, Go
  <1>22. CASE UNCHANGED vars
    BY <1>22 DEF vars, ramVars
  <1>23. CASE StatsBusy \/ StatsUnlock \/ StatsReport
    BY <1>23 DEF StatsBusy, StatsUnlock, StatsReport, At, Go, WorkOn
  <1> QED BY <1>1, <1>2, <1>3, <1>4, <1>5, <1>6, <1>7, <1>8, <1>9, <1>10, <1>11,
           <1>12, <1>13, <1>14, <1>15, <1>16, <1>17, <1>18, <1>19, <1>20, <1>21, <1>22, <1>23
           DEF Next, Accelerator, AcceleratorStep, Stats, StatsStep, Heartbeat, ShowStep

(* Every step leaves each thread with a block that is where its step needs *)
(* it.                                                                     *)
LEMMA BlockStep ==
  TypeOK /\ LockInv /\ ListInv /\ TableInv /\ BlockInv /\ [Next]_vars => BlockInv'
  <1> SUFFICES ASSUME TypeOK, LockInv, ListInv, TableInv, BlockInv, [Next]_vars
               PROVE  BlockInv'
    OBVIOUS
  <1> USE DEF TypeOK, LockInv, BlockInv, ListInv, HwSessionIsLive,
              PaLockExclusive, HoldsPa, Threads, semVars, tableVars, listVars, ramVars
  <1>1. ASSUME NEW h \in Handles, AddSession(h) PROVE BlockInv'
    <2>1. \A b \in Blocks \ allocated : counter[b] = None
      BY DEF TableInv
    <2> QED BY <1>1, <2>1 DEF AddSession, At, Go, WorkOn
  <1>2. CASE CreateRules
    BY <1>2 DEF CreateRules, At, Go, ReadCounter, FirstFree
  <1>3. CASE SetRules
    BY <1>3 DEF SetRules, At, Go, WorkOn, FirstFree
  <1>4. CASE AddFails
    BY <1>4 DEF AddFails, At, Go, WorkOn, Cleared, FirstFree, MayStick
  <1>5. ASSUME NEW h \in Handles, RemoveSession(h) PROVE BlockInv'
    BY <1>5 DEF RemoveSession, At, Go, WorkOn
  <1>6. CASE MarkRemoved
    BY <1>6 DEF MarkRemoved, At, Go, WorkOn
  <1>7. ASSUME NEW t \in {"pa", "beat"}, Delete(t) PROVE BlockInv'
    BY <1>7 DEF Delete, At, Go, ReadCounterOf, ReadCounter, DeleteRule, MayStick
  <1>8. ASSUME NEW t \in {"pa", "beat"}, Free(t) PROVE BlockInv'
    BY <1>8 DEF Free, At, Go, WorkOn, Cleared
  <1>9. ASSUME NEW h \in Handles, StatsBegin(h) PROVE BlockInv'
    BY <1>9 DEF StatsBegin, At, Go, WorkOn
  <1>10. CASE StatsLock
    BY <1>10 DEF StatsLock, At, Go, ReadCounterOf, ReadGarbage, ReadCounter
  <1>11. ASSUME NEW t \in Threads, BmAccess(t) PROVE BlockInv'
    BY <1>11 DEF BmAccess
  <1>12. CASE BeatLock
    BY <1>12 DEF BeatLock, At, Go
  <1>13. ASSUME NEW b \in Blocks, BeatVisit(b) PROVE BlockInv'
    BY <1>13 DEF BeatVisit, At, Go, WorkOn
  <1>14. CASE BeatUnlock
    BY <1>14 DEF BeatUnlock, At, Go
  <1>15. CASE ShowLock
    BY <1>15 DEF ShowLock, At, Go
  <1>16. ASSUME NEW b \in Blocks, ShowCounter(b) PROVE BlockInv'
    BY <1>16 DEF ShowCounter, At, Go, WorkOn, ReadCounterOf, ReadCounter
  <1>17. CASE ShowPrint
    BY <1>17 DEF ShowPrint, At, Go, WorkOn
  <1>18. CASE ShowInterrupted
    BY <1>18 DEF ShowInterrupted, At, Go
  <1>19. CASE ShowUnlock
    BY <1>19 DEF ShowUnlock, At, Go
  <1>20. CASE RmonLock
    BY <1>20 DEF RmonLock, At, Go, ReadCounter
  <1>21. CASE RmonUnlock
    BY <1>21 DEF RmonUnlock, At, Go
  <1>22. CASE UNCHANGED vars
    BY <1>22 DEF vars, ramVars
  <1>23. CASE StatsBusy \/ StatsUnlock \/ StatsReport
    BY <1>23 DEF StatsBusy, StatsUnlock, StatsReport, At, Go, WorkOn
  <1> QED BY <1>1, <1>2, <1>3, <1>4, <1>5, <1>6, <1>7, <1>8, <1>9, <1>10, <1>11,
           <1>12, <1>13, <1>14, <1>15, <1>16, <1>17, <1>18, <1>19, <1>20, <1>21, <1>22, <1>23
           DEF Next, Accelerator, AcceleratorStep, Stats, StatsStep, Heartbeat, ShowStep

(* Every step keeps the list, the marks and the pointers to it in order.   *)
LEMMA ListStep ==
  TypeOK /\ LockInv /\ BlockInv /\ ListInv /\ [Next]_vars => ListInv'
  <1> SUFFICES ASSUME TypeOK, LockInv, BlockInv, ListInv, [Next]_vars
               PROVE  ListInv'
    OBVIOUS
  <1> USE DEF TypeOK, LockInv, BlockInv, ListInv, HwSessionIsLive,
              PaLockExclusive, HoldsPa, Threads, semVars, tableVars, listVars, ramVars
  <1>1. ASSUME NEW h \in Handles, AddSession(h) PROVE ListInv'
    BY <1>1 DEF AddSession, At, Go, WorkOn
  <1>2. CASE CreateRules
    BY <1>2 DEF CreateRules, At, Go, ReadCounter, FirstFree
  <1>3. CASE SetRules
    BY <1>3 DEF SetRules, At, Go, WorkOn, FirstFree
  <1>4. CASE AddFails
    BY <1>4 DEF AddFails, At, Go, WorkOn, Cleared, FirstFree, MayStick
  <1>5. ASSUME NEW h \in Handles, RemoveSession(h) PROVE ListInv'
    BY <1>5 DEF RemoveSession, At, Go, WorkOn
  <1>6. CASE MarkRemoved
    BY <1>6 DEF MarkRemoved, At, Go, WorkOn
  <1>7. ASSUME NEW t \in {"pa", "beat"}, Delete(t) PROVE ListInv'
    BY <1>7 DEF Delete, At, Go, ReadCounterOf, ReadCounter, DeleteRule, MayStick
  <1>8. ASSUME NEW t \in {"pa", "beat"}, Free(t) PROVE ListInv'
    BY <1>8 DEF Free, At, Go, WorkOn, Cleared
  <1>9. ASSUME NEW h \in Handles, StatsBegin(h) PROVE ListInv'
    BY <1>9 DEF StatsBegin, At, Go, WorkOn
  <1>10. CASE StatsLock
    BY <1>10 DEF StatsLock, At, Go, ReadCounterOf, ReadGarbage, ReadCounter
  <1>11. ASSUME NEW t \in Threads, BmAccess(t) PROVE ListInv'
    BY <1>11 DEF BmAccess
  <1>12. CASE BeatLock
    BY <1>12 DEF BeatLock, At, Go
  <1>13. ASSUME NEW b \in Blocks, BeatVisit(b) PROVE ListInv'
    BY <1>13 DEF BeatVisit, At, Go, WorkOn
  <1>14. CASE BeatUnlock
    BY <1>14 DEF BeatUnlock, At, Go
  <1>15. CASE ShowLock
    BY <1>15 DEF ShowLock, At, Go
  <1>16. ASSUME NEW b \in Blocks, ShowCounter(b) PROVE ListInv'
    BY <1>16 DEF ShowCounter, At, Go, WorkOn, ReadCounterOf, ReadCounter
  <1>17. CASE ShowPrint
    BY <1>17 DEF ShowPrint, At, Go, WorkOn
  <1>18. CASE ShowInterrupted
    BY <1>18 DEF ShowInterrupted, At, Go
  <1>19. CASE ShowUnlock
    BY <1>19 DEF ShowUnlock, At, Go
  <1>20. CASE RmonLock
    BY <1>20 DEF RmonLock, At, Go, ReadCounter
  <1>21. CASE RmonUnlock
    BY <1>21 DEF RmonUnlock, At, Go
  <1>22. CASE UNCHANGED vars
    BY <1>22 DEF vars, ramVars
  <1>23. CASE StatsBusy \/ StatsUnlock \/ StatsReport
    BY <1>23 DEF StatsBusy, StatsUnlock, StatsReport, At, Go, WorkOn
  <1> QED BY <1>1, <1>2, <1>3, <1>4, <1>5, <1>6, <1>7, <1>8, <1>9, <1>10, <1>11,
           <1>12, <1>13, <1>14, <1>15, <1>16, <1>17, <1>18, <1>19, <1>20, <1>21, <1>22, <1>23
           DEF Next, Accelerator, AcceleratorStep, Stats, StatsStep, Heartbeat, ShowStep

(* Every step keeps the tables of rules and counters right.                *)
LEMMA TableStep ==
  TypeOK /\ LockInv /\ BlockInv /\ ListInv /\ TableInv /\ [Next]_vars => TableInv'
  <1> SUFFICES ASSUME TypeOK, LockInv, BlockInv, ListInv, TableInv, [Next]_vars
               PROVE  TableInv'
    OBVIOUS
  <1> USE DEF TypeOK, LockInv, BlockInv, ListInv, TableInv, NoSharing,
              PaLockExclusive, HoldsPa, Threads, None, semVars, tableVars, listVars, ramVars
  <1>1. ASSUME NEW h \in Handles, AddSession(h) PROVE TableInv'
    <2>1. PICK new \in Blocks \ allocated : allocated' = allocated \cup {new}
      BY <1>1 DEF AddSession
    <2>2. rules[new] = {} /\ counter[new] = None
      OBVIOUS
    <2>3. UNCHANGED <<rules, counter, slotUsed, taken, listed>> /\ pc["pa"] = "idle" /\ pc'["beat"] = pc["beat"]
          /\ block'["beat"] = block["beat"]
      BY <1>1 DEF AddSession, At, Go, WorkOn
    <2>4. None \notin FixedSlots \cup FixedCounters
      BY BlocksAssumption, TablesAssumption
    <2>5. rules' = rules /\ counter' = counter
      BY <2>3
    <2>6. NoSharing'
      <3> SUFFICES ASSUME NEW a \in allocated'
                   PROVE  /\ rules[a] \cap FixedSlots = {} /\ counter[a] \notin FixedCounters
                          /\ \A b \in allocated' \ {a} :
                                /\ rules[a] \cap rules[b] = {}
                                /\ counter[a] # None => counter[a] # counter[b]
        BY <2>5
      <3> QED BY <2>1, <2>2, <2>4
    <2>7. ASSUME NEW b \in allocated' \ listed', rules[b] # {}
          PROVE  pc'["beat"] = "free" /\ block'["beat"] = b
      BY <2>1, <2>2, <2>3, <2>7
    <2>8. /\ FixedSlots \subseteq slotUsed' /\ FixedCounters \subseteq taken'
          /\ \A b \in listed' : rules'[b] \subseteq slotUsed'
          /\ \A b \in allocated' : counter'[b] # None => counter'[b] \in taken'
          /\ \A b \in Blocks \ allocated' : rules'[b] = {} /\ counter'[b] = None
      BY <2>1, <2>2, <2>3
    <2>9. \A b \in (allocated \ listed)' :
             rules'[b] # {} => \E t \in {"pa", "beat"} : pc'[t] = "free" /\ block'[t] = b
      BY <2>5, <2>7
    <2> QED BY <2>6, <2>8, <2>9
  <1>2. CASE CreateRules
    BY <1>2 DEF CreateRules, At, Go, ReadCounter, FirstFree
  <1>3. CASE SetRules
    BY <1>3 DEF SetRules, At, Go, WorkOn, FirstFree
  <1>4. CASE AddFails
    BY <1>4 DEF AddFails, At, Go, WorkOn, Cleared, FirstFree, MayStick
  <1>5. ASSUME NEW h \in Handles, RemoveSession(h) PROVE TableInv'
    BY <1>5 DEF RemoveSession, At, Go, WorkOn
  <1>6. CASE MarkRemoved
    BY <1>6 DEF MarkRemoved, At, Go, WorkOn
  <1>7. ASSUME NEW t \in {"pa", "beat"}, Delete(t) PROVE TableInv'
    <2>1. /\ listed' = listed \ {block[t]} /\ block[t] \in listed
          /\ pc'[t] = "free" /\ pc[t] = "delete"
          /\ UNCHANGED <<rules, counter, taken, allocated, block>>
      BY <1>7 DEF Delete, At, Go
    <2>2. slotUsed \ rules[block[t]] \subseteq slotUsed'
      BY <1>7 DEF Delete, DeleteRule, MayStick
    <2>3. \A b \in listed' : rules'[b] \subseteq slotUsed'
      <3> SUFFICES ASSUME NEW b \in listed, b # block[t]
                   PROVE  rules[b] \subseteq slotUsed'
        BY <2>1
      <3>1. rules[b] \subseteq slotUsed /\ rules[b] \cap rules[block[t]] = {}
        BY <2>1
      <3> QED BY <2>2, <3>1
    <2>4. FixedSlots \subseteq slotUsed'
      <3>1. rules[block[t]] \cap FixedSlots = {}
        BY <2>1
      <3> QED BY <2>2, <3>1
    <2>5. \A b \in (allocated \ listed)' :
             rules'[b] # {} => \E u \in {"pa", "beat"} : pc'[u] = "free" /\ block'[u] = b
      <3> SUFFICES ASSUME NEW b \in allocated, b \notin listed', rules[b] # {}
                   PROVE  \E u \in {"pa", "beat"} : pc'[u] = "free" /\ block[u] = b
        BY <2>1
      <3>1. CASE b = block[t]
        BY <2>1, <3>1
      <3>2. CASE b # block[t]
        <4>1. PICK u \in {"pa", "beat"} : pc[u] = "free" /\ block[u] = b
          BY <2>1, <3>2
        <4> QED BY <2>1, <4>1
      <3> QED BY <3>1, <3>2
    <2> QED BY <2>1, <2>3, <2>4, <2>5
  <1>8. ASSUME NEW t \in {"pa", "beat"}, Free(t) PROVE TableInv'
    BY <1>8 DEF Free, At, Go, WorkOn, Cleared
  <1>9. ASSUME NEW h \in Handles, StatsBegin(h) PROVE TableInv'
    BY <1>9 DEF StatsBegin, At, Go, WorkOn
  <1>10. CASE StatsLock
    BY <1>10 DEF StatsLock, At, Go, ReadCounterOf, ReadGarbage, ReadCounter
  <1>11. ASSUME NEW t \in Threads, BmAccess(t) PROVE TableInv'
    BY <1>11 DEF BmAccess
  <1>12. CASE BeatLock
    BY <1>12 DEF BeatLock, At, Go
  <1>13. ASSUME NEW b \in Blocks, BeatVisit(b) PROVE TableInv'
    BY <1>13 DEF BeatVisit, At, Go, WorkOn
  <1>14. CASE BeatUnlock
    BY <1>14 DEF BeatUnlock, At, Go
  <1>15. CASE ShowLock
    BY <1>15 DEF ShowLock, At, Go
  <1>16. ASSUME NEW b \in Blocks, ShowCounter(b) PROVE TableInv'
    BY <1>16 DEF ShowCounter, At, Go, WorkOn, ReadCounterOf, ReadCounter
  <1>17. CASE ShowPrint
    BY <1>17 DEF ShowPrint, At, Go, WorkOn
  <1>18. CASE ShowInterrupted
    BY <1>18 DEF ShowInterrupted, At, Go
  <1>19. CASE ShowUnlock
    BY <1>19 DEF ShowUnlock, At, Go
  <1>20. CASE RmonLock
    BY <1>20 DEF RmonLock, At, Go, ReadCounter
  <1>21. CASE RmonUnlock
    BY <1>21 DEF RmonUnlock, At, Go
  <1>22. CASE UNCHANGED vars
    BY <1>22 DEF vars, ramVars
  <1>23. CASE StatsBusy \/ StatsUnlock \/ StatsReport
    BY <1>23 DEF StatsBusy, StatsUnlock, StatsReport, At, Go, WorkOn
  <1> QED BY <1>1, <1>2, <1>3, <1>4, <1>5, <1>6, <1>7, <1>8, <1>9, <1>10, <1>11,
           <1>12, <1>13, <1>14, <1>15, <1>16, <1>17, <1>18, <1>19, <1>20, <1>21, <1>22, <1>23
           DEF Next, Accelerator, AcceleratorStep, Stats, StatsStep, Heartbeat, ShowStep

(* Before the first call nobody is inside a semaphore, no block is in use  *)
(* and only the rules and counters of the start are marked.                *)
LEMMA InitInv == Init => IInv
  <1> SUFFICES ASSUME Init PROVE IInv
    OBVIOUS
  <1> USE DEF Init, None, Threads, Steps
  <1>1. TypeOK
    BY TablesAssumption, BlocksAssumption DEF TypeOK
  <1>2. LockInv
    BY DEF LockInv, PaLockExclusive, HoldsPa, SwHolds
  <1>3. BlockInv
    BY DEF BlockInv
  <1>4. ListInv
    BY DEF ListInv, HwSessionIsLive
  <1>5. TableInv
    BY DEF TableInv, NoSharing
  <1> QED BY <1>1, <1>2, <1>3, <1>4, <1>5 DEF IInv

LEMMA Invariance == Spec => []IInv
  <1>1. IInv /\ [Next]_vars => IInv'
    BY TypeStep, LockStep, BlockStep, ListStep, TableStep DEF IInv
  <1> QED BY InitInv, <1>1, PTL DEF Spec

(* A session on the list has one rule, and the slots marked are those of   *)
(* the sessions on the list and those that failing calls left behind.      *)
RulesInv ==
    /\ RulesMatchSessions
    /\ \A b \in listed : \E i \in Slots : rules[b] = {i}

(* Every step keeps it so.  What a removal deletes is no other session's,  *)
(* by NoSharing, and none that a failing call left behind.                 *)
LEMMA RulesStep == IInv /\ RulesInv /\ [Next]_vars => RulesInv'
  <1> SUFFICES ASSUME IInv, RulesInv, [Next]_vars PROVE RulesInv'
    OBVIOUS
  <1> USE DEF RulesInv, RulesMatchSessions
  <1>1. ASSUME UNCHANGED <<rules, slotUsed, stuck, listed>> PROVE RulesInv'
    BY <1>1
  <1>2. CASE SetRules
    <2>1. PICK i \in Slots \ slotUsed :
             slotUsed' = slotUsed \cup {i} /\ rules' = [rules EXCEPT ![block["pa"]] = {i}]
      BY <1>2 DEF SetRules, FirstFree
    <2>2. /\ listed' = listed \cup {block["pa"]} /\ block["pa"] \in Blocks \ listed
          /\ stuck' = stuck
      BY <1>2 DEF SetRules, At, IInv, TypeOK, BlockInv
    <2>3. rules'[block["pa"]] = {i} /\ \A b \in listed : rules'[b] = rules[b]
      BY <2>1, <2>2 DEF IInv, TypeOK
    <2> QED BY <2>1, <2>2, <2>3
  <1>3. CASE AddFails
    <2>1. listed' = listed /\ block["pa"] \in Blocks \ listed
      BY <1>3 DEF AddFails, At, IInv, TypeOK, BlockInv
    <2>2. \A b \in listed : rules'[b] = rules[b]
      BY <1>3, <2>1 DEF AddFails, Cleared, IInv, TypeOK
    <2>3. CASE UNCHANGED <<slotUsed, stuck>>
      BY <2>1, <2>2, <2>3
    <2>4. CASE \E i \in Slots : FirstFree(i, Slots, slotUsed) /\ MayStick(i)
      <3>1. PICK i \in Slots \ slotUsed : MayStick(i)
        BY <2>4 DEF FirstFree
      <3>2. \A b \in listed : i \notin rules[b]
        BY <3>1
      <3> QED BY <2>1, <2>2, <3>1, <3>2 DEF MayStick
    <2> QED BY <1>3, <2>3, <2>4 DEF AddFails
  <1>4. ASSUME NEW t \in {"pa", "beat"}, Delete(t) PROVE RulesInv'
    <2>1. /\ block[t] \in listed /\ listed' = listed \ {block[t]} /\ rules' = rules
          /\ DeleteRule(block[t])
      BY <1>4 DEF Delete, At, IInv, BlockInv
    <2>2. PICK i \in Slots : rules[block[t]] = {i}
      BY <2>1
    <2>3. i \notin FixedSlots \cup stuck /\ \A b \in listed' : i \notin rules[b]
      BY <2>1, <2>2 DEF IInv, ListInv, TableInv, NoSharing
    <2>4. \/ slotUsed' = slotUsed \ {i} /\ stuck' = stuck
          \/ slotUsed' = slotUsed \cup {i} /\ stuck' = stuck \cup {i}
      BY <2>1, <2>2 DEF DeleteRule, MayStick
    <2>5. UNION {rules[b] : b \in listed} = {i} \cup UNION {rules[b] : b \in listed'}
      BY <2>1, <2>2
    <2> QED BY <2>1, <2>3, <2>4, <2>5
  <1>5. ASSUME NEW t \in {"pa", "beat"}, Free(t) PROVE RulesInv'
    <2>1. slotUsed' = slotUsed /\ stuck' = stuck /\ listed' = listed
      BY <1>5 DEF Free
    <2>2. block[t] \in Blocks \ listed
      BY <1>5 DEF Free, At, IInv, TypeOK, BlockInv
    <2>3. \A b \in listed : rules'[b] = rules[b]
      BY <1>5, <2>2 DEF Free, Cleared, IInv, TypeOK
    <2> QED BY <2>1, <2>3
  <1>6. CASE \E h \in Handles : AddSession(h) \/ RemoveSession(h) \/ StatsBegin(h)
    <2>1. UNCHANGED <<rules, slotUsed, stuck, listed>>
      BY <1>6 DEF AddSession, RemoveSession, StatsBegin, tableVars, listVars
    <2> QED BY <1>1, <2>1
  <1>7. CASE \/ CreateRules \/ MarkRemoved \/ StatsLock \/ StatsBusy \/ StatsUnlock
             \/ StatsReport \/ \E t \in Threads : BmAccess(t)
    <2>1. UNCHANGED <<rules, slotUsed, stuck, listed>>
      BY <1>7 DEF CreateRules, MarkRemoved, StatsLock, StatsBusy, StatsUnlock, StatsReport,
                  BmAccess, tableVars, listVars
    <2> QED BY <1>1, <2>1
  <1>8. CASE BeatLock \/ BeatUnlock \/ \E b \in Blocks : BeatVisit(b)
    <2>1. UNCHANGED <<rules, slotUsed, stuck, listed>>
      BY <1>8 DEF BeatLock, BeatUnlock, BeatVisit, tableVars, listVars
    <2> QED BY <1>1, <2>1
  <1>9. CASE \/ ShowLock \/ ShowPrint \/ ShowUnlock \/ ShowInterrupted
             \/ \E b \in Blocks : ShowCounter(b)
    <2>1. UNCHANGED <<rules, slotUsed, stuck, listed>>
      BY <1>9 DEF ShowLock, ShowPrint, ShowUnlock, ShowInterrupted, ShowCounter,
                  tableVars, listVars
    <2> QED BY <1>1, <2>1
  <1>10. CASE RmonLock \/ RmonUnlock \/ UNCHANGED vars
    <2>1. UNCHANGED <<rules, slotUsed, stuck, listed>>
      BY <1>10 DEF RmonLock, RmonUnlock, vars, tableVars, listVars
    <2> QED BY <1>1, <2>1
  <1> QED BY <1>2, <1>3, <1>4, <1>5, <1>6, <1>7, <1>8, <1>9, <1>10
          DEF Next, Accelerator, AcceleratorStep, Stats, StatsStep, Heartbeat, ShowStep, Threads

(***************************************************************************)
(* The theorems.                                                           *)
(***************************************************************************)
(* Every variable keeps its type; neither semaphore counts beyond 1.       *)
THEOREM SessionTypes == Spec => []TypeOK
  <1>1. IInv => TypeOK
    BY DEF IInv
  <1> QED BY Invariance, <1>1, PTL

(* swi_pa_mutex excludes accelerator, heartbeat and reader from each       *)
(* other, also when the reader is interrupted and keeps it.                *)
THEOREM PaLockIsExclusive == Spec => []PaLockExclusive
  <1>1. IInv => PaLockExclusive
    BY DEF IInv, LockInv
  <1> QED BY Invariance, <1>1, PTL

(* What the accelerator keeps of a session is on the list, not marked      *)
(* removed, and its own (swi_7port.c:2206, 2270, 2277).                    *)
THEOREM PointersStayLive == Spec => []HwSessionIsLive
  <1>1. IInv => HwSessionIsLive
    BY DEF IInv, ListInv
  <1> QED BY Invariance, <1>1, PTL

(* Whoever goes through the list or changes it never meets a session that  *)
(* was freed, although the heartbeat frees what the accelerator only       *)
(* marked, without the lock (swi_7port.c:1196, 2277, 2299, 2367).          *)
THEOREM ListUsersAreSafe == Spec => []ListUseIsLive
  <1>1. IInv => ListUseIsLive
    <2> SUFFICES ASSUME IInv, NEW t \in Threads \ {"stats"}
                 PROVE  /\ block[t] # NoBlock => block[t] \in allocated
                        /\ left[t] \subseteq listed
      BY DEF ListUseIsLive, IInv, ListInv
    <2> USE DEF IInv, LockInv, BlockInv, ListInv
    <2>1. CASE t = "pa"
      BY <2>1
    <2>2. CASE t = "beat"
      BY <2>2
    <2>3. CASE t = "show"
      BY <2>3
    <2>4. CASE t = "rmon"
      BY <2>4
    <2> QED BY <2>1, <2>2, <2>3, <2>4 DEF Threads
  <1> QED BY Invariance, <1>1, PTL

(* No two sessions share a rule or a counter, and none has one of those    *)
(* set up at start, whatever calls fail half-way.                          *)
THEOREM RulesAreNotShared == Spec => []NoSharing
  <1>1. IInv => NoSharing
    BY DEF IInv, TableInv
  <1> QED BY Invariance, <1>1, PTL

(* The slots marked are those of the sessions on the list and those that   *)
(* failing calls left behind: no call and no clean-up loses a slot in any  *)
(* other way, and a removal gives back no more than its own                *)
(* (swi_7port.c:1809-1829, 2229-2233).                                     *)
THEOREM RulesAreReturned == Spec => []RulesMatchSessions
  <1>1. Init => RulesInv
    BY DEF Init, RulesInv, RulesMatchSessions
  <1>2. RulesInv => RulesMatchSessions
    BY DEF RulesInv
  <1> QED BY Invariance, <1>1, RulesStep, <1>2, PTL DEF Spec

(***************************************************************************)
(* What the accelerator is promised.                                       *)
(***************************************************************************)
(* A step that leaves pointers, list and what is on the list alone is none *)
(* of the store's.                                                         *)
LEMMA StoreKeeps ==
    ASSUME UNCHANGED <<hwSession, listed>>,
           \A b \in listed : rules'[b] = rules[b] /\ counter'[b] = counter[b]
    PROVE  UNCHANGED Store!storeVars
  <1>1. [b \in listed' |-> [rules |-> rules'[b], counter |-> counter'[b]]]
        = [b \in listed |-> [rules |-> rules[b], counter |-> counter[b]]]
    OBVIOUS
  <1> QED BY <1>1 DEF Store!storeVars

(* The end of an add that succeeds: rules from free slots, a counter that  *)
(* was marked when the call took it, none of them another session's.       *)
LEMMA SetRulesOffloads ==
    ASSUME IInv, SetRules
    PROVE  Store!Next
  <1>1. PICK b \in Blocks, h \in Handles :
           /\ b = block["pa"] /\ b \in allocated \ listed
           /\ h = handle /\ hwSession[h] = NoBlock
    BY DEF SetRules, At, IInv, TypeOK, BlockInv
  <1>2. PICK S \in SUBSET Slots :
           /\ S # {} /\ S \cap slotUsed = {}
           /\ rules' = [rules EXCEPT ![b] = S]
    <2>1. PICK i \in Slots \ slotUsed : rules' = [rules EXCEPT ![b] = {i}]
      BY <1>1 DEF SetRules, FirstFree
    <2>2. {i} \in SUBSET Slots /\ {i} # {} /\ {i} \cap slotUsed = {}
      OBVIOUS
    <2> QED BY <2>1, <2>2
  <1>3. /\ hwSession' = [hwSession EXCEPT ![h] = b]
        /\ listed' = listed \cup {b} /\ counter' = counter
    BY <1>1 DEF SetRules
  <1>4. PICK held \in Store!Holdings : held = [rules |-> S, counter |-> counter[b]]
    <2>1. S \in SUBSET (Slots \ FixedSlots)
      BY <1>2 DEF IInv, TableInv
    <2>2. counter[b] \in (Counters \ FixedCounters) \cup {None}
      BY <1>1 DEF IInv, TypeOK, TableInv, NoSharing
    <2> QED BY <2>1, <2>2 DEF Store!Holdings
  <1>5. \A s \in listed : /\ S \cap rules[s] = {}
                          /\ counter[b] # None => counter[b] # counter[s]
    <2>1. \A s \in listed : rules[s] \subseteq slotUsed /\ s \in allocated /\ s # b
      BY <1>1 DEF IInv, TableInv, ListInv
    <2>2. \A s \in listed : counter[b] # None => counter[b] # counter[s]
      BY <1>1, <2>1 DEF IInv, TableInv, NoSharing
    <2> QED BY <1>2, <2>1, <2>2
  <1>6. [t \in listed' |-> [rules |-> rules'[t], counter |-> counter'[t]]]
        = [t \in listed \cup {b} |-> IF t = b THEN held
                                    ELSE [rules |-> rules[t], counter |-> counter[t]]]
    <2>1. rules'[b] = S /\ \A t \in listed : rules'[t] = rules[t] /\ t # b
      BY <1>1, <1>2 DEF IInv, TypeOK
    <2> QED BY <1>3, <1>4, <2>1
  <1>7. Store!Offload(h, b, held)
    <2>1. Store!Stored = listed
      BY DEF Store!Stored
    <2>2. Store!Unshared(held)
      BY <1>4, <1>5, <2>1 DEF Store!Unshared
    <2> QED BY <1>1, <1>2, <1>3, <1>4, <1>6, <2>1, <2>2 DEF Store!Offload
  <1> QED BY <1>7 DEF Store!Next

(* Whoever cleans a session up, the accelerator has given it up.           *)
LEMMA DeleteTakesBack ==
    ASSUME IInv, NEW t \in {"pa", "beat"}, Delete(t)
    PROVE  Store!Next
  <1>1. PICK b \in Blocks : b = block[t] /\ b \in listed
    BY DEF Delete, At, IInv, TypeOK, BlockInv, ListInv
  <1>2. \A h \in Handles : hwSession[h] # b
    <2>1. CASE t = "pa"
      BY <1>1, <2>1 DEF Delete, At, IInv, BlockInv
    <2>2. CASE t = "beat"
      BY <1>1, <2>2, BlocksAssumption DEF Delete, At, IInv, BlockInv, ListInv, HwSessionIsLive
    <2> QED BY <2>1, <2>2
  <1>3. listed' = listed \ {b} /\ UNCHANGED <<rules, counter, hwSession>>
    BY <1>1 DEF Delete
  <1>4. Store!TakeBack(b)
    BY <1>1, <1>2, <1>3 DEF Store!TakeBack, Store!Stored
  <1> QED BY <1>4 DEF Store!Next

LEMMA StoreStep == IInv /\ [Next]_vars => [Store!Next]_(Store!storeVars)
  <1> SUFFICES ASSUME IInv, [Next]_vars PROVE [Store!Next]_(Store!storeVars)
    OBVIOUS
  <1>1. CASE SetRules
    BY <1>1, SetRulesOffloads
  <1>2. ASSUME NEW t \in {"pa", "beat"}, Delete(t) PROVE Store!Next
    BY <1>2, DeleteTakesBack
  <1>3. ASSUME NEW h \in Handles, RemoveSession(h) PROVE Store!Next
    <2>1. /\ hwSession[h] # NoBlock /\ hwSession' = [hwSession EXCEPT ![h] = NoBlock]
          /\ UNCHANGED <<listed, rules, counter>>
      BY <1>3 DEF RemoveSession, tableVars
    <2>2. Store!GiveUp(h)
      BY <2>1 DEF Store!GiveUp
    <2> QED BY <2>2 DEF Store!Next
  <1>4. CASE AddFails \/ CreateRules
    <2>1. block["pa"] \notin listed /\ UNCHANGED <<hwSession, listed>>
      BY <1>4 DEF AddFails, CreateRules, At, IInv, BlockInv, listVars
    <2>2. \A b \in listed : rules'[b] = rules[b] /\ counter'[b] = counter[b]
      BY <1>4, <2>1 DEF AddFails, CreateRules, Cleared, IInv, TypeOK
    <2> QED BY <2>1, <2>2, StoreKeeps
  <1>5. ASSUME NEW t \in {"pa", "beat"}, Free(t) PROVE UNCHANGED Store!storeVars
    <2>1. block[t] \notin listed /\ UNCHANGED <<hwSession, listed>>
      BY <1>5 DEF Free, At, IInv, BlockInv
    <2>2. \A b \in listed : rules'[b] = rules[b] /\ counter'[b] = counter[b]
      BY <1>5, <2>1 DEF Free, Cleared, IInv, TypeOK
    <2> QED BY <2>1, <2>2, StoreKeeps
  <1>6. CASE \/ \E h \in Handles : AddSession(h) \/ StatsBegin(h)
             \/ MarkRemoved \/ StatsLock \/ StatsBusy \/ StatsUnlock \/ StatsReport
             \/ \E t \in Threads : BmAccess(t)
    <2>1. UNCHANGED <<hwSession, listed, rules, counter>>
      BY <1>6 DEF AddSession, StatsBegin, MarkRemoved, StatsLock, StatsBusy, StatsUnlock,
                  StatsReport, BmAccess, tableVars, listVars
    <2> QED BY <2>1, StoreKeeps
  <1>7. CASE BeatLock \/ BeatUnlock \/ \E b \in Blocks : BeatVisit(b)
    <2>1. UNCHANGED <<hwSession, listed, rules, counter>>
      BY <1>7 DEF BeatLock, BeatUnlock, BeatVisit, tableVars, listVars
    <2> QED BY <2>1, StoreKeeps
  <1>8. CASE \/ ShowLock \/ ShowPrint \/ ShowUnlock \/ ShowInterrupted
             \/ \E b \in Blocks : ShowCounter(b)
    <2>1. UNCHANGED <<hwSession, listed, rules, counter>>
      BY <1>8 DEF ShowLock, ShowPrint, ShowUnlock, ShowInterrupted, ShowCounter, tableVars, listVars
    <2> QED BY <2>1, StoreKeeps
  <1>9. CASE RmonLock \/ RmonUnlock \/ UNCHANGED vars
    <2>1. UNCHANGED <<hwSession, listed, rules, counter>>
      BY <1>9 DEF RmonLock, RmonUnlock, vars, tableVars, listVars
    <2> QED BY <2>1, StoreKeeps
  <1> QED BY <1>1, <1>2, <1>3, <1>4, <1>5, <1>6, <1>7, <1>8, <1>9
          DEF Next, Accelerator, AcceleratorStep, Stats, StatsStep, Heartbeat, ShowStep, Threads

(* The switch implements the store: whatever the heartbeat, readers and    *)
(* failing calls do, a session keeps what it was given until the           *)
(* accelerator gives it up, and it is taken back once                      *)
(* (swi_7port.c:1187-1204, 2193-2206, 2264-2302).                          *)
THEOREM SwitchIsStore == Spec => ImplementsStore
  <1>1. Init => Store!Init
    <2> SUFFICES ASSUME Init PROVE Store!Init
      OBVIOUS
    <2>1. hwSession = [h \in Handles |-> NoBlock] /\ listed = {}
      BY DEF Init
    <2> QED BY <2>1 DEF Store!Init, Store!Stored
  <1> QED BY Invariance, <1>1, StoreStep, PTL DEF Spec, ImplementsStore, Store!Spec
===============================================================================
