-------------------------- MODULE SessionMux_proofs --------------------------
(***************************************************************************)
(* Proofs about SessionMux for any number of handles and any accelerators. *)
(***************************************************************************)
EXTENDS SessionMux, TLAPS

LEMMA TypeInit == Init => TypeOK
  BY NHandlesAssumption DEF Init, TypeOK, Handles

LEMMA RemoveKeepsTypes ==
  ASSUME TypeOK, NEW hs \in SUBSET Handles, NEW p \in Instances, Remove(hs, p)
  PROVE  /\ valid' \in [Handles -> Nat] /\ active' \in [Handles -> BOOLEAN]
         /\ inst' \in [Handles -> Instances \cup {None}] /\ ptr' \in [Handles -> Instances \cup {None}]
         /\ hw' \in [Instances -> SUBSET Handles]
  BY DEF TypeOK, Remove, Without, Cleared

LEMMA NextVictimIsHandle == TypeOK /\ NextVictim => victim' \in Handles /\ sweep' \in {"look", "idle"}
  BY NHandlesAssumption DEF TypeOK, NextVictim, Handles

LEMMA TypeStep == TypeOK /\ [Next]_vars => TypeOK'
  <1> SUFFICES ASSUME TypeOK, [Next]_vars PROVE TypeOK'
    OBVIOUS
  <1> USE DEF entryVars, listVars, sweepVars
  <1>1. ASSUME NEW h \in Handles, NEW p \in Instances, Add(h, p) \/ AddRefused(h, p) PROVE TypeOK'
    <2>1. hw[p] \cup {h} \in SUBSET Handles /\ valid[h] + 1 \in Nat
      BY DEF TypeOK
    <2>2. CASE Add(h, p)
      BY <2>1, <2>2 DEF Add, TypeOK
    <2>3. CASE AddRefused(h, p)
      BY <2>1, <2>3 DEF AddRefused, TypeOK
    <2> QED BY <1>1, <2>2, <2>3
  <1>2. ASSUME NEW h \in Handles, RemoveOne(h) \/ ChangeFails(h) PROVE TypeOK'
    <2>1. inst[h] \in Instances /\ Remove({h}, inst[h])
      BY <1>2 DEF RemoveOne, ChangeFails, TypeOK
    <2>2. {h} \in SUBSET Handles
      OBVIOUS
    <2>3. /\ valid' \in [Handles -> Nat] /\ active' \in [Handles -> BOOLEAN]
          /\ inst' \in [Handles -> Instances \cup {None}] /\ ptr' \in [Handles -> Instances \cup {None}]
          /\ hw' \in [Instances -> SUBSET Handles]
      BY <2>1, <2>2, RemoveKeepsTypes
    <2>4. CASE RemoveOne(h)
      BY <2>3, <2>4 DEF RemoveOne, TypeOK
    <2>5. CASE ChangeFails(h)
      BY <2>3, <2>5 DEF ChangeFails, TypeOK
    <2> QED BY <1>2, <2>4, <2>5
  <1>3. ASSUME NEW h \in Handles, RemoveRefused(h) \/ ChangeBegins(h) \/ Changed(h) PROVE TypeOK'
    BY <1>3 DEF RemoveRefused, ChangeBegins, Changed, TypeOK
  <1>4. ASSUME NEW p \in Instances, Register(p) \/ Enable(p) \/ Unregister(p) PROVE TypeOK'
    <2>1. 0 \in Handles
      BY NHandlesAssumption DEF Handles
    <2> QED BY <1>4, <2>1 DEF Register, Enable, Unregister, TypeOK
  <1>5. ASSUME NEW p \in Instances, Disable(p) PROVE TypeOK'
    <2>1. {h \in Handles : inst[h] = p /\ active[h]} \in SUBSET Handles
      OBVIOUS
    <2>2. /\ valid' \in [Handles -> Nat] /\ active' \in [Handles -> BOOLEAN]
          /\ inst' \in [Handles -> Instances \cup {None}] /\ ptr' \in [Handles -> Instances \cup {None}]
          /\ hw' \in [Instances -> SUBSET Handles]
      BY <1>5, <2>1, RemoveKeepsTypes DEF Disable
    <2> QED BY <1>5, <2>2 DEF Disable, TypeOK
  <1>6. CASE SweepLook \/ SweepTake \/ SweepRelease
    <2>1. NextVictim => victim' \in Handles /\ sweep' \in {"look", "idle"}
      BY NextVictimIsHandle
    <2>2. CASE SweepLook
      BY <2>1, <2>2 DEF SweepLook, TypeOK
    <2>3. CASE SweepTake
      BY <2>1, <2>3 DEF SweepTake, TypeOK
    <2>4. CASE SweepRelease
      BY <2>1, <2>4 DEF SweepRelease, TypeOK
    <2> QED BY <1>6, <2>2, <2>3, <2>4
  <1>7. CASE SweepRemove \/ SweepForget
    <2>1. ASSUME SweepRemove PROVE inst[victim] \in Instances /\ hw' \in [Instances -> SUBSET Handles]
      BY <2>1 DEF SweepRemove, Without, TypeOK
    <2> QED BY <1>7, <2>1 DEF SweepRemove, SweepForget, TypeOK
  <1>8. CASE UNCHANGED vars
    BY <1>8 DEF vars, TypeOK
  <1> QED BY <1>1, <1>2, <1>3, <1>4, <1>5, <1>6, <1>7, <1>8 DEF Next, SweepStep

(* The table, the lists and the sweep keep to their types.                 *)
THEOREM MuxTypeCorrect == Spec => []TypeOK
  BY TypeInit, TypeStep, PTL DEF Spec

(***************************************************************************)
(* Changes do not race a sweep.                                            *)
(***************************************************************************)
(* What holds of every handle: the sweep, a change or avm_pa has it, and   *)
(* only one of them.                                                       *)
Entry(h) ==
    /\ active[h] => h \in wanted /\ inst[h] # None /\ ptr[h] = inst[h] /\ valid[h] > 0
    /\ valid[h] > 0 => active[h] \/ changing = h \/ Swept(h)
    /\ changing = h => h \in wanted /\ ~active[h] /\ valid[h] > 0 /\ inst[h] # None /\ ptr[h] = inst[h]
    /\ Swept(h) => ~active[h] /\ valid[h] > 0
    /\ sweep = "remove" /\ victim = h => inst[h] # None /\ (h \notin reused => ptr[h] = inst[h])

InHardware(h) ==
    h \notin reused => \A p \in Instances :
        h \in hw[p] <=> inst[h] = p /\ (active[h] \/ changing = h \/ (sweep = "remove" /\ victim = h))

NotLeft(h) ==
    \A p \in Instances \ enabled :
        inst[h] = p /\ (active[h] \/ changing = h) => sweep # "idle" /\ leaver = p /\ victim <= h

Row(h) == Entry(h) /\ InHardware(h) /\ NotLeft(h)

MuxInv == TypeOK /\ (changing # None => sweep = "idle") /\ \A h \in Handles : Row(h)

LEMMA MuxInit == Init => MuxInv
  <1> SUFFICES ASSUME Init PROVE MuxInv
    OBVIOUS
  <1>1. ASSUME NEW h \in Handles PROVE Row(h)
    <2>1. /\ valid[h] = 0 /\ ~active[h] /\ changing = None /\ sweep = "idle" /\ inst[h] = None
          /\ \A p \in Instances : hw[p] = {}
      BY DEF Init
    <2> QED BY <2>1, NoneAssumption DEF Row, Entry, InHardware, NotLeft, Swept
  <1> QED BY <1>1, TypeInit DEF MuxInv, Init

(* The sweep leaves a handle behind only when its entry needs no sweep.    *)
LEMMA NextVictimMoves ==
  ASSUME TypeOK, NextVictim, NEW h \in Handles
  PROVE  /\ sweep' \in {"look", "idle"}
         /\ victim <= h /\ h # victim => sweep' = "look" /\ victim' <= h
  BY NHandlesAssumption DEF TypeOK, NextVictim, Handles

LEMMA MuxStep == ASSUME ~ChangeRaces PROVE MuxInv /\ [Next]_vars => MuxInv'
  <1> SUFFICES ASSUME MuxInv, [Next]_vars
               PROVE  (changing # None => sweep = "idle")' /\ \A g \in Handles : Row(g)'
    BY TypeStep DEF MuxInv
  <1>0. /\ TypeOK /\ TypeOK'
        /\ changing # None => sweep = "idle"
        /\ \A g \in Handles : Row(g)
        /\ None \notin Handles
    BY TypeStep, NoneAssumption DEF MuxInv
  <1>a. /\ active \in [Handles -> BOOLEAN] /\ valid \in [Handles -> Nat]
        /\ inst \in [Handles -> Instances \cup {None}] /\ ptr \in [Handles -> Instances \cup {None}]
        /\ hw \in [Instances -> SUBSET Handles] /\ victim \in Handles /\ None \notin Instances
    BY <1>0, NoneAssumption DEF TypeOK
  <1> USE DEF entryVars, listVars, sweepVars, Swept, Unlocked
  <1>1. ASSUME NEW h \in Handles, NEW p \in Instances, Add(h, p)
        PROVE  (changing # None => sweep = "idle")' /\ \A g \in Handles : Row(g)'
    <2>1. ASSUME NEW g \in Handles PROVE Row(g)'
      <3>1. Row(g)
        BY <1>0
      <3>2. CASE g = h
        BY <1>1, <1>a, <1>0, <3>1, <3>2 DEF Add, Row, Entry, InHardware, NotLeft
      <3>3. CASE g # h
        BY <1>1, <1>a, <1>0, <3>1, <3>3 DEF Add, Row, Entry, InHardware, NotLeft
      <3> QED BY <3>2, <3>3
    <2> QED BY <1>0, <1>1, <2>1 DEF Add
  <1>2. ASSUME NEW h \in Handles, NEW p \in Instances, AddRefused(h, p)
        PROVE  (changing # None => sweep = "idle")' /\ \A g \in Handles : Row(g)'
    <2>1. ASSUME NEW g \in Handles PROVE Row(g)'
      <3>1. Row(g)
        BY <1>0
      <3> QED BY <1>2, <1>a, <1>0, <3>1 DEF AddRefused, Row, Entry, InHardware, NotLeft
    <2> QED BY <1>0, <1>2, <2>1 DEF AddRefused
  <1>3. ASSUME NEW h \in Handles, RemoveOne(h) \/ ChangeFails(h)
        PROVE  (changing # None => sweep = "idle")' /\ \A g \in Handles : Row(g)'
    <2>1. inst[h] \in Instances /\ Remove({h}, inst[h]) /\ Row(h)
      BY <1>0, <1>3, <1>a DEF RemoveOne, ChangeFails
    <2>2. ASSUME NEW g \in Handles PROVE Row(g)'
      <3>1. Row(g) /\ {h} \in SUBSET Handles
        BY <1>0
      <3>2. /\ g = h => inst'[g] = None /\ ptr'[g] = None /\ valid'[g] = 0 /\ active'[g] = FALSE
            /\ g # h => /\ inst'[g] = inst[g] /\ ptr'[g] = ptr[g] /\ valid'[g] = valid[g]
                        /\ active'[g] = active[g]
            /\ \A q \in Instances : g \in hw'[q] <=> g \in hw[q] /\ ~(q = inst[h] /\ g = h /\ ptr[g] = inst[h])
        <4>1. \A q \in Instances : g \in hw'[q] <=>
                g \in hw[q] /\ ~(q = inst[h] /\ g \in {h} /\ ptr[g] = inst[h])
          BY <1>a, <2>1 DEF Remove, Without
        <4>2. /\ g \in {h} => inst'[g] = None /\ ptr'[g] = None /\ valid'[g] = 0 /\ active'[g] = FALSE
              /\ g \notin {h} => /\ inst'[g] = inst[g] /\ ptr'[g] = ptr[g] /\ valid'[g] = valid[g]
                                 /\ active'[g] = active[g]
          BY <2>1 DEF Remove, Cleared
        <4> QED BY <4>1, <4>2
      <3>3. /\ UNCHANGED <<listVars, sweepVars, reused>>
            /\ g # h => (g \in wanted' <=> g \in wanted) /\ (changing' = g <=> changing = g)
            /\ changing' # h
        BY <1>0, <1>3 DEF RemoveOne, ChangeFails
      <3>4. active[h] \/ changing = h
        BY <1>3 DEF RemoveOne, ChangeFails
      <3>5. CASE g = h
        BY <1>0, <1>a, <2>1, <3>2, <3>3, <3>4, <3>5 DEF Row, Entry, InHardware, NotLeft
      <3>6. CASE g # h
        BY <1>0, <1>a, <3>1, <3>2, <3>3, <3>6 DEF Row, Entry, InHardware, NotLeft
      <3> QED BY <3>5, <3>6
    <2> QED BY <1>0, <1>3, <2>2 DEF RemoveOne, ChangeFails
  <1>4. ASSUME NEW h \in Handles, RemoveRefused(h)
        PROVE  (changing # None => sweep = "idle")' /\ \A g \in Handles : Row(g)'
    BY <1>4, <1>0, <1>a DEF RemoveRefused, Row, Entry, InHardware, NotLeft
  <1>5. ASSUME NEW h \in Handles, ChangeBegins(h) \/ Changed(h)
        PROVE  (changing # None => sweep = "idle")' /\ \A g \in Handles : Row(g)'
    <2>1. ASSUME NEW g \in Handles PROVE Row(g)'
      <3>1. Row(g)
        BY <1>0
      <3>2. CASE ChangeBegins(h)
        BY <3>2, <1>a, <1>0, <3>1 DEF ChangeBegins, Row, Entry, InHardware, NotLeft
      <3>3. CASE Changed(h)
        <4>1. changing # None /\ sweep = "idle" /\ inst[h] # None /\ Row(h)
          BY <1>0, <3>3 DEF Changed
        <4>2. CASE g = h
          <5>1. active'[h] = TRUE /\ changing' = None /\ UNCHANGED <<valid, inst, ptr, hw, listVars, wanted, sweepVars, reused>>
            BY <3>3, <1>a DEF Changed
          <5>2. Entry(h)'
            BY <1>0, <1>a, <3>3, <4>1, <5>1 DEF Changed, Row, Entry
          <5>3. InHardware(h)'
            BY <1>0, <1>a, <3>3, <4>1, <5>1 DEF Changed, Row, InHardware
          <5>4. NotLeft(h)'
            BY <1>0, <3>3, <4>1, <5>1 DEF Changed, Row, NotLeft
          <5> QED BY <4>2, <5>2, <5>3, <5>4 DEF Row
        <4>3. CASE g # h
          BY <3>3, <1>a, <1>0, <3>1, <4>3 DEF Changed, Row, Entry, InHardware, NotLeft
        <4> QED BY <4>2, <4>3
      <3> QED BY <1>5, <3>2, <3>3
    <2>2. (changing # None => sweep = "idle")'
      BY <1>0, <1>5 DEF ChangeBegins, Changed
    <2> QED BY <2>1, <2>2
  <1>6. ASSUME NEW p \in Instances, Register(p) \/ Enable(p)
        PROVE  (changing # None => sweep = "idle")' /\ \A g \in Handles : Row(g)'
    BY <1>6, <1>0, <1>a DEF Register, Enable, Row, Entry, InHardware, NotLeft
  <1>7. ASSUME NEW p \in Instances, Unregister(p)
        PROVE  (changing # None => sweep = "idle")' /\ \A g \in Handles : Row(g)'
    <2>1. ASSUME NEW g \in Handles PROVE Row(g)' /\ 0 <= g
      BY <1>7, <1>0, <1>a DEF Unregister, Row, Entry, InHardware, NotLeft, Handles
    <2> QED BY <1>7, <2>1 DEF Unregister
  <1>8. ASSUME NEW p \in Instances, Disable(p)
        PROVE  (changing # None => sweep = "idle")' /\ \A g \in Handles : Row(g)'
    <2> DEFINE Gone == {g \in Handles : inst[g] = p /\ active[g]}
    <2>1. ASSUME NEW g \in Handles PROVE Row(g)'
      <3>1. Row(g) /\ Gone \in SUBSET Handles /\ Remove(Gone, p) /\ (g \in Gone <=> inst[g] = p /\ active[g])
        BY <1>0, <1>8 DEF Disable
      <3> HIDE DEF Gone
      <3>2. /\ g \in Gone => inst'[g] = None /\ ptr'[g] = None /\ valid'[g] = 0 /\ active'[g] = FALSE
            /\ g \notin Gone => /\ inst'[g] = inst[g] /\ ptr'[g] = ptr[g] /\ valid'[g] = valid[g]
                                /\ active'[g] = active[g]
            /\ \A q \in Instances : g \in hw'[q] <=> g \in hw[q] /\ ~(q = p /\ g \in Gone /\ ptr[g] = p)
        <4>1. \A q \in Instances : g \in hw'[q] <=> g \in hw[q] /\ ~(q = p /\ g \in Gone /\ ptr[g] = p)
          BY <1>a, <3>1 DEF Remove, Without
        <4>2. /\ g \in Gone => inst'[g] = None /\ ptr'[g] = None /\ valid'[g] = 0 /\ active'[g] = FALSE
              /\ g \notin Gone => /\ inst'[g] = inst[g] /\ ptr'[g] = ptr[g] /\ valid'[g] = valid[g]
                                  /\ active'[g] = active[g]
          BY <3>1 DEF Remove, Cleared
        <4> QED BY <4>1, <4>2
      <3>3. UNCHANGED <<registered, wanted, changing, sweepVars, reused>> /\ enabled' = enabled \ {p}
            /\ changing = None
        BY <1>8 DEF Disable
      <3>4. CASE g \in Gone
        BY <1>0, <1>a, <3>1, <3>2, <3>3, <3>4 DEF Row, Entry, InHardware, NotLeft
      <3>5. CASE g \notin Gone
        BY <1>0, <1>a, <3>1, <3>2, <3>3, <3>5 DEF Row, Entry, InHardware, NotLeft
      <3> QED BY <3>4, <3>5
    <2> QED BY <1>0, <1>8, <2>1 DEF Disable
  <1>9. CASE SweepLook \/ SweepTake
    <2>1. ASSUME NEW g \in Handles PROVE Row(g)'
      <3>1. Row(g) /\ Row(victim)
        BY <1>0, <1>a
      <3>2. NextVictim => /\ sweep' \in {"look", "idle"}
                          /\ victim <= g /\ g # victim => sweep' = "look" /\ victim' <= g
        BY <1>0, NextVictimMoves
      <3>3. CASE SweepLook
        BY <1>0, <1>a, <3>1, <3>2, <3>3 DEF SweepLook, Row, Entry, InHardware, NotLeft
      <3>4. CASE SweepTake
        BY <1>0, <1>a, <3>1, <3>2, <3>4 DEF SweepTake, Row, Entry, InHardware, NotLeft
      <3> QED BY <1>9, <3>3, <3>4
    <2> QED BY <1>0, <1>9, <2>1 DEF SweepLook, SweepTake
  <1>10. CASE SweepRemove \/ SweepForget
    <2>1. ASSUME NEW g \in Handles PROVE Row(g)'
      <3>1. Row(g) /\ Row(victim)
        BY <1>0, <1>a
      <3>2. CASE SweepRemove
        <4>1. inst[victim] \in Instances
          BY <1>a, <3>2 DEF SweepRemove
        <4>2. \A q \in Instances : g \in hw'[q] <=>
                g \in hw[q] /\ ~(q = inst[victim] /\ g = victim /\ ptr[victim] = inst[victim])
          BY <1>a, <3>2, <4>1 DEF SweepRemove, Without
        <4>3. /\ ptr' = [ptr EXCEPT ![victim] = None] /\ sweep = "remove" /\ sweep' = "forget"
              /\ UNCHANGED <<valid, active, inst, listVars, wanted, changing, leaver, victim, reused>>
          BY <3>2 DEF SweepRemove
        <4> QED BY <1>0, <1>a, <3>1, <4>2, <4>3 DEF Row, Entry, InHardware, NotLeft
      <3>3. CASE SweepForget
        BY <1>0, <1>a, <3>1, <3>3 DEF SweepForget, Row, Entry, InHardware, NotLeft
      <3> QED BY <1>10, <3>2, <3>3
    <2> QED BY <1>0, <1>10, <2>1 DEF SweepRemove, SweepForget
  <1>11. CASE SweepRelease
    <2>1. ASSUME NEW g \in Handles PROVE Row(g)'
      <3>1. Row(g) /\ Row(victim)
        BY <1>0, <1>a
      <3>2. /\ sweep' \in {"look", "idle"}
            /\ victim <= g /\ g # victim => sweep' = "look" /\ victim' <= g
        BY <1>0, <1>11, NextVictimMoves DEF SweepRelease
      <3> QED BY <1>0, <1>11, <1>a, <3>1, <3>2 DEF SweepRelease, Row, Entry, InHardware, NotLeft
    <2> QED BY <1>0, <1>11, <2>1 DEF SweepRelease
  <1>12. CASE UNCHANGED vars
    BY <1>0, <1>12 DEF vars, Row, Entry, InHardware, NotLeft
  <1> QED BY <1>1, <1>2, <1>3, <1>4, <1>5, <1>6, <1>7, <1>8, <1>9, <1>10, <1>11, <1>12
          DEF Next, SweepStep

LEMMA MuxInvariant == ASSUME ~ChangeRaces PROVE Spec => []MuxInv
  BY MuxInit, MuxStep, PTL DEF Spec

(* Of avm_pa, the proc file and the sweep, whoever takes a session has its *)
(* accelerator and its hw_session at hand.                                 *)
THEOREM WinnersFindTheirSession == ASSUME ~ChangeRaces PROVE Spec => []WinnerFindsSession
  <1>1. MuxInv => WinnerFindsSession
    BY DEF MuxInv, Row, Entry, WinnerFindsSession
  <1> QED BY <1>1, MuxInvariant, PTL

(* The accelerators forward the sessions the table says they have.         *)
THEOREM AcceleratorsMatchTable == ASSUME ~ChangeRaces PROVE Spec => []HardwareMatchesTable
  <1>1. MuxInv => HardwareMatchesTable
    BY DEF MuxInv, Row, InHardware, HardwareMatchesTable
  <1> QED BY <1>1, MuxInvariant, PTL

(* What is disabled or has unregistered has no active session any more.    *)
THEOREM SweepsAreComplete == ASSUME ~ChangeRaces PROVE Spec => []SweepIsComplete
  <1>1. MuxInv => SweepIsComplete
    BY DEF MuxInv, Row, NotLeft, SweepIsComplete
  <1> QED BY <1>1, MuxInvariant, PTL

(***************************************************************************)
(* With changes that race a sweep.                                         *)
(***************************************************************************)
LEMMA TakenStep == TypeOK /\ HandleComesBack /\ [Next]_vars => HandleComesBack'
  <1> SUFFICES ASSUME TypeOK, HandleComesBack, [Next]_vars, NEW g \in Handles, valid'[g] > 0
               PROVE  active'[g] \/ changing' = g \/ Swept(g)'
    BY DEF HandleComesBack
  <1>0. /\ valid[g] > 0 => active[g] \/ changing = g \/ Swept(g)
        /\ active \in [Handles -> BOOLEAN] /\ valid \in [Handles -> Nat] /\ victim \in Handles
        /\ None \notin Handles
    BY NoneAssumption DEF HandleComesBack, TypeOK
  <1> USE DEF entryVars, listVars, sweepVars, Swept, Unlocked
  <1>1. ASSUME NEW h \in Handles, NEW p \in Instances, Add(h, p) \/ AddRefused(h, p)
        PROVE  active'[g] \/ changing' = g \/ Swept(g)'
    BY <1>0, <1>1 DEF Add, AddRefused
  <1>2. ASSUME NEW hs \in SUBSET Handles, NEW p, Remove(hs, p), UNCHANGED <<sweep, victim>>,
               changing' = changing \/ changing \in hs
        PROVE  active'[g] \/ changing' = g \/ Swept(g)'
    <2>1. /\ g \in hs => valid'[g] = 0
          /\ g \notin hs => valid'[g] = valid[g] /\ active'[g] = active[g]
      BY <1>2, Zenon DEF Remove, Cleared
    <2>2. g \notin hs
      BY <2>1
    <2> QED BY <1>0, <1>2, <2>1, <2>2
  <1>3. ASSUME NEW h \in Handles,
               \/ RemoveOne(h) \/ RemoveRefused(h)
               \/ ChangeBegins(h) \/ Changed(h) \/ ChangeFails(h)
        PROVE  active'[g] \/ changing' = g \/ Swept(g)'
    <2>1. CASE RemoveOne(h)
      BY <1>2, <2>1 DEF RemoveOne
    <2>2. CASE ChangeFails(h)
      BY <1>2, <2>2 DEF ChangeFails
    <2>3. CASE RemoveRefused(h)
      BY <1>0, <2>3 DEF RemoveRefused
    <2>4. CASE ChangeBegins(h)
      BY <1>0, <2>4 DEF ChangeBegins
    <2>5. CASE Changed(h)
      BY <1>0, <2>5 DEF Changed
    <2> QED BY <1>3, <2>1, <2>2, <2>3, <2>4, <2>5
  <1>4. ASSUME NEW p \in Instances, Register(p) \/ Enable(p) \/ Unregister(p)
        PROVE  active'[g] \/ changing' = g \/ Swept(g)'
    BY <1>0, <1>4 DEF Register, Enable, Unregister
  <1>5. ASSUME NEW p \in Instances, Disable(p) PROVE active'[g] \/ changing' = g \/ Swept(g)'
    BY <1>2, <1>5 DEF Disable
  <1>6. CASE SweepLook \/ SweepTake
    BY <1>0, <1>6 DEF SweepLook, SweepTake
  <1>7. CASE SweepRemove \/ SweepForget \/ SweepRelease
    BY <1>0, <1>7 DEF SweepRemove, SweepForget, SweepRelease
  <1>8. CASE UNCHANGED vars
    BY <1>0, <1>8 DEF vars
  <1> QED BY <1>1, <1>3, <1>4, <1>5, <1>6, <1>7, <1>8 DEF Next, SweepStep

(* No handle stays taken without a session, not even by a change in the    *)
(* middle of a sweep: what the sweep or the change has taken, it releases. *)
THEOREM HandlesComeBack == Spec => []HandleComesBack
  <1>1. Init => HandleComesBack
    BY DEF Init, HandleComesBack
  <1>2. TypeOK /\ HandleComesBack /\ [Next]_vars => HandleComesBack'
    BY TakenStep
  <1> QED BY <1>1, <1>2, MuxTypeCorrect, PTL DEF Spec
=============================================================================
