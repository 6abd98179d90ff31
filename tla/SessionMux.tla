----------------------------- MODULE SessionMux -----------------------------
(***************************************************************************)
(* The multiplexer between avm_pa and the accelerators, the PCE of the     *)
(* switch and the PPA (ifx/common/avm_pa_ifx_multiplexer.c).  A table says *)
(* per session handle which accelerator has the session.  hw_pa_list_lock  *)
(* makes every call one step, except that unregister_instance sweeps the   *)
(* table without the lock; a change, inside which the entry is inactive,   *)
(* is two steps for that reason.                                           *)
(*                                                                         *)
(* No session is taken by two accelerators: the PCE takes bridged sessions *)
(* and the PPA the others (ifx_ppa_mini_sessions.c:924).  hw_pa_instance   *)
(* and avm_session of an entry are set and cleared together and are one    *)
(* variable here.                                                          *)
(***************************************************************************)
EXTENDS Naturals

CONSTANTS
    NHandles,    \* CONFIG_AVM_PA_MAX_SESSION
    Instances,   \* the accelerators
    Changers,    \* those with a change_session: the PPA
    Leavers,     \* those that unregister: the PPA
    None,
    ChangeRaces, \* avm_pa may change a session while an instance unregisters
    MaxValid     \* bound of the run: no add of a handle with so many before it

ASSUME NHandlesAssumption == NHandles \in Nat \ {0}
ASSUME InstancesAssumption == Changers \subseteq Instances /\ Leavers \subseteq Instances
ASSUME ChangeRacesAssumption == ChangeRaces \in BOOLEAN
ASSUME MaxValidAssumption == MaxValid \in Nat

VARIABLES
    valid,      \* of the entry of every handle
    active,     \* of the entry: its accelerator may be asked to remove it
    inst,       \* of the entry: hw_pa_instance, avm_session
    ptr,        \* hw_session of the avm_pa session: of which accelerator
    hw,         \* the sessions in every accelerator
    registered, \* pa_instance_array
    enabled,    \* those of them that are enabled
    wanted,     \* avm_pa takes the handle's session for accelerated
    changing,   \* the handle that change_session works on, lock held
    sweep,      \* where unregister_instance is in its loop
    leaver,     \* the instance it unregisters
    victim,     \* the handle it is at
    reused      \* history: handles that avm_pa reused in the middle of their sweep

entryVars == <<valid, active, inst, ptr, hw>>
listVars  == <<registered, enabled>>
sweepVars == <<sweep, leaver, victim>>
vars == <<entryVars, listVars, wanted, changing, sweepVars, reused>>

Handles  == 0..NHandles - 1
ASSUME NoneAssumption == None \notin Instances \cup Handles
Unlocked == changing = None
Swept(h) == sweep \in {"remove", "forget", "release"} /\ victim = h

TypeOK ==
    /\ valid \in [Handles -> Nat]
    /\ active \in [Handles -> BOOLEAN]
    /\ inst \in [Handles -> Instances \cup {None}]
    /\ ptr \in [Handles -> Instances \cup {None}]
    /\ hw \in [Instances -> SUBSET Handles]
    /\ registered \subseteq Instances
    /\ enabled \subseteq registered
    /\ wanted \subseteq Handles /\ reused \subseteq Handles
    /\ changing \in Handles \cup {None}
    /\ sweep \in {"idle", "look", "take", "remove", "forget", "release"}
    /\ leaver \in Instances \cup {None}
    /\ victim \in Handles

Init ==
    /\ valid = [h \in Handles |-> 0] /\ active = [h \in Handles |-> FALSE]
    /\ inst = [h \in Handles |-> None] /\ ptr = inst
    /\ hw = [p \in Instances |-> {}]
    /\ registered = {} /\ enabled = {} /\ wanted = {} /\ reused = {}
    /\ changing = None
    /\ sweep = "idle" /\ leaver = None /\ victim = 0

(* An accelerator's remove_session: it finds its session by hw_session     *)
(* and gives up without it.                                                *)
Without(hs, p) ==
    [hw EXCEPT ![p] = @ \ {h \in hs : ptr[h] = p}]

(* The handles' entries as clear_session_entry leaves them.                *)
Cleared(f, hs, nothing) == [h \in Handles |-> IF h \in hs THEN nothing ELSE f[h]]

Remove(hs, p) ==
    /\ hw' = Without(hs, p)
    /\ ptr' = Cleared(ptr, hs, None)
    /\ inst' = Cleared(inst, hs, None)
    /\ valid' = Cleared(valid, hs, 0)
    /\ active' = Cleared(active, hs, FALSE)

(***************************************************************************)
(* Calls of avm_pa.                                                        *)
(***************************************************************************)
(* Mutant of Add: a disabled accelerator still takes sessions.             *)
AddToDisabled(h, p) ==
    /\ Unlocked /\ h \notin wanted /\ p \in registered /\ valid[h] = 0
    /\ valid' = [valid EXCEPT ![h] = 1]
    /\ active' = [active EXCEPT ![h] = TRUE]
    /\ inst' = [inst EXCEPT ![h] = p]
    /\ ptr' = [ptr EXCEPT ![h] = p]
    /\ hw' = [hw EXCEPT ![p] = @ \cup {h}]
    /\ wanted' = wanted \cup {h}
    /\ UNCHANGED <<listVars, changing, sweepVars, reused>>

Add(h, p) ==
    /\ Unlocked /\ h \notin wanted /\ p \in enabled /\ valid[h] = 0
    /\ valid' = [valid EXCEPT ![h] = 1]
    /\ active' = [active EXCEPT ![h] = TRUE]
    /\ inst' = [inst EXCEPT ![h] = p]
    /\ ptr' = [ptr EXCEPT ![h] = p]
    /\ hw' = [hw EXCEPT ![p] = @ \cup {h}]
    /\ wanted' = wanted \cup {h}
    /\ UNCHANGED <<listVars, changing, sweepVars, reused>>

(* The sweep still has the handle's last session: the new one is taken     *)
(* out of the accelerator again, and hw_session with it.                   *)
AddRefused(h, p) ==
    /\ Unlocked /\ h \notin wanted /\ p \in enabled /\ valid[h] \in 1..MaxValid - 1
    /\ valid' = [valid EXCEPT ![h] = @ + 1]
    /\ ptr' = [ptr EXCEPT ![h] = None]
    /\ reused' = reused \cup {h}
    /\ UNCHANGED <<active, inst, hw, listVars, wanted, changing, sweepVars>>

RemoveOne(h) ==
    /\ Unlocked /\ h \in wanted /\ active[h] /\ inst[h] # None
    /\ Remove({h}, inst[h])
    /\ wanted' = wanted \ {h}
    /\ UNCHANGED <<listVars, changing, sweepVars, reused>>

(* Somebody else has removed it, or does.                                  *)
RemoveRefused(h) ==
    /\ Unlocked /\ h \in wanted /\ ~active[h]
    /\ wanted' = wanted \ {h}
    /\ UNCHANGED <<entryVars, listVars, changing, sweepVars, reused>>

ChangeBegins(h) ==
    /\ Unlocked /\ h \in wanted /\ valid[h] > 0 /\ inst[h] \in Changers
    /\ ChangeRaces \/ sweep = "idle"
    /\ active' = [active EXCEPT ![h] = FALSE]
    /\ changing' = h
    /\ UNCHANGED <<valid, inst, ptr, hw, listVars, wanted, sweepVars, reused>>

Changed(h) ==
    /\ changing = h /\ inst[h] # None /\ ptr[h] = inst[h]
    /\ active' = [active EXCEPT ![h] = TRUE]
    /\ changing' = None
    /\ UNCHANGED <<valid, inst, ptr, hw, listVars, wanted, sweepVars, reused>>

(* Mutants of ChangeFails: the accelerator just returns an error; ...      *)
ChangeFailsKeeps(h) ==
    /\ changing = h /\ inst[h] # None
    /\ inst' = [inst EXCEPT ![h] = None]
    /\ valid' = [valid EXCEPT ![h] = 0]
    /\ changing' = None
    /\ UNCHANGED <<active, ptr, hw, listVars, wanted, sweepVars, reused>>

(* ... the entry is active again whatever came of it.                      *)
ChangeFailsActive(h) ==
    /\ changing = h /\ inst[h] # None
    /\ hw' = Without({h}, inst[h])
    /\ ptr' = [ptr EXCEPT ![h] = None]
    /\ inst' = [inst EXCEPT ![h] = None]
    /\ valid' = [valid EXCEPT ![h] = 0]
    /\ active' = [active EXCEPT ![h] = TRUE]
    /\ changing' = None
    /\ UNCHANGED <<listVars, wanted, sweepVars, reused>>

(* The accelerator has removed the session.                                *)
ChangeFails(h) ==
    /\ changing = h /\ inst[h] # None
    /\ Remove({h}, inst[h])
    /\ changing' = None
    /\ UNCHANGED <<listVars, wanted, sweepVars, reused>>

(***************************************************************************)
(* Accelerators come and go, and the proc file turns them on and off.      *)
(***************************************************************************)
Register(p) ==
    /\ Unlocked /\ p \notin registered /\ sweep = "idle"
    /\ registered' = registered \cup {p} /\ enabled' = enabled \cup {p}
    /\ UNCHANGED <<entryVars, wanted, changing, sweepVars, reused>>

Enable(p) ==
    /\ Unlocked /\ p \in registered
    /\ enabled' = enabled \cup {p}
    /\ UNCHANGED <<entryVars, registered, wanted, changing, sweepVars, reused>>

(* remove_all_sessions, with the lock held.                                *)
Disable(p) ==
    /\ Unlocked /\ p \in registered
    /\ enabled' = enabled \ {p}
    /\ Remove({h \in Handles : inst[h] = p /\ active[h]}, p)
    /\ UNCHANGED <<registered, wanted, changing, sweepVars, reused>>

Unregister(p) ==
    /\ Unlocked /\ p \in Leavers \cap registered /\ sweep = "idle"
    /\ registered' = registered \ {p} /\ enabled' = enabled \ {p}
    /\ sweep' = "look" /\ leaver' = p /\ victim' = 0
    /\ UNCHANGED <<entryVars, wanted, changing, reused>>

(***************************************************************************)
(* remove_all_sessions without the lock.                                   *)
(***************************************************************************)
NextVictim ==
    IF victim + 1 \in Handles
    THEN sweep' = "look" /\ victim' = victim + 1
    ELSE sweep' = "idle" /\ victim' = 0

SweepLook ==
    /\ sweep = "look"
    /\ \/ inst[victim] = leaver /\ sweep' = "take" /\ UNCHANGED victim
       \/ inst[victim] # leaver /\ NextVictim
    /\ UNCHANGED <<entryVars, listVars, wanted, changing, leaver, reused>>

(* atomic_sub_if_positive on active                                        *)
SweepTake ==
    /\ sweep = "take"
    /\ \/ active[victim] /\ sweep' = "remove" /\ UNCHANGED victim
       \/ ~active[victim] /\ NextVictim
    /\ active' = [active EXCEPT ![victim] = FALSE]
    /\ UNCHANGED <<valid, inst, ptr, hw, listVars, wanted, changing, leaver, reused>>

(* Out of the accelerator that the entry names now.                        *)
SweepRemove ==
    /\ sweep = "remove" /\ inst[victim] # None
    /\ hw' = Without({victim}, inst[victim])
    /\ ptr' = [ptr EXCEPT ![victim] = None]
    /\ sweep' = "forget"
    /\ UNCHANGED <<valid, active, inst, listVars, wanted, changing, leaver, victim, reused>>

SweepForget ==
    /\ sweep = "forget"
    /\ inst' = [inst EXCEPT ![victim] = None]
    /\ sweep' = "release"
    /\ UNCHANGED <<valid, active, ptr, hw, listVars, wanted, changing, leaver, victim, reused>>

(* Mutant of SweepRelease: what add increments is decremented.             *)
SweepReleaseDecrements ==
    /\ sweep = "release"
    /\ valid' = [valid EXCEPT ![victim] = @ - 1]
    /\ NextVictim
    /\ UNCHANGED <<active, inst, ptr, hw, listVars, wanted, changing, leaver, reused>>

SweepRelease ==
    /\ sweep = "release"
    /\ valid' = [valid EXCEPT ![victim] = 0]
    /\ NextVictim
    /\ UNCHANGED <<active, inst, ptr, hw, listVars, wanted, changing, leaver, reused>>

SweepStep == SweepLook \/ SweepTake \/ SweepRemove \/ SweepForget \/ SweepRelease

Next ==
    \/ \E h \in Handles :
         \/ \E p \in Instances : Add(h, p) \/ AddRefused(h, p)
         \/ RemoveOne(h) \/ RemoveRefused(h)
         \/ ChangeBegins(h) \/ Changed(h) \/ ChangeFails(h)
    \/ \E p \in Instances : Register(p) \/ Enable(p) \/ Disable(p) \/ Unregister(p)
    \/ SweepStep

Spec == Init /\ [][Next]_vars

(***************************************************************************)
(* Properties.                                                             *)
(***************************************************************************)
(* Whoever wins an active entry calls its accelerator through it: there is *)
(* one, and hw_session is that accelerator's.                              *)
WinnerFindsSession ==
    \A h \in Handles : active[h] => inst[h] # None /\ ptr[h] = inst[h] /\ valid[h] > 0

(* A handle that refuses new sessions has one, or is on its way to be      *)
(* free: no order of removals, sweeps and refused adds leaves it taken.    *)
HandleComesBack ==
    \A h \in Handles : valid[h] > 0 => active[h] \/ changing = h \/ Swept(h)

(* An accelerator forwards exactly the sessions the table says it has: none*)
(* is left in the hardware without an entry, and none is in two of them.   *)
(* Not said of a handle that avm_pa reused in the middle of its sweep: the *)
(* refused add takes hw_session away, and the old session stays.           *)
HardwareMatchesTable ==
    \A h \in Handles \ reused, p \in Instances :
        h \in hw[p] <=> inst[h] = p /\ (active[h] \/ changing = h \/ (sweep = "remove" /\ victim = h))

(* "Remove all Sessions dedicated to hw_pa_instance": when a disable or an *)
(* unregister is done, no session of that accelerator is active.           *)
SweepIsComplete ==
    \A p \in Instances \ enabled, h \in Handles :
        inst[h] = p /\ active[h] => sweep # "idle" /\ leaver = p /\ victim <= h

=============================================================================
