---------------------------- MODULE SessionStore ----------------------------
(***************************************************************************)
(* What the switch promises the packet accelerator about the sessions it   *)
(* takes over: a session gets rules, and perhaps a counter, that no other  *)
(* has; it keeps just these until the accelerator gives it up; then, now   *)
(* or later, they are taken back together, once.                           *)
(***************************************************************************)
CONSTANTS
    Handles,               \* the accelerator's names for its sessions
    Sessions,              \* the switch's
    NoSession,
    Slots,                 \* where rules can go
    Counters, NoCounter

VARIABLES
    session,  \* the session of a handle
    holds     \* rules and counter of every session in the store

storeVars == <<session, holds>>

Stored   == DOMAIN holds
Holdings == [rules : SUBSET Slots, counter : Counters \cup {NoCounter}]

(* Of what is asked for no session in the store has anything.              *)
Unshared(held) ==
    \A s \in Stored :
        /\ held.rules \cap holds[s].rules = {}
        /\ held.counter # NoCounter => held.counter # holds[s].counter

Init ==
    /\ session = [h \in Handles |-> NoSession]
    /\ Stored = {}

Offload(h, s, held) ==
    /\ session[h] = NoSession /\ s \notin Stored
    /\ held.rules # {} /\ Unshared(held)
    /\ session' = [session EXCEPT ![h] = s]
    /\ holds' = [t \in Stored \cup {s} |-> IF t = s THEN held ELSE holds[t]]

GiveUp(h) ==
    /\ session[h] # NoSession
    /\ session' = [session EXCEPT ![h] = NoSession]
    /\ UNCHANGED holds

TakeBack(s) ==
    /\ s \in Stored /\ \A h \in Handles : session[h] # s
    /\ holds' = [t \in Stored \ {s} |-> holds[t]]
    /\ UNCHANGED session

Next ==
    \/ \E h \in Handles, s \in Sessions, held \in Holdings : Offload(h, s, held)
    \/ \E h \in Handles : GiveUp(h)
    \/ \E s \in Sessions : TakeBack(s)

Spec == Init /\ [][Next]_storeVars
=============================================================================
