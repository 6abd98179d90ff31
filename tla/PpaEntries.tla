----------------------------- MODULE PpaEntries -----------------------------
(***************************************************************************)
(* What a session of the PPA holds in the VR9 E5 hardware                  *)
(* (ifx/common/ifx_ppa_mini_sessions.c, vr9/ifxmips_ppa_hal_vr9_e5.c):     *)
(* entries of small tables that sessions share by counting references, and *)
(* a routing entry, which a lookup table translates back to the session.   *)
(*                                                                         *)
(* The multiplexer makes one call at a time.  The firmware forwards and    *)
(* the kernel looks sessions up meanwhile, so what either of them sees     *)
(* between two parts of a call is a state here; nobody sees the counters.  *)
(* An offer is what a session of avm_pa needs: its direction, and the key  *)
(* it wants in every table, or None.                                       *)
(***************************************************************************)
EXTENDS Naturals, FiniteSets

CONSTANTS
    Sessions,  \* session handles
    Offers,    \* the sessions avm_pa may ask to accelerate
    Keys, None,
    Size,      \* entries of every table
    NRoutes,   \* routing entries of every direction
    MaxCount   \* bound of the run: no leak once an entry is counted so often

Tables == {"pppoe", "mtu", "tunnel", "mac", "vlan"}
McTables == {"vlan", "mac"}
Dirs   == {"lan", "wan", "mc"}
Entries(t) == 0..Size[t] - 1
Routes     == Dirs \X (0..NRoutes - 1)

ASSUME SizeAssumption == Size \in [Tables -> Nat \ {0}] /\ NRoutes \in Nat /\ MaxCount \in Nat
ASSUME NoneAssumption == None \notin Keys \cup Sessions \cup Routes \cup Offers
(* Multicast uses two tables only, other sessions always have an MTU, and  *)
(* PPPoE headers and tunnels are added towards the WAN only.               *)
ASSUME OffersAssumption ==
    /\ Offers \subseteq [dir : Dirs, key : [Tables -> Keys \cup {None}]]
    /\ \A o \in Offers :
          /\ o.dir = "mc" => \A t \in Tables \ McTables : o.key[t] = None
          /\ o.dir # "mc" => o.key["mtu"] # None
          /\ o.dir = "wan" => o.key["pppoe"] = None /\ o.key["tunnel"] = None

VARIABLES
    count,   \* g_..._entry_counter of every table
    key,     \* what its entries hold
    owner,   \* routing entries: whose packets match
    active,  \* and whether the firmware forwards them
    lookup,  \* avm_sessionh_table_lan, _wan, _mc
    offer,   \* session_list: the session's needs,
    entry,   \* its entries of the tables
    route,   \* and its routing entry
    live,    \* the sessions avm_pa has a hw_session of
    step,    \* what the PPA is doing
    current  \* and for which session

tables == <<count, key>>
items  == <<offer, entry, route>>
vars   == <<tables, owner, active, lookup, items, live, step, current>>

TypeOK ==
    /\ \A t \in Tables : count[t] \in [Entries(t) -> Nat] /\ key[t] \in [Entries(t) -> Keys \cup {None}]
    /\ owner \in [Routes -> Sessions \cup {None}]
    /\ active \in [Routes -> BOOLEAN]
    /\ lookup \in [Routes -> Sessions \cup {None}]
    /\ offer \in [Sessions -> Offers \cup {None}]
    /\ entry \in [Sessions -> [Tables -> Nat]]
    /\ route \in [Sessions -> Routes \cup {None}]
    /\ live \subseteq Sessions
    /\ step \in {"idle", "publish", "activate", "unmap"}
    /\ current \in Sessions \cup {None}

Init ==
    /\ count = [t \in Tables |-> [e \in Entries(t) |-> 0]]
    /\ key = [t \in Tables |-> [e \in Entries(t) |-> None]]
    /\ owner = [r \in Routes |-> None] /\ active = [r \in Routes |-> FALSE] /\ lookup = owner
    /\ offer = [h \in Sessions |-> None] /\ route = offer
    /\ entry = [h \in Sessions |-> [t \in Tables |-> 0]]
    /\ live = {} /\ step = "idle" /\ current = None

(***************************************************************************)
(* The tables of the hardware abstraction layer.                           *)
(***************************************************************************)
Wants(o, t) == o.key[t] # None
Same(t, k)  == {e \in Entries(t) : count[t][e] > 0 /\ key[t][e] = k}
Free(t)     == {e \in Entries(t) : count[t][e] = 0}
Full(t, k)  == Same(t, k) = {} /\ Free(t) = {}

Lowest(S)  == CHOOSE e \in S : \A f \in S : e <= f
Highest(S) == CHOOSE e \in S : \A f \in S : e >= f

(* Where add_..._entry finds k or puts it.  mac is searched from the end,  *)
(* and the last free entry seen is taken, but of tunnel the first.         *)
Place(t, k) ==
    IF Same(t, k) # {} THEN Lowest(Same(t, k))
    ELSE IF t \in {"mac", "tunnel"} THEN Lowest(Free(t)) ELSE Highest(Free(t))

(* Mutant of Refer: an entry that is found is not counted again.           *)
ReferNewOnly(T, o) ==
    /\ count' = [t \in Tables |->
                   IF t \in T THEN [count[t] EXCEPT ![Place(t, o.key[t])] = 1] ELSE count[t]]
    /\ key' = [t \in Tables |->
                   IF t \in T THEN [key[t] EXCEPT ![Place(t, o.key[t])] = o.key[t]] ELSE key[t]]

(* One more reference to the place of o's key, in every table t of T.      *)
Refer(T, o) ==
    /\ count' = [t \in Tables |->
                   IF t \in T THEN [count[t] EXCEPT ![Place(t, o.key[t])] = @ + 1] ELSE count[t]]
    /\ key' = [t \in Tables |->
                   IF t \in T THEN [key[t] EXCEPT ![Place(t, o.key[t])] = o.key[t]] ELSE key[t]]

(* Mutant of Counted: the counter is not looked at.                        *)
CountedAnyway(T, h, t) == t \in T /\ entry[h][t] \in Entries(t)

(* del_..._entry ignores entries out of range or without a reference.      *)
Counted(T, h, t) == t \in T /\ entry[h][t] \in Entries(t) /\ count[t][entry[h][t]] > 0

Drop(T, h) ==
    /\ count' = [t \in Tables |->
                   IF Counted(T, h, t) THEN [count[t] EXCEPT ![entry[h][t]] = @ - 1] ELSE count[t]]
    /\ key' = [t \in Tables |->
                   IF Counted(T, h, t) /\ count[t][entry[h][t]] = 1
                   THEN [key[t] EXCEPT ![entry[h][t]] = None] ELSE key[t]]

(***************************************************************************)
(* ppa_hw_add_session, ppa_hw_add_mc_session                               *)
(***************************************************************************)
(* What an add takes before it turns to table t.                           *)
Before(o, t) ==
    {u \in Tables : Wants(o, u)} \cap
    (IF o.dir = "mc"
     THEN CASE t = "vlan" -> {} [] t = "mac" -> {"vlan"} [] t = "route" -> McTables
     ELSE CASE t = "pppoe"  -> {}
            [] t = "mtu"    -> {"pppoe"}
            [] t = "tunnel" -> {"pppoe", "mtu"}
            [] t = "mac"    -> {"pppoe", "mtu", "tunnel"}
            [] t = "vlan"   -> {"pppoe", "mtu", "tunnel", "mac"}
            [] t = "route"  -> Tables)

(* Mutant of GivenBack: without an MTU entry it just returns.              *)
GivenBackLater(o, t) ==
    CASE t \in {"pppoe", "mtu"} -> {}
      [] t = "mac"   -> {"pppoe", "mtu"}
      [] t = "vlan"  -> {"pppoe", "mtu", "mac"}
      [] OTHER -> Tables

(* What it gives back when it fails there.                                 *)
GivenBack(o, t) ==
    IF o.dir = "mc"
    THEN CASE t \in McTables -> {} [] t = "route" -> McTables
    ELSE CASE t = "pppoe"             -> {}
           [] t \in {"mtu", "tunnel"} -> {"pppoe"}
           [] t = "mac"               -> {"pppoe", "mtu"}
           [] t = "vlan"              -> {"pppoe", "mtu", "mac"}
           [] t = "route"             -> {"pppoe", "mtu", "mac", "vlan"}

Stages(o) == IF o.dir = "mc" THEN McTables ELSE Tables

(* It gets as far as table t: all before it have room.                     *)
Reaches(o, t) == \A u \in Before(o, t) : ~Full(u, o.key[u])
Room(o) == Before(o, "route")

(* The numbers in the item: 0 where nothing was taken.                     *)
Held(o) ==
    [t \in Tables |-> IF t \in Room(o) THEN Place(t, o.key[t])
                      ELSE IF o.dir = "mc" /\ t = "mac" THEN Size[t] ELSE 0]

(* Mutant of ValidAtOnce: f_is_valid is set when the entry is filled in.   *)
AlwaysValid(o) == TRUE

(* add_wan_mc_entry sets entry_vld, add_routing_entry leaves it off.       *)
ValidAtOnce(o) == o.dir = "mc"

(* The routing entry is taken: a unicast one is still inactive.            *)
Reserve(h, o) ==
    /\ step = "idle" /\ h \notin live
    /\ Reaches(o, "route")
    /\ Refer(Room(o), o)
    /\ \E r \in {o.dir} \X (0..NRoutes - 1) :
         /\ owner[r] = None
         /\ owner' = [owner EXCEPT ![r] = h]
         /\ active' = [active EXCEPT ![r] = ValidAtOnce(o)]
         /\ route' = [route EXCEPT ![h] = r]
    /\ offer' = [offer EXCEPT ![h] = o]
    /\ entry' = [entry EXCEPT ![h] = Held(o)]
    /\ step' = "publish" /\ current' = h
    /\ UNCHANGED <<lookup, live>>

(* What a failure at t leaves counted.                                     *)
Leaked(o, t) == Before(o, t) \ GivenBack(o, t)
Bounded(T) == \A t \in T : \A e \in Entries(t) : count[t][e] < MaxCount

AddFails(o) ==
    /\ step = "idle"
    /\ \E t \in Stages(o) \cup {"route"} :
         /\ Reaches(o, t)
         /\ t # "route" => Wants(o, t) /\ Full(t, o.key[t])
         /\ Bounded(Leaked(o, t))
         /\ Refer(Leaked(o, t), o)
    /\ UNCHANGED <<owner, active, lookup, items, live, step, current>>

(* avm_sessionh_table_set                                                  *)
Publish ==
    /\ step = "publish"
    /\ lookup' = [lookup EXCEPT ![route[current]] = current]
    /\ IF offer[current].dir = "mc"
       THEN step' = "idle" /\ current' = None /\ live' = live \cup {current}
       ELSE step' = "activate" /\ UNCHANGED <<current, live>>
    /\ UNCHANGED <<tables, owner, active, items>>

Activate ==
    /\ step = "activate"
    /\ active' = [active EXCEPT ![route[current]] = TRUE]
    /\ step' = "idle" /\ current' = None /\ live' = live \cup {current}
    /\ UNCHANGED <<tables, owner, lookup, items>>

(***************************************************************************)
(* avm_pa_remove_ifx_session                                               *)
(***************************************************************************)
(* ppa_hw_del_session, ppa_hw_del_mc_session: whatever the numbers are.    *)
Released(o) ==
    IF o.dir = "mc" THEN McTables
    ELSE {"pppoe", "mtu", "mac", "vlan"} \cup {t \in {"tunnel"} : o.dir = "lan" /\ Wants(o, t)}

Remove(h) ==
    /\ step = "idle" /\ h \in live
    /\ owner' = [owner EXCEPT ![route[h]] = None]
    /\ active' = [active EXCEPT ![route[h]] = FALSE]
    /\ Drop(Released(offer[h]), h)
    /\ step' = "unmap" /\ current' = h
    /\ UNCHANGED <<lookup, items, live>>

(* Mutant of MappedAt: the direction is read from the cleared item.        *)
MappedInWan(h) == <<"wan", route[h][2]>>

(* The item is cleared; what the lookup table needs of it was saved.       *)
MappedAt(h) == route[h]

Unmap ==
    /\ step = "unmap"
    /\ lookup' = [lookup EXCEPT ![MappedAt(current)] = None]
    /\ offer' = [offer EXCEPT ![current] = None]
    /\ route' = [route EXCEPT ![current] = None]
    /\ entry' = [entry EXCEPT ![current] = [t \in Tables |-> 0]]
    /\ live' = live \ {current}
    /\ step' = "idle" /\ current' = None
    /\ UNCHANGED <<tables, owner, active>>

Next ==
    \/ \E h \in Sessions : Remove(h) \/ \E o \in Offers : Reserve(h, o)
    \/ \E o \in Offers : AddFails(o)
    \/ Publish \/ Activate \/ Unmap

Spec == Init /\ [][Next]_vars

(***************************************************************************)
(* Properties.                                                             *)
(***************************************************************************)
(* The sessions that hold entry e of table t: from the add to the removal. *)
Holders(t, e) ==
    {h \in Sessions : /\ offer[h] # None /\ ~(step = "unmap" /\ current = h)
                      /\ Wants(offer[h], t) /\ entry[h][t] = e}

(* A removal gives back whatever numbers the item has.  Nothing is taken   *)
(* from others in a table that whoever gives it back has taken from, ...   *)
AllTake(t) ==
    \A o \in Offers : t \in Released(o) => Wants(o, t) \/ (o.dir = "mc" /\ t = "mac")

(* ... or that has an entry to spare, so that its entry 0 is never used.   *)
Wanted(t) == {o.key[t] : o \in {p \in Offers : Wants(p, t)}}
HasSpare(t) ==
    /\ t \notin {"mac", "tunnel"}
    /\ IsFiniteSet(Wanted(t)) /\ Cardinality(Wanted(t)) < Size[t]

Undisturbed(t) == AllTake(t) \/ HasSpare(t)

(* A session's entries are counted for it and hold what it wanted, however *)
(* others come, fail and go: the firmware puts the session's own PPPoE     *)
(* session, VLAN and MAC address into its packets.                         *)
EntryOutlivesItsSessions ==
    \A t \in Tables : \A e \in Entries(t) :
        /\ Cardinality(Holders(t, e)) <= count[t][e]
        /\ \A h \in Holders(t, e) : key[t][e] = offer[h].key[t]

(* No failure of an add, wherever it fails, leaves a PPPoE or MAC entry    *)
(* counted that nobody holds.  (Of mtu, tunnel and vlan some do.)          *)
FailuresGiveBack ==
    \A t \in {"pppoe", "mac"} : \A e \in Entries(t) : count[t][e] = Cardinality(Holders(t, e))

(* "will be activated after session_hash_table update, otherwise first     *)
(* WLAN packets will be dropped": what the firmware forwards by a unicast  *)
(* entry, the kernel finds the session of.                                 *)
ForwardedIsKnown ==
    \A r \in Routes : active[r] /\ r[1] # "mc" => lookup[r] = owner[r]

(* A packet is never accounted to a session that has lost its entry to     *)
(* another one, and no entry is kept by a session that is gone.            *)
LookupIsCurrent ==
    \A r \in Routes :
        /\ owner[r] # None => lookup[r] \in {owner[r], None} /\ route[owner[r]] = r
        /\ lookup[r] # None => route[lookup[r]] = r
=============================================================================
