------------------------- MODULE PpaEntries_proofs -------------------------
(***************************************************************************)
(* Proofs about PpaEntries for any sessions, offers and sizes of tables.   *)
(***************************************************************************)
EXTENDS PpaEntries, FiniteSetTheorems, WellFoundedInduction, TLAPS

(***************************************************************************)
(* The entry that is chosen.                                               *)
(***************************************************************************)
LEMMA LowestOfSet ==
  ASSUME NEW S \in SUBSET Nat, S # {}
  PROVE  Lowest(S) \in S /\ \A f \in S : Lowest(S) <= f
  <1> DEFINE R == {ss \in Nat \X Nat : ss[1] < ss[2]}
  <1>1. IsWellFoundedOn(R, Nat)
    BY NatLessThanWellFounded, Zenon DEF OpToRel
  <1>2. \E e \in S : \A f \in S : ~(<<f, e>> \in R)
    <2> HIDE DEF R
    <2> QED BY <1>1, WFMin
  <1>3. \A e \in Nat, f \in Nat : <<f, e>> \in R <=> f < e
    OBVIOUS
  <1> HIDE DEF R
  <1>4. PICK e \in S : \A f \in S : ~(<<f, e>> \in R)
    BY <1>2
  <1>5. \A f \in S : ~(f < e)
    BY <1>3, <1>4
  <1>6. \A f \in S : e <= f
    BY <1>5
  <1> QED BY <1>6 DEF Lowest

LEMMA HighestOfSet ==
  ASSUME NEW n \in Nat, NEW S \in SUBSET (0..n - 1), S # {}
  PROVE  Highest(S) \in S /\ \A f \in S : Highest(S) >= f
  <1> DEFINE R == {n - 1 - e : e \in S}
  <1>1. R \in SUBSET Nat /\ R # {}
    <2>1. \A e \in S : n - 1 - e \in Nat
      OBVIOUS
    <2> QED BY <2>1
  <1>2. Lowest(R) \in R /\ \A f \in R : Lowest(R) <= f
    BY <1>1, LowestOfSet
  <1>3. PICK e \in S : Lowest(R) = n - 1 - e
    BY <1>2
  <1>4. \A f \in S : n - 1 - e <= n - 1 - f
    BY <1>2, <1>3
  <1>5. \A f \in S : e >= f
    BY <1>4
  <1> QED BY <1>5 DEF Highest

(* Where a table is not full, the search ends at an entry that holds the   *)
(* key, or else at a free one; in a table searched from the end it is not  *)
(* entry 0 if another is free.                                             *)
LEMMA PlaceFound ==
  ASSUME NEW t \in Tables, NEW k, ~Full(t, k)
  PROVE  /\ Place(t, k) \in Entries(t)
         /\ Place(t, k) \in Same(t, k) \/ (Same(t, k) = {} /\ Place(t, k) \in Free(t))
         /\ t \notin {"mac", "tunnel"} /\ Same(t, k) = {} => \A e \in Free(t) : Place(t, k) >= e
  <1>1. Size[t] \in Nat \ {0}
    BY SizeAssumption
  <1>2. Same(t, k) \in SUBSET Entries(t) /\ Free(t) \in SUBSET Entries(t)
    BY DEF Same, Free
  <1>3. Entries(t) \in SUBSET Nat
    BY <1>1 DEF Entries
  <1>4. CASE Same(t, k) # {}
    <2>1. Lowest(Same(t, k)) \in Same(t, k)
      BY <1>2, <1>3, <1>4, LowestOfSet
    <2> QED BY <1>2, <1>4, <2>1 DEF Place
  <1>5. CASE Same(t, k) = {}
    <2>1. Free(t) # {}
      BY <1>5 DEF Full
    <2>2. Lowest(Free(t)) \in Free(t)
      BY <1>2, <1>3, <2>1, LowestOfSet
    <2>3. Highest(Free(t)) \in Free(t) /\ \A e \in Free(t) : Highest(Free(t)) >= e
      BY <1>1, <1>2, <2>1, HighestOfSet DEF Entries
    <2> QED BY <1>2, <1>5, <2>2, <2>3 DEF Place
  <1> QED BY <1>4, <1>5

(***************************************************************************)
(* The counters.                                                           *)
(***************************************************************************)
TypedTables ==
    \A t \in Tables : count[t] \in [Entries(t) -> Nat] /\ key[t] \in [Entries(t) -> Keys \cup {None}]

LEMMA CountUp ==
  ASSUME NEW D, NEW f \in [D -> Nat], NEW e
  PROVE  [f EXCEPT ![e] = @ + 1] \in [D -> Nat]
  <1>1. ASSUME NEW d \in D PROVE [f EXCEPT ![e] = @ + 1][d] \in Nat
    <2>1. f[d] + 1 \in Nat
      OBVIOUS
    <2> QED BY <2>1
  <1> QED BY <1>1

LEMMA ReferKeepsTypes ==
  ASSUME TypedTables, NEW T \in SUBSET Tables, NEW o \in Offers, Refer(T, o)
  PROVE  TypedTables'
  <1> SUFFICES ASSUME NEW t \in Tables
      PROVE  count'[t] \in [Entries(t) -> Nat] /\ key'[t] \in [Entries(t) -> Keys \cup {None}]
    BY DEF TypedTables, Entries
  <1>1. o.key[t] \in Keys \cup {None}
    BY OffersAssumption
  <1>2. count[t] \in [Entries(t) -> Nat] /\ key[t] \in [Entries(t) -> Keys \cup {None}]
    BY DEF TypedTables
  <1>3. CASE t \in T
    <2> DEFINE e == Place(t, o.key[t])
    <2>1. count'[t] = [count[t] EXCEPT ![e] = @ + 1] /\ key'[t] = [key[t] EXCEPT ![e] = o.key[t]]
      BY <1>3 DEF Refer
    <2> HIDE DEF e
    <2>2. count'[t] \in [Entries(t) -> Nat]
      BY <1>2, <2>1, CountUp
    <2>3. key'[t] \in [Entries(t) -> Keys \cup {None}]
      BY <1>1, <1>2, <2>1
    <2> QED BY <2>2, <2>3
  <1>4. CASE t \notin T
    BY <1>2, <1>4 DEF Refer
  <1> QED BY <1>3, <1>4

LEMMA DropKeepsTypes ==
  ASSUME TypedTables, NEW T, NEW h, Drop(T, h)
  PROVE  TypedTables'
  <1> SUFFICES ASSUME NEW t \in Tables
      PROVE  count'[t] \in [Entries(t) -> Nat] /\ key'[t] \in [Entries(t) -> Keys \cup {None}]
    BY DEF TypedTables, Entries
  <1>1. count[t] \in [Entries(t) -> Nat] /\ key[t] \in [Entries(t) -> Keys \cup {None}]
    BY DEF TypedTables
  <1> DEFINE e == entry[h][t]
  <1>2. count'[t] \in [Entries(t) -> Nat]
    <2>1. CASE Counted(T, h, t)
      <3>1. e \in Entries(t) /\ count[t][e] > 0 /\ count'[t] = [count[t] EXCEPT ![e] = @ - 1]
        BY <2>1 DEF Counted, Drop
      <3> HIDE DEF e
      <3>2. count[t][e] - 1 \in Nat
        BY <1>1, <3>1
      <3> QED BY <1>1, <3>1, <3>2
    <2>2. CASE ~Counted(T, h, t)
      BY <1>1, <2>2 DEF Drop
    <2> QED BY <2>1, <2>2
  <1>3. key'[t] = key[t] \/ key'[t] = [key[t] EXCEPT ![e] = None]
    BY DEF Drop
  <1> HIDE DEF e
  <1> QED BY <1>1, <1>2, <1>3

LEMMA TablesStep == TypedTables /\ [Next]_vars => TypedTables'
  <1> SUFFICES ASSUME TypedTables, [Next]_vars PROVE TypedTables'
    OBVIOUS
  <1>1. ASSUME NEW h \in Sessions, NEW o \in Offers, Reserve(h, o) PROVE TypedTables'
    <2>1. Room(o) \in SUBSET Tables
      BY DEF Room, Before
    <2> QED BY <1>1, <2>1, ReferKeepsTypes DEF Reserve
  <1>2. ASSUME NEW o \in Offers, AddFails(o) PROVE TypedTables'
    <2>1. PICK t \in Stages(o) \cup {"route"} : Refer(Leaked(o, t), o)
      BY <1>2 DEF AddFails
    <2>2. Leaked(o, t) \in SUBSET Tables
      BY DEF Leaked, Before
    <2> QED BY <2>1, <2>2, ReferKeepsTypes
  <1>3. ASSUME NEW h \in Sessions, Remove(h) PROVE TypedTables'
    BY <1>3, DropKeepsTypes DEF Remove
  <1>4. CASE Publish \/ Activate \/ Unmap \/ UNCHANGED vars
    BY <1>4 DEF Publish, Activate, Unmap, vars, tables, TypedTables, Entries
  <1> QED BY <1>1, <1>2, <1>3, <1>4 DEF Next

(* The counters of the tables never go below 0, so none wraps around and   *)
(* blocks its entry for good, whatever sessions give back.                 *)
THEOREM CountersStayNatural == Spec => []TypedTables
  <1>1. Init => TypedTables
    BY SizeAssumption DEF Init, TypedTables, Entries
  <1> QED BY <1>1, TablesStep, PTL DEF Spec

(***************************************************************************)
(* Routing entries and lookup tables.                                      *)
(***************************************************************************)
RoutesTyped ==
    /\ owner \in [Routes -> Sessions \cup {None}]
    /\ active \in [Routes -> BOOLEAN]
    /\ lookup \in [Routes -> Sessions \cup {None}]
    /\ offer \in [Sessions -> Offers \cup {None}]
    /\ route \in [Sessions -> Routes \cup {None}]
    /\ live \subseteq Sessions

(* Which call is under way, and for which kind of session.                 *)
CallMatches ==
    \/ step = "idle" /\ current = None
    \/ step \in {"publish", "activate"} /\ current \in Sessions \ live
    \/ step = "unmap" /\ current \in live

(* A session is on the list with its routing entry, in its direction.      *)
Listed ==
    \A h \in Sessions :
        /\ route[h] # None <=> h \in live \cup {current}
        /\ offer[h] # None <=> route[h] # None
        /\ route[h] # None => route[h][1] = offer[h].dir

(* The entry is its own until the removal has taken it.                    *)
OwnsRoute ==
    \A h \in Sessions :
        route[h] # None =>
            /\ owner[route[h]] = IF step = "unmap" /\ current = h THEN None ELSE h
            /\ lookup[route[h]] = IF step = "publish" /\ current = h THEN None ELSE h

RoutesPointBack ==
    \A r \in Routes :
        /\ owner[r] # None => route[owner[r]] = r
        /\ lookup[r] # None => route[lookup[r]] = r
        /\ active[r] => owner[r] # None

NotYetActive ==
    step \in {"publish", "activate"} /\ offer[current].dir # "mc" => ~active[route[current]]

RInv == RoutesTyped /\ CallMatches /\ Listed /\ OwnsRoute /\ RoutesPointBack /\ NotYetActive

LEMMA RInvInit == Init => RInv
  BY NoneAssumption DEF Init, RInv, RoutesTyped, CallMatches, Listed, OwnsRoute, RoutesPointBack, NotYetActive

(* No two sessions have one routing entry.                                 *)
LEMMA RoutesAreOwn ==
  ASSUME RInv, NEW h \in Sessions, NEW g \in Sessions, route[h] # None, route[g] = route[h]
  PROVE  g = h
  BY NoneAssumption DEF RInv, RoutesTyped, OwnsRoute, RoutesPointBack

LEMMA RInvReserve ==
  ASSUME RInv, NEW h \in Sessions, NEW o \in Offers, Reserve(h, o)
  PROVE  RInv'
  <1> USE NoneAssumption DEF RInv
  <1>1. PICK r \in {o.dir} \X (0..NRoutes - 1) :
          /\ owner[r] = None
          /\ owner' = [owner EXCEPT ![r] = h]
          /\ active' = [active EXCEPT ![r] = ValidAtOnce(o)]
          /\ route' = [route EXCEPT ![h] = r]
    BY DEF Reserve
  <1>2. o.dir \in Dirs
    BY OffersAssumption
  <1>3. r \in Routes /\ r[1] = o.dir /\ r # None
    BY <1>1, <1>2 DEF Routes
  <1>4. /\ step = "idle" /\ current = None /\ h \notin live
        /\ step' = "publish" /\ current' = h /\ live' = live /\ lookup' = lookup
        /\ offer' = [offer EXCEPT ![h] = o] /\ o # None
    BY DEF Reserve, CallMatches
  <1>5. route[h] = None /\ \A g \in Sessions : route[g] # r
    BY <1>1, <1>3, <1>4 DEF Listed, OwnsRoute, RoutesTyped
  <1>6. lookup[r] = None /\ ~active[r]
    BY <1>1, <1>3, <1>5 DEF RoutesPointBack, RoutesTyped
  <1>7. RoutesTyped' /\ CallMatches'
    BY <1>1, <1>3, <1>4 DEF RoutesTyped, CallMatches, ValidAtOnce
  <1>8. Listed'
    BY <1>1, <1>3, <1>4, <1>5 DEF RoutesTyped, Listed
  <1>9. OwnsRoute'
    BY <1>1, <1>3, <1>4, <1>5, <1>6 DEF RoutesTyped, Listed, OwnsRoute
  <1>10. RoutesPointBack'
    BY <1>1, <1>3, <1>4, <1>5, <1>6 DEF RoutesTyped, OwnsRoute, RoutesPointBack
  <1>11. NotYetActive'
    BY <1>1, <1>3, <1>4, <1>6 DEF RoutesTyped, NotYetActive, ValidAtOnce
  <1> QED BY <1>7, <1>8, <1>9, <1>10, <1>11

LEMMA RInvPublish ==
  ASSUME RInv, Publish
  PROVE  RInv'
  <1> USE NoneAssumption DEF RInv, items
  <1>1. /\ current \in Sessions \ live /\ route[current] \in Routes /\ step = "publish"
        /\ owner[route[current]] = current
    BY DEF Publish, CallMatches, Listed, OwnsRoute, RoutesTyped
  <1>2. \A g \in Sessions : g # current => route[g] # route[current]
    BY <1>1, RoutesAreOwn
  <1>3. RoutesTyped' /\ CallMatches'
    BY <1>1 DEF RoutesTyped, CallMatches, Publish
  <1>4. Listed'
    BY <1>1 DEF RoutesTyped, Listed, Publish
  <1>5. OwnsRoute'
    BY <1>1, <1>2 DEF RoutesTyped, Listed, OwnsRoute, Publish
  <1>6. RoutesPointBack'
    BY <1>1 DEF RoutesTyped, RoutesPointBack, Publish
  <1>7. NotYetActive'
    BY <1>1 DEF NotYetActive, Publish
  <1> QED BY <1>3, <1>4, <1>5, <1>6, <1>7

LEMMA RInvActivate ==
  ASSUME RInv, Activate
  PROVE  RInv'
  <1> USE NoneAssumption DEF RInv, items
  <1>1. /\ current \in Sessions \ live /\ route[current] \in Routes /\ step = "activate"
        /\ owner[route[current]] = current
    BY DEF Activate, CallMatches, Listed, OwnsRoute, RoutesTyped
  <1>3. RoutesTyped' /\ CallMatches'
    BY <1>1 DEF RoutesTyped, CallMatches, Activate
  <1>4. Listed'
    BY <1>1 DEF RoutesTyped, Listed, Activate
  <1>5. OwnsRoute'
    BY <1>1 DEF RoutesTyped, Listed, OwnsRoute, Activate
  <1>6. RoutesPointBack'
    BY <1>1 DEF RoutesTyped, RoutesPointBack, Activate
  <1>7. NotYetActive'
    BY <1>1 DEF NotYetActive, Activate
  <1> QED BY <1>3, <1>4, <1>5, <1>6, <1>7

LEMMA RInvRemove ==
  ASSUME RInv, NEW h \in Sessions, Remove(h)
  PROVE  RInv'
  <1> USE NoneAssumption DEF RInv, items
  <1>1. /\ step = "idle" /\ current = None /\ h \in live
        /\ route[h] \in Routes /\ owner[route[h]] = h
    BY DEF Remove, CallMatches, Listed, OwnsRoute, RoutesTyped
  <1>2. \A g \in Sessions : g # h => route[g] # route[h]
    BY <1>1, RoutesAreOwn
  <1>3. RoutesTyped' /\ CallMatches'
    BY <1>1 DEF RoutesTyped, CallMatches, Remove
  <1>4. Listed'
    BY <1>1 DEF RoutesTyped, Listed, Remove
  <1>5. OwnsRoute'
    BY <1>1, <1>2 DEF RoutesTyped, Listed, OwnsRoute, Remove
  <1>6. RoutesPointBack'
    BY <1>1 DEF RoutesTyped, RoutesPointBack, Remove
  <1>7. NotYetActive'
    BY <1>1 DEF NotYetActive, Remove
  <1> QED BY <1>3, <1>4, <1>5, <1>6, <1>7

LEMMA RInvUnmap ==
  ASSUME RInv, Unmap
  PROVE  RInv'
  <1> USE NoneAssumption DEF RInv, MappedAt
  <1>1. /\ current \in live /\ route[current] \in Routes /\ step = "unmap"
        /\ owner[route[current]] = None
    BY DEF Unmap, CallMatches, Listed, OwnsRoute, RoutesTyped
  <1>2. \A g \in Sessions : g # current => route[g] # route[current]
    BY <1>1, RoutesAreOwn DEF RoutesTyped
  <1>3. RoutesTyped' /\ CallMatches'
    BY <1>1 DEF RoutesTyped, CallMatches, Unmap
  <1>4. Listed'
    BY <1>1 DEF RoutesTyped, Listed, Unmap
  <1>5. OwnsRoute'
    BY <1>1, <1>2 DEF RoutesTyped, Listed, OwnsRoute, Unmap
  <1>6. RoutesPointBack'
    BY <1>1, <1>2 DEF RoutesTyped, RoutesPointBack, OwnsRoute, Unmap
  <1>7. NotYetActive'
    BY <1>1 DEF NotYetActive, Unmap
  <1> QED BY <1>3, <1>4, <1>5, <1>6, <1>7

LEMMA RInvStep == RInv /\ [Next]_vars => RInv'
  <1> SUFFICES ASSUME RInv, [Next]_vars PROVE RInv'
    OBVIOUS
  <1>1. CASE (\E o \in Offers : AddFails(o)) \/ UNCHANGED vars
    BY <1>1 DEF AddFails, vars, items, RInv, RoutesTyped, CallMatches, Listed, OwnsRoute,
                RoutesPointBack, NotYetActive
  <1> QED BY <1>1, RInvReserve, RInvPublish, RInvActivate, RInvRemove, RInvUnmap DEF Next

(* What the firmware forwards by a unicast entry, the kernel finds the     *)
(* session of, between any two parts of an add or a removal: add publishes *)
(* before it activates and remove deactivates before it unmaps.            *)
THEOREM ForwardedPacketsAreKnown == Spec => []ForwardedIsKnown
  <1>1. RInv => ForwardedIsKnown
    <2> SUFFICES ASSUME RInv, NEW r \in Routes, active[r], r[1] # "mc" PROVE lookup[r] = owner[r]
      BY DEF ForwardedIsKnown
    <2> USE NoneAssumption DEF RInv
    <2>1. owner[r] \in Sessions /\ route[owner[r]] = r
      BY DEF RoutesPointBack, RoutesTyped
    <2>2. ~(step = "publish" /\ current = owner[r])
      BY <2>1 DEF NotYetActive, Listed
    <2> QED BY <2>1, <2>2 DEF OwnsRoute
  <1> QED BY <1>1, RInvInit, RInvStep, PTL DEF Spec

(* The kernel never finds for a routing entry a session that has lost it   *)
(* to another one, and no entry is left with a session that is gone.       *)
THEOREM LookupsAreCurrent == Spec => []LookupIsCurrent
  <1>1. RInv => LookupIsCurrent
    BY NoneAssumption DEF RInv, RoutesTyped, OwnsRoute, RoutesPointBack, LookupIsCurrent
  <1> QED BY <1>1, RInvInit, RInvStep, PTL DEF Spec

(***************************************************************************)
(* Types.                                                                  *)
(***************************************************************************)
EntriesTyped == entry \in [Sessions -> [Tables -> Nat]]

TypeInv == TypedTables /\ RInv /\ EntriesTyped

(* The numbers in an item: entries of the tables for what the session      *)
(* wants, 0 or an impossible number for the rest.                          *)
LEMMA HeldNumbers ==
  ASSUME NEW o \in Offers, Reaches(o, "route"), NEW t \in Tables
  PROVE  /\ t \in Room(o) <=> Wants(o, t)
         /\ IF Wants(o, t) THEN Held(o)[t] = Place(t, o.key[t]) /\ ~Full(t, o.key[t])
            ELSE Held(o)[t] = IF o.dir = "mc" /\ t = "mac" THEN Size[t] ELSE 0
  <1>1. t \in Room(o) <=> Wants(o, t)
    <2>1. CASE o.dir = "mc"
      <3>1. Room(o) = {u \in Tables : Wants(o, u)} \cap McTables
        BY <2>1 DEF Room, Before
      <3>2. t \notin McTables => ~Wants(o, t)
        BY <2>1, OffersAssumption DEF Wants
      <3> QED BY <3>1, <3>2
    <2>2. CASE o.dir # "mc"
      <3>1. Room(o) = {u \in Tables : Wants(o, u)} \cap Tables
        BY <2>2 DEF Room, Before
      <3> QED BY <3>1
    <2> QED BY <2>1, <2>2
  <1>2. t \in Room(o) => ~Full(t, o.key[t])
    BY DEF Reaches, Room
  <1>3. Held(o)[t] = IF t \in Room(o) THEN Place(t, o.key[t])
                     ELSE IF o.dir = "mc" /\ t = "mac" THEN Size[t] ELSE 0
    BY DEF Held
  <1> QED BY <1>1, <1>2, <1>3

LEMMA TypeStep == TypeInv /\ [Next]_vars => TypeInv'
  <1> SUFFICES ASSUME TypeInv, [Next]_vars PROVE TypeInv'
    OBVIOUS
  <1>1. TypedTables' /\ RInv'
    BY TablesStep, RInvStep DEF TypeInv
  <1>2. ASSUME NEW h \in Sessions, NEW o \in Offers, Reserve(h, o) PROVE EntriesTyped'
    <2>1. ASSUME NEW t \in Tables PROVE Held(o)[t] \in Nat
      <3>1. Reaches(o, "route") /\ Size[t] \in Nat
        BY <1>2, SizeAssumption DEF Reserve
      <3>2. Place(t, o.key[t]) \in Entries(t) => Place(t, o.key[t]) \in Nat
        BY <3>1 DEF Entries
      <3> QED BY <3>1, <3>2, HeldNumbers, PlaceFound
    <2>2. Held(o) \in [Tables -> Nat]
      BY <2>1 DEF Held
    <2> QED BY <1>2, <2>2 DEF Reserve, TypeInv, EntriesTyped
  <1>3. Unmap \/ UNCHANGED entry => EntriesTyped'
    BY DEF Unmap, TypeInv, EntriesTyped
  <1>4. EntriesTyped'
    BY <1>2, <1>3 DEF Next, AddFails, Publish, Activate, Remove, items, vars
  <1> QED BY <1>1, <1>4 DEF TypeInv

LEMMA TypeInit == Init => TypeInv
  <1>1. Init => TypedTables
    BY SizeAssumption DEF Init, TypedTables, Entries
  <1>2. Init => EntriesTyped
    BY DEF Init, EntriesTyped
  <1> QED BY <1>1, <1>2, RInvInit DEF TypeInv

(* Every variable keeps its type: above all, an add never puts into an     *)
(* item a number that no search has found.                                 *)
THEOREM TypeCorrect == Spec => []TypeOK
  <1>1. TypeInv => TypeOK
    BY DEF TypeInv, TypeOK, TypedTables, RInv, RoutesTyped, CallMatches, EntriesTyped
  <1> QED BY <1>1, TypeInit, TypeStep, PTL DEF Spec

(***************************************************************************)
(* Entries outlive the sessions that hold them.                            *)
(***************************************************************************)
(* What an item says of a table its session did not want.                  *)
ItemsInv ==
    \A h \in Sessions : offer[h] # None =>
        \A t \in Tables :
            IF Wants(offer[h], t) THEN entry[h][t] \in Entries(t)
            ELSE entry[h][t] = IF offer[h].dir = "mc" /\ t = "mac" THEN Size[t] ELSE 0

Used(t) == {e \in Entries(t) : count[t][e] > 0}

(* In a table with an entry to spare, different entries hold different     *)
(* keys of the offers, and so entry 0 is never reached.                    *)
SpareInv(t) ==
    HasSpare(t) =>
        /\ count[t][0] = 0
        /\ \A e \in Used(t) : key[t][e] \in Wanted(t)
        /\ \A e, f \in Used(t) : key[t][e] = key[t][f] => e = f

HoldInv(t) ==
    Undisturbed(t) =>
        \A e \in Entries(t) :
            /\ IsFiniteSet(Holders(t, e)) /\ Cardinality(Holders(t, e)) <= count[t][e]
            /\ t \in {"pppoe", "mac"} => Cardinality(Holders(t, e)) = count[t][e]
            /\ \A h \in Holders(t, e) : key[t][e] = offer[h].key[t]

CountInv ==
    /\ TypeInv /\ ItemsInv
    /\ \A t \in Tables : SpareInv(t) /\ HoldInv(t)

(* A reference to an entry that was found or was free.                     *)
LEMMA ReferAt ==
  ASSUME TypedTables, NEW T \in SUBSET Tables, NEW o \in Offers, Refer(T, o),
         NEW t \in T, ~Full(t, o.key[t])
  PROVE  /\ Place(t, o.key[t]) \in Entries(t)
         /\ count'[t][Place(t, o.key[t])] = count[t][Place(t, o.key[t])] + 1
         /\ key'[t][Place(t, o.key[t])] = o.key[t]
         /\ \A e \in Entries(t) \ {Place(t, o.key[t])} :
                count'[t][e] = count[t][e] /\ key'[t][e] = key[t][e]
         /\ \/ count[t][Place(t, o.key[t])] > 0 /\ key[t][Place(t, o.key[t])] = o.key[t]
            \/ count[t][Place(t, o.key[t])] = 0 /\ Same(t, o.key[t]) = {}
  <1> DEFINE p == Place(t, o.key[t])
  <1>1. /\ count[t] \in [Entries(t) -> Nat]
        /\ key[t] \in [Entries(t) -> Keys \cup {None}]
    BY DEF TypedTables
  <1>2. /\ p \in Entries(t)
        /\ p \in Same(t, o.key[t]) \/ (Same(t, o.key[t]) = {} /\ p \in Free(t))
    BY PlaceFound
  <1>3. count'[t] = [count[t] EXCEPT ![p] = @ + 1] /\ key'[t] = [key[t] EXCEPT ![p] = o.key[t]]
    BY DEF Refer
  <1>4. p \in Same(t, o.key[t]) => count[t][p] > 0 /\ key[t][p] = o.key[t]
    BY DEF Same
  <1>5. p \in Free(t) => count[t][p] = 0
    BY DEF Free
  <1> HIDE DEF p
  <1>6. /\ count'[t][p] = count[t][p] + 1 /\ key'[t][p] = o.key[t]
        /\ \A e \in Entries(t) \ {p} : count'[t][e] = count[t][e] /\ key'[t][e] = key[t][e]
    BY <1>1, <1>2, <1>3
  <1>7. /\ p \in Entries(t)
        /\ \/ count[t][p] > 0 /\ key[t][p] = o.key[t]
           \/ count[t][p] = 0 /\ Same(t, o.key[t]) = {}
    BY <1>2, <1>4, <1>5
  <1> QED BY <1>6, <1>7 DEF p

LEMMA ReferElsewhere ==
  ASSUME NEW T \in SUBSET Tables, NEW o, Refer(T, o), NEW t \in Tables \ T
  PROVE  count'[t] = count[t] /\ key'[t] = key[t]
  BY DEF Refer

(* Fewer keys than entries, one of them in none of the entries from 1 on:  *)
(* some key is in two of these.                                            *)
LEMMA OneKeyTwice ==
  ASSUME NEW n \in Nat \ {0}, NEW W, IsFiniteSet(W), Cardinality(W) < n,
         NEW k \in W, NEW f \in [1..n - 1 -> W \ {k}]
  PROVE  \E e, g \in 1..n - 1 : e # g /\ f[e] = f[g]
  <1>1. IsFiniteSet(W \ {k}) /\ Cardinality(W \ {k}) = Cardinality(W) - 1 /\ Cardinality(W) \in Nat
    BY FS_RemoveElement, FS_CardinalityType
  <1> DEFINE m == n - 1
  <1>2. m \in Nat
    OBVIOUS
  <1>3. Cardinality(W \ {k}) < m
    BY <1>1
  <1> HIDE DEF m
  <1>4. IsFiniteSet(1..m) /\ Cardinality(1..m) = IF 1 > m THEN 0 ELSE m - 1 + 1
    BY <1>2, FS_Interval
  <1>5. Cardinality(1..m) = m
    BY <1>2, <1>4
  <1>6. f \in [1..m -> W \ {k}]
    BY DEF m
  <1>7. \E e, g \in 1..m : e # g /\ f[e] = f[g]
    <2> DEFINE S == 1..m
               T == W \ {k}
    <2>1. IsFiniteSet(S) /\ IsFiniteSet(T) /\ Cardinality(T) < Cardinality(S) /\ f \in [S -> T]
      BY <1>1, <1>3, <1>4, <1>5, <1>6
    <2> HIDE DEF S, T
    <2>2. \E e, g \in S : e # g /\ f[e] = f[g]
      BY <2>1, FS_PigeonHole
    <2> QED BY <2>2 DEF S
  <1> QED BY <1>7 DEF m

(* A reference leaves entry 0 of a table with an entry to spare alone.     *)
LEMMA SpareRefer ==
  ASSUME TypedTables, NEW T \in SUBSET Tables, NEW o \in Offers, Refer(T, o),
         NEW t \in Tables, SpareInv(t), t \in T => Wants(o, t) /\ ~Full(t, o.key[t])
  PROVE  SpareInv(t)'
  <1> SUFFICES ASSUME HasSpare(t)
      PROVE  /\ count'[t][0] = 0
             /\ \A e \in Used(t)' : key'[t][e] \in Wanted(t)
             /\ \A e, f \in Used(t)' : key'[t][e] = key'[t][f] => e = f
    BY DEF SpareInv, HasSpare, Wanted, Wants
  <1>1. CASE t \notin T
    BY <1>1, ReferElsewhere DEF SpareInv, Used
  <1>2. CASE t \in T
    <2> DEFINE k == o.key[t]
               p == Place(t, k)
    <2>1. /\ p \in Entries(t) /\ count'[t][p] = count[t][p] + 1 /\ key'[t][p] = k
          /\ \A e \in Entries(t) \ {p} : count'[t][e] = count[t][e] /\ key'[t][e] = key[t][e]
          /\ (count[t][p] > 0 /\ key[t][p] = k) \/ (count[t][p] = 0 /\ Same(t, k) = {})
      BY <1>2, ReferAt
    <2>2. k \in Wanted(t) /\ Size[t] \in Nat \ {0} /\ count[t] \in [Entries(t) -> Nat]
      BY <1>2, SizeAssumption DEF Wanted, TypedTables
    <2>3. 0 \in Entries(t) /\ 1..Size[t] - 1 \subseteq Entries(t)
      BY <2>2 DEF Entries
    <2>4. p # 0
      <3>1. CASE count[t][p] > 0
        BY <3>1 DEF SpareInv
      <3>2. CASE Same(t, k) = {}
        <4>1. \E e \in 1..Size[t] - 1 : count[t][e] = 0
          <5> SUFFICES ASSUME \A e \in 1..Size[t] - 1 : count[t][e] > 0 PROVE FALSE
            BY <2>2, <2>3
          <5> DEFINE f == [e \in 1..Size[t] - 1 |-> key[t][e]]
          <5>1. \A e \in 1..Size[t] - 1 : e \in Used(t) /\ key[t][e] # k /\ key[t][e] \in Wanted(t)
            BY <2>3, <3>2 DEF Used, Same, SpareInv
          <5>2. f \in [1..Size[t] - 1 -> Wanted(t) \ {k}]
            BY <5>1
          <5>3. \E e, g \in 1..Size[t] - 1 : e # g /\ f[e] = f[g]
            <6> DEFINE n == Size[t]
                       W == Wanted(t)
            <6>1. /\ n \in Nat \ {0} /\ IsFiniteSet(W) /\ Cardinality(W) < n
                  /\ k \in W /\ f \in [1..n - 1 -> W \ {k}]
              BY <2>2, <5>2 DEF HasSpare
            <6> HIDE DEF f, k, n, W
            <6>2. \E e, g \in 1..n - 1 : e # g /\ f[e] = f[g]
              BY <6>1, OneKeyTwice
            <6> QED BY <6>2 DEF n
          <5> QED BY <5>1, <5>3 DEF SpareInv
        <4>2. PICK e \in 1..Size[t] - 1 : count[t][e] = 0
          BY <4>1
        <4>3. e \in Free(t)
          BY <2>3, <4>2 DEF Free
        <4>4. p >= e
          BY <1>2, <3>2, <4>3, PlaceFound DEF HasSpare
        <4> QED BY <2>1, <2>2, <4>4 DEF Entries
      <3> QED BY <2>1, <3>1, <3>2
    <2>5. count'[t][0] = 0
      BY <2>1, <2>3, <2>4 DEF SpareInv
    <2>6. Used(t)' = Used(t) \cup {p}
      BY <2>1, <2>2 DEF Used, Entries
    <2>7. \A e \in Used(t) \ {p} : e \in Entries(t) /\ key'[t][e] = key[t][e] /\ key[t][e] # k
      <3> SUFFICES ASSUME NEW e \in Used(t) \ {p} PROVE e \in Entries(t) /\ key'[t][e] = key[t][e] /\ key[t][e] # k
        OBVIOUS
      <3>1. e \in Entries(t) /\ count[t][e] > 0 /\ key'[t][e] = key[t][e]
        BY <2>1 DEF Used
      <3>2. CASE count[t][p] > 0 /\ key[t][p] = k
        BY <2>1, <3>1, <3>2 DEF Used, SpareInv
      <3>3. CASE Same(t, k) = {}
        BY <3>1, <3>3 DEF Same
      <3> QED BY <2>1, <3>1, <3>2, <3>3
    <2> HIDE DEF k, p
    <2> QED BY <2>1, <2>2, <2>5, <2>6, <2>7 DEF SpareInv
  <1> QED BY <1>1, <1>2

(* What giving back does to a table.                                       *)
LEMMA DropAt ==
  ASSUME TypedTables, NEW T, NEW h \in Sessions, Drop(T, h), NEW t \in Tables
  PROVE  IF Counted(T, h, t)
         THEN /\ entry[h][t] \in Entries(t) /\ count[t][entry[h][t]] > 0
              /\ count'[t][entry[h][t]] = count[t][entry[h][t]] - 1
              /\ count[t][entry[h][t]] # 1 => key'[t] = key[t]
              /\ \A e \in Entries(t) \ {entry[h][t]} :
                    count'[t][e] = count[t][e] /\ key'[t][e] = key[t][e]
         ELSE count'[t] = count[t] /\ key'[t] = key[t]
  <1>1. /\ count[t] \in [Entries(t) -> Nat]
        /\ key[t] \in [Entries(t) -> Keys \cup {None}]
    BY DEF TypedTables
  <1>2. CASE Counted(T, h, t)
    <2> DEFINE e == entry[h][t]
    <2>1. /\ e \in Entries(t) /\ count[t][e] > 0
          /\ count'[t] = [count[t] EXCEPT ![e] = @ - 1]
          /\ key'[t] = IF count[t][e] = 1 THEN [key[t] EXCEPT ![e] = None] ELSE key[t]
      BY <1>2 DEF Counted, Drop
    <2> HIDE DEF e
    <2>2. count'[t][e] = count[t][e] - 1
      BY <1>1, <2>1
    <2>3. \A f \in Entries(t) \ {e} : count'[t][f] = count[t][f] /\ key'[t][f] = key[t][f]
      BY <1>1, <2>1
    <2> QED BY <1>2, <2>1, <2>2, <2>3 DEF e
  <1>3. CASE ~Counted(T, h, t)
    BY <1>3 DEF Drop
  <1> QED BY <1>2, <1>3

LEMMA SpareDrop ==
  ASSUME TypedTables, NEW T, NEW h \in Sessions, Drop(T, h), NEW t \in Tables, SpareInv(t)
  PROVE  SpareInv(t)'
  <1> SUFFICES ASSUME HasSpare(t)
      PROVE  /\ count'[t][0] = 0
             /\ \A e \in Used(t)' : key'[t][e] \in Wanted(t)
             /\ \A e, f \in Used(t)' : key'[t][e] = key'[t][f] => e = f
    BY DEF SpareInv, HasSpare, Wanted, Wants
  <1>1. CASE ~Counted(T, h, t)
    BY <1>1, DropAt DEF SpareInv, Used
  <1>2. CASE Counted(T, h, t)
    <2> DEFINE d == entry[h][t]
    <2>1. /\ d \in Entries(t) /\ count[t][d] > 0 /\ count'[t][d] = count[t][d] - 1
          /\ count[t][d] # 1 => key'[t] = key[t]
          /\ \A e \in Entries(t) \ {d} : count'[t][e] = count[t][e] /\ key'[t][e] = key[t][e]
      BY <1>2, DropAt
    <2>2. count[t] \in [Entries(t) -> Nat] /\ 0 \in Entries(t)
      BY SizeAssumption DEF TypedTables, Entries
    <2> HIDE DEF d
    <2>3. count'[t][0] = 0
      BY <2>1, <2>2 DEF SpareInv
    <2>4. \A e \in Used(t)' : e \in Used(t) /\ key'[t][e] = key[t][e]
      BY <2>1, <2>2 DEF Used, Entries
    <2> QED BY <2>3, <2>4 DEF SpareInv
  <1> QED BY <1>1, <1>2

(* A reference changes no key that a session relies on.                    *)
LEMMA KeysKept ==
  ASSUME TypedTables, NEW T \in SUBSET Tables, NEW o \in Offers, Refer(T, o),
         NEW t \in Tables, HoldInv(t), Undisturbed(t), t \in T => ~Full(t, o.key[t]),
         NEW e \in Entries(t)
  PROVE  /\ count'[t][e] = IF t \in T /\ e = Place(t, o.key[t]) THEN count[t][e] + 1 ELSE count[t][e]
         /\ \A h \in Holders(t, e) : key'[t][e] = offer[h].key[t]
  <1>1. CASE t \in T /\ e = Place(t, o.key[t])
    <2>1. /\ count'[t][e] = count[t][e] + 1 /\ key'[t][e] = o.key[t]
          /\ (count[t][e] > 0 /\ key[t][e] = o.key[t]) \/ count[t][e] = 0
      BY <1>1, ReferAt
    <2>2. CASE key[t][e] = o.key[t]
      BY <1>1, <2>1, <2>2 DEF HoldInv
    <2>3. CASE count[t][e] = 0
      <3>1. Holders(t, e) = {}
        BY <2>3, FS_EmptySet, FS_CardinalityType DEF HoldInv
      <3> QED BY <1>1, <2>1, <3>1
    <2> QED BY <2>1, <2>2, <2>3
  <1>2. CASE t \in T /\ e # Place(t, o.key[t])
    <2>1. count'[t][e] = count[t][e] /\ key'[t][e] = key[t][e]
      BY <1>2, ReferAt
    <2> QED BY <1>2, <2>1 DEF HoldInv
  <1>3. CASE t \notin T
    BY <1>3, ReferElsewhere DEF HoldInv
  <1> QED BY <1>1, <1>2, <1>3

(***************************************************************************)
(* The steps.                                                              *)
(***************************************************************************)
LEMMA CountReserve ==
  ASSUME CountInv, NEW h \in Sessions, NEW o \in Offers, Reserve(h, o)
  PROVE  ItemsInv' /\ \A t \in Tables : SpareInv(t)' /\ HoldInv(t)'
  <1>1. /\ TypedTables /\ step = "idle" /\ h \notin live /\ current = None
        /\ Reaches(o, "route") /\ Room(o) \in SUBSET Tables /\ Refer(Room(o), o)
        /\ offer' = [offer EXCEPT ![h] = o] /\ entry' = [entry EXCEPT ![h] = Held(o)]
        /\ step' = "publish"
    BY DEF CountInv, TypeInv, RInv, CallMatches, Reserve, Room, Before
  <1>2. offer \in [Sessions -> Offers \cup {None}] /\ entry \in [Sessions -> [Tables -> Nat]]
    BY DEF CountInv, TypeInv, RInv, RoutesTyped, EntriesTyped
  <1>3. offer[h] = None /\ o # None
    BY <1>1, NoneAssumption DEF CountInv, TypeInv, RInv, Listed
  <1>4. /\ offer'[h] = o /\ entry'[h] = Held(o)
        /\ \A g \in Sessions \ {h} : offer'[g] = offer[g] /\ entry'[g] = entry[g]
    BY <1>1, <1>2
  <1>5. ItemsInv'
    <2> SUFFICES ASSUME NEW g \in Sessions, offer'[g] # None, NEW t \in Tables
        PROVE  IF Wants(offer'[g], t) THEN entry'[g][t] \in Entries(t)
               ELSE entry'[g][t] = IF offer'[g].dir = "mc" /\ t = "mac" THEN Size[t] ELSE 0
      BY DEF ItemsInv, Wants, Entries
    <2>1. CASE g = h
      BY <1>1, <1>4, <2>1, HeldNumbers, PlaceFound
    <2>2. CASE g # h
      BY <1>4, <2>2 DEF CountInv, ItemsInv
    <2> QED BY <2>1, <2>2
  <1>6. ASSUME NEW t \in Tables PROVE SpareInv(t)'
    <2>1. t \in Room(o) => Wants(o, t) /\ ~Full(t, o.key[t])
      BY <1>1, HeldNumbers
    <2> QED BY <1>1, <2>1, SpareRefer DEF CountInv
  <1>7. ASSUME NEW t \in Tables, Undisturbed(t), NEW e \in Entries(t)
        PROVE  /\ IsFiniteSet(Holders(t, e)') /\ Cardinality(Holders(t, e)') <= count'[t][e]
               /\ t \in {"pppoe", "mac"} => Cardinality(Holders(t, e)') = count'[t][e]
               /\ \A g \in Holders(t, e)' : key'[t][e] = offer'[g].key[t]
    <2> DEFINE mine == Wants(o, t) /\ e = Place(t, o.key[t])
    <2>1. t \in Room(o) <=> Wants(o, t)
      BY <1>1, HeldNumbers
    <2>2. t \in Room(o) => ~Full(t, o.key[t])
      BY <1>1, HeldNumbers
    <2>3. /\ count'[t][e] = IF mine THEN count[t][e] + 1 ELSE count[t][e]
          /\ \A g \in Holders(t, e) : key'[t][e] = offer[g].key[t]
      BY <1>1, <1>7, <2>1, <2>2, KeysKept DEF CountInv
    <2>4. mine => key'[t][e] = o.key[t]
      BY <1>1, <2>1, <2>2, ReferAt
    <2>5. h \notin Holders(t, e)
      BY <1>3 DEF Holders
    <2>6. Holders(t, e)' = IF mine THEN Holders(t, e) \cup {h} ELSE Holders(t, e)
      <3>1. \A g \in Sessions \ {h} : g \in Holders(t, e)' <=> g \in Holders(t, e)
        BY <1>1, <1>4 DEF Holders, Wants
      <3>2. h \in Holders(t, e)' <=> mine
        BY <1>1, <1>3, <1>4, HeldNumbers DEF Holders, Wants
      <3>3. Holders(t, e)' \subseteq Sessions /\ Holders(t, e) \subseteq Sessions
        BY DEF Holders
      <3> HIDE DEF mine
      <3> QED BY <2>5, <3>1, <3>2, <3>3
    <2>7. /\ IsFiniteSet(Holders(t, e)) /\ Cardinality(Holders(t, e)) \in Nat
          /\ Cardinality(Holders(t, e)) <= count[t][e] /\ count[t][e] \in Nat
          /\ t \in {"pppoe", "mac"} => Cardinality(Holders(t, e)) = count[t][e]
      BY <1>1, <1>7, FS_CardinalityType DEF CountInv, HoldInv, TypedTables
    <2>8. /\ IsFiniteSet(Holders(t, e) \cup {h})
          /\ Cardinality(Holders(t, e) \cup {h}) = Cardinality(Holders(t, e)) + 1
      BY <2>5, <2>7, FS_AddElement
    <2>9. \A g \in Holders(t, e) : offer'[g] = offer[g]
      BY <1>4, <2>5 DEF Holders
    <2> HIDE DEF mine
    <2>10. IsFiniteSet(Holders(t, e)') /\ \A g \in Holders(t, e)' : key'[t][e] = offer'[g].key[t]
      BY <1>4, <2>3, <2>4, <2>6, <2>7, <2>8, <2>9
    <2>11. /\ Cardinality(Holders(t, e)') <= count'[t][e]
           /\ t \in {"pppoe", "mac"} => Cardinality(Holders(t, e)') = count'[t][e]
      BY <2>3, <2>6, <2>7, <2>8
    <2> QED BY <2>10, <2>11
  <1>8. ASSUME NEW t \in Tables PROVE HoldInv(t)'
    BY <1>7 DEF HoldInv, Undisturbed, AllTake, HasSpare, Wanted, Wants, Released, Entries
  <1> QED BY <1>5, <1>6, <1>8

LEMMA CountAddFails ==
  ASSUME CountInv, NEW o \in Offers, AddFails(o)
  PROVE  ItemsInv' /\ \A t \in Tables : SpareInv(t)' /\ HoldInv(t)'
  <1>1. PICK u \in Stages(o) \cup {"route"} : Reaches(o, u) /\ Refer(Leaked(o, u), o)
    BY DEF AddFails
  <1> DEFINE T == Leaked(o, u)
  <1>2. /\ TypedTables /\ T \in SUBSET Tables /\ Refer(T, o)
        /\ UNCHANGED <<offer, entry, step, current>>
    BY <1>1 DEF CountInv, TypeInv, Leaked, Before, AddFails, items
  <1>3. \A t \in T : Wants(o, t) /\ ~Full(t, o.key[t])
    BY <1>1 DEF Leaked, Before, Reaches
  <1>4. "pppoe" \notin T /\ "mac" \notin T
    <2>1. CASE o.dir = "mc"
      BY <2>1, <1>1 DEF Leaked, Before, GivenBack, Stages, McTables
    <2>2. CASE o.dir # "mc"
      BY <2>2, <1>1 DEF Leaked, Before, GivenBack, Stages, Tables
    <2> QED BY <2>1, <2>2
  <1> HIDE DEF T
  <1>5. ItemsInv'
    BY <1>2 DEF CountInv, ItemsInv, Wants, Entries
  <1>6. ASSUME NEW t \in Tables PROVE SpareInv(t)'
    BY <1>2, <1>3, SpareRefer DEF CountInv
  <1>7. ASSUME NEW t \in Tables PROVE HoldInv(t)'
    <2> SUFFICES ASSUME Undisturbed(t), NEW e \in Entries(t)
        PROVE  /\ IsFiniteSet(Holders(t, e)') /\ Cardinality(Holders(t, e)') <= count'[t][e]
               /\ t \in {"pppoe", "mac"} => Cardinality(Holders(t, e)') = count'[t][e]
               /\ \A g \in Holders(t, e)' : key'[t][e] = offer'[g].key[t]
      BY DEF HoldInv, Undisturbed, AllTake, HasSpare, Wanted, Wants, Released, Entries
    <2>1. Holders(t, e)' = Holders(t, e) /\ offer' = offer
      BY <1>2 DEF Holders, Wants
    <2>2. /\ count'[t][e] = IF t \in T /\ e = Place(t, o.key[t]) THEN count[t][e] + 1 ELSE count[t][e]
          /\ \A h \in Holders(t, e) : key'[t][e] = offer[h].key[t]
      BY <1>2, <1>3, KeysKept DEF CountInv
    <2>3. /\ IsFiniteSet(Holders(t, e)) /\ Cardinality(Holders(t, e)) \in Nat
          /\ Cardinality(Holders(t, e)) <= count[t][e] /\ count[t][e] \in Nat
          /\ t \in {"pppoe", "mac"} => Cardinality(Holders(t, e)) = count[t][e]
      BY <1>2, FS_CardinalityType DEF CountInv, HoldInv, TypedTables
    <2> QED BY <1>4, <2>1, <2>2, <2>3
  <1> QED BY <1>5, <1>6, <1>7

LEMMA CountRemove ==
  ASSUME CountInv, NEW h \in Sessions, Remove(h)
  PROVE  ItemsInv' /\ \A t \in Tables : SpareInv(t)' /\ HoldInv(t)'
  <1> DEFINE T == Released(offer[h])
  <1>1. /\ TypedTables /\ Drop(T, h) /\ UNCHANGED <<offer, entry>>
        /\ step = "idle" /\ step' = "unmap" /\ current' = h
    BY DEF CountInv, TypeInv, Remove, items
  <1>2. offer[h] \in Offers
    BY DEF CountInv, TypeInv, RInv, RoutesTyped, Listed, Remove
  <1>3. offer[h] # None
    BY <1>2, NoneAssumption
  <1>4. ItemsInv'
    BY <1>1 DEF CountInv, ItemsInv, Wants, Entries
  <1>5. ASSUME NEW t \in Tables PROVE SpareInv(t)'
    BY <1>1, SpareDrop DEF CountInv
  <1>6. ASSUME NEW t \in Tables PROVE HoldInv(t)'
    <2> SUFFICES ASSUME Undisturbed(t), NEW e \in Entries(t)
        PROVE  /\ IsFiniteSet(Holders(t, e)') /\ Cardinality(Holders(t, e)') <= count'[t][e]
               /\ t \in {"pppoe", "mac"} => Cardinality(Holders(t, e)') = count'[t][e]
               /\ \A g \in Holders(t, e)' : key'[t][e] = offer'[g].key[t]
      BY DEF HoldInv, Undisturbed, AllTake, HasSpare, Wanted, Wants, Released, Entries
    <2> DEFINE mine == Wants(offer[h], t) /\ entry[h][t] = e
    <2>1. Holders(t, e)' = Holders(t, e) \ {h} /\ (h \in Holders(t, e) <=> mine)
      BY <1>1, <1>3 DEF Holders, Wants
    <2>2. /\ IsFiniteSet(Holders(t, e)) /\ Cardinality(Holders(t, e)) \in Nat
          /\ Cardinality(Holders(t, e)) <= count[t][e] /\ count[t][e] \in Nat
          /\ t \in {"pppoe", "mac"} => Cardinality(Holders(t, e)) = count[t][e]
          /\ \A g \in Holders(t, e) : key[t][e] = offer[g].key[t]
      BY <1>1, FS_CardinalityType DEF CountInv, HoldInv, TypedTables
    <2>3. /\ IsFiniteSet(Holders(t, e) \ {h})
          /\ Cardinality(Holders(t, e) \ {h}) =
                IF mine THEN Cardinality(Holders(t, e)) - 1 ELSE Cardinality(Holders(t, e))
      BY <2>1, <2>2, FS_RemoveElement
    <2>4. CASE ~(Counted(T, h, t) /\ entry[h][t] = e)
      (* Nothing is given back here.                                       *)
      <3>1. count'[t][e] = count[t][e] /\ key'[t][e] = key[t][e]
        BY <1>1, <2>4, DropAt
      <3>2. mine /\ t \in {"pppoe", "mac"} => FALSE
        <4> SUFFICES ASSUME mine, t \in {"pppoe", "mac"} PROVE FALSE
          OBVIOUS
        <4>1. t \in T
          <5>1. CASE offer[h].dir = "mc"
            <6>1. t \in McTables
              BY <1>2, <5>1, OffersAssumption DEF Wants
            <6> QED BY <5>1, <6>1 DEF Released
          <5>2. CASE offer[h].dir # "mc"
            BY <5>2 DEF Released
          <5> QED BY <5>1, <5>2
        <4>2. h \in Holders(t, e)
          BY <2>1
        <4>3. count[t][e] > 0
          BY <2>2, <4>2, FS_EmptySet
        <4> QED BY <2>4, <4>1, <4>3 DEF Counted
      <3> HIDE DEF mine
      <3>3. Cardinality(Holders(t, e) \ {h}) <= count'[t][e]
        BY <2>2, <2>3, <3>1
      <3> QED BY <1>1, <2>1, <2>2, <2>3, <3>1, <3>2, <3>3
    <2>5. CASE Counted(T, h, t) /\ entry[h][t] = e
      <3>1. /\ count[t][e] > 0 /\ count'[t][e] = count[t][e] - 1
            /\ count[t][e] # 1 => key'[t] = key[t]
        BY <1>1, <2>5, DropAt
      <3>2. mine
        (* Nobody gives back what he has not taken.                        *)
        <4> SUFFICES ASSUME ~Wants(offer[h], t) PROVE FALSE
          BY <2>5
        <4>1. e = IF offer[h].dir = "mc" /\ t = "mac" THEN Size[t] ELSE 0
          BY <1>3, <2>5 DEF CountInv, ItemsInv
        <4>2. ~(offer[h].dir = "mc" /\ t = "mac") /\ e = 0
          BY <4>1, SizeAssumption DEF Entries
        <4>3. t \in T
          BY <2>5 DEF Counted
        <4>4. ~AllTake(t)
          BY <1>2, <4>2, <4>3 DEF AllTake
        <4>5. count[t][0] = 0
          BY <4>4 DEF Undisturbed, CountInv, SpareInv
        <4> QED BY <3>1, <4>2, <4>5
      <3>3. Cardinality(Holders(t, e) \ {h}) = Cardinality(Holders(t, e)) - 1
        BY <2>3, <3>2
      <3>4. \A g \in Holders(t, e) \ {h} : key'[t][e] = offer[g].key[t]
        <4>1. CASE count[t][e] = 1
          <5>1. Holders(t, e) \ {h} = {}
            <6>1. Cardinality(Holders(t, e) \ {h}) = 0
              <7>1. Cardinality(Holders(t, e) \ {h}) \in Nat
                BY <2>3, FS_CardinalityType
              <7> QED BY <2>2, <3>3, <4>1, <7>1
            <6> QED BY <2>3, <6>1, FS_EmptySet
          <5> QED BY <5>1
        <4>2. CASE count[t][e] # 1
          BY <2>2, <3>1, <4>2
        <4> QED BY <4>1, <4>2
      <3> HIDE DEF mine
      <3> QED BY <1>1, <2>1, <2>2, <2>3, <3>1, <3>3, <3>4
    <2> QED BY <2>4, <2>5
  <1> QED BY <1>4, <1>5, <1>6

LEMMA CountKept ==
  ASSUME CountInv, UNCHANGED <<count, key>>, ItemsInv',
         \A t \in Tables : \A e \in Entries(t) : Holders(t, e)' = Holders(t, e),
         \A t \in Tables : \A e \in Entries(t) : \A h \in Holders(t, e) : offer'[h] = offer[h]
  PROVE  \A t \in Tables : SpareInv(t)' /\ HoldInv(t)'
  <1>1. ASSUME NEW t \in Tables PROVE SpareInv(t)'
    BY DEF CountInv, SpareInv, HasSpare, Wanted, Wants, Used, Entries
  <1>2. ASSUME NEW t \in Tables PROVE HoldInv(t)'
    <2> SUFFICES ASSUME Undisturbed(t), NEW e \in Entries(t)
        PROVE  /\ IsFiniteSet(Holders(t, e)') /\ Cardinality(Holders(t, e)') <= count'[t][e]
               /\ t \in {"pppoe", "mac"} => Cardinality(Holders(t, e)') = count'[t][e]
               /\ \A g \in Holders(t, e)' : key'[t][e] = offer'[g].key[t]
      BY DEF HoldInv, Undisturbed, AllTake, HasSpare, Wanted, Wants, Released, Entries
    <2> QED BY DEF CountInv, HoldInv
  <1> QED BY <1>1, <1>2

LEMMA CountStep == CountInv /\ [Next]_vars => CountInv'
  <1> SUFFICES ASSUME CountInv, [Next]_vars PROVE CountInv'
    OBVIOUS
  <1>1. TypeInv'
    BY TypeStep DEF CountInv
  <1>2. CASE Publish \/ Activate \/ UNCHANGED vars
    <2>1. /\ UNCHANGED <<count, key, offer, entry>>
          /\ \/ step # "unmap" /\ step' # "unmap"
             \/ UNCHANGED <<step, current>>
      BY <1>2 DEF Publish, Activate, vars, tables, items
    <2>2. ItemsInv'
      BY <2>1 DEF CountInv, ItemsInv, Wants, Entries
    <2>3. \A t \in Tables : \A e \in Entries(t) : Holders(t, e)' = Holders(t, e)
      BY <1>2, <2>1 DEF Holders, Wants, Publish, Activate, vars
    <2>4. \A t \in Tables : SpareInv(t)' /\ HoldInv(t)'
      BY <2>1, <2>2, <2>3, CountKept
    <2> QED BY <1>1, <2>2, <2>4 DEF CountInv
  <1>3. CASE Unmap
    <2>1. /\ step = "unmap" /\ step' = "idle" /\ current \in Sessions
          /\ offer \in [Sessions -> Offers \cup {None}] /\ entry \in [Sessions -> [Tables -> Nat]]
      BY <1>3 DEF Unmap, CountInv, TypeInv, RInv, CallMatches, RoutesTyped, EntriesTyped
    <2>2. /\ UNCHANGED <<count, key>> /\ offer'[current] = None
          /\ \A h \in Sessions \ {current} : offer'[h] = offer[h] /\ entry'[h] = entry[h]
      BY <1>3, <2>1 DEF Unmap, tables
    <2>3. ItemsInv'
      BY <2>1, <2>2 DEF CountInv, ItemsInv, Wants, Entries
    <2>4. ASSUME NEW t \in Tables, NEW e \in Entries(t)
          PROVE  /\ Holders(t, e)' = Holders(t, e)
                 /\ \A h \in Holders(t, e) : offer'[h] = offer[h]
      <3>1. \A h \in Sessions \ {current} : h \in Holders(t, e)' <=> h \in Holders(t, e)
        BY <2>1, <2>2 DEF Holders, Wants
      <3>2. current \notin Holders(t, e) /\ current \notin Holders(t, e)'
        BY <2>1, <2>2 DEF Holders
      <3>3. Holders(t, e)' \subseteq Sessions /\ Holders(t, e) \subseteq Sessions
        BY DEF Holders
      <3> QED BY <2>2, <3>1, <3>2, <3>3
    <2>5. \A t \in Tables : SpareInv(t)' /\ HoldInv(t)'
      BY <2>2, <2>3, <2>4, CountKept
    <2> QED BY <1>1, <2>3, <2>5 DEF CountInv
  <1>4. CASE \E h \in Sessions : Remove(h) \/ \E o \in Offers : Reserve(h, o)
    BY <1>1, <1>4, CountRemove, CountReserve DEF CountInv
  <1>5. CASE \E o \in Offers : AddFails(o)
    BY <1>1, <1>5, CountAddFails DEF CountInv
  <1> QED BY <1>2, <1>3, <1>4, <1>5 DEF Next

LEMMA CountInit == Init => CountInv
  <1> SUFFICES ASSUME Init PROVE CountInv
    OBVIOUS
  <1>1. ItemsInv
    BY DEF Init, ItemsInv
  <1>2. ASSUME NEW t \in Tables PROVE SpareInv(t) /\ HoldInv(t)
    <2>1. \A e \in Entries(t) : count[t][e] = 0
      BY DEF Init
    <2>2. 0 \in Entries(t)
      BY SizeAssumption DEF Entries
    <2>3. \A e \in Entries(t) : Holders(t, e) = {}
      BY DEF Init, Holders
    <2>4. SpareInv(t)
      BY <2>1, <2>2 DEF SpareInv, Used
    <2> QED BY <2>1, <2>3, <2>4, FS_EmptySet DEF HoldInv
  <1> QED BY <1>1, <1>2, TypeInit DEF CountInv

LEMMA CountInvariance == Spec => []CountInv
  BY CountInit, CountStep, PTL DEF Spec

(* Only who has taken an MTU or a tunnel gives one back.                   *)
LEMMA MtuAndTunnelUndisturbed == Undisturbed("mtu") /\ Undisturbed("tunnel")
  <1>1. ASSUME NEW o \in Offers, "mtu" \in Released(o) PROVE Wants(o, "mtu")
    BY <1>1, OffersAssumption DEF Released, McTables, Wants
  <1>2. ASSUME NEW o \in Offers, "tunnel" \in Released(o) PROVE Wants(o, "tunnel")
    BY <1>2 DEF Released, McTables
  <1> QED BY <1>1, <1>2 DEF Undisturbed, AllTake

(* The entries of a session are counted for it and hold what it wanted     *)
(* from its add to its removal, for any offers, sizes and failures on the  *)
(* way, if nobody gives back a PPPoE, MAC or VLAN entry that he has not    *)
(* taken; the run stale_entry has such sessions.                           *)
THEOREM EntriesOutlive ==
  ASSUME \A t \in {"pppoe", "mac", "vlan"} : Undisturbed(t)
  PROVE  Spec => []EntryOutlivesItsSessions
  <1>1. \A t \in Tables : Undisturbed(t)
    BY MtuAndTunnelUndisturbed DEF Tables
  <1>2. CountInv => EntryOutlivesItsSessions
    BY <1>1 DEF CountInv, HoldInv, EntryOutlivesItsSessions
  <1> QED BY <1>2, CountInvariance, PTL

(* A failed add leaves no PPPoE or MAC entry counted that nobody holds,    *)
(* wherever it fails, as long as nothing is taken from these two tables    *)
(* that was not put there.                                                 *)
THEOREM FailedAddsGiveBack ==
  ASSUME Undisturbed("pppoe"), Undisturbed("mac")
  PROVE  Spec => []FailuresGiveBack
  <1>1. CountInv => FailuresGiveBack
    BY DEF CountInv, HoldInv, FailuresGiveBack, Tables
  <1> QED BY <1>1, CountInvariance, PTL
=============================================================================
