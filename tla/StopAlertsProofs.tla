-------------------------- MODULE StopAlertsProofs --------------------------
(***************************************************************************)
(* Theorems about StopAlerts, for any city, stops, buses, radii, readings  *)
(* and any number of queries in flight.                                    *)
(***************************************************************************)
EXTENDS StopAlerts, WellFoundedInduction, TLAPS

-----------------------------------------------------------------------------
\* Distances and the closest of some points.

LEMMA DistanceType == ASSUME NEW a \in Int, NEW b \in Int PROVE Distance(a, b) \in Nat
BY DEF Distance

LEMMA Triangle ==
  ASSUME NEW a \in Int, NEW b \in Int, NEW c \in Int
  PROVE  /\ Distance(a, c) <= Distance(a, b) + Distance(b, c)
         /\ Distance(a, b) = Distance(b, a)
         /\ Distance(a, a) = 0
BY DEF Distance

LEMMA SmallestNat ==
  ASSUME NEW T, T \subseteq Nat, T # {}
  PROVE  \E x \in T : \A y \in T : x <= y
<1>. DEFINE R == {ss \in Nat \X Nat : ss[1] < ss[2]}
<1>1. IsWellFoundedOn(R, Nat)
  BY NatLessThanWellFounded DEF OpToRel
<1>2. PICK x \in T : \A y \in T : ~(<<y, x>> \in R)
  <2>. HIDE DEF R
  <2>. QED  BY <1>1, WFMin
<1>3. ASSUME NEW y \in T PROVE x <= y
  <2>1. ~(<<y, x>> \in R)
    BY <1>2
  <2>. QED  BY <2>1
<1>. QED  BY <1>3

\* Of some things that are somewhere, one is the closest.
LEMMA OneIsClosest ==
  ASSUME NEW S, S # {}, NEW at \in Int, NEW where \in [S -> Int]
  PROVE  \E s \in S : \A r \in S : Distance(at, where[s]) <= Distance(at, where[r])
<1>. DEFINE T == {Distance(at, where[s]) : s \in S}
<1>1. T \subseteq Nat /\ T # {}
  BY DistanceType
<1>2. PICK x \in T : \A y \in T : x <= y
  <2>. HIDE DEF T
  <2>. QED  BY <1>1, SmallestNat
<1>3. PICK s \in S : x = Distance(at, where[s])
  OBVIOUS
<1>. QED  BY <1>2, <1>3

LEMMA NearestIsClosest ==
  ASSUME NEW at \in Places, NEW known \in SUBSET Stops, known # {}
  PROVE  /\ NearestStop(at, known) \in known
         /\ \A r \in known : Distance(at, NearestStop(at, known)) <= Distance(at, r)
<1>1. at \in Int /\ known \subseteq Int
  BY RadiiAssumption
<1>. DEFINE where == [s \in known |-> s]
<1>2. where \in [known -> Int]
  BY <1>1
<1>3. PICK s \in known : \A r \in known : Distance(at, where[s]) <= Distance(at, where[r])
  <2>. HIDE DEF where
  <2>. QED  BY <1>1, <1>2, OneIsClosest
<1>4. s \in Closest(at, known)
  BY <1>3 DEF Closest
<1>5. NearestStop(at, known) \in Closest(at, known)
  BY <1>4 DEF NearestStop
<1>. QED  BY <1>5 DEF Closest

-----------------------------------------------------------------------------
\* The stop alerts are allowed at.

LEMMA AlertStopType ==
  ASSUME NEW reading \in Readings \union {None}, NEW known \in {None} \union SUBSET Stops
  PROVE  AlertStop(reading, known) \in Stops \union {None}
<1>1. CASE AlertStop(reading, known) = None
  BY <1>1
<1>2. CASE AlertStop(reading, known) # None
  <2>1. /\ reading # None /\ known # None /\ Proximity(reading, known) = "inside"
        /\ AlertStop(reading, known) = NearestStop(reading.at, known)
    BY <1>2 DEF AlertStop
  <2>2. known # {}
    BY <2>1 DEF Proximity
  <2>3. reading.at \in Places
    BY <2>1, RadiiAssumption
  <2>4. known \in SUBSET Stops
    BY <2>1
  <2>5. NearestStop(reading.at, known) \in known
    BY <2>2, <2>3, <2>4, NearestIsClosest
  <2>. QED  BY <2>1, <2>4, <2>5
<1>. QED  BY <1>1, <1>2

\* Who is inside the radius of some stop gets a closest one, and who is not
\* gets none.
LEMMA Inside ==
  ASSUME NEW reading \in Readings, NEW known \in SUBSET Stops
  PROVE  /\ reading.precise /\ (\E s \in known : Distance(reading.at, s) <= StopRadius)
            => AlertStop(reading, known) = NearestStop(reading.at, known)
         /\ ~(reading.precise /\ (\E s \in known : Distance(reading.at, s) <= StopRadius))
            => AlertStop(reading, known) = None
<1>1. reading # None /\ known # None
  BY NoneAssumption
<1>2. reading.at \in Places /\ reading.precise \in BOOLEAN
  BY RadiiAssumption
<1>3. CASE known = {}
  <2>1. Proximity(reading, known) = "no-stops"
    BY <1>3 DEF Proximity
  <2>2. AlertStop(reading, known) = None
    BY <2>1 DEF AlertStop
  <2>. QED  BY <1>3, <2>2
<1>4. CASE known # {}
  <2>. DEFINE near == NearestStop(reading.at, known)
  <2>1. near \in known /\ \A r \in known : Distance(reading.at, near) <= Distance(reading.at, r)
    BY <1>2, <1>4, NearestIsClosest
  <2>2. \A r \in known : Distance(reading.at, r) \in Nat
    BY <1>2, DistanceType, RadiiAssumption
  <2>3. (\E s \in known : Distance(reading.at, s) <= StopRadius)
        <=> Distance(reading.at, near) <= StopRadius
    <3>. HIDE DEF near
    <3>. QED  BY <2>1, <2>2, RadiiAssumption
  <2>4. Proximity(reading, known) = "inside"
        <=> reading.precise /\ Distance(reading.at, near) <= StopRadius
    <3>1. CASE ~reading.precise
      BY <1>4, <3>1 DEF Proximity
    <3>2. CASE reading.precise /\ Distance(reading.at, near) <= StopRadius
      BY <1>4, <3>2 DEF Proximity
    <3>3. CASE reading.precise /\ ~(Distance(reading.at, near) <= StopRadius)
      BY <1>4, <3>3 DEF Proximity
    <3>. QED  BY <1>2, <3>1, <3>2, <3>3
  <2>5. AlertStop(reading, known) = IF Proximity(reading, known) = "inside" THEN near ELSE None
    BY <1>1 DEF AlertStop
  <2>. HIDE DEF near
  <2>6. CASE reading.precise /\ \E s \in known : Distance(reading.at, s) <= StopRadius
    BY <2>3, <2>4, <2>5, <2>6 DEF near
  <2>7. CASE ~(reading.precise /\ \E s \in known : Distance(reading.at, s) <= StopRadius)
    BY <2>3, <2>4, <2>5, <2>7
  <2>. QED  BY <2>6, <2>7
<1>. QED  BY <1>3, <1>4

\* The stops around a point where the user was not long ago are enough.
LEMMA Covered ==
  ASSUME NEW reading \in Readings, NEW from \in Places,
         Distance(from, reading.at) < Refetch
  PROVE  AlertStop(reading, StopsAround(from)) = AlertStop(reading, Stops)
<1>. DEFINE at     == reading.at
            near == StopsAround(from)
<1>1. /\ at \in Int /\ at \in Places /\ from \in Int /\ Stops \subseteq Int
      /\ StopRadius \in Nat /\ SearchRadius \in Nat /\ Refetch \in Nat
      /\ Refetch + StopRadius - 1 <= SearchRadius
  BY RadiiAssumption
<1>2. near \in SUBSET Stops
  BY DEF StopsAround
<1>3. ASSUME NEW s \in Stops, Distance(at, s) <= StopRadius PROVE s \in near
  <2>1. Distance(s, from) <= Distance(s, at) + Distance(at, from)
    BY <1>1, Triangle
  <2>2. Distance(s, at) = Distance(at, s) /\ Distance(at, from) = Distance(from, at)
    BY <1>1, Triangle
  <2>3. Distance(s, from) \in Nat /\ Distance(s, at) \in Nat /\ Distance(from, at) \in Nat
    BY <1>1, DistanceType
  <2>4. Distance(s, from) <= SearchRadius
    BY <1>1, <1>3, <2>1, <2>2, <2>3
  <2>. QED  BY <2>4 DEF StopsAround
<1>4. CASE \E s \in Stops : Distance(at, s) <= StopRadius
  <2>1. \A r \in Stops : Distance(at, r) \in Nat
    BY <1>1, DistanceType
  <2>2. PICK s \in Stops : Distance(at, s) <= StopRadius
    BY <1>4
  <2>3. s \in near
    BY <1>3, <2>2
  <2>4. ASSUME NEW x \in Closest(at, near) PROVE x \in Closest(at, Stops)
    <3>1. x \in Stops /\ \A r \in near : Distance(at, x) <= Distance(at, r)
      BY <1>2, <2>4 DEF Closest
    <3>2. ASSUME NEW r \in Stops PROVE Distance(at, x) <= Distance(at, r)
      BY <1>1, <1>3, <2>1, <2>2, <2>3, <3>1
    <3>. QED  BY <3>1, <3>2 DEF Closest
  <2>5. ASSUME NEW x \in Closest(at, Stops) PROVE x \in Closest(at, near)
    <3>1. x \in Stops /\ \A r \in Stops : Distance(at, x) <= Distance(at, r)
      BY <2>5 DEF Closest
    <3>2. Distance(at, x) <= StopRadius
      BY <1>1, <2>1, <2>2, <3>1
    <3>3. x \in near
      BY <1>3, <3>1, <3>2
    <3>. QED  BY <1>2, <3>1, <3>3 DEF Closest
  <2>6. Closest(at, near) = Closest(at, Stops)
    BY <2>4, <2>5
  <2>7. NearestStop(at, near) = NearestStop(at, Stops)
    BY <2>6 DEF NearestStop
  <2>8. CASE reading.precise
    BY <1>2, <2>2, <2>3, <2>7, <2>8, Inside
  <2>9. CASE ~reading.precise
    BY <1>2, <2>9, Inside
  <2>. QED  BY <2>8, <2>9
<1>5. CASE ~ \E s \in Stops : Distance(at, s) <= StopRadius
  BY <1>2, <1>5, Inside
<1>. QED  BY <1>4, <1>5

-----------------------------------------------------------------------------
\* What the parts of the steps do to the types.

LEMMA StopsAreNot == None \notin Stops /\ None \notin Places /\ None \notin Slots
BY RadiiAssumption, NoneAssumption

LEMMA FreeSlot ==
  ASSUME NEW queries, NEW k \in NewSlot(queries)
  PROVE  k \in Slots /\ queries[k] = None
<1>. DEFINE free == {j \in Slots : queries[j] = None}
<1>1. free # {} /\ k = CHOOSE j \in free : TRUE
  BY DEF NewSlot
<1>2. k \in free
  BY <1>1
<1>. QED  BY <1>2

LEMMA NewQuery ==
  ASSUME NearbyOK, NEW from \in Places, Load(from)
  PROVE  /\ loads' \in [Slots -> Places \union {None}]
         /\ latest' \in Slots /\ loads'[latest'] = from
         /\ origin' = from /\ retry' = FALSE
<1>1. PICK k \in NewSlot(loads) :
         loads' = [loads EXCEPT ![k] = from] /\ latest' = k /\ origin' = from /\ retry' = FALSE
  BY DEF Load
<1>2. k \in Slots
  BY FreeSlot
<1>. QED  BY <1>1, <1>2 DEF NearbyOK

LEMMA AsksType ==
  ASSUME AroundOK, NEW stop \in Stops, Asks(stop)
  PROVE  /\ checks' \in [Slots -> Stops \union {None}]
         /\ inFlight' \in Slots \union {None}
         /\ inFlight' # None => checks'[inFlight'] # None
<1>1. CASE Locked(stop)
  BY <1>1 DEF Asks, AroundOK
<1>2. CASE ~Locked(stop)
  <2>1. PICK k \in NewSlot(checks) : checks' = [checks EXCEPT ![k] = stop] /\ inFlight' = k
    BY <1>2 DEF Asks
  <2>2. k \in Slots
    BY FreeSlot
  <2>. QED  BY <2>1, <2>2, StopsAreNot DEF AroundOK
<1>. QED  BY <1>1, <1>2

\* The buses near a stop, the alert for one that was not notified before.
LEMMA EvaluatedType ==
  ASSUME NEW a \in Shown, NEW stop \in Stops, NEW report \in Report
  PROVE  /\ Evaluated(a, stop, report) \in Shown
         /\ Evaluated(a, stop, report).approaching = Evaluated(a, stop, report).notified
         /\ \/ Evaluated(a, stop, report).alert = a.alert
            \/ Evaluated(a, stop, report).alert.stop = stop
<1>. DEFINE list  == Approaching(stop, report)
            fresh == list \ a.notified
            bus   == CHOOSE b \in fresh : IsFirst(b, fresh, stop, report)
            alert == IF fresh = {} THEN a.alert ELSE [stop |-> stop, bus |-> bus]
<1>1. Evaluated(a, stop, report) = [approaching |-> list, notified |-> list, alert |-> alert]
  BY DEF Evaluated
<1>2. list \subseteq Buses /\ fresh \subseteq Buses
  BY DEF Approaching
<1>3. CASE fresh = {}
  <2>1. alert = a.alert
    BY <1>3
  <2>. HIDE DEF list, fresh, bus, alert
  <2>2. alert \in [stop : Stops, bus : Buses] \union {None}
    BY <2>1 DEF Shown
  <2>. QED  BY <1>1, <1>2, <2>1, <2>2 DEF Shown
<1>4. CASE fresh # {}
  <2>. DEFINE where == [b \in fresh |-> report[b]]
  <2>1. where \in [fresh -> Int]
    <3>1. ASSUME NEW b \in fresh PROVE report[b] \in Int
      <4>1. report[b] # None /\ b \in Buses
        BY DEF Approaching
      <4>. QED  BY <4>1, RadiiAssumption DEF Report
    <3>. QED  BY <3>1
  <2>2. stop \in Int
    BY RadiiAssumption
  <2>3. PICK b \in fresh : \A o \in fresh : Distance(stop, where[b]) <= Distance(stop, where[o])
    <3>. HIDE DEF where, fresh
    <3>. QED  BY <1>4, <2>1, <2>2, OneIsClosest
  <2>4. IsFirst(b, fresh, stop, report)
    BY <2>3 DEF IsFirst
  <2>5. bus \in fresh
    <3>. HIDE DEF fresh
    <3>. QED  BY <2>4
  <2>6. alert = [stop |-> stop, bus |-> bus]
    BY <1>4
  <2>. HIDE DEF list, fresh, bus, alert
  <2>7. alert \in [stop : Stops, bus : Buses] /\ alert.stop = stop
    BY <1>2, <2>5, <2>6
  <2>. QED  BY <1>1, <1>2, <2>7 DEF Shown
<1>. QED  BY <1>3, <1>4

LEMMA NoAlertsType ==
  NoAlerts \in Shown /\ NoAlerts.alert = None /\ NoAlerts.notified = {} /\ NoAlerts.approaching = {}
BY DEF NoAlerts, Shown

\* The effects of useProximityAlerts keep the types, and what is shown goes
\* with the stop of now.
LEMMA EffectsAround ==
  ASSUME TypeOK, Effects,
         position' \in Readings \union {None},
         stops' \in {None} \union SUBSET Stops,
         live' \in Report \union {None}
  PROVE  AroundOK' /\ (AlertsAreForTheStop => AlertsAreForTheStop')
<1>. DEFINE before == AlertStop(position, stops)
            stop   == AlertStop(position', stops')
            fresh  == IF stop # before THEN NoAlerts ELSE alerts
            restart == stop # before \/ (live = None) # (live' = None)
            needed == stop # None /\ live' = None
            shown == stop # None /\ live' # None /\ (stop # before \/ live' # live)
<1>1. stop \in Stops \union {None} /\ before \in Stops \union {None}
  BY AlertStopType DEF TypeOK, PlaceOK, NearbyOK
<1>2. /\ alerts' = IF shown THEN Evaluated(fresh, stop, live') ELSE fresh
      /\ polling' = IF restart THEN needed /\ Awake ELSE polling
      /\ IF restart /\ needed /\ Awake THEN Asks(stop) ELSE UNCHANGED <<checks, inFlight>>
  BY DEF Effects
<1>. HIDE DEF stop, before, shown
<1>3. fresh \in Shown
  BY NoAlertsType DEF TypeOK, AroundOK
<1>4. alerts' \in Shown
  <2>1. CASE shown
    <3>1. stop \in Stops /\ live' \in Report
      BY <1>1, <2>1 DEF shown
    <3>. HIDE DEF fresh
    <3>. QED  BY <1>2, <1>3, <2>1, <3>1, EvaluatedType
  <2>2. CASE ~shown
    BY <1>2, <1>3, <2>2
  <2>. QED  BY <2>1, <2>2
<1>5. polling' \in BOOLEAN
  BY <1>2 DEF TypeOK, AroundOK
<1>6. /\ checks' \in [Slots -> Stops \union {None}]
      /\ inFlight' \in Slots \union {None}
      /\ inFlight' # None => checks'[inFlight'] # None
  <2>1. CASE restart /\ needed /\ Awake
    <3>1. stop \in Stops /\ Asks(stop)
      BY <1>1, <1>2, <2>1
    <3>. QED  BY <3>1, AsksType DEF TypeOK
  <2>2. CASE ~(restart /\ needed /\ Awake)
    <3>1. checks' = checks /\ inFlight' = inFlight
      BY <1>2, <2>2
    <3>. QED  BY <3>1 DEF TypeOK, AroundOK
  <2>. QED  BY <2>1, <2>2
<1>7. AroundOK'
  BY <1>4, <1>5, <1>6 DEF AroundOK, Report
<1>8. ASSUME AlertsAreForTheStop PROVE AlertsAreForTheStop'
  <2>1. /\ fresh.alert # None => fresh.alert.stop = stop
        /\ fresh.notified # {} => stop # None
        /\ fresh.approaching = fresh.notified
    BY <1>8, NoAlertsType DEF AlertsAreForTheStop, before
  <2>2. /\ alerts'.alert # None => alerts'.alert.stop = stop
        /\ alerts'.notified # {} => stop # None
        /\ alerts'.approaching = alerts'.notified
    <3>1. CASE shown
      <4>1. stop \in Stops /\ live' \in Report /\ stop # None
        BY <1>1, <3>1 DEF shown
      <4>. HIDE DEF fresh
      <4>2. /\ alerts'.approaching = alerts'.notified
            /\ alerts'.alert = fresh.alert \/ alerts'.alert.stop = stop
        BY <1>2, <1>3, <3>1, <4>1, EvaluatedType
      <4>. QED  BY <2>1, <4>1, <4>2
    <3>2. CASE ~shown
      BY <1>2, <2>1, <3>2
    <3>. QED  BY <3>1, <3>2
  <2>. QED  BY <2>2 DEF AlertsAreForTheStop, stop
<1>. QED  BY <1>7, <1>8

\* The interval is set again when the stop or the connection changed.
LEMMA EffectsPoll ==
  ASSUME TypeOK, Effects, PollsWhenNeeded, UNCHANGED <<mounted, app>>,
         mounted \/ UNCHANGED <<position, stops, live>>
  PROVE  PollsWhenNeeded'
<1>. DEFINE before == AlertStop(position, stops)
            stop   == AlertStop(position', stops')
            restart == stop # before \/ (live = None) # (live' = None)
            needed == stop # None /\ live' = None
<1>1. polling' = IF restart THEN needed /\ Awake ELSE polling
  BY DEF Effects
<1>2. mounted \/ ~restart
  BY DEF AlertStop
<1>. HIDE DEF stop, before
<1>3. CASE restart
  <2>1. mounted /\ mounted' /\ app' = app /\ polling' = (needed /\ app # "background")
    BY <1>1, <1>2, <1>3 DEF Awake
  <2>2. PollsWhenNeeded' <=> /\ polling' => needed /\ app # "background"
                             /\ needed /\ app = "active" => polling'
    BY <2>1 DEF PollsWhenNeeded, stop
  <2>3. polling' <=> needed /\ app # "background"
    BY <2>1, Zenon
  <2>4. app = "active" => app # "background"
    OBVIOUS
  <2>. QED  BY <2>2, <2>3, <2>4, Zenon
<1>4. CASE ~restart
  <2>1. polling' = polling /\ stop = before /\ ((live = None) = (live' = None))
    BY <1>1, <1>4
  <2>. QED  BY <2>1 DEF PollsWhenNeeded, stop, before
<1>. QED  BY <1>3, <1>4

\* A new reading, whichever way it came.
LEMMA MovedNearby ==
  ASSUME TypeOK, NEW reading \in Readings, Moved(reading), mounted, mounted'
  PROVE  /\ position' = reading /\ reading # None /\ reading.at \in Places
         /\ stops' = stops /\ live' = live
         /\ \/ /\ loads' \in [Slots -> Places \union {None}]
               /\ latest' \in Slots /\ loads'[latest'] = reading.at
               /\ origin' = reading.at /\ retry' = FALSE
            \/ /\ ~FarEnough(reading.at) \/ (position # None /\ position.at = reading.at)
               /\ UNCHANGED <<origin, loads, latest, retry>>
<1>1. reading # None /\ reading.at \in Places
  BY RadiiAssumption, NoneAssumption
<1>2. position' = reading /\ stops' = stops /\ live' = live
  BY DEF Moved
<1>3. CASE FarEnough(reading.at) /\ (position = None \/ position.at # reading.at)
  <2>1. Load(reading.at)
    BY <1>3 DEF Moved
  <2>. QED  BY <1>1, <1>2, <2>1, NewQuery DEF TypeOK
<1>4. CASE ~(FarEnough(reading.at) /\ (position = None \/ position.at # reading.at))
  <2>1. UNCHANGED <<origin, loads, latest, retry>>
    BY <1>4 DEF Moved
  <2>. QED  BY <1>1, <1>2, <1>4, <2>1
<1>. QED  BY <1>3, <1>4

LEMMA MovedType ==
  ASSUME TypeOK, NEW reading \in Readings, Moved(reading), mounted,
         UNCHANGED <<mounted, app, permission, watch, wanted>>, locating' \in BOOLEAN
  PROVE  TypeOK'
<1>1. position' = reading /\ reading.at \in Places /\ stops' = stops /\ live' = live
  BY MovedNearby
<1>2. PlaceOK'
  BY <1>1 DEF TypeOK, PlaceOK
<1>3. NearbyOK'
  <2>1. CASE /\ loads' \in [Slots -> Places \union {None}]
             /\ latest' \in Slots /\ loads'[latest'] = reading.at
             /\ origin' = reading.at /\ retry' = FALSE
    BY <1>1, <2>1, StopsAreNot DEF TypeOK, NearbyOK
  <2>2. CASE UNCHANGED <<origin, loads, latest, retry>>
    BY <1>1, <2>2 DEF TypeOK, NearbyOK
  <2>. QED  BY <2>1, <2>2, MovedNearby
<1>4. AroundOK'
  <2>1. Effects
    BY DEF Moved
  <2>. QED  BY <1>1, <2>1, EffectsAround DEF TypeOK, NearbyOK, AroundOK
<1>. QED  BY <1>2, <1>3, <1>4 DEF TypeOK

\* The actions of each hook.
LocationStep ==
  \/ \E p \in Permissions : PermissionKnown(p) \/ LocateFails(p)
  \/ Refresh \/ WatchStarted \/ WatchFails

ReadingStep == \E reading \in Readings : Located(reading) \/ WatchReports(reading)

QueryStep == Reload \/ Retries \/ \E k \in Slots : StopsFail(k)

CheckStep == CheckNow \/ Dismiss \/ \E k \in Slots : CheckAnswered(k) \/ CheckFails(k)

AppStep == Foreground \/ (\E state \in {"inactive", "background"} : Leaves(state)) \/ Unmount

LEMMA Steps ==
  ASSUME Next
  PROVE  \/ LocationStep \/ ReadingStep \/ QueryStep \/ CheckStep \/ AppStep \/ LiveChanges
         \/ \E k \in Slots : StopsArrive(k)
BY DEF Next, Turn, GoesOn, LocationStep, ReadingStep, QueryStep, CheckStep, AppStep

LEMMA TypeInit == Init => TypeOK
BY NoAlertsType, NoneAssumption
DEF Init, TypeOK, PlaceOK, NearbyOK, AroundOK

LEMMA TypeLocation == ASSUME TypeOK, LocationStep PROVE TypeOK'
<1>1. UNCHANGED <<nearby, around, mounted, app, position>>
  BY DEF LocationStep, PermissionKnown, LocateFails, Refresh, WatchStarted, WatchFails
<1>2. /\ permission' \in Permissions \union {None}
      /\ locating' \in BOOLEAN /\ wanted' \in BOOLEAN
  BY DEF LocationStep, PermissionKnown, LocateFails, Refresh, WatchStarted, WatchFails,
         TypeOK, PlaceOK
<1>3. watch' \in {"off", "starting", "on"}
  BY DEF LocationStep, PermissionKnown, LocateFails, Refresh, WatchStarted, WatchFails,
         WatchStarts, WatchKept, TypeOK, PlaceOK
<1>4. PlaceOK'
  BY <1>1, <1>2, <1>3 DEF TypeOK, PlaceOK
<1>5. NearbyOK' /\ AroundOK'
  BY <1>1 DEF TypeOK, NearbyOK, AroundOK, nearby, around, Report
<1>. QED  BY <1>4, <1>5 DEF TypeOK

LEMMA TypeReading == ASSUME TypeOK, ReadingStep PROVE TypeOK'
<1>1. PICK reading \in Readings : Located(reading) \/ WatchReports(reading)
  BY DEF ReadingStep
<1>2. /\ mounted /\ Moved(reading) /\ locating' \in BOOLEAN
      /\ UNCHANGED <<mounted, app, permission, watch, wanted>>
  BY <1>1 DEF Located, WatchReports, TypeOK, PlaceOK
<1>. QED  BY <1>2, MovedType

LEMMA TypeQuery == ASSUME TypeOK, QueryStep PROVE TypeOK'
<1>1. UNCHANGED <<place, stops, around>>
  BY DEF QueryStep, Reload, Retries, StopsFail
<1>2. PlaceOK' /\ AroundOK'
  BY <1>1 DEF TypeOK, PlaceOK, AroundOK, place, around, Report
<1>3. NearbyOK'
  <2>1. CASE Reload \/ Retries
    <3>1. position # None /\ Load(position.at)
      BY <2>1 DEF Reload, Retries
    <3>2. position.at \in Places
      BY <3>1, RadiiAssumption DEF TypeOK, PlaceOK
    <3>. QED  BY <1>1, <3>1, <3>2, NewQuery, StopsAreNot DEF TypeOK, NearbyOK
  <2>2. ASSUME NEW k \in Slots, StopsFail(k) PROVE NearbyOK'
    <3>1. /\ loads' = [loads EXCEPT ![k] = None]
          /\ \/ Newest(k) /\ origin' = None /\ retry' = TRUE /\ latest' = None
             \/ ~Newest(k) /\ UNCHANGED <<origin, retry, latest>>
      BY <2>2 DEF StopsFail
    <3>2. mounted' = mounted /\ stops' = stops
      BY <1>1 DEF place
    <3>. QED  BY <3>1, <3>2 DEF TypeOK, NearbyOK, Newest
  <2>. QED  BY <2>1, <2>2 DEF QueryStep
<1>. QED  BY <1>2, <1>3 DEF TypeOK

LEMMA TypeArrive == ASSUME TypeOK, NEW k \in Slots, StopsArrive(k) PROVE TypeOK'
<1>1. /\ loads' = [loads EXCEPT ![k] = None]
      /\ \/ Newest(k) /\ stops' = StopsAround(loads[k]) /\ latest' = None
         \/ ~Newest(k) /\ UNCHANGED <<stops, latest>>
      /\ UNCHANGED <<place, origin, retry, live>> /\ Effects
  BY DEF StopsArrive
<1>2. PlaceOK' /\ mounted' = mounted
  BY <1>1 DEF TypeOK, PlaceOK, place
<1>3. NearbyOK'
  BY <1>1, <1>2 DEF TypeOK, NearbyOK, Newest, StopsAround
<1>4. AroundOK'
  BY <1>1, <1>2, <1>3, EffectsAround DEF TypeOK, PlaceOK, NearbyOK, AroundOK
<1>. QED  BY <1>2, <1>3, <1>4 DEF TypeOK

LEMMA TypeCheck == ASSUME TypeOK, CheckStep PROVE TypeOK'
<1>1. UNCHANGED <<place, nearby, live, polling>>
  BY DEF CheckStep, CheckNow, Dismiss, CheckAnswered, CheckFails
<1>2. PlaceOK' /\ NearbyOK'
  BY <1>1 DEF TypeOK, PlaceOK, NearbyOK, place, nearby
<1>3. AroundOK'
  <2>1. CASE CheckNow
    <3>1. AlertStop(position, stops) \in Stops
      BY <2>1, AlertStopType DEF CheckNow, TypeOK, PlaceOK, NearbyOK
    <3>2. Asks(AlertStop(position, stops)) /\ alerts' = alerts
      BY <2>1 DEF CheckNow
    <3>. QED  BY <1>1, <3>1, <3>2, AsksType DEF TypeOK, AroundOK, Report
  <2>2. CASE Dismiss
    BY <1>1, <2>2 DEF Dismiss, TypeOK, AroundOK, Report, Shown
  <2>3. ASSUME NEW k \in Slots, CheckAnswered(k) \/ CheckFails(k) PROVE AroundOK'
    <3>1. checks[k] \in Stops /\ checks' = [checks EXCEPT ![k] = None] /\ Unlocks(k)
      BY <2>3 DEF CheckAnswered, CheckFails, TypeOK, AroundOK
    <3>2. /\ checks' \in [Slots -> Stops \union {None}]
          /\ inFlight' \in Slots \union {None}
          /\ inFlight' # None => checks'[inFlight'] # None
      BY <3>1 DEF Unlocks, TypeOK, AroundOK
    <3>3. alerts' \in Shown
      <4>1. CASE alerts' = alerts
        BY <4>1 DEF TypeOK, AroundOK
      <4>2. CASE alerts' # alerts
        <5>1. PICK report \in Report : alerts' = Evaluated(alerts, checks[k], report)
          BY <2>3, <4>2 DEF CheckAnswered, CheckFails
        <5>. QED  BY <3>1, <5>1, EvaluatedType DEF TypeOK, AroundOK
      <4>. QED  BY <4>1, <4>2
    <3>. QED  BY <1>1, <3>2, <3>3 DEF TypeOK, AroundOK, Report
  <2>. QED  BY <2>1, <2>2, <2>3 DEF CheckStep
<1>. QED  BY <1>2, <1>3 DEF TypeOK

LEMMA TypeApp == ASSUME TypeOK, AppStep PROVE TypeOK'
<1>1. CASE Foreground
  <2>1. /\ UNCHANGED <<mounted, permission, position, locating, nearby, live, alerts>>
        /\ app' = "active" /\ wanted' \in BOOLEAN
        /\ watch' = IF wanted' THEN WatchStarts ELSE watch
        /\ mounted
    BY <1>1 DEF Foreground
  <2>2. watch' \in {"off", "starting", "on"}
    BY <2>1 DEF WatchStarts, TypeOK, PlaceOK
  <2>3. polling' = (AlertStop(position, stops) # None /\ live = None)
    BY <1>1 DEF Foreground
  <2>4. \/ AlertStop(position, stops) # None /\ Asks(AlertStop(position, stops))
        \/ UNCHANGED <<checks, inFlight>>
    BY <1>1 DEF Foreground
  <2>5. AlertStop(position, stops) \in Stops \union {None}
    BY AlertStopType DEF TypeOK, PlaceOK, NearbyOK
  <2>6. /\ checks' \in [Slots -> Stops \union {None}]
        /\ inFlight' \in Slots \union {None}
        /\ inFlight' # None => checks'[inFlight'] # None
    BY <2>4, <2>5, AsksType DEF TypeOK, AroundOK
  <2>7. PlaceOK'
    BY <2>1, <2>2 DEF TypeOK, PlaceOK
  <2>8. NearbyOK'
    BY <2>1 DEF TypeOK, NearbyOK, nearby
  <2>9. AroundOK'
    BY <2>1, <2>3, <2>6 DEF TypeOK, AroundOK, Report
  <2>. QED  BY <2>7, <2>8, <2>9 DEF TypeOK
<1>2. ASSUME NEW state \in {"inactive", "background"}, Leaves(state) PROVE TypeOK'
  <2>1. PlaceOK'
    BY <1>2 DEF Leaves, WatchStops, TypeOK, PlaceOK
  <2>2. NearbyOK'
    BY <1>2 DEF Leaves, nearby, TypeOK, NearbyOK
  <2>3. AroundOK'
    BY <1>2 DEF Leaves, TypeOK, AroundOK, Report
  <2>. QED  BY <2>1, <2>2, <2>3 DEF TypeOK
<1>3. CASE Unmount
  <2>1. PlaceOK'
    BY <1>3 DEF Unmount, WatchStops, TypeOK, PlaceOK
  <2>2. NearbyOK'
    BY <1>3 DEF Unmount, TypeOK, NearbyOK
  <2>3. AroundOK'
    BY <1>3, NoAlertsType DEF Unmount, TypeOK, AroundOK, Report
  <2>. QED  BY <2>1, <2>2, <2>3 DEF TypeOK
<1>. QED  BY <1>1, <1>2, <1>3 DEF AppStep

LEMMA TypeLive == ASSUME TypeOK, LiveChanges PROVE TypeOK'
<1>1. live' \in Report \union {None} /\ UNCHANGED <<place, nearby>> /\ Effects
  BY DEF LiveChanges
<1>2. PlaceOK' /\ NearbyOK'
  BY <1>1 DEF TypeOK, PlaceOK, NearbyOK, place, nearby
<1>3. AroundOK'
  BY <1>1, <1>2, EffectsAround DEF TypeOK, PlaceOK, NearbyOK, AroundOK
<1>. QED  BY <1>2, <1>3 DEF TypeOK

LEMMA TypeStep == TypeOK /\ [Next]_vars => TypeOK'
<1>. SUFFICES ASSUME TypeOK, [Next]_vars PROVE TypeOK'
  OBVIOUS
<1>1. CASE Next
  BY <1>1, Steps, TypeLocation, TypeReading, TypeQuery, TypeArrive, TypeCheck, TypeApp, TypeLive
<1>2. CASE UNCHANGED vars
  BY <1>2 DEF vars, place, nearby, around, TypeOK, PlaceOK, NearbyOK, AroundOK, Report
<1>. QED  BY <1>1, <1>2

\* The state of the hooks keeps its types, and the lock and the newest query
\* are always of a query in flight, for any city and readings.
THEOREM TypeCorrect == Spec => []TypeOK
BY TypeInit, TypeStep, PTL DEF Spec

-----------------------------------------------------------------------------
\* The stops at hand.

LEMMA StopsInvInit == Init => StopsInv
BY DEF Init, StopsInv

\* Steps of the other hooks.
LEMMA StopsInvKept ==
  ASSUME StopsInv, UNCHANGED <<position, nearby>>, mounted' => mounted
  PROVE  StopsInv'
BY DEF StopsInv, nearby, StopsAround, Distance

\* A query from where the user is.
LEMMA StopsInvAsked ==
  ASSUME TypeOK, NEW from \in Places, position' \in Readings, position'.at = from,
         latest' \in Slots, loads'[latest'] = from, origin' = from, retry' = FALSE
  PROVE  StopsInv'
<1>1. from \in Int /\ Refetch > 0 /\ position' # None /\ from # None
  BY RadiiAssumption, NoneAssumption
<1>2. Distance(from, from) = 0
  BY <1>1, Triangle
<1>3. Distance(origin, position.at)' = 0
  BY <1>2
<1>4. latest' # None
  BY StopsAreNot
<1>5. Distance(origin, position.at)' < Refetch
  BY <1>1, <1>3, RadiiAssumption
<1>. QED  BY <1>1, <1>4, <1>5 DEF StopsInv

LEMMA StopsInvReading == ASSUME TypeOK, StopsInv, ReadingStep PROVE StopsInv'
<1>1. PICK reading \in Readings : Located(reading) \/ WatchReports(reading)
  BY DEF ReadingStep
<1>2. mounted /\ mounted' = mounted /\ Moved(reading)
  BY <1>1 DEF Located, WatchReports
<1>3. position' = reading /\ reading # None /\ reading.at \in Places /\ stops' = stops
  BY <1>2, MovedNearby
<1>4. CASE /\ loads' \in [Slots -> Places \union {None}]
           /\ latest' \in Slots /\ loads'[latest'] = reading.at
           /\ origin' = reading.at /\ retry' = FALSE
  BY <1>3, <1>4, StopsInvAsked
<1>5. CASE /\ ~FarEnough(reading.at) \/ (position # None /\ position.at = reading.at)
           /\ UNCHANGED <<origin, loads, latest, retry>>
  <2>1. ASSUME ~retry
        PROVE  origin # None /\ Distance(origin, reading.at) < Refetch
    <3>1. CASE position # None /\ position.at = reading.at
      BY <1>2, <2>1, <3>1 DEF StopsInv
    <3>2. CASE ~FarEnough(reading.at)
      <4>1. origin # None /\ ~(Distance(origin, reading.at) >= Refetch)
        BY <2>1, <3>2 DEF FarEnough
      <4>2. origin \in Int /\ reading.at \in Int /\ Refetch \in Nat
        BY <1>3, <4>1, RadiiAssumption DEF TypeOK, NearbyOK
      <4>3. Distance(origin, reading.at) \in Nat
        BY <4>2, DistanceType
      <4>. QED  BY <4>1, <4>2, <4>3
    <3>. QED  BY <1>5, <3>1, <3>2
  <2>2. Distance(origin, position.at)' = Distance(origin, reading.at)
    BY <1>3, <1>5
  <2>3. mounted' /\ ~retry' /\ origin' # None =>
           position' # None /\ Distance(origin, position.at)' < Refetch
    BY <1>3, <1>5, <2>1, <2>2
  <2>4. mounted' /\ latest' # None => ~retry' /\ loads'[latest'] = origin'
    BY <1>2, <1>5 DEF StopsInv
  <2>5. mounted' /\ ~retry' /\ latest' = None /\ stops' # None =>
           origin' # None /\ stops' = StopsAround(origin')
    BY <1>2, <1>3, <1>5 DEF StopsInv
  <2>6. mounted' /\ ~retry' /\ latest' = None /\ stops' = None => origin' = None
    BY <1>2, <1>3, <1>5 DEF StopsInv
  <2>7. mounted' /\ ~retry' /\ origin' = None => position' = None
    BY <1>5, <2>1
  <2>8. StopsAround(origin') = StopsAround(origin)'
    BY DEF StopsAround
  <2>. QED  BY <2>3, <2>4, <2>5, <2>6, <2>7, <2>8 DEF StopsInv
<1>. QED  BY <1>2, <1>4, <1>5, MovedNearby

LEMMA StopsInvQuery == ASSUME TypeOK, StopsInv, QueryStep PROVE StopsInv'
<1>1. CASE Reload \/ Retries
  <2>1. position # None /\ Load(position.at) /\ position' = position
    BY <1>1 DEF Reload, Retries, place
  <2>2. position \in Readings /\ position.at \in Places
    BY <2>1, RadiiAssumption DEF TypeOK, PlaceOK
  <2>3. /\ latest' \in Slots /\ loads'[latest'] = position.at
        /\ origin' = position.at /\ retry' = FALSE
    BY <2>1, <2>2, NewQuery DEF TypeOK
  <2>. QED  BY <2>1, <2>2, <2>3, StopsInvAsked
<1>2. ASSUME NEW k \in Slots, StopsFail(k) PROVE StopsInv'
  <2>1. /\ loads' = [loads EXCEPT ![k] = None]
        /\ mounted' = mounted /\ position' = position /\ stops' = stops
    BY <1>2 DEF StopsFail, place
  <2>2. CASE Newest(k)
    <3>1. retry' = TRUE /\ latest' = None
      BY <1>2, <2>2 DEF StopsFail
    <3>. QED  BY <3>1 DEF StopsInv
  <2>3. CASE ~Newest(k)
    <3>1. UNCHANGED <<origin, retry, latest>>
      BY <1>2, <2>3 DEF StopsFail
    <3>2. mounted /\ latest # None => loads'[latest] = loads[latest]
      BY <2>1, <2>3 DEF Newest, TypeOK, NearbyOK
    <3>. QED  BY <2>1, <3>1, <3>2 DEF StopsInv, StopsAround, Distance
  <2>. QED  BY <2>2, <2>3
<1>. QED  BY <1>1, <1>2 DEF QueryStep

LEMMA StopsInvArrive == ASSUME TypeOK, StopsInv, NEW k \in Slots, StopsArrive(k) PROVE StopsInv'
<1>1. /\ loads' = [loads EXCEPT ![k] = None]
      /\ \/ Newest(k) /\ stops' = StopsAround(loads[k]) /\ latest' = None
         \/ ~Newest(k) /\ UNCHANGED <<stops, latest>>
      /\ mounted' = mounted /\ position' = position /\ origin' = origin /\ retry' = retry
  BY DEF StopsArrive, place
<1>2. CASE Newest(k)
  <2>1. mounted /\ latest = k /\ k # None /\ latest' = None
    BY <1>1, <1>2, StopsAreNot DEF Newest
  <2>2. ~retry /\ loads[k] = origin
    BY <2>1 DEF StopsInv
  <2>3. origin # None
    BY <2>1, <2>2 DEF TypeOK, NearbyOK
  <2>4. stops' = StopsAround(origin)
    BY <1>1, <1>2, <2>2
  <2>5. stops' # None
    BY <2>4, NoneAssumption DEF StopsAround
  <2>. QED  BY <1>1, <2>1, <2>2, <2>3, <2>4, <2>5 DEF StopsInv, StopsAround, Distance
<1>3. CASE ~Newest(k)
  <2>1. UNCHANGED <<stops, latest>>
    BY <1>1, <1>3
  <2>2. mounted /\ latest # None => loads'[latest] = loads[latest]
    BY <1>1, <1>3 DEF Newest, TypeOK, NearbyOK
  <2>. QED  BY <1>1, <2>1, <2>2 DEF StopsInv, StopsAround, Distance
<1>. QED  BY <1>2, <1>3

LEMMA StopsInvStep == TypeOK /\ StopsInv /\ [Next]_vars => StopsInv'
<1>. SUFFICES ASSUME TypeOK, StopsInv, [Next]_vars PROVE StopsInv'
  OBVIOUS
<1>1. CASE LocationStep
  BY <1>1, StopsInvKept
  DEF LocationStep, PermissionKnown, LocateFails, Refresh, WatchStarted, WatchFails
<1>2. CASE CheckStep
  <2>1. UNCHANGED <<place, nearby>>
    BY <1>2 DEF CheckStep, CheckNow, Dismiss, CheckAnswered, CheckFails
  <2>. QED  BY <2>1, StopsInvKept DEF place
<1>3. CASE Foreground \/ \E state \in {"inactive", "background"} : Leaves(state)
  BY <1>3, StopsInvKept DEF Foreground, Leaves
<1>4. CASE Unmount
  BY <1>4 DEF Unmount, StopsInv
<1>5. CASE LiveChanges
  BY <1>5, StopsInvKept DEF LiveChanges, place
<1>6. CASE UNCHANGED vars
  BY <1>6, StopsInvKept DEF vars, place
<1>. QED
  BY <1>1, <1>2, <1>3, <1>4, <1>5, <1>6, Steps, StopsInvReading, StopsInvQuery, StopsInvArrive
  DEF AppStep

LEMMA StopsInvAlways == Spec => [](TypeOK /\ StopsInv)
<1>1. TypeOK /\ StopsInv /\ [Next]_vars => (TypeOK /\ StopsInv)'
  BY TypeStep, StopsInvStep
<1>. QED  BY <1>1, TypeInit, StopsInvInit, PTL DEF Spec

\* Wherever the stops were asked for, and however late the answers came, a
\* user at an official stop is told so once nothing is pending: the stops at
\* hand decide as all the stops of the city would.
THEOREM NearbyStopsAreEnough == Spec => []NoStopMissed
<1>1. TypeOK /\ StopsInv => NoStopMissed
  <2>. SUFFICES ASSUME TypeOK, StopsInv, mounted, stops # None, latest = None, ~retry
                PROVE  AlertStop(position, stops) = AlertStop(position, Stops)
    BY DEF NoStopMissed
  <2>1. origin # None /\ stops = StopsAround(origin)
    BY DEF StopsInv
  <2>2. position # None /\ Distance(origin, position.at) < Refetch
    BY <2>1 DEF StopsInv
  <2>3. origin \in Places /\ position \in Readings
    BY <2>1, <2>2 DEF TypeOK, PlaceOK, NearbyOK
  <2>. QED  BY <2>1, <2>2, <2>3, Covered
<1>. QED  BY <1>1, StopsInvAlways, PTL

\* Whatever fails, and though the user stands still, a user with a position and
\* no stops has a query or a retry on its way.
THEOREM SomebodyKeepsAsking == Spec => []NeverGivesUp
<1>1. TypeOK /\ StopsInv => NeverGivesUp
  BY DEF StopsInv, NeverGivesUp
<1>. QED  BY <1>1, StopsInvAlways, PTL

-----------------------------------------------------------------------------
\* The alerts.

\* A step that does not touch what an alert is about.
LEMMA AlertsKept ==
  ASSUME AlertsAreForTheStop, UNCHANGED <<position, stops, alerts>>
  PROVE  AlertsAreForTheStop'
BY DEF AlertsAreForTheStop

LEMMA AlertsCheck == ASSUME TypeOK, AlertsAreForTheStop, CheckStep PROVE AlertsAreForTheStop'
<1>. DEFINE stop == AlertStop(position, stops)
<1>1. UNCHANGED <<position, stops>>
  BY DEF CheckStep, CheckNow, Dismiss, CheckAnswered, CheckFails, place, nearby
<1>2. stop' = stop
  BY <1>1
<1>3. alerts \in Shown
  BY DEF TypeOK, AroundOK
<1>4. CASE Dismiss
  <2>1. alerts' = [alerts EXCEPT !.alert = None]
    BY <1>4 DEF Dismiss
  <2>2. /\ alerts'.alert = None /\ alerts'.notified = alerts.notified
        /\ alerts'.approaching = alerts.approaching
    BY <1>3, <2>1 DEF Shown
  <2>. QED  BY <1>2, <2>2 DEF AlertsAreForTheStop
<1>5. ASSUME NEW k \in Slots, CheckAnswered(k) PROVE AlertsAreForTheStop'
  <2>1. CASE alerts' = alerts
    BY <1>1, <2>1, AlertsKept
  <2>2. CASE alerts' # alerts
    <3>1. PICK report \in Report : alerts' = Evaluated(alerts, checks[k], report)
      BY <1>5, <2>2 DEF CheckAnswered
    <3>2. checks[k] = stop /\ stop \in Stops /\ stop # None
      BY <1>5, <2>2, StopsAreNot DEF CheckAnswered, ForThisStop, TypeOK, AroundOK
    <3>3. /\ alerts'.approaching = alerts'.notified
          /\ alerts'.alert = alerts.alert \/ alerts'.alert.stop = stop
      BY <1>3, <3>1, <3>2, EvaluatedType
    <3>4. alerts'.alert # None => alerts'.alert.stop = stop
      BY <3>3 DEF AlertsAreForTheStop
    <3>. HIDE DEF stop
    <3>5. /\ alerts'.alert # None => alerts'.alert.stop = stop'
          /\ alerts'.notified # {} => stop' # None
          /\ alerts'.approaching = alerts'.notified
      BY <1>2, <3>2, <3>3, <3>4
    <3>. QED  BY <3>5 DEF AlertsAreForTheStop, stop
  <2>. QED  BY <2>1, <2>2
<1>6. CASE CheckNow \/ \E k \in Slots : CheckFails(k)
  <2>1. alerts' = alerts
    BY <1>6 DEF CheckNow, CheckFails
  <2>. QED  BY <1>1, <2>1, AlertsKept
<1>. QED  BY <1>4, <1>5, <1>6 DEF CheckStep

LEMMA AlertsStep == TypeOK /\ AlertsAreForTheStop /\ [Next]_vars => AlertsAreForTheStop'
<1>. SUFFICES ASSUME TypeOK, AlertsAreForTheStop, [Next]_vars PROVE AlertsAreForTheStop'
  OBVIOUS
<1>1. CASE LocationStep
  <2>1. UNCHANGED <<position, nearby, around>>
    BY <1>1 DEF LocationStep, PermissionKnown, LocateFails, Refresh, WatchStarted, WatchFails
  <2>. QED  BY <2>1, AlertsKept DEF nearby, around
<1>2. ASSUME Effects, TypeOK' PROVE AlertsAreForTheStop'
  BY <1>2, EffectsAround DEF TypeOK, PlaceOK, NearbyOK, AroundOK, Report
<1>3. CASE ReadingStep
  <2>1. Effects
    BY <1>3 DEF ReadingStep, Located, WatchReports, Moved
  <2>. QED  BY <1>2, <1>3, <2>1, TypeReading
<1>4. CASE QueryStep
  <2>1. UNCHANGED <<place, stops, around>>
    BY <1>4 DEF QueryStep, Reload, Retries, StopsFail
  <2>. QED  BY <2>1, AlertsKept DEF place, around
<1>5. ASSUME NEW k \in Slots, StopsArrive(k) PROVE AlertsAreForTheStop'
  <2>1. Effects
    BY <1>5 DEF StopsArrive
  <2>. QED  BY <1>2, <1>5, <2>1, TypeArrive
<1>6. CASE LiveChanges
  <2>1. Effects
    BY <1>6 DEF LiveChanges
  <2>. QED  BY <1>2, <1>6, <2>1, TypeLive
<1>7. CASE Foreground \/ \E state \in {"inactive", "background"} : Leaves(state)
  BY <1>7, AlertsKept DEF Foreground, Leaves, nearby
<1>8. CASE Unmount
  BY <1>8, NoAlertsType DEF Unmount, AlertsAreForTheStop
<1>9. CASE UNCHANGED vars
  BY <1>9, AlertsKept DEF vars, place, nearby, around
<1>. QED
  BY <1>1, <1>3, <1>4, <1>5, <1>6, <1>7, <1>8, <1>9, Steps, AlertsCheck DEF AppStep

\* Whatever answers late, and wherever the user walked meanwhile, what is
\* announced is of the stop where the user is.
THEOREM AlertsAreOfThisStop == Spec => []AlertsAreForTheStop
<1>1. Init => AlertsAreForTheStop
  BY NoAlertsType DEF Init, AlertsAreForTheStop
<1>. QED  BY <1>1, TypeInit, TypeStep, AlertsStep, PTL DEF Spec

-----------------------------------------------------------------------------
\* The interval and the watch.

LEMMA PollsKept ==
  ASSUME PollsWhenNeeded, UNCHANGED <<mounted, app, position, stops, live, polling>>
  PROVE  PollsWhenNeeded'
BY DEF PollsWhenNeeded

LEMMA PollsStep == TypeOK /\ PollsWhenNeeded /\ [Next]_vars => PollsWhenNeeded'
<1>. SUFFICES ASSUME TypeOK, PollsWhenNeeded, [Next]_vars PROVE PollsWhenNeeded'
  OBVIOUS
<1>1. CASE LocationStep
  <2>1. UNCHANGED <<mounted, app, position, nearby, around>>
    BY <1>1 DEF LocationStep, PermissionKnown, LocateFails, Refresh, WatchStarted, WatchFails
  <2>. QED  BY <2>1, PollsKept DEF nearby, around
<1>2. CASE ReadingStep
  <2>1. mounted /\ UNCHANGED <<mounted, app>> /\ Effects
    BY <1>2 DEF ReadingStep, Located, WatchReports, Moved
  <2>. QED  BY <2>1, EffectsPoll
<1>3. CASE QueryStep
  <2>1. UNCHANGED <<place, stops, around>>
    BY <1>3 DEF QueryStep, Reload, Retries, StopsFail
  <2>. QED  BY <2>1, PollsKept DEF place, around
<1>4. ASSUME NEW k \in Slots, StopsArrive(k) PROVE PollsWhenNeeded'
  <2>1. UNCHANGED <<mounted, app, position, live>> /\ Effects
    BY <1>4 DEF StopsArrive, place
  <2>2. mounted \/ stops' = stops
    BY <1>4 DEF StopsArrive, Newest
  <2>. QED  BY <2>1, <2>2, EffectsPoll
<1>5. CASE LiveChanges
  <2>1. mounted /\ UNCHANGED <<mounted, app>> /\ Effects
    BY <1>5 DEF LiveChanges, place
  <2>. QED  BY <2>1, EffectsPoll
<1>6. CASE CheckStep
  <2>1. UNCHANGED <<place, nearby, live, polling>>
    BY <1>6 DEF CheckStep, CheckNow, Dismiss, CheckAnswered, CheckFails
  <2>. QED  BY <2>1, PollsKept DEF place, nearby
<1>7. CASE Foreground
  <2>1. /\ mounted /\ mounted' = mounted /\ app' = "active"
        /\ UNCHANGED <<position, stops, live>>
        /\ polling' = (AlertStop(position, stops) # None /\ live = None)
    BY <1>7 DEF Foreground, nearby
  <2>2. polling' <=> AlertStop(position, stops)' # None /\ live' = None
    BY <2>1, Zenon
  <2>3. app' # "background"
    BY <2>1
  <2>. QED  BY <2>1, <2>2, <2>3, Zenon DEF PollsWhenNeeded
<1>8. CASE (\E state \in {"inactive", "background"} : Leaves(state)) \/ Unmount
  <2>1. ~polling' /\ (app' # "active" \/ ~mounted')
    BY <1>8 DEF Leaves, Unmount
  <2>. QED  BY <2>1 DEF PollsWhenNeeded
<1>9. CASE UNCHANGED vars
  BY <1>9, PollsKept DEF vars, place, nearby, around
<1>. QED
  BY <1>1, <1>2, <1>3, <1>4, <1>5, <1>6, <1>7, <1>8, <1>9, Steps DEF AppStep

\* In whatever order the user moves, the connection comes and goes and the
\* application is left and taken up again, the interval is set when it is
\* needed and not in the background.
THEOREM PollsGoWithTheNeed == Spec => []PollsWhenNeeded
<1>1. Init => PollsWhenNeeded
  BY DEF Init, PollsWhenNeeded, AlertStop
<1>. QED  BY <1>1, TypeInit, TypeStep, PollsStep, PTL DEF Spec

\* The watch that is on, and the one that is starting, go with what is wanted.
WatchInv ==
  /\ watch = "on" => wanted
  /\ wanted => mounted /\ permission = "granted" /\ app # "background"

LEMMA WatchStep == WatchInv /\ [Next]_vars => WatchInv'
<1>. SUFFICES ASSUME WatchInv, [Next]_vars PROVE WatchInv'
  OBVIOUS
<1>. USE DEF WatchInv
<1>1. CASE LocationStep
  <2>1. ASSUME NEW p \in Permissions, PermissionKnown(p) PROVE WatchInv'
    <3>1. /\ wanted' <=> p = "granted" /\ app # "background"
          /\ permission' = p /\ mounted /\ mounted' = mounted /\ app' = app
      BY <2>1, Zenon DEF PermissionKnown
    <3>2. watch # "on"
      BY <2>1, NoneAssumption DEF PermissionKnown
    <3>3. watch' = "on" => wanted'
      BY <2>1, <3>2 DEF PermissionKnown, WatchStarts
    <3>. QED  BY <3>1, <3>3, Zenon
  <2>2. ASSUME NEW p \in Permissions, LocateFails(p) PROVE WatchInv'
    BY <2>2 DEF LocateFails
  <2>3. CASE Refresh \/ WatchStarted \/ WatchFails
    BY <2>3 DEF Refresh, WatchStarted, WatchFails, WatchKept
  <2>. QED  BY <1>1, <2>1, <2>2, <2>3 DEF LocationStep
<1>2. CASE UNCHANGED <<mounted, app, permission, watch, wanted>>
  BY <1>2
<1>3. CASE ReadingStep
  BY <1>2, <1>3 DEF ReadingStep, Located, WatchReports
<1>4. CASE QueryStep
  BY <1>2, <1>4 DEF QueryStep, Reload, Retries, StopsFail, place
<1>5. CASE CheckStep
  BY <1>2, <1>5 DEF CheckStep, CheckNow, Dismiss, CheckAnswered, CheckFails, place
<1>6. CASE LiveChanges \/ \E k \in Slots : StopsArrive(k)
  BY <1>2, <1>6 DEF LiveChanges, StopsArrive, place
<1>7. CASE Foreground
  <2>1. /\ wanted' <=> permission = "granted"
        /\ permission' = permission /\ mounted /\ mounted' = mounted /\ app' = "active"
    BY <1>7, Zenon DEF Foreground
  <2>2. watch' = "on" => wanted'
    <3>1. watch' = IF wanted' THEN WatchStarts ELSE watch
      BY <1>7 DEF Foreground
    <3>. QED  BY <2>1, <3>1 DEF WatchStarts
  <2>3. app' # "background"
    BY <2>1
  <2>. QED  BY <2>1, <2>2, <2>3, Zenon
<1>8. CASE (\E state \in {"inactive", "background"} : Leaves(state)) \/ Unmount
  BY <1>8 DEF Leaves, Unmount, WatchStops
<1>9. CASE UNCHANGED vars
  BY <1>2, <1>9 DEF vars, place
<1>. QED
  BY <1>1, <1>3, <1>4, <1>5, <1>6, <1>7, <1>8, <1>9, Steps DEF AppStep

\* The watch on the position is on only on an open map, with permission and
\* out of the background, though it starts while these change.
THEOREM WatchGoesWithTheMap == Spec => []WatchIsWanted
<1>1. Init => WatchInv
  BY DEF Init, WatchInv
<1>2. WatchInv => WatchIsWanted
  BY DEF WatchInv, WatchIsWanted
<1>. QED  BY <1>1, <1>2, WatchStep, PTL DEF Spec

=============================================================================
