----------------------------- MODULE StopAlerts -----------------------------
(***************************************************************************)
(* "Your bus is near": the four hooks behind the passenger's map.          *)
(*                                                                         *)
(*   useLocation         the permission, one-off readings and the watch on *)
(*                       the position, alive only in the foreground;       *)
(*   useNearestStop      the official stops around the user, asked again   *)
(*                       when the user moved far, with retries;            *)
(*   checkStopProximity  whether the user stands at one of them;           *)
(*   useProximityAlerts  while the user does, the buses near that stop,    *)
(*                       from the WebSocket or, without it, from a query   *)
(*                       every 15 s.                                       *)
(*                                                                         *)
(* The city is a line of points.  A stop is named by its place.  A step    *)
(* that changes what a hook reads includes the effects React then runs.    *)
(***************************************************************************)
EXTENDS Integers, FiniteSets

CONSTANTS
    Places,       \* points of the line, consecutive integers
    Readings,     \* what the GPS may say: [at, precise]
    Stops,        \* places that have an official stop
    Buses,
    BusPlaces,    \* where a bus may be reported
    StopRadius,   \* STOP_RADIUS_M
    SearchRadius, \* STOP_SEARCH_RADIUS_M
    Refetch,      \* REFETCH_DISTANCE_M
    AlertRadius,  \* ALERT_RADIUS_M
    Limit,        \* stops a query asks for, 50
    Permissions,  \* answers of the system: "granted", "undetermined", "denied", "blocked"
    Slots,        \* bound: queries in flight at a time, of each kind
    MaxTurns,     \* bound: what the user, the system, the buses and the network do
    None

\* The stops loaded from a point still cover the user's stop anywhere closer
\* to that point than Refetch: 1000 m are searched, 200 m are walked before
\* asking again and a stop is 100 m around unless the environment says another
\* radius (config.ts:25-34, useNearestStop.ts:14-19).
ASSUME RadiiAssumption ==
    /\ Readings \subseteq [at : Places, precise : BOOLEAN]
    /\ Places \subseteq Int /\ Stops \subseteq Places /\ BusPlaces \subseteq Places
    /\ {StopRadius, SearchRadius, Refetch, AlertRadius} \subseteq Nat
    /\ Refetch > 0 /\ Refetch + StopRadius - 1 <= SearchRadius

\* What is not there is told from what is.
ASSUME NoneAssumption ==
    /\ None \notin Readings \union Places \union Slots \union Permissions \union {"granted"}
    /\ \A known \in SUBSET Stops : known # None
    /\ None \notin [Buses -> BusPlaces \union {None}]
    /\ None \notin [stop : Stops, bus : Buses]

VARIABLES
    mounted,     \* the map is on screen
    app,         \* AppState
    permission,  \* None until it is known
    position,    \* last reading, None before the first
    locating,    \* getCurrentPosition is running
    watch,       \* the watch on the position: "off", "starting" or "on"
    wanted,      \* the watch should be on when it has started
    stops,       \* stops loaded, None before the first answer
    origin,      \* where they were asked from, None: ask again
    loads,       \* queries for stops in flight: where from, None: free
    latest,      \* requestId: the slot of the newest query, None: answered
    retry,       \* a retry is scheduled
    live,        \* where the WebSocket says the buses are (None: no recent
                 \* report); None while it is not connected
    polling,     \* the 15 s interval is set
    checks,      \* queries for buses in flight
    inFlight,    \* the lock: the slot of the query to wait for
    alerts,      \* what useProximityAlerts shows and remembers
    turns        \* things that were done to the map, counted for the bound

place  == <<mounted, app, permission, position, locating, watch, wanted>>
nearby == <<stops, origin, loads, latest, retry>>
around == <<live, polling, checks, inFlight, alerts>>
vars   == <<place, nearby, around, turns>>

Distance(a, b) == IF a < b THEN b - a ELSE a - b
Report   == [Buses -> BusPlaces \union {None}]
NoAlerts == [approaching |-> {}, notified |-> {}, alert |-> None]

(***************************************************************************)
(* The pure rules.                                                         *)
(***************************************************************************)

\* findNearestStop: a closest one.
Closest(at, known) == {s \in known : \A r \in known : Distance(at, s) <= Distance(at, r)}

NearestStop(at, known) == CHOOSE s \in Closest(at, known) : TRUE

\* checkStopProximity.
Proximity(reading, known) ==
    IF known = {} THEN "no-stops"
    ELSE IF ~reading.precise THEN "low-accuracy"
    ELSE IF Distance(reading.at, NearestStop(reading.at, known)) <= StopRadius
    THEN "inside" ELSE "outside"

\* alertStop: the stop alerts are allowed at.
AlertStop(reading, known) ==
    IF reading # None /\ known # None /\ Proximity(reading, known) = "inside"
    THEN NearestStop(reading.at, known) ELSE None

\* findApproachingBuses: the buses reported recently within the radius.
Approaching(stop, report) ==
    {b \in Buses : report[b] # None /\ Distance(stop, report[b]) <= AlertRadius}

\* fresh[0] of nextAlerts: a bus not notified before, the closest one.
IsFirst(b, fresh, stop, report) ==
    b \in fresh /\ \A o \in fresh : Distance(stop, report[b]) <= Distance(stop, report[o])

\* evaluate(): every bus in the radius counts as notified, the first of those
\* that were not is the alert; the list is what is inside now.
Evaluated(a, stop, report) ==
    LET list  == Approaching(stop, report)
        fresh == list \ a.notified
    IN  [approaching |-> list, notified |-> list,
         alert |-> IF fresh = {} THEN a.alert
                   ELSE [stop |-> stop, bus |-> CHOOSE b \in fresh : IsFirst(b, fresh, stop, report)]]

(***************************************************************************)
(* check(): with the WebSocket the buses are there; otherwise a query, one *)
(* at a time for the stop (the lock).                                      *)
(***************************************************************************)
\* The slots are interchangeable: a new query takes any free one.
NewSlot(queries) == LET free == {k \in Slots : queries[k] = None}
                    IN  IF free = {} THEN {} ELSE {CHOOSE k \in free : TRUE}

Locked(stop) == inFlight # None /\ checks[inFlight] = stop

\* The queries and the lock after a check() of a stop without WebSocket.
Asks(stop) ==
    IF Locked(stop) THEN UNCHANGED <<checks, inFlight>>
    ELSE \E k \in NewSlot(checks) :
            /\ checks' = [checks EXCEPT ![k] = stop]
            /\ inFlight' = k

\* Mutant: the interval is set whatever the state of the application.
Awake_Always == TRUE

\* The interval may be set: not while the application is in the background.
Awake == app # "background"

\* The effects of useProximityAlerts after a render: a change of stop forgets
\* everything, a new list of the WebSocket is evaluated, and the interval is
\* set again, with a first query, when the stop or the connection changed.
\* A step that changes what they depend on is followed by them.
Effects ==
    LET before == AlertStop(position, stops)
        stop   == AlertStop(position', stops')
        fresh  == IF stop # before THEN NoAlerts ELSE alerts
        restart == stop # before \/ (live = None) # (live' = None)
        needed == stop # None /\ live' = None
    IN  /\ alerts' = IF stop # None /\ live' # None /\ (stop # before \/ live' # live)
                     THEN Evaluated(fresh, stop, live') ELSE fresh
        /\ polling' = IF restart THEN needed /\ Awake ELSE polling
        /\ IF restart /\ needed /\ Awake THEN Asks(stop)
           ELSE UNCHANGED <<checks, inFlight>>

(***************************************************************************)
(* useNearestStop.                                                         *)
(***************************************************************************)

\* load(from): the newest query counts, a scheduled retry is cancelled.
Load(from) ==
    \E k \in NewSlot(loads) :
        /\ loads' = [loads EXCEPT ![k] = from]
        /\ latest' = k
        /\ origin' = from
        /\ retry' = FALSE

\* The effect on a new position: nothing while a retry waits, nor while the
\* user has not moved far from where the stops were asked for.
FarEnough(at) == ~retry /\ (origin = None \/ Distance(origin, at) >= Refetch)

\* A new reading of the position.
Moved(reading) ==
    /\ position' = reading
    /\ IF FarEnough(reading.at) /\ (position = None \/ position.at # reading.at)
       THEN Load(reading.at)
       ELSE UNCHANGED <<origin, loads, latest, retry>>
    /\ UNCHANGED <<stops, live>>
    /\ Effects

\* Mutant: any answer counts.
Newest_Any(k) == mounted

\* The answer of the query k.  Only the newest counts; the others, and those
\* that come after the map is gone, are dropped.
Newest(k) == mounted /\ k = latest

\* fetchNearbyStops: what the server has around a point.
StopsAround(from) == {s \in Stops : Distance(s, from) <= SearchRadius}

\* A query asks for Limit stops at most: where more lie within the radius it
\* answers the closest ones and the radius they cover is smaller.  The city is
\* taken not to have so many anywhere.
ASSUME LimitAssumption == \A from \in Places : Cardinality(StopsAround(from)) <= Limit

StopsArrive(k) ==
    /\ loads[k] # None
    /\ loads' = [loads EXCEPT ![k] = None]
    /\ IF Newest(k)
       THEN /\ stops' = StopsAround(loads[k])
            /\ latest' = None
       ELSE UNCHANGED <<stops, latest>>
    /\ UNCHANGED <<place, origin, retry, live>>
    /\ Effects

\* Mutant: a failure waits for the user to move.
StopsFail_NoRetry(k) ==
    /\ loads[k] # None
    /\ loads' = [loads EXCEPT ![k] = None]
    /\ IF Newest(k)
       THEN origin' = None /\ latest' = None /\ UNCHANGED retry
       ELSE UNCHANGED <<origin, retry, latest>>
    /\ UNCHANGED <<place, stops, around>>

\* A failure schedules a retry and makes the next one start from anywhere.
StopsFail(k) ==
    /\ loads[k] # None
    /\ loads' = [loads EXCEPT ![k] = None]
    /\ IF Newest(k)
       THEN origin' = None /\ retry' = TRUE /\ latest' = None
       ELSE UNCHANGED <<origin, retry, latest>>
    /\ UNCHANGED <<place, stops, around>>

\* The retry: from the last known position.
Retries ==
    /\ retry /\ position # None
    /\ Load(position.at)
    /\ UNCHANGED <<place, stops, around>>

\* The button of the card, free while no query runs.
Reload ==
    /\ mounted /\ position # None /\ latest = None /\ (stops # None \/ retry)
    /\ Load(position.at)
    /\ UNCHANGED <<place, stops, around>>

(***************************************************************************)
(* useLocation.                                                            *)
(***************************************************************************)


\* start() and pause() of the watch for the permission p and the state s.
WatchStarts == IF watch = "off" THEN "starting" ELSE watch
WatchStops  == IF watch = "on" THEN "off" ELSE watch

\* The permission is known, at the first look or after the dialog.  Granted,
\* a reading starts and, in the foreground, the watch.
PermissionKnown(p) ==
    /\ mounted /\ permission \in {None, "undetermined", "denied"}
    /\ permission' = p
    /\ locating' = (p = "granted")
    /\ wanted' = (p = "granted" /\ app # "background")
    /\ watch' = IF wanted' THEN WatchStarts ELSE watch
    /\ UNCHANGED <<mounted, app, position, nearby, around>>

\* The button of the card.
Refresh ==
    /\ mounted /\ permission = "granted" /\ ~locating
    /\ locating' = TRUE
    /\ UNCHANGED <<mounted, app, permission, position, watch, wanted, nearby, around>>

\* getCurrentPosition answers, with the position of now or, when the GPS is
\* late, with one up to a minute old (any place).
Located(reading) ==
    /\ mounted /\ locating
    /\ locating' = FALSE
    /\ UNCHANGED <<mounted, app, permission, watch, wanted>>
    /\ Moved(reading)

\* ... or fails; the permission may have been taken away in the settings, and
\* the watch goes with it.
LocateFails(p) ==
    /\ mounted /\ locating
    /\ locating' = FALSE
    /\ permission' = p
    /\ wanted' = (wanted /\ p = "granted")
    /\ watch' = IF p = "granted" THEN watch ELSE "off"
    /\ UNCHANGED <<mounted, app, position, nearby, around>>

\* watchPosition resolves: kept only if it is still wanted.
WatchKept == IF wanted THEN "on" ELSE "off"

WatchStarted ==
    /\ watch = "starting"
    /\ watch' = WatchKept
    /\ UNCHANGED <<mounted, app, permission, position, locating, wanted, nearby, around>>

WatchFails ==
    /\ watch = "starting"
    /\ watch' = "off"
    /\ UNCHANGED <<mounted, app, permission, position, locating, wanted, nearby, around>>

\* The watch reports where the user is now.
WatchReports(reading) ==
    /\ mounted /\ watch = "on" /\ reading # position
    /\ UNCHANGED <<mounted, app, permission, locating, watch, wanted>>
    /\ Moved(reading)

(***************************************************************************)
(* useProximityAlerts: the queries, the WebSocket, the foreground.         *)
(***************************************************************************)

\* Mutant: an answer counts wherever the user is by then.
ForThisStop_Any(k) == mounted

\* The answer of the query k, with any buses, is of the stop the user is at.
ForThisStop(k) == mounted /\ checks[k] = AlertStop(position, stops)

\* The lock is released by the query that holds it.
Unlocks(k) == inFlight' = IF inFlight = k THEN None ELSE inFlight

CheckAnswered(k) ==
    /\ checks[k] # None
    /\ checks' = [checks EXCEPT ![k] = None]
    /\ Unlocks(k)
    /\ \E report \in Report :
          alerts' = IF ForThisStop(k) THEN Evaluated(alerts, checks[k], report) ELSE alerts
    /\ UNCHANGED <<place, nearby, live, polling>>

CheckFails(k) ==
    /\ checks[k] # None
    /\ checks' = [checks EXCEPT ![k] = None]
    /\ Unlocks(k)
    /\ UNCHANGED <<place, nearby, live, polling, alerts>>

\* The interval fires, or the user asks; the button is there without WebSocket.
CheckNow ==
    /\ mounted /\ live = None /\ AlertStop(position, stops) # None
    /\ Asks(AlertStop(position, stops))
    /\ UNCHANGED <<place, nearby, live, polling, alerts>>

Dismiss ==
    /\ mounted /\ alerts.alert # None
    /\ alerts' = [alerts EXCEPT !.alert = None]
    /\ UNCHANGED <<place, nearby, live, polling, checks, inFlight>>

\* The WebSocket connects, hears of a bus, or is lost.  It starts with what
\* it knew before, which may be nothing or old.
LiveChanges ==
    /\ mounted
    /\ live' \in (Report \union {None}) \ {live}
    /\ UNCHANGED <<place, nearby>>
    /\ Effects

\* AppState: only the foreground has a watch and an interval.  A change to
\* "active" starts them, with a first query; any other stops them.
Foreground ==
    /\ mounted /\ app # "active"
    /\ app' = "active"
    /\ wanted' = (permission = "granted")
    /\ watch' = IF wanted' THEN WatchStarts ELSE watch
    /\ LET stop == AlertStop(position, stops)
           needed == stop # None /\ live = None
       IN  /\ polling' = needed
           /\ IF needed /\ ~polling THEN Asks(stop) ELSE UNCHANGED <<checks, inFlight>>
    /\ UNCHANGED <<mounted, permission, position, locating, nearby, live, alerts>>

Leaves(state) ==
    /\ mounted /\ app # state
    /\ app' = state
    /\ wanted' = FALSE
    /\ watch' = WatchStops
    /\ polling' = FALSE
    /\ UNCHANGED <<mounted, permission, position, locating, nearby, live, checks, inFlight, alerts>>

\* The map is closed: timers, watch and interval go, queries stay in flight.
Unmount ==
    /\ mounted
    /\ mounted' = FALSE
    /\ wanted' = FALSE
    /\ watch' = WatchStops
    /\ retry' = FALSE
    /\ polling' = FALSE
    /\ alerts' = NoAlerts
    /\ UNCHANGED <<app, permission, position, locating, stops, origin, loads, latest,
                   live, checks, inFlight>>

(***************************************************************************)
(* The specification.                                                      *)
(***************************************************************************)
Init ==
    /\ mounted = TRUE
    /\ app = "active"
    /\ permission = None /\ position = None /\ locating = FALSE
    /\ watch = "off" /\ wanted = FALSE
    /\ stops = None /\ origin = None /\ retry = FALSE
    /\ loads = [k \in Slots |-> None] /\ latest = None
    /\ live = None
    /\ polling = FALSE
    /\ checks = [k \in Slots |-> None] /\ inFlight = None
    /\ alerts = NoAlerts
    /\ turns = 0

\* What is done to the map, at most MaxTurns times.
Turn ==
    /\ turns < MaxTurns /\ turns' = turns + 1
    /\ \/ \E p \in Permissions : PermissionKnown(p)
       \/ Refresh \/ Reload \/ CheckNow \/ Dismiss
       \/ LiveChanges
       \/ Foreground \/ \E state \in {"inactive", "background"} : Leaves(state)
       \/ Unmount

\* What goes on by itself.
GoesOn ==
    /\ \/ \E p \in Permissions : LocateFails(p)
       \/ \E reading \in Readings : Located(reading) \/ WatchReports(reading)
       \/ WatchStarted \/ WatchFails
       \/ \E k \in Slots : StopsArrive(k) \/ StopsFail(k) \/ CheckAnswered(k) \/ CheckFails(k)
       \/ Retries
    /\ UNCHANGED turns

Next == Turn \/ GoesOn

Spec == Init /\ [][Next]_vars

-----------------------------------------------------------------------------
\* The types of the state; the lock is of a query in flight, the newest query
\* for stops too (useProximityAlerts.ts:91, useNearestStop.ts:60).
PlaceOK ==
    /\ mounted \in BOOLEAN /\ locating \in BOOLEAN /\ wanted \in BOOLEAN
    /\ app \in {"active", "inactive", "background"}
    /\ permission \in Permissions \union {None}
    /\ position \in Readings \union {None}
    /\ watch \in {"off", "starting", "on"}

NearbyOK ==
    /\ stops \in {None} \union SUBSET Stops
    /\ origin \in Places \union {None}
    /\ loads \in [Slots -> Places \union {None}]
    /\ latest \in Slots \union {None}
    /\ mounted /\ latest # None => loads[latest] # None
    /\ retry \in BOOLEAN

Shown == [approaching : SUBSET Buses, notified : SUBSET Buses,
          alert : [stop : Stops, bus : Buses] \union {None}]

AroundOK ==
    /\ live \in Report \union {None}
    /\ polling \in BOOLEAN
    /\ checks \in [Slots -> Stops \union {None}]
    /\ inFlight \in Slots \union {None}
    /\ inFlight # None => checks[inFlight] # None
    /\ alerts \in Shown

TypeOK == PlaceOK /\ NearbyOK /\ AroundOK

\* Alerts, and the buses listed as near, are always those of the official stop
\* where the user was verified to be; a user who is at none has none, whatever
\* answer arrives (useProximityAlerts.ts:122-132, 160-165).
AlertsAreForTheStop ==
    LET stop == AlertStop(position, stops)
    IN  /\ alerts.alert # None => alerts.alert.stop = stop
        /\ alerts.notified # {} => stop # None
        /\ alerts.approaching = alerts.notified

\* The stops at hand are enough: with no query nor retry pending, a user at an
\* official stop is told so, though the stops were asked for from elsewhere
\* and earlier answers came late (useNearestStop.ts:81-120).
NoStopMissed ==
    mounted /\ stops # None /\ latest = None /\ ~retry =>
        AlertStop(position, stops) = AlertStop(position, Stops)

\* The watch on the position is on only on an open map, with permission and out
\* of the background, in whatever order it started, the permission changed and
\* the application came and went (useLocation.ts:87-132).
WatchIsWanted ==
    watch = "on" => mounted /\ permission = "granted" /\ app # "background"

\* The server is asked every 15 s exactly when it is needed: at a stop, with
\* no WebSocket, and with the application in view (useProximityAlerts.ts:173-193).
PollsWhenNeeded ==
    LET needed == mounted /\ live = None /\ AlertStop(position, stops) # None
    IN  /\ polling => needed /\ app # "background"
        /\ needed /\ app = "active" => polling

\* A user with a position and no stops is never left waiting for nothing: a
\* query or a retry is on its way, though the server failed and the user does
\* not move nor press anything (useNearestStop.ts:96-106).
NeverGivesUp ==
    mounted /\ position # None /\ stops = None => latest # None \/ retry

\* What keeps the stops at hand enough.  While no retry waits, they were asked
\* for, last, from a point the user is still near; the newest query asks from
\* there, and what was loaded, when it was answered, is what is there.
StopsInv ==
    /\ mounted /\ ~retry /\ origin # None =>
          position # None /\ Distance(origin, position.at) < Refetch
    /\ mounted /\ latest # None => ~retry /\ loads[latest] = origin
    /\ mounted /\ ~retry /\ latest = None /\ stops # None =>
          origin # None /\ stops = StopsAround(origin)
    /\ mounted /\ ~retry /\ latest = None /\ stops = None => origin = None
    /\ mounted /\ ~retry /\ origin = None => position = None

\* What useProximityAlerts.ts:136 says of its lock: "Si ya hay una en curso
\* para el mismo paradero no se lanza otra".
OneQueryAStop ==
    \A k, j \in Slots : k # j /\ checks[k] # None /\ checks[j] # None => checks[k] # checks[j]

\* What useProximityAlerts.ts:60 says: "Alerta una vez por micro que entra al
\* radio".  A bus that is new among the notified is the one of the alert.
EveryEntryAlerts ==
    [][\A b \in alerts'.notified \ alerts.notified :
          alerts'.alert # None /\ alerts'.alert.bus = b]_vars
=============================================================================
