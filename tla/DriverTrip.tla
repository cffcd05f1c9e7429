----------------------------- MODULE DriverTrip -----------------------------
(***************************************************************************)
(* The driver's mode of the phone (mobile/src/screens/DriverModeScreen):   *)
(*                                                                         *)
(*   useDriverTrip          starts and ends the trip: the bus is set       *)
(*                          ACTIVE, then INACTIVE, on the server;          *)
(*   useDriverLocation      while there is a trip, publishes the GPS over  *)
(*                          a WebSocket of its own;                        *)
(*   useBackgroundTracking  while there is a trip, keeps a task of the     *)
(*                          system that reports the position over HTTP     *)
(*                          when the application is not in front.          *)
(*                                                                         *)
(* Starting and stopping the task are asynchronous calls that nobody waits *)
(* for.  Everything between two awaits is one action; a step that changes  *)
(* the trip includes the effects React then runs.  A request is served     *)
(* when its answer comes: done, done with the answer lost, or refused.     *)
(***************************************************************************)
EXTENDS Naturals, Sequences, SequencesExt, FiniteSets

CONSTANTS
    Buses,     \* the buses of the company
    Routes,    \* its active routes
    Statuses,  \* what the server may say of a bus
    NoTrip,
    MaxActs,   \* bound: what the driver, the company and the system do
    MaxCalls,  \* bound: calls of background tracking under way
    MaxFirings \* bound: handleLocations under way

ASSUME DriverTripAssumption ==
    /\ {"ACTIVE", "INACTIVE"} \subseteq Statuses
    /\ NoTrip \notin [bus : Buses, route : Routes]
    /\ MaxActs \in Nat /\ MaxCalls \in Nat /\ MaxFirings \in Nat

VARIABLES
    signed,      \* AuthContext.status is signedIn
    leaving,     \* where signOut is
    screen,      \* DriverModeScreen is mounted
    server,      \* the status of every bus
    fleet,       \* the list the screen has, "unknown" until it is loaded
    trip,        \* the trip in progress
    request,     \* what `run` is waiting for (inFlight)
    strays,      \* requests of a screen that is gone
    gps,         \* useDriverLocation
    socket,      \* its WebSocket is open
    sends,       \* send() under way: the route, and whether its effect lives
    bg,          \* useBackgroundTracking
    calls,       \* startBackgroundTracking and stopBackgroundTracking under way
    task,        \* the system runs the task
    key,         \* TRIP_KEY
    acts,        \* how much of MaxActs is spent
    owed,        \* history: buses in service for a trip started here
    astray,      \* history: a call took effect for a trip that was over, or
                 \* failed to stop, and no stop has cleaned up since
    firings,     \* handleLocations under way
    got          \* the last position the server got, with (history) the trip of
                 \* the moment it was made

session  == <<signed, leaving, screen>>
company  == <<server, fleet, request, strays, owed>>
location == <<gps, socket, sends>>
tracking == <<bg, calls, task, key, astray>>
reports  == <<firings, got>>
vars == <<session, company, trip, location, tracking, acts, reports>>

Trips == [bus : Buses, route : Routes]
NoRequest == [kind |-> "none"]
Requests  == {NoRequest, [kind |-> "refresh"]} \union [kind : {"start", "stop"}, trip : Trips]

Act == acts < MaxActs /\ acts' = acts + 1

\* A report not made yet.
Woken == [said |-> NoTrip, during |-> NoTrip, steady |-> FALSE]

\* canDrive.
CanDrive(status) == status \in {"INACTIVE", "ACTIVE"}

\* defaultBus: whatever was chosen, the bus is one of these.
Selectable == {b \in Buses : CanDrive(fleet[b])}

(***************************************************************************)
(* The calls of background tracking, in the order they were made.  Each    *)
(* goes on by itself.  A start forgets to whom it answers once its effect  *)
(* was cleaned up (`cancelled`).                                           *)
(***************************************************************************)
StartCall(t) == [kind |-> "start", at |-> "asking", trip |-> t, live |-> TRUE]
StopCall     == [kind |-> "stop", at |-> "clearing", trip |-> NoTrip, live |-> FALSE]
ExitCall     == [StopCall EXCEPT !.kind = "exit"]
Calls == [kind : {"start", "stop", "exit"}, trip : Trips \union {NoTrip}, live : BOOLEAN,
          at : {"asking", "storing", "beginning", "clearing", "halting"}]

Calling(cs) == Len(cs) <= MaxCalls /\ calls' = cs

Cancelled(cs) == [i \in DOMAIN cs |-> [cs[i] EXCEPT !.live = FALSE]]

\* The cleanup of useBackgroundTracking: there was a trip, its task is stopped.
CleanUp == IF trip = NoTrip THEN <<>> ELSE <<StopCall>>

\* The effects of both hooks when the trip becomes t, also when the screen
\* goes away.  The sends under way belong to an effect that is over.
TripBecomes(t) ==
    /\ trip' = t
    /\ gps' = IF t = NoTrip THEN "idle" ELSE "asking"
    /\ socket' = FALSE
    /\ sends' = {[s EXCEPT !.live = FALSE] : s \in sends}
    /\ bg' = "off"
    /\ Calling(Cancelled(calls) \o CleanUp \o (IF t = NoTrip THEN <<>> ELSE <<StartCall(t)>>))
    /\ UNCHANGED <<task, key, astray>>

(***************************************************************************)
(* The trip.                                                               *)
(***************************************************************************)

\* "Iniciar recorrido": `run` takes no second request.
Start ==
    /\ screen /\ trip = NoTrip /\ request = NoRequest /\ Act
    /\ \E t \in Trips : t.bus \in Selectable /\ request' = [kind |-> "start", trip |-> t]
    /\ UNCHANGED <<session, server, fleet, strays, owed, trip, location, tracking, reports>>

\* "Finalizar".
Stop ==
    /\ screen /\ trip # NoTrip /\ request = NoRequest /\ Act
    /\ request' = [kind |-> "stop", trip |-> trip]
    /\ UNCHANGED <<session, server, fleet, strays, owed, trip, location, tracking, reports>>

\* What the request does on the server.
Status(r) == IF r.kind = "start" THEN "ACTIVE" ELSE "INACTIVE"
Served(r) == server' = [server EXCEPT ![r.trip.bus] = Status(r)]

StartAnswered ==
    /\ request.kind = "start"
    /\ Served(request)
    /\ request' = [kind |-> "refresh"]
    /\ owed' = owed \union {request.trip.bus}
    /\ TripBecomes(request.trip)
    /\ UNCHANGED <<session, fleet, strays, acts, reports>>

StopAnswered ==
    /\ request.kind = "stop"
    /\ Served(request)
    /\ request' = [kind |-> "refresh"]
    /\ owed' = owed \ {request.trip.bus}
    /\ TripBecomes(NoTrip)
    /\ UNCHANGED <<session, fleet, strays, acts, reports>>

\* Mutant: the trip is over on the phone whatever the server answered.
RequestFails_Ends ==
    /\ request.kind \in {"start", "stop"}
    /\ \/ UNCHANGED <<server, owed>>
       \/ /\ Served(request)
          /\ owed' = owed \ {request.trip.bus}
    /\ request' = NoRequest
    /\ TripBecomes(NoTrip)
    /\ UNCHANGED <<session, fleet, strays, acts, reports>>

\* The request failed, or it did what it asked and the answer was lost: the
\* trip stays as it was, with the reason on the card.
RequestFails ==
    /\ request.kind \in {"start", "stop"}
    /\ \/ UNCHANGED <<server, owed>>
       \/ /\ Served(request)
          /\ owed' = owed \ {request.trip.bus}
    /\ request' = NoRequest
    /\ UNCHANGED <<session, fleet, strays, trip, location, tracking, acts, reports>>

\* The refresh every request ends with, which may fail.
Refreshed ==
    /\ request.kind = "refresh"
    /\ request' = NoRequest
    /\ fleet' \in {fleet, server}
    /\ UNCHANGED <<session, server, strays, owed, trip, location, tracking, acts, reports>>

\* The list is loaded when the screen opens and when it is pulled down.
Refresh ==
    /\ screen /\ fleet # server
    /\ fleet' = server
    /\ UNCHANGED <<session, server, request, strays, owed, trip, location, tracking, acts, reports>>

\* The company changes a bus elsewhere.
CompanyChanges ==
    /\ Act
    /\ \E b \in Buses, s \in Statuses :
          /\ s # server[b]
          /\ server' = [server EXCEPT ![b] = s]
          /\ owed' = owed \ {b}
    /\ UNCHANGED <<session, fleet, request, strays, trip, location, tracking, reports>>

\* A request whose screen is gone reaches the server, or never does.
StrayServed ==
    /\ \E r \in strays :
          /\ strays' = strays \ {r}
          /\ \/ Served(r) /\ owed' = owed \ {r.trip.bus}
             \/ UNCHANGED <<server, owed>>
    /\ UNCHANGED <<session, fleet, request, trip, location, tracking, acts, reports>>

(***************************************************************************)
(* The position, over the WebSocket.                                       *)
(***************************************************************************)

\* The permission and the watch on the position are granted or not: "denied"
\* stands for status "error" too, which offers the same retry.
GpsAnswers ==
    /\ gps = "asking"
    /\ gps' \in {"denied", "waiting"}
    /\ UNCHANGED <<session, company, trip, socket, sends, tracking, acts, reports>>

\* "Reintentar": a new effect, with a new socket.
Retry ==
    /\ gps = "denied" /\ Act
    /\ gps' = "asking"
    /\ socket' = FALSE
    /\ sends' = {[s EXCEPT !.live = FALSE] : s \in sends}
    /\ UNCHANGED <<session, company, trip, tracking, reports>>

SocketChanges ==
    /\ trip # NoTrip
    /\ socket' = ~socket
    /\ UNCHANGED <<session, company, trip, gps, sends, tracking, acts, reports>>

\* A position, or the heartbeat that repeats the last one.
Position ==
    /\ gps \in {"waiting", "tracking"}
    /\ gps' = "tracking"
    /\ sends' = sends \union {[route |-> trip.route, live |-> TRUE]}
    /\ UNCHANGED <<session, company, trip, socket, tracking, acts, reports>>

\* Mutant: send() does not look whether its effect is over.
StillActive_Always(s) == TRUE

\* send() goes on after renewing the session: its effect is not over.
StillActive(s) == s.live

\* The route is the one of the effect, the bus the one of the last render
\* (busRef).  Without a connection the position is not kept for later.
SendGoes ==
    /\ \E s \in sends :
          /\ sends' = sends \ {s}
          /\ got' = IF StillActive(s) /\ signed /\ trip # NoTrip /\ socket
                    THEN [said |-> [bus |-> trip.bus, route |-> s.route],
                          during |-> trip, steady |-> TRUE]
                    ELSE got
    /\ UNCHANGED <<session, company, trip, gps, socket, tracking, acts, firings>>

(***************************************************************************)
(* The position, over HTTP, while the application is not in front.         *)
(***************************************************************************)

Goes(i, at)   == calls' = [calls EXCEPT ![i].at = at]
Ends(i)       == calls' = RemoveAt(calls, i)

\* Mutant: a start answers to whichever effect there is by then.
Answers_Always(i, s) == bg' = s /\ i \in DOMAIN calls

Answers(i, s) == bg' = IF calls[i].live THEN s ELSE bg

\* The trip a start was called for is over; another began after a stop.
Late(i) == IF calls[i].kind = "start" THEN ~calls[i].live
           ELSE calls[i].kind = "stop" /\ trip # NoTrip

\* The permissions, which are asked for first: "unavailable" stands for
\* "denied" too, another text on the card.
Permitted(i) ==
    /\ calls[i].at = "asking"
    /\ \/ Goes(i, "storing") /\ UNCHANGED bg
       \/ Ends(i) /\ Answers(i, "unavailable")
    /\ UNCHANGED <<task, key, astray, leaving>>

\* The trip is written for the task, which sees no state of React.
Stores(i) ==
    /\ calls[i].at = "storing"
    /\ \/ /\ key' = calls[i].trip /\ Goes(i, "beginning")
          /\ astray' = (astray \/ Late(i))
       \/ Goes(i, "clearing") /\ UNCHANGED <<key, astray>>
    /\ UNCHANGED <<bg, task, leaving>>

\* The system begins the task, or cannot.
Begins(i) ==
    /\ calls[i].at = "beginning"
    /\ \/ /\ task' = TRUE /\ Ends(i) /\ Answers(i, "active")
          /\ astray' = (astray \/ Late(i))
       \/ Goes(i, "clearing") /\ UNCHANGED <<bg, task, astray>>
    /\ UNCHANGED <<key, leaving>>

\* The trip of the task is removed: what a stop does first and a start that
\* failed does last. A removal that fails is as if it had not.
Clears(i) ==
    /\ calls[i].at = "clearing"
    /\ \/ key' = NoTrip /\ astray' = (astray \/ (Late(i) /\ trip # NoTrip))
       \/ UNCHANGED key /\ astray' = (astray \/ key # NoTrip)
    /\ IF calls[i].kind = "start"
       THEN Ends(i) /\ Answers(i, "unavailable")
       ELSE Goes(i, "halting") /\ UNCHANGED bg
    /\ UNCHANGED <<task, leaving>>

\* The task is stopped if it runs, unless the system cannot say or do it, which
\* nobody hears of. One that is, with no trip, leaves nothing behind but a key
\* that was not removed. signOut waits for its stop.
Halts(i) ==
    /\ calls[i].at = "halting"
    /\ Ends(i)
    /\ \/ /\ task' = FALSE
          /\ astray' = IF trip = NoTrip THEN astray /\ key # NoTrip ELSE astray \/ Late(i)
       \/ UNCHANGED task /\ astray' = (astray \/ task)
    /\ leaving' = IF calls[i].kind = "exit" THEN "logout" ELSE leaving
    /\ UNCHANGED <<bg, key>>

CallGoesOn ==
    /\ \E i \in DOMAIN calls : Permitted(i) \/ Stores(i) \/ Begins(i) \/ Clears(i) \/ Halts(i)
    /\ UNCHANGED <<signed, screen, company, trip, location, acts, reports>>

\* No start and no stop is under way or has gone astray.
Steady == calls = <<>> /\ ~astray /\ leaving = "no"

\* A position for the task: handleLocations. It does nothing while the
\* application is in front, which may change at any time and nothing else
\* reads: that check is a choice.
TaskFires ==
    /\ task /\ Cardinality(firings) < MaxFirings
    /\ firings' = firings \union {Woken}
    /\ UNCHANGED <<session, company, trip, location, tracking, acts, got>>

\* readTrip, and the report for the trip that is written, if one is and it can
\* be read: by then the task may have been stopped.
ReadsTrip ==
    /\ Woken \in firings
    /\ \E read \in {key, NoTrip} :
          firings' = (firings \ {Woken}) \union
                       (IF read = NoTrip THEN {}
                        ELSE {[said |-> read, during |-> trip, steady |-> Steady]})
    /\ UNCHANGED <<session, company, trip, location, tracking, acts, got>>

\* The POST ends: it reached the server, whatever the trip is by then, or did
\* not. Without a session the server refuses it.
ReportEnds ==
    /\ \E f \in firings \ {Woken} :
          /\ firings' = firings \ {f}
          /\ got' \in {got} \union (IF signed THEN {f} ELSE {})
    /\ UNCHANGED <<session, company, trip, location, tracking, acts>>

(***************************************************************************)
(* The screen and the session.                                             *)
(***************************************************************************)
Open ==
    /\ signed /\ ~screen
    /\ screen' = TRUE
    /\ fleet' = [b \in Buses |-> "unknown"]
    /\ UNCHANGED <<signed, leaving, server, request, strays, owed, trip, location, tracking, acts, reports>>

\* The screen is unmounted: its hooks are cleaned up, the bus stays in service
\* and the request under way has nobody to answer to.
Closes ==
    /\ screen' = FALSE
    /\ strays' = strays \union (IF request.kind \in {"start", "stop"} THEN {request} ELSE {})
    /\ request' = NoRequest
    /\ owed' = {}
    /\ UNCHANGED <<server, fleet>>

SignIn ==
    /\ ~signed /\ Act
    /\ signed' = TRUE
    /\ UNCHANGED <<leaving, screen, company, trip, location, tracking, reports>>

\* The refresh token is no longer good: setSessionExpiredHandler.
Expires ==
    /\ signed /\ Act
    /\ signed' = FALSE
    /\ Closes
    /\ TripBecomes(NoTrip)
    /\ UNCHANGED <<leaving, reports>>

\* signOut stops the task first, then logs out and leaves.
SignOut ==
    /\ signed /\ leaving = "no" /\ Act
    /\ leaving' = "stopping"
    /\ Calling(Append(calls, ExitCall))
    /\ UNCHANGED <<signed, screen, company, trip, location, bg, task, key, astray, reports>>

LoggedOut ==
    /\ leaving = "logout"
    /\ leaving' = "no"
    /\ signed' = FALSE
    /\ Closes
    /\ TripBecomes(NoTrip)
    /\ UNCHANGED <<acts, reports>>

\* The application is killed: nothing is cleaned up, and the task may survive.
Killed ==
    /\ Act
    /\ leaving' = "no"
    /\ Closes
    /\ trip' = NoTrip /\ gps' = "idle" /\ socket' = FALSE /\ sends' = {}
    /\ bg' = "off" /\ calls' = <<>>
    /\ task' \in {task, FALSE}
    /\ astray' = (astray \/ task' \/ key # NoTrip)
    /\ firings' = {}
    /\ UNCHANGED <<signed, key, got>>

Init ==
    /\ signed = TRUE /\ leaving = "no" /\ screen = FALSE
    /\ server = [b \in Buses |-> "INACTIVE"]
    /\ fleet = [b \in Buses |-> "unknown"]
    /\ trip = NoTrip /\ request = NoRequest /\ strays = {}
    /\ gps = "idle" /\ socket = FALSE /\ sends = {}
    /\ bg = "off" /\ calls = <<>> /\ task = FALSE /\ key = NoTrip
    /\ acts = 0 /\ owed = {} /\ astray = FALSE
    /\ firings = {} /\ got = Woken

Next ==
    \/ Start \/ Stop \/ StartAnswered \/ StopAnswered \/ RequestFails
    \/ Refreshed \/ Refresh \/ CompanyChanges \/ StrayServed
    \/ GpsAnswers \/ Retry \/ SocketChanges \/ Position \/ SendGoes
    \/ CallGoesOn \/ TaskFires \/ ReadsTrip \/ ReportEnds
    \/ Open \/ SignIn \/ Expires \/ SignOut \/ LoggedOut \/ Killed

Spec == Init /\ [][Next]_vars

(***************************************************************************)
(* Properties.                                                             *)
(***************************************************************************)
Reports == [said : Trips, during : Trips \union {NoTrip}, steady : BOOLEAN]

TypeOK ==
    /\ {signed, screen, socket, task, astray} \subseteq BOOLEAN
    /\ leaving \in {"no", "stopping", "logout"}
    /\ server \in [Buses -> Statuses]
    /\ fleet \in [Buses -> Statuses \union {"unknown"}]
    /\ {trip, key} \subseteq Trips \union {NoTrip}
    /\ request \in Requests /\ strays \subseteq Requests
    /\ gps \in {"idle", "asking", "waiting", "tracking", "denied"}
    /\ bg \in {"off", "active", "unavailable"}
    /\ sends \subseteq [route : Routes, live : BOOLEAN]
    /\ calls \in Seq(Calls) /\ Len(calls) <= MaxCalls
    /\ owed \subseteq Buses /\ acts \in 0..MaxActs
    /\ firings \subseteq Reports \union {Woken} /\ got \in Reports \union {Woken}

\* With no call under way, the system tracks the phone exactly while there is
\* a trip the screen says it is tracked for, and reports that trip, also after
\* a trip that ended while its start was under way (useBackgroundTracking.ts:
\* 14-27). What is excused is a call that took effect late (a start that went
\* on after its trip was over, a stop after the next one had begun), one whose
\* failure to stop or to remove was swallowed (backgroundTracking.ts:129-136)
\* and a task that outlived the application, each until a stop has cleaned up.
TrackingFollowsTheTrip ==
    Steady => /\ task <=> (trip # NoTrip /\ bg = "active")
              /\ task => key = trip

\* Every position the server gets says the bus and the route of the trip of the
\* moment it was made. Over the WebSocket always, and that is when it is sent,
\* though the send was suspended while the trip changed (useDriverLocation.ts:
\* 94-108). Over HTTP unless a start or a stop was under way or went astray,
\* and that is when the task reads its trip, between the awaits of
\* handleLocations: the server may get it after the trip ended.
PositionsAreOfTheTrip == got.steady => got.said = got.during

\* A bus put in service by a start that was answered is the one of the trip on
\* the screen, until an end of that trip is served, the company changes the bus
\* or the screen is left (useDriverTrip.ts:56-91): a start or an end that fails,
\* its answer lost or not, does not take away the trip its driver ends it with.
NoBusLeftRunning == \A b \in owed : trip # NoTrip /\ trip.bus = b

\* Not claimed: "Deja de enviar la ubicacion (al terminar el recorrido o cerrar
\* sesion)" (backgroundTracking.ts:126). A start suspended at the permission or
\* at the write goes on after the stop that should undo it, and a stop that
\* fails is not tried again.
TrackingEndsWithTrip == calls = <<>> /\ trip = NoTrip => ~task
=============================================================================
