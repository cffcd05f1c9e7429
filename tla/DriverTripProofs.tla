-------------------------- MODULE DriverTripProofs --------------------------
(* Theorems about DriverTrip, for any buses, routes and number of calls.   *)
EXTENDS DriverTrip, SequenceTheorems, TLAPS

(***************************************************************************)
(* The inductive invariant.  TrackingFollowsTheTrip speaks of the moments  *)
(* when nothing is under way.  Between them, as long as no call has gone   *)
(* astray, what a trip that is over left behind has a stop under way that  *)
(* will remove it, and what the screen says of the trip is the work of its *)
(* one live start.                                                         *)
(***************************************************************************)
MaybeTrip == Trips \union {NoTrip}

Types ==
    /\ trip \in MaybeTrip /\ request \in Requests /\ calls \in Seq(Calls)
    /\ task \in BOOLEAN /\ astray \in BOOLEAN
    /\ sends \subseteq [route : Routes, live : BOOLEAN]

\* What `run` waits for goes with the trip on the screen.
RequestInv ==
    /\ request.kind = "start" => trip = NoTrip
    /\ request.kind = "stop" => trip # NoTrip /\ request.trip = trip

\* The position is watched only during a trip, and a send that may still go
\* carries the route of that trip.
SendInv ==
    /\ trip = NoTrip => gps = "idle"
    /\ \A s \in sends : s.live => trip # NoTrip /\ s.route = trip.route

Live(i) == calls[i].kind = "start" /\ calls[i].live

\* A call that removes the key, then the task, is under way; it is to remove
\* the key yet.
Ending == \E i \in 1..Len(calls) : calls[i].kind # "start"
Clearing == \E i \in 1..Len(calls) : calls[i].kind # "start" /\ calls[i].at = "clearing"

\* One start at most answers to the screen, and it is of its trip; one stop at
\* most is waited for by signOut.
CallsInv ==
    \A i \in 1..Len(calls) :
      /\ calls[i].at \in {"asking", "storing", "beginning"} => calls[i].kind = "start"
      /\ calls[i].kind = "start" => calls[i].at # "halting"
      /\ calls[i].kind = "exit" => leaving = "stopping"
      /\ Live(i) => trip # NoTrip /\ calls[i].trip = trip /\ bg = "off"
      /\ \A j \in 1..Len(calls) :
           (Live(i) /\ Live(j)) \/ (calls[i].kind = "exit" /\ calls[j].kind = "exit") => i = j

OverInv ==
    ~astray /\ trip = NoTrip =>
      /\ task => Ending
      /\ key = NoTrip \/ Clearing

OnInv ==
    ~astray /\ trip # NoTrip /\ leaving = "no" =>
      /\ bg = "active" => task /\ key = trip
      /\ task => bg = "active" \/ Ending
      /\ key \in {NoTrip, trip} \/ Clearing
      /\ \A i \in 1..Len(calls) : Live(i) /\ calls[i].at = "beginning" => key = trip

TrackInv == CallsInv /\ OverInv /\ OnInv

\* What a report says when it is made, it says when it arrives.
ReportInv == \A f \in firings : f.steady => f.said = f.during

IInv ==
    /\ Types /\ RequestInv /\ SendInv /\ TrackInv /\ ReportInv
    /\ NoBusLeftRunning /\ PositionsAreOfTheTrip

-----------------------------------------------------------------------------
(* Helpers on the list of calls. *)

LEMMA CallShapes ==
    /\ NoTrip \notin Trips
    /\ StopCall \in Calls /\ ExitCall \in Calls
    /\ StopCall.kind = "stop" /\ StopCall.at = "clearing"
    /\ ExitCall.kind = "exit" /\ ExitCall.at = "clearing"
    /\ \A t \in Trips : /\ StartCall(t) \in Calls /\ StartCall(t).kind = "start"
                        /\ StartCall(t).live /\ StartCall(t).trip = t
                        /\ StartCall(t).at = "asking"
BY DriverTripAssumption DEF Trips, StopCall, ExitCall, StartCall, Calls

LEMMA CancelledCalls ==
    ASSUME NEW cs \in Seq(Calls)
    PROVE  /\ Cancelled(cs) \in Seq(Calls)
           /\ Len(Cancelled(cs)) = Len(cs)
           /\ \A i \in 1..Len(cs) : /\ Cancelled(cs)[i].kind = cs[i].kind
                                    /\ Cancelled(cs)[i].at = cs[i].at
                                    /\ ~Cancelled(cs)[i].live
<1>1. DOMAIN cs = 1..Len(cs) /\ Len(cs) \in Nat
  OBVIOUS
<1>2. \A i \in 1..Len(cs) : cs[i] \in Calls
  OBVIOUS
<1>3. \A i \in 1..Len(cs) : [cs[i] EXCEPT !.live = FALSE] \in Calls
                            /\ [cs[i] EXCEPT !.live = FALSE].kind = cs[i].kind
                            /\ [cs[i] EXCEPT !.live = FALSE].at = cs[i].at
                            /\ ~[cs[i] EXCEPT !.live = FALSE].live
  BY <1>2 DEF Calls
<1>4. Cancelled(cs) \in [1..Len(cs) -> Calls]
  BY <1>1, <1>3 DEF Cancelled
<1>5. Cancelled(cs) \in Seq(Calls) /\ Len(Cancelled(cs)) = Len(cs)
  BY <1>1, <1>4, IsASeq, LenProperties
<1>. QED  BY <1>1, <1>3, <1>5 DEF Cancelled

LEMMA Removed ==
    ASSUME NEW cs \in Seq(Calls), NEW i \in 1..Len(cs)
    PROVE  /\ RemoveAt(cs, i) \in Seq(Calls)
           /\ Len(RemoveAt(cs, i)) = Len(cs) - 1
           /\ \A j \in 1..Len(cs) - 1 : RemoveAt(cs, i)[j] = cs[IF j < i THEN j ELSE j + 1]
<1>. DEFINE a == SubSeq(cs, 1, i - 1)
            b == SubSeq(cs, i + 1, Len(cs))
<1>1. /\ a \in Seq(Calls) /\ Len(a) = i - 1
      /\ \A j \in 1..Len(a) : a[j] = cs[j]
  OBVIOUS
<1>2. /\ b \in Seq(Calls) /\ Len(b) = Len(cs) - i
      /\ \A j \in 1..Len(b) : b[j] = cs[i + j]
  OBVIOUS
<1>3. RemoveAt(cs, i) = a \o b
  BY DEF RemoveAt
<1>. HIDE DEF a, b
<1>4. /\ a \o b \in Seq(Calls) /\ Len(a \o b) = Len(a) + Len(b)
      /\ \A j \in 1..Len(a) + Len(b) : (a \o b)[j] = IF j <= Len(a) THEN a[j] ELSE b[j - Len(a)]
  BY <1>1, <1>2, ConcatProperties
<1>5. Len(a) \in Nat /\ Len(b) \in Nat /\ Len(a) + Len(b) = Len(cs) - 1
  BY <1>1, <1>2
<1>6. ASSUME NEW j \in 1..Len(cs) - 1 PROVE (a \o b)[j] = cs[IF j < i THEN j ELSE j + 1]
  <2>1. CASE j < i
    BY <1>1, <1>4, <1>5, <2>1
  <2>2. CASE ~(j < i)
    <3>. DEFINE m == j - Len(a)
    <3>1. m \in 1..Len(b) /\ i + m = j + 1
      BY <1>1, <1>5, <2>2
    <3>2. (a \o b)[j] = b[m]
      BY <1>1, <1>4, <1>5, <2>2
    <3>. HIDE DEF m
    <3>. QED  BY <1>2, <2>2, <3>1, <3>2
  <2>. QED  BY <2>1, <2>2
<1>. QED  BY <1>3, <1>4, <1>5, <1>6
-----------------------------------------------------------------------------
(* The trip changes, with the effects of the two hooks. *)

LEMMA Begun ==
    ASSUME Types, TrackInv, trip = NoTrip, NEW t \in Trips, TripBecomes(t), leaving' = leaving
    PROVE  calls' \in Seq(Calls) /\ astray' \in BOOLEAN /\ TrackInv'
<1>. DEFINE cs == Cancelled(calls)
            new == cs \o <<>> \o <<StartCall(t)>>
<1>1. t # NoTrip /\ StartCall(t) \in Calls
  BY CallShapes
<1>2. CleanUp = <<>>
  BY DEF CleanUp
<1>3. trip' = t /\ bg' = "off" /\ UNCHANGED <<task, key, astray>> /\ calls' = new
  BY <1>1, <1>2 DEF TripBecomes, Calling
<1>4. /\ cs \in Seq(Calls) /\ Len(cs) = Len(calls) /\ Len(cs) \in Nat
      /\ \A i \in 1..Len(calls) : cs[i].kind = calls[i].kind /\ cs[i].at = calls[i].at /\ ~cs[i].live
  BY CancelledCalls DEF Types
<1>. HIDE DEF cs
<1>5. new = Append(cs, StartCall(t))
  BY <1>1, <1>4
<1>6. /\ new \in Seq(Calls) /\ Len(new) = Len(cs) + 1
      /\ new[Len(cs) + 1] = StartCall(t)
      /\ \A i \in 1..Len(cs) : new[i] = cs[i]
      /\ \A i \in 1..Len(new) : i = Len(cs) + 1 \/ i \in 1..Len(cs)
      /\ 1..Len(cs) \subseteq 1..Len(new)
  BY <1>1, <1>4, <1>5
<1>. HIDE DEF new
<1>7. \A i \in 1..Len(new) : Live(i)' => i = Len(cs) + 1
  BY <1>3, <1>4, <1>6 DEF Live
<1>8. CallsInv'
  BY <1>1, <1>3, <1>4, <1>6, <1>7, CallShapes DEF TrackInv, CallsInv, Live
<1>9. (Ending => Ending') /\ (Clearing => Clearing')
  BY <1>3, <1>4, <1>6 DEF Ending, Clearing
<1>10. OnInv'
  BY <1>1, <1>3, <1>6, <1>7, <1>9, CallShapes DEF TrackInv, OverInv, OnInv
<1>. QED  BY <1>1, <1>3, <1>6, <1>8, <1>10 DEF TrackInv, OverInv, Types

LEMMA Over ==
    ASSUME Types, TrackInv, TripBecomes(NoTrip),
           \A i \in 1..Len(calls) : calls[i].kind = "exit" => leaving' = "stopping"
    PROVE  calls' \in Seq(Calls) /\ astray' \in BOOLEAN /\ TrackInv'
<1>. DEFINE cs == Cancelled(calls)
<1>1. /\ cs \in Seq(Calls) /\ Len(cs) = Len(calls) /\ Len(cs) \in Nat
      /\ \A i \in 1..Len(calls) : cs[i].kind = calls[i].kind /\ cs[i].at = calls[i].at /\ ~cs[i].live
  BY CancelledCalls DEF Types
<1>2. trip' = NoTrip /\ UNCHANGED <<task, key, astray>> /\ calls' = cs \o CleanUp \o <<>>
  BY DEF TripBecomes, Calling
<1>. HIDE DEF cs
<1>3. CASE trip = NoTrip
  <2>1. CleanUp = <<>>
    BY <1>3 DEF CleanUp
  <2>2. calls' = cs
    BY <1>1, <1>2, <2>1
  <2>3. CallsInv'
    BY <1>1, <2>2 DEF TrackInv, CallsInv, Live
  <2>4. (Ending => Ending') /\ (Clearing => Clearing')
    BY <1>1, <2>2 DEF Ending, Clearing
  <2>. QED  BY <1>1, <1>2, <1>3, <2>2, <2>3, <2>4 DEF TrackInv, OverInv, OnInv, Types
<1>4. CASE trip # NoTrip
  <2>1. CleanUp = <<StopCall>> /\ StopCall \in Calls
    BY <1>4, CallShapes DEF CleanUp
  <2>2. calls' = Append(cs, StopCall)
    BY <1>1, <1>2, <2>1
  <2>3. /\ calls' \in Seq(Calls) /\ Len(calls') = Len(cs) + 1
        /\ calls'[Len(cs) + 1] = StopCall
        /\ \A i \in 1..Len(cs) : calls'[i] = cs[i]
        /\ \A i \in 1..Len(calls') : i = Len(cs) + 1 \/ i \in 1..Len(cs)
        /\ Len(cs) + 1 \in 1..Len(calls')
    BY <1>1, <2>1, <2>2
  <2>4. CallsInv'
    BY <1>1, <2>3, CallShapes DEF TrackInv, CallsInv, Live
  <2>5. Ending' /\ Clearing'
    BY <2>3, CallShapes DEF Ending, Clearing
  <2>. QED  BY <1>2, <2>3, <2>4, <2>5 DEF TrackInv, OverInv, OnInv, Types
<1>. QED  BY <1>3, <1>4

(* What else TripBecomes does. *)
LEMMA Renewed ==
    ASSUME Types, NEW t \in MaybeTrip, TripBecomes(t)
    PROVE  /\ trip' = t /\ task' = task /\ key' = key
           /\ sends' \subseteq [route : Routes, live : BOOLEAN]
           /\ SendInv'
<1>1. \A s \in sends : [s EXCEPT !.live = FALSE] \in [route : Routes, live : BOOLEAN]
                      /\ ~[s EXCEPT !.live = FALSE].live
  BY DEF Types
<1>2. sends' = {[s EXCEPT !.live = FALSE] : s \in sends}
  BY DEF TripBecomes
<1>3. \A s \in sends' : ~s.live /\ s \in [route : Routes, live : BOOLEAN]
  BY <1>1, <1>2
<1>. QED  BY <1>3 DEF TripBecomes, SendInv
-----------------------------------------------------------------------------
(* Each part, step by step. *)

(* Nothing the tracking depends on changes. *)
LEMMA TrackStays ==
    ASSUME Types, TrackInv, UNCHANGED <<trip, tracking, leaving>>
    PROVE  trip' \in MaybeTrip /\ calls' \in Seq(Calls) /\ task' \in BOOLEAN
           /\ astray' \in BOOLEAN /\ TrackInv'
BY DEF Types, TrackInv, CallsInv, OverInv, OnInv, Live, Ending, Clearing, tracking

(* A request ends or is left behind. *)
LEMMA RequestShapes ==
    /\ NoRequest \in Requests /\ NoRequest.kind = "none"
    /\ [kind |-> "refresh"] \in Requests /\ [kind |-> "refresh"].kind = "refresh"
    /\ \A k \in {"start", "stop"}, t \in Trips :
         /\ [kind |-> k, trip |-> t] \in Requests
         /\ [kind |-> k, trip |-> t].kind = k /\ [kind |-> k, trip |-> t].trip = t
    /\ \A r \in Requests : r.kind \in {"start", "stop"} => r.trip \in Trips
BY DEF Requests, NoRequest

(* The trip, its request and the buses in service. *)
LEMMA TripStep ==
    ASSUME IInv, Start \/ Stop \/ StartAnswered \/ StopAnswered \/ RequestFails \/ Refreshed
    PROVE  IInv'
<1>. USE DEF IInv
<1>1. CASE Start
  <2>1. trip = NoTrip /\ UNCHANGED <<owed, trip, location, tracking, reports, leaving>>
    BY <1>1 DEF Start, session
  <2>2. PICK t \in Trips : request' = [kind |-> "start", trip |-> t]
    BY <1>1 DEF Start
  <2>3. Types' /\ TrackInv'
    BY <2>1, <2>2, TrackStays, RequestShapes DEF Types, location
  <2>4. RequestInv'
    BY <2>1, <2>2, RequestShapes DEF RequestInv
  <2>. QED  BY <2>1, <2>3, <2>4 DEF SendInv, NoBusLeftRunning, ReportInv, PositionsAreOfTheTrip, location, reports
<1>2. CASE Stop
  <2>1. trip # NoTrip /\ UNCHANGED <<owed, trip, location, tracking, reports, leaving>>
        /\ request' = [kind |-> "stop", trip |-> trip]
    BY <1>2 DEF Stop, session
  <2>2. trip \in Trips
    BY <2>1 DEF Types, MaybeTrip
  <2>3. Types' /\ TrackInv'
    BY <2>1, <2>2, TrackStays, RequestShapes DEF Types, location
  <2>4. RequestInv'
    BY <2>1, <2>2, RequestShapes DEF RequestInv
  <2>. QED  BY <2>1, <2>3, <2>4 DEF SendInv, NoBusLeftRunning, ReportInv, PositionsAreOfTheTrip, location, reports
<1>3. CASE StartAnswered
  <2>1. request.kind = "start" /\ trip = NoTrip /\ request.trip \in Trips
        /\ owed' = owed \union {request.trip.bus} /\ TripBecomes(request.trip)
        /\ request' = [kind |-> "refresh"] /\ reports' = reports /\ leaving' = leaving
    BY <1>3, RequestShapes DEF StartAnswered, RequestInv, Types, session
  <2>2. calls' \in Seq(Calls) /\ astray' \in BOOLEAN /\ TrackInv'
    BY <2>1, Begun
  <2>3. trip' = request.trip /\ task' = task /\ SendInv'
        /\ sends' \subseteq [route : Routes, live : BOOLEAN]
    BY <2>1, Renewed DEF MaybeTrip
  <2>4. Types' /\ RequestInv'
    BY <2>1, <2>2, <2>3, RequestShapes DEF Types, RequestInv, MaybeTrip
  <2>5. NoBusLeftRunning'
    BY <2>1, <2>3, CallShapes DEF NoBusLeftRunning
  <2>. QED  BY <2>1, <2>2, <2>3, <2>4, <2>5 DEF ReportInv, PositionsAreOfTheTrip, reports
<1>4. CASE StopAnswered
  <2>1. request.kind = "stop" /\ trip # NoTrip /\ request.trip = trip
        /\ owed' = owed \ {request.trip.bus} /\ TripBecomes(NoTrip)
        /\ request' = [kind |-> "refresh"] /\ reports' = reports /\ leaving' = leaving
    BY <1>4 DEF StopAnswered, RequestInv, session
  <2>2. calls' \in Seq(Calls) /\ astray' \in BOOLEAN /\ TrackInv'
    BY <2>1, Over DEF TrackInv, CallsInv
  <2>3. trip' = NoTrip /\ task' = task /\ SendInv'
        /\ sends' \subseteq [route : Routes, live : BOOLEAN]
    BY <2>1, Renewed DEF MaybeTrip
  <2>4. Types' /\ RequestInv'
    BY <2>1, <2>2, <2>3, RequestShapes DEF Types, RequestInv, MaybeTrip
  <2>5. NoBusLeftRunning'
    BY <2>1 DEF NoBusLeftRunning
  <2>. QED  BY <2>1, <2>2, <2>3, <2>4, <2>5 DEF ReportInv, PositionsAreOfTheTrip, reports
<1>5. CASE RequestFails \/ Refreshed
  <2>1. owed' \subseteq owed /\ request' = NoRequest
        /\ UNCHANGED <<trip, location, tracking, reports, leaving>>
    BY <1>5 DEF RequestFails, Refreshed, session
  <2>2. Types' /\ TrackInv' /\ RequestInv'
    BY <2>1, TrackStays, RequestShapes DEF Types, location, RequestInv
  <2>. QED  BY <2>1, <2>2 DEF SendInv, NoBusLeftRunning, ReportInv, PositionsAreOfTheTrip, location, reports
<1>. QED  BY <1>1, <1>2, <1>3, <1>4, <1>5

(* What changes neither the trip nor its tracking. *)
LEMMA PositionStep ==
    ASSUME IInv,
           Refresh \/ CompanyChanges \/ StrayServed \/ GpsAnswers \/ Retry \/ SocketChanges
             \/ Position \/ SendGoes \/ TaskFires \/ ReadsTrip \/ ReportEnds
             \/ Open \/ SignIn \/ UNCHANGED vars
    PROVE  IInv'
<1>. USE DEF IInv
<1>1. UNCHANGED <<trip, request, tracking, leaving>> /\ owed' \subseteq owed
  BY DEF Refresh, CompanyChanges, StrayServed, GpsAnswers, Retry, SocketChanges, Position,
     SendGoes, TaskFires, ReadsTrip, ReportEnds, Open, SignIn, vars, session, company
<1>2. TrackInv' /\ RequestInv' /\ NoBusLeftRunning'
  BY <1>1, TrackStays DEF RequestInv, NoBusLeftRunning
<1>3. sends' \subseteq [route : Routes, live : BOOLEAN] /\ SendInv'
  <2>1. CASE Position
    <3>1. gps # "idle" /\ sends' = sends \union {[route |-> trip.route, live |-> TRUE]}
          /\ gps' = "tracking"
      BY <2>1 DEF Position
    <3>2. trip # NoTrip /\ trip \in Trips
      BY <3>1 DEF SendInv, Types, MaybeTrip
    <3>. DEFINE new == [route |-> trip.route, live |-> TRUE]
    <3>3. new \in [route : Routes, live : BOOLEAN] /\ new.route = trip.route
          /\ sends' = sends \union {new}
      BY <3>1, <3>2 DEF Trips
    <3>. HIDE DEF new
    <3>4. sends' \subseteq [route : Routes, live : BOOLEAN]
      BY <3>3 DEF Types
    <3>5. SendInv'
      BY <1>1, <3>2, <3>3 DEF SendInv
    <3>. QED  BY <3>4, <3>5
  <2>2. CASE Retry
    <3>1. gps = "denied" /\ gps' = "asking"
          /\ sends' = {[s EXCEPT !.live = FALSE] : s \in sends}
      BY <2>2 DEF Retry
    <3>2. \A s \in sends : [s EXCEPT !.live = FALSE] \in [route : Routes, live : BOOLEAN]
                          /\ ~[s EXCEPT !.live = FALSE].live
      BY DEF Types
    <3>3. \A s \in sends' : ~s.live /\ s \in [route : Routes, live : BOOLEAN]
      BY <3>1, <3>2
    <3>. QED  BY <1>1, <3>1, <3>3 DEF SendInv
  <2>3. CASE GpsAnswers
    BY <1>1, <2>3 DEF GpsAnswers, SendInv, Types
  <2>4. CASE ~(Position \/ Retry \/ GpsAnswers)
    <3>1. gps' = gps /\ sends' \subseteq sends
      BY <2>4 DEF Refresh, CompanyChanges, StrayServed, SocketChanges, SendGoes, TaskFires,
         ReadsTrip, ReportEnds, Open, SignIn, vars, location
    <3>. QED  BY <1>1, <3>1 DEF SendInv, Types
  <2>. QED  BY <2>1, <2>2, <2>3, <2>4
<1>4. ReportInv' /\ PositionsAreOfTheTrip'
  <2>1. CASE SendGoes
    <3>1. PICK s \in sends :
             got' = IF StillActive(s) /\ signed /\ trip # NoTrip /\ socket
                    THEN [said |-> [bus |-> trip.bus, route |-> s.route],
                          during |-> trip, steady |-> TRUE]
                    ELSE got
      BY <2>1 DEF SendGoes
    <3>2. CASE StillActive(s) /\ trip # NoTrip
      <4>1. s.route = trip.route /\ trip \in Trips
        BY <3>2 DEF StillActive, SendInv, Types, MaybeTrip
      <4>2. [bus |-> trip.bus, route |-> s.route] = trip
        BY <4>1 DEF Trips
      <4>. QED  BY <2>1, <3>1, <4>2 DEF SendGoes, ReportInv, PositionsAreOfTheTrip
    <3>. QED  BY <2>1, <3>1, <3>2 DEF SendGoes, ReportInv, PositionsAreOfTheTrip
  <2>2. CASE TaskFires
    BY <2>2 DEF TaskFires, Woken, ReportInv, PositionsAreOfTheTrip
  <2>3. CASE ReadsTrip
    <3>1. PICK read \in {key, NoTrip} :
             firings' = (firings \ {Woken}) \union
                          (IF read = NoTrip THEN {}
                           ELSE {[said |-> read, during |-> trip, steady |-> Steady]})
      BY <2>3 DEF ReadsTrip
    <3>2. read # NoTrip /\ Steady => read = trip
      BY DEF Steady, TrackInv, OverInv, OnInv, Clearing
    <3>. QED  BY <2>3, <3>1, <3>2 DEF ReadsTrip, ReportInv, PositionsAreOfTheTrip
  <2>4. CASE ReportEnds
    BY <2>4 DEF ReportEnds, ReportInv, PositionsAreOfTheTrip
  <2>5. CASE ~(SendGoes \/ TaskFires \/ ReadsTrip \/ ReportEnds)
    <3>1. reports' = reports
      BY <2>5 DEF Refresh, CompanyChanges, StrayServed, GpsAnswers, Retry, SocketChanges,
         Position, Open, SignIn, vars
    <3>. QED  BY <3>1 DEF ReportInv, PositionsAreOfTheTrip, reports
  <2>. QED  BY <2>1, <2>2, <2>3, <2>4, <2>5
<1>5. Types'
  BY <1>1, <1>3, TrackStays DEF Types
<1>. QED  BY <1>2, <1>3, <1>4, <1>5

(* A call goes to its next await, and what the others rest on stays.       *)
LEMMA Moved ==
    ASSUME Types, CallsInv, UNCHANGED <<trip, bg, leaving>>, NEW i \in 1..Len(calls),
           NEW at \in {"storing", "beginning", "clearing", "halting"}, Goes(i, at),
           at \in {"storing", "beginning"} => calls[i].kind = "start",
           at = "halting" => calls[i].kind # "start"
    PROVE  /\ calls' \in Seq(Calls) /\ CallsInv'
           /\ Ending => Ending'
           /\ Clearing => Clearing' \/ (calls[i].kind # "start" /\ calls[i].at = "clearing")
           /\ \A j \in 1..Len(calls') :
                Live(j)' => Live(j) /\ (calls'[j].at = "beginning" =>
                                          calls[j].at = "beginning" \/ (j = i /\ at = "beginning"))
           /\ Len(calls') = Len(calls)
<1>1. /\ calls \in Seq(Calls) /\ Len(calls) \in Nat
      /\ \A j \in 1..Len(calls) : calls[j] \in Calls
  BY DEF Types
<1>. DEFINE moved == [calls[i] EXCEPT !.at = at]
<1>2. /\ moved \in Calls /\ moved.at = at /\ moved.kind = calls[i].kind
      /\ moved.live = calls[i].live /\ moved.trip = calls[i].trip
  BY <1>1 DEF Calls
<1>3. calls' = [calls EXCEPT ![i] = moved]
  BY DEF Goes
<1>. HIDE DEF moved
<1>4. /\ calls' \in Seq(Calls) /\ Len(calls') = Len(calls) /\ calls'[i] = moved
      /\ \A j \in 1..Len(calls) : j # i => calls'[j] = calls[j]
  BY <1>1, <1>2, <1>3
<1>5. \A j \in 1..Len(calls) : /\ calls'[j].kind = calls[j].kind
                               /\ Live(j)' <=> Live(j)
                               /\ calls'[j].trip = calls[j].trip
  BY <1>2, <1>4 DEF Live
<1>6. CallsInv'
  BY <1>2, <1>4, <1>5 DEF CallsInv
<1>. QED  BY <1>2, <1>4, <1>5, <1>6 DEF Ending, Clearing

(* A call ends. *)
LEMMA Left ==
    ASSUME Types, CallsInv, trip' = trip, NEW i \in 1..Len(calls), Ends(i),
           leaving' = leaving \/ calls[i].kind = "exit", bg' = bg \/ Live(i)
    PROVE  /\ calls' \in Seq(Calls) /\ CallsInv'
           /\ Ending => Ending' \/ calls[i].kind # "start"
           /\ Clearing => Clearing' \/ (calls[i].kind # "start" /\ calls[i].at = "clearing")
           /\ \A j \in 1..Len(calls') :
                Live(j)' => /\ ~Live(i)
                            /\ \E k \in 1..Len(calls) : Live(k) /\ calls'[j].at = calls[k].at
<1>1. calls \in Seq(Calls) /\ Len(calls) \in Nat
  BY DEF Types
<1>. DEFINE was(j) == IF j < i THEN j ELSE j + 1
<1>2. calls' \in Seq(Calls) /\ Len(calls') = Len(calls) - 1
      /\ \A j \in 1..Len(calls') : calls'[j] = calls[was(j)]
  BY <1>1, Removed DEF Ends
<1>3. \A j \in 1..Len(calls') : was(j) \in 1..Len(calls) /\ was(j) # i
  BY <1>1, <1>2
<1>4. \A j, k \in 1..Len(calls') : was(j) = was(k) => j = k
  BY <1>1, <1>2
<1>5. \A k \in 1..Len(calls) : k # i => \E j \in 1..Len(calls') : calls'[j] = calls[k]
  <2>. SUFFICES ASSUME NEW k \in 1..Len(calls), k # i
                PROVE  \E j \in 1..Len(calls') : calls'[j] = calls[k]
    OBVIOUS
  <2>. DEFINE j == IF k < i THEN k ELSE k - 1
  <2>1. j \in 1..Len(calls') /\ was(j) = k
    BY <1>1, <1>2
  <2>. HIDE DEF j, was
  <2>. QED  BY <1>2, <2>1
<1>. HIDE DEF was
<1>6. \A j \in 1..Len(calls') : Live(j)' <=> Live(was(j))
  BY <1>2 DEF Live
<1>7. \A j \in 1..Len(calls') : Live(j)' => ~Live(i)
  BY <1>3, <1>6 DEF CallsInv
<1>8. \A j \in 1..Len(calls') : calls'[j].kind = "exit" => calls[i].kind # "exit"
  BY <1>2, <1>3 DEF CallsInv
<1>9. CallsInv'
  BY <1>2, <1>3, <1>4, <1>6, <1>7, <1>8 DEF CallsInv
<1>. QED  BY <1>2, <1>3, <1>5, <1>6, <1>7, <1>9 DEF Ending, Clearing

(* A call of background tracking goes on. *)
LEMMA CallStep ==
    ASSUME IInv, CallGoesOn
    PROVE  IInv'
<1>. USE DEF IInv
<1>1. PICK i \in 1..Len(calls) : Permitted(i) \/ Stores(i) \/ Begins(i) \/ Clears(i) \/ Halts(i)
  BY DEF CallGoesOn, Types
<1>2. UNCHANGED <<trip, request, owed, location, reports>>
  BY DEF CallGoesOn, company
<1>3. CallsInv /\ OverInv /\ OnInv /\ NoTrip \notin Trips
      /\ trip \in MaybeTrip /\ task \in BOOLEAN /\ astray \in BOOLEAN /\ calls \in Seq(Calls)
  BY CallShapes DEF TrackInv, Types
<1>. calls[i].kind \in {"start", "stop", "exit"}
  <2>1. calls[i] \in Calls
    BY <1>3
  <2>. QED  BY <2>1 DEF Calls
<1>4. Types' /\ TrackInv'
  <2>1. ASSUME calls' \in Seq(Calls), task' \in BOOLEAN, astray' \in BOOLEAN PROVE Types'
    BY <1>2, <2>1 DEF Types, location
  <2>2. CASE Permitted(i)
    <3>1. calls[i].at = "asking" /\ calls[i].kind = "start" /\ UNCHANGED <<task, key, astray, leaving>>
      BY <1>3, <2>2 DEF Permitted, CallsInv
    <3>2. CASE Goes(i, "storing") /\ UNCHANGED bg
      <4>1. calls' \in Seq(Calls) /\ CallsInv' /\ (Ending => Ending') /\ (Clearing => Clearing')
            /\ \A j \in 1..Len(calls') :
                 Live(j)' /\ calls'[j].at = "beginning" => Live(j) /\ calls[j].at = "beginning"
            /\ Len(calls') = Len(calls)
        BY <1>2, <1>3, <3>1, <3>2, Moved
      <4>2. OverInv' /\ OnInv'
        BY <1>2, <1>3, <3>1, <3>2, <4>1 DEF OverInv, OnInv
      <4>. QED  BY <1>3, <2>1, <3>1, <4>1, <4>2 DEF TrackInv
    <3>3. CASE Ends(i) /\ Answers(i, "unavailable")
      <4>1. bg' = bg \/ (Live(i) /\ bg' = "unavailable" /\ bg = "off")
        BY <1>3, <3>1, <3>3 DEF Answers, Live, CallsInv
      <4>2. calls' \in Seq(Calls) /\ CallsInv' /\ (Ending => Ending') /\ (Clearing => Clearing')
            /\ \A j \in 1..Len(calls') :
                Live(j)' => \E k \in 1..Len(calls) : Live(k) /\ calls'[j].at = calls[k].at
        BY <1>2, <1>3, <3>1, <3>3, <4>1, Left
      <4>3. OverInv' /\ OnInv'
        BY <1>2, <1>3, <3>1, <4>1, <4>2 DEF OverInv, OnInv
      <4>. QED  BY <1>3, <2>1, <3>1, <4>2, <4>3 DEF TrackInv
    <3>. QED  BY <2>2, <3>2, <3>3 DEF Permitted
  <2>3. CASE Stores(i)
    <3>1. calls[i].at = "storing" /\ calls[i].kind = "start" /\ UNCHANGED <<bg, task, leaving>>
      BY <1>3, <2>3 DEF Stores, CallsInv
    <3>2. CASE /\ key' = calls[i].trip /\ Goes(i, "beginning")
               /\ astray' = (astray \/ Late(i))
      <4>1. calls' \in Seq(Calls) /\ CallsInv' /\ (Ending => Ending')
            /\ \A j \in 1..Len(calls') : Live(j)' => Live(j)
        BY <1>2, <1>3, <3>1, <3>2, Moved
      <4>2. ~astray' => /\ ~astray /\ trip # NoTrip /\ key' = trip /\ bg = "off"
        BY <1>3, <3>1, <3>2 DEF Late, Live, CallsInv
      <4>3. OverInv' /\ OnInv'
        BY <1>2, <1>3, <3>1, <4>1, <4>2 DEF OverInv, OnInv
      <4>. QED  BY <1>3, <2>1, <3>1, <3>2, <4>1, <4>3 DEF TrackInv
    <3>3. CASE Goes(i, "clearing") /\ UNCHANGED <<key, astray>>
      <4>1. calls' \in Seq(Calls) /\ CallsInv' /\ (Ending => Ending') /\ (Clearing => Clearing')
            /\ \A j \in 1..Len(calls') :
                 Live(j)' /\ calls'[j].at = "beginning" => Live(j) /\ calls[j].at = "beginning"
            /\ Len(calls') = Len(calls)
        BY <1>2, <1>3, <3>1, <3>3, Moved
      <4>2. OverInv' /\ OnInv'
        BY <1>2, <1>3, <3>1, <3>3, <4>1 DEF OverInv, OnInv
      <4>. QED  BY <1>3, <2>1, <3>1, <3>3, <4>1, <4>2 DEF TrackInv
    <3>. QED  BY <2>3, <3>2, <3>3 DEF Stores
  <2>4. CASE Begins(i)
    <3>1. calls[i].at = "beginning" /\ calls[i].kind = "start" /\ UNCHANGED <<key, leaving>>
      BY <1>3, <2>4 DEF Begins, CallsInv
    <3>2. CASE task' = TRUE /\ Ends(i) /\ Answers(i, "active") /\ astray' = (astray \/ Late(i))
      <4>1. bg' = bg \/ Live(i)
        BY <3>1, <3>2 DEF Answers, Live
      <4>2. calls' \in Seq(Calls) /\ CallsInv' /\ (Ending => Ending')
            /\ \A j \in 1..Len(calls') : Live(j)' => ~Live(i)
        BY <1>2, <1>3, <3>1, <3>2, <4>1, Left
      <4>3. ~astray' => ~astray /\ Live(i) /\ trip # NoTrip /\ bg' = "active"
        BY <1>3, <3>1, <3>2 DEF Late, Live, CallsInv, Answers
      <4>4. OverInv' /\ OnInv'
        BY <1>2, <1>3, <3>1, <3>2, <4>2, <4>3 DEF OverInv, OnInv
      <4>. QED  BY <1>3, <2>1, <3>1, <3>2, <4>2, <4>4 DEF TrackInv
    <3>3. CASE Goes(i, "clearing") /\ UNCHANGED <<bg, task, astray>>
      <4>1. calls' \in Seq(Calls) /\ CallsInv' /\ (Ending => Ending') /\ (Clearing => Clearing')
            /\ \A j \in 1..Len(calls') :
                 Live(j)' /\ calls'[j].at = "beginning" => Live(j) /\ calls[j].at = "beginning"
            /\ Len(calls') = Len(calls)
        BY <1>2, <1>3, <3>1, <3>3, Moved
      <4>2. OverInv' /\ OnInv'
        BY <1>2, <1>3, <3>1, <3>3, <4>1 DEF OverInv, OnInv
      <4>. QED  BY <1>3, <2>1, <3>1, <3>3, <4>1, <4>2 DEF TrackInv
    <3>. QED  BY <2>4, <3>2, <3>3 DEF Begins
  <2>5. CASE Clears(i)
    <3>1. /\ calls[i].at = "clearing" /\ UNCHANGED <<task, leaving>>
          /\ \/ key' = NoTrip /\ astray' = (astray \/ (Late(i) /\ trip # NoTrip))
             \/ key' = key /\ astray' = (astray \/ key # NoTrip)
      BY <2>5 DEF Clears
    <3>2. key' = NoTrip \/ astray'
      BY <1>3, <3>1
    <3>3. astray => astray'
      BY <3>1
    <3>4. CASE calls[i].kind = "start"
      <4>1. Ends(i) /\ Answers(i, "unavailable")
        BY <2>5, <3>4 DEF Clears
      <4>2. bg' = bg \/ (Live(i) /\ bg' = "unavailable" /\ bg = "off")
        BY <1>3, <3>4, <4>1 DEF Answers, Live, CallsInv
      <4>3. calls' \in Seq(Calls) /\ CallsInv' /\ (Ending => Ending')
            /\ \A j \in 1..Len(calls') : Live(j)' =>
                 /\ ~Live(i)
                 /\ \E k \in 1..Len(calls) : Live(k) /\ calls'[j].at = calls[k].at
        BY <1>2, <1>3, <3>1, <3>4, <4>1, <4>2, Left
      <4>4. ~astray' /\ trip # NoTrip => key = NoTrip \/ Live(i)
        BY <1>3, <3>1, <3>4 DEF Late, Live
      <4>5. ~astray' /\ Live(i) => bg' = "unavailable"
        BY <3>4, <4>1 DEF Answers, Live
      <4>6. OverInv'
        BY <1>2, <1>3, <3>1, <3>2, <3>3, <4>3 DEF OverInv
      <4>7. OnInv'
        BY <1>2, <1>3, <3>1, <3>2, <3>3, <4>2, <4>3, <4>4, <4>5 DEF OnInv
      <4>. QED  BY <1>3, <2>1, <3>1, <4>3, <4>6, <4>7 DEF TrackInv
    <3>5. CASE calls[i].kind # "start"
      <4>1. Goes(i, "halting") /\ UNCHANGED bg
        BY <2>5, <3>5 DEF Clears
      <4>2. calls' \in Seq(Calls) /\ CallsInv' /\ (Ending => Ending')
            /\ \A j \in 1..Len(calls') :
                 Live(j)' /\ calls'[j].at = "beginning" => Live(j) /\ calls[j].at = "beginning"
            /\ Len(calls') = Len(calls)
        BY <1>2, <1>3, <3>1, <3>5, <4>1, Moved
      <4>3. calls[i].kind \in {"stop", "exit"}
        BY <3>5
      <4>4. ~astray' /\ trip # NoTrip /\ leaving = "no" => key = NoTrip
        BY <1>3, <3>1, <4>3 DEF Late, CallsInv
      <4>5. OverInv'
        BY <1>2, <1>3, <3>1, <3>2, <3>3, <4>2 DEF OverInv
      <4>6. OnInv'
        BY <1>2, <1>3, <3>1, <3>2, <3>3, <4>1, <4>2, <4>4 DEF OnInv
      <4>. QED  BY <1>3, <2>1, <3>1, <4>2, <4>5, <4>6 DEF TrackInv
    <3>. QED  BY <3>4, <3>5
  <2>6. CASE Halts(i)
    <3>1. /\ calls[i].at = "halting" /\ Ends(i) /\ UNCHANGED <<bg, key>>
          /\ \/ /\ task' = FALSE
                /\ astray' = IF trip = NoTrip THEN astray /\ key # NoTrip ELSE astray \/ Late(i)
             \/ task' = task /\ astray' = (astray \/ task)
          /\ leaving' = IF calls[i].kind = "exit" THEN "logout" ELSE leaving
      BY <2>6 DEF Halts
    <3>2. calls[i].kind \in {"stop", "exit"}
      BY <1>3, <3>1 DEF CallsInv
    <3>3. calls' \in Seq(Calls) /\ CallsInv' /\ (Clearing => Clearing')
          /\ \A j \in 1..Len(calls') : Live(j)' =>
               \E k \in 1..Len(calls) : Live(k) /\ calls'[j].at = calls[k].at
      BY <1>2, <1>3, <3>1, Left
    <3>4. ~astray' /\ trip = NoTrip => ~task' /\ (~astray \/ key = NoTrip)
      BY <1>3, <3>1
    <3>5. ~astray' /\ trip # NoTrip /\ leaving' = "no" => ~astray /\ ~task /\ ~task' /\ leaving = "no"
      BY <1>3, <3>1, <3>2 DEF Late
    <3>6. OverInv'
      BY <1>2, <1>3, <3>1, <3>3, <3>4 DEF OverInv
    <3>7. OnInv'
      BY <1>2, <1>3, <3>1, <3>3, <3>5 DEF OnInv
    <3>. QED  BY <1>3, <2>1, <3>1, <3>3, <3>6, <3>7 DEF TrackInv
  <2>. QED  BY <1>1, <2>2, <2>3, <2>4, <2>5, <2>6
<1>. QED  BY <1>2, <1>4 DEF RequestInv, SendInv, NoBusLeftRunning, ReportInv, PositionsAreOfTheTrip, location, reports

(* The screen goes away, the session ends, the application is killed. *)
LEMMA EndStep ==
    ASSUME IInv, Expires \/ SignOut \/ LoggedOut \/ Killed
    PROVE  IInv'
<1>. USE DEF IInv
<1>1. CASE Expires \/ LoggedOut
  <2>1. TripBecomes(NoTrip) /\ owed' = {} /\ request' = NoRequest /\ reports' = reports
    BY <1>1 DEF Expires, LoggedOut, Closes
  <2>2. \A i \in 1..Len(calls) : calls[i].kind = "exit" => leaving' = "stopping"
    BY <1>1 DEF Expires, LoggedOut, TrackInv, CallsInv
  <2>3. calls' \in Seq(Calls) /\ astray' \in BOOLEAN /\ TrackInv'
    BY <2>1, <2>2, Over
  <2>4. trip' = NoTrip /\ task' = task /\ SendInv'
        /\ sends' \subseteq [route : Routes, live : BOOLEAN]
    BY <2>1, Renewed DEF MaybeTrip
  <2>5. Types' /\ RequestInv'
    BY <2>1, <2>3, <2>4, RequestShapes DEF Types, RequestInv, MaybeTrip
  <2>. QED  BY <2>1, <2>3, <2>4, <2>5 DEF NoBusLeftRunning, ReportInv, PositionsAreOfTheTrip, reports
<1>2. CASE SignOut
  <2>1. /\ UNCHANGED <<request, owed, trip, location, bg, task, key, astray, reports>>
        /\ leaving = "no" /\ leaving' = "stopping" /\ calls' = Append(calls, ExitCall)
    BY <1>2 DEF SignOut, Calling, company
  <2>2. /\ calls' \in Seq(Calls) /\ Len(calls) \in Nat /\ Len(calls') = Len(calls) + 1
        /\ calls'[Len(calls) + 1] = ExitCall
        /\ \A j \in 1..Len(calls) : calls'[j] = calls[j]
        /\ \A j \in 1..Len(calls') : j = Len(calls) + 1 \/ j \in 1..Len(calls)
        /\ Len(calls) + 1 \in 1..Len(calls')
    BY <2>1, CallShapes DEF Types
  <2>3. \A j \in 1..Len(calls) : calls[j].kind # "exit"
    BY <2>1 DEF TrackInv, CallsInv
  <2>4. CallsInv'
    BY <2>1, <2>2, <2>3, CallShapes DEF TrackInv, CallsInv, Live
  <2>5. Ending' /\ Clearing'
    BY <2>2, CallShapes DEF Ending, Clearing
  <2>6. Types' /\ TrackInv'
    BY <2>1, <2>2, <2>4, <2>5 DEF Types, TrackInv, OverInv, OnInv, location
  <2>. QED  BY <2>1, <2>6 DEF RequestInv, SendInv, NoBusLeftRunning, ReportInv, PositionsAreOfTheTrip, location, reports
<1>3. CASE Killed
  <2>1. /\ request' = NoRequest /\ owed' = {} /\ trip' = NoTrip /\ gps' = "idle"
        /\ sends' = {} /\ calls' = <<>> /\ task' \in {task, FALSE} /\ key' = key
        /\ astray' = (astray \/ task' \/ key # NoTrip) /\ firings' = {} /\ got' = got
    BY <1>3 DEF Killed, Closes
  <2>2. Types'
    <3>1. calls' \in Seq(Calls)
      BY <2>1
    <3>2. task' \in BOOLEAN /\ astray' \in BOOLEAN
      BY <2>1 DEF Types
    <3>. QED  BY <2>1, <3>1, <3>2, RequestShapes DEF Types, MaybeTrip
  <2>3. TrackInv'
    <3>1. ~astray' => ~task' /\ key' = NoTrip
      BY <2>1
    <3>. QED  BY <2>1, <3>1 DEF TrackInv, CallsInv, OverInv, OnInv
  <2>. QED  BY <2>1, <2>2, <2>3, RequestShapes
            DEF RequestInv, SendInv, NoBusLeftRunning, ReportInv, PositionsAreOfTheTrip
<1>. QED  BY <1>1, <1>2, <1>3

LEMMA Inductive == Spec => []IInv
<1>1. Init => IInv
  <2>. SUFFICES ASSUME Init PROVE IInv
    OBVIOUS
  <2>1. Types
    <3>1. calls \in Seq(Calls)
      BY DEF Init
    <3>. QED  BY <3>1, RequestShapes DEF Init, Types, MaybeTrip
  <2>2. TrackInv
    BY DEF Init, TrackInv, CallsInv, OverInv, OnInv
  <2>. QED  BY <2>1, <2>2, RequestShapes
            DEF Init, IInv, RequestInv, SendInv, NoBusLeftRunning, ReportInv, PositionsAreOfTheTrip, Woken
<1>2. IInv /\ [Next]_vars => IInv'
  BY TripStep, PositionStep, CallStep, EndStep DEF Next
<1>. QED  BY <1>1, <1>2, PTL DEF Spec
-----------------------------------------------------------------------------
(* With no call under way, the system tracks the phone exactly while the   *)
(* screen says so, and for the trip it shows, after any history of trips,  *)
(* sessions and failures in which no call took effect late and no failure  *)
(* to stop was swallowed, or a stop has cleaned up since: a trip that ends *)
(* while its start is under way included (useBackgroundTracking.ts,        *)
(* backgroundTracking.ts).                                                 *)
THEOREM TaskGoesWithTrip == Spec => []TrackingFollowsTheTrip
<1>1. IInv => TrackingFollowsTheTrip
  BY DEF IInv, Types, TrackInv, CallsInv, OverInv, OnInv, Ending, Clearing, Steady, TrackingFollowsTheTrip
<1>. QED  BY <1>1, Inductive, PTL

(* A position the server gets is of the trip of the moment it was made:    *)
(* when it is sent over the WebSocket, and when handleLocations reads the  *)
(* trip over HTTP, if no call was under way or astray then. It may arrive  *)
(* after that trip (useDriverLocation.ts, backgroundTracking.ts).          *)
THEOREM ReportsAreOfTheTrip == Spec => []PositionsAreOfTheTrip
<1>1. IInv => PositionsAreOfTheTrip
  BY DEF IInv
<1>. QED  BY <1>1, Inductive, PTL

(* A bus put in service by a start that was answered is the one of the     *)
(* trip on the screen, until an end of it is served, the company changes   *)
(* the bus or the screen is left: the driver can end it (useDriverTrip.ts).*)
THEOREM EveryTripCanBeEnded == Spec => []NoBusLeftRunning
<1>1. IInv => NoBusLeftRunning
  BY DEF IInv
<1>. QED  BY <1>1, Inductive, PTL
=============================================================================
