---------------------------- MODULE LiveSockets ----------------------------
(***************************************************************************)
(* The passenger side of the hub: the three WebSocket clients of the       *)
(* repository and the map hooks that own two of them.                      *)
(*                                                                         *)
(*   "phone"   RealtimeClient.ts, one object per mounted map (hook         *)
(*             useRealtimeBuses.ts);                                       *)
(*   "web"     socketClient.ts, module state shared by every mount (hook   *)
(*             useSocketBuses.ts, whose status is polled);                 *)
(*   "native"  mobileWebSocketClient.ts, driven by connect, disconnect and *)
(*             the network state.                                          *)
(*                                                                         *)
(* A behaviour picks one of them and keeps it.  The browser is external: a *)
(* socket it created may open, fail or close at any time, and close() ends *)
(* with a close event that comes later, in any order with the events of    *)
(* other sockets.  Until then a browser drops what still arrives, and React *)
(* Native, where the phone and the native client run, still hands it over. *)
(* The hub is seen as the set of routes each connection is *)
(* subscribed to; Hub.tla models what happens inside it.                   *)
(***************************************************************************)
EXTENDS Integers, FiniteSets, Sequences

CONSTANTS Clients,    \* the clients a behaviour may be about
          Sockets,    \* slots for the sockets the browser holds
          Timers,     \* slots for pending setTimeout calls
          Routes,     \* routes of the database and the three fixed lines
          Default,    \* the fixed lines every map follows
          BusRoute,   \* the route of the one bus that publishes
          None,
          MaxPos,     \* bound: positions published
          MaxDown,    \* bound: positions in flight on a connection
          MaxMounts   \* bound: times the map is opened, or the network is lost (native)

ASSUME LiveSocketsAssumption ==
    /\ Clients \subseteq {"phone", "web", "native"}
    /\ Default \subseteq Routes /\ BusRoute \in Routes
    /\ None \notin Sockets \union Timers
    /\ {MaxPos, MaxDown, MaxMounts} \subseteq Nat

VARIABLES
    client,     \* which client this behaviour is about
    ready,      \* readyState of every socket, "none" for a free slot
    hub,        \* routes the server has each connection subscribed to
    down,       \* positions on their way to the browser, per connection
    c,          \* the fields of the client and the status its owner shows;
                \* online (what setOnline was told) is of the native one only
    mounted,    \* the map is on screen
    mounts,     \* times it has been, or times the native client lost the network
    wanted,     \* routeIds of the hook
    bus,        \* the bus as the map's list holds it; pos 0: not in it
    published   \* number of the last position published

vars == <<client, ready, hub, down, c, mounted, mounts, wanted, bus, published>>

Statuses == {"idle", "disconnected", "connecting", "connected", "reconnecting", "offline"}
Unknown  == [pos |-> 0, people |-> 0]
Position == [pos : 1..MaxPos, full : BOOLEAN]

Fresh == [cur |-> None, subs |-> {}, timers |-> {}, handle |-> None,
          intentional |-> FALSE, retried |-> FALSE, online |-> TRUE, status |-> "disconnected"]

(***************************************************************************)
(* The browser's socket.                                                   *)
(***************************************************************************)
Alive(s)  == ready[s] \in {"connecting", "open"}
IsOpen(k) == k.cur # None /\ ready[k.cur] = "open"

\* The slots are interchangeable: a new socket takes any free one.
NewSocket == LET free == {s \in Sockets : ready[s] = "none"}
             IN  IF free = {} THEN {} ELSE {CHOOSE s \in free : TRUE}

\* close() of the socket the client holds: the close event is still to come.
Hung(k) == [s \in Sockets |-> IF s = k.cur /\ Alive(s) THEN "closing" ELSE ready[s]]

\* send(): silently nothing unless the socket the client holds is open.
Sent(k, added, removed) ==
    IF IsOpen(k) THEN [hub EXCEPT ![k.cur] = (@ \union added) \ removed] ELSE hub

(***************************************************************************)
(* scheduleReconnect() of the three.  The web one overwrites the handle of *)
(* a timer that is still pending; the native one keeps the pending timer.  *)
(***************************************************************************)
WithTimer(k) ==
    LET t == CHOOSE x \in Timers : x \notin k.timers
    IN  [k EXCEPT !.timers = @ \union {t}, !.handle = t]

PhoneSchedules(k) ==
    IF k.intentional THEN k ELSE WithTimer([k EXCEPT !.status = "disconnected"])

WebSchedules(k) == IF k.intentional THEN k ELSE WithTimer(k)

NativeSchedules(k) ==
    IF k.intentional \/ ~k.online \/ k.timers # {} THEN k
    ELSE WithTimer([k EXCEPT !.retried = TRUE, !.status = "reconnecting"])

Schedules(k) ==
    CASE client = "phone"  -> PhoneSchedules(k)
      [] client = "web"    -> WebSchedules(k)
      [] client = "native" -> NativeSchedules(k)

(***************************************************************************)
(* connect(): what each client does with the socket s the constructor gave *)
(* it (None: the constructor threw), once its early return did not apply.  *)
(***************************************************************************)
PhoneDials(k) == k.cur = None
WebDials(k)   == k.cur = None \/ ~Alive(k.cur)
\* Mutant: connect() dials again after a disconnect().
NativeDials_AfterGoodbye(k) == k.online /\ WebDials(k)

NativeDials(k) == k.online /\ ~k.intentional /\ WebDials(k)

Dials(k) ==
    CASE client = "phone"  -> PhoneDials(k)
      [] client = "web"    -> WebDials(k)
      [] client = "native" -> NativeDials(k)

PhoneConnects(k, s) ==
    LET a == [k EXCEPT !.intentional = FALSE, !.timers = {}, !.handle = None, !.status = "connecting"]
    IN  IF s = None THEN PhoneSchedules(a) ELSE [a EXCEPT !.cur = s]

WebConnects(k, s) ==
    LET a == [k EXCEPT !.intentional = FALSE]
    IN  IF s = None THEN WebSchedules(a) ELSE [a EXCEPT !.cur = s]

NativeConnects(k, s) ==
    LET a == [k EXCEPT !.status = IF k.retried THEN "reconnecting" ELSE "connecting"]
    IN  IF s = None THEN NativeSchedules(a) ELSE [a EXCEPT !.cur = s]

Connects(k, s) ==
    CASE client = "phone"  -> PhoneConnects(k, s)
      [] client = "web"    -> WebConnects(k, s)
      [] client = "native" -> NativeConnects(k, s)

\* A call of connect() by a client whose fields are k.
Connect(k) ==
    IF Dials(k)
    THEN \E s \in NewSocket \union {None} :
            /\ s = None => k.timers # Timers
            /\ c' = Connects(k, s)
            /\ ready' = IF s = None THEN ready ELSE [ready EXCEPT ![s] = "connecting"]
    ELSE c' = k /\ UNCHANGED ready

(***************************************************************************)
(* disconnect(): the fields it leaves.  The web one clears the last timer  *)
(* only, and its module goes on living after the page is gone.             *)
(***************************************************************************)
\* Mutant: the hook forgets to say it is disconnected when it is torn down.
PhoneDisconnects_SaysNothing(k) ==
    [Fresh EXCEPT !.intentional = TRUE, !.status = k.status]

PhoneDisconnects(k) ==
    [Fresh EXCEPT !.intentional = TRUE]

WebDisconnects(k) ==
    [k EXCEPT !.intentional = TRUE, !.timers = @ \ {k.handle}, !.handle = None, !.subs = {}, !.cur = None]

NativeDisconnects(k) ==
    [k EXCEPT !.intentional = TRUE, !.timers = {}, !.handle = None, !.cur = None,
              !.retried = FALSE, !.status = "idle"]

(***************************************************************************)
(* Events of a socket.                                                     *)
(***************************************************************************)

\* onopen: the clients send every subscription they hold, through the socket
\* they hold, which need not be the one that opened (web).
PhoneOpened(k) == [k EXCEPT !.status = "connected"]
WebOpened(k)   == k
NativeOpened(k) == [k EXCEPT !.retried = FALSE, !.status = "connected"]

Opened(k) ==
    CASE client = "phone"  -> PhoneOpened(k)
      [] client = "web"    -> WebOpened(k)
      [] client = "native" -> NativeOpened(k)

\* Mutant: a new connection starts with no subscriptions.
Resent_None(k) == {}

\* The routes onopen subscribes to.
Resent(k) == k.subs

Opens(s) ==
    /\ ready[s] = "connecting"
    /\ ready' = [ready EXCEPT ![s] = "open"]
    /\ c' = Opened(c)
    /\ hub' = IF c.cur # None /\ ready'[c.cur] = "open"
              THEN [hub EXCEPT ![c.cur] = @ \union Resent(c)]
              ELSE hub
    /\ UNCHANGED <<client, down, mounted, mounts, wanted, bus, published>>

\* Mutant: the closed socket is not forgotten, so connect() finds it there.
PhoneClosed_KeepsSocket(k, s) ==
    IF k.cur # s THEN k ELSE PhoneSchedules([k EXCEPT !.status = "disconnected"])

\* onclose of the socket s.  Only the phone asks whether s is the socket it
\* holds before anything else; the native client asks before forgetting it.
PhoneClosed(k, s) ==
    IF k.cur # s THEN k ELSE PhoneSchedules([k EXCEPT !.cur = None, !.status = "disconnected"])

WebClosed(k, s) == WebSchedules([k EXCEPT !.cur = None])

NativeClosed(k, s) ==
    LET a == IF k.cur = s THEN [k EXCEPT !.cur = None] ELSE k
    IN  CASE ~a.intentional /\ a.online -> NativeSchedules(a)
          [] ~a.online                  -> [a EXCEPT !.status = "offline"]
          [] OTHER                    -> [a EXCEPT !.status = "idle"]

Closed(k, s) ==
    CASE client = "phone"  -> PhoneClosed(k, s)
      [] client = "web"    -> WebClosed(k, s)
      [] client = "native" -> NativeClosed(k, s)

\* The browser reports that s is closed: its own close() done, or the server
\* or the network gone.  What was in flight is lost, the server forgets it.
Gone(s, sockets) ==
    /\ c.timers # Timers
    /\ c' = Closed(c, s)
    /\ ready' = [sockets EXCEPT ![s] = "none"]
    /\ hub' = [hub EXCEPT ![s] = {}]
    /\ down' = [down EXCEPT ![s] = <<>>]
    /\ UNCHANGED <<client, mounted, mounts, wanted, bus, published>>

Closes(s) == ready[s] # "none" /\ Gone(s, ready)

\* An error event comes before the close event.  The phone and the native
\* client close the socket that failed; the web client closes the one it holds.
Fails(s) ==
    /\ client = "web" /\ Alive(s) /\ c.cur # s
    /\ Gone(s, Hung(c))

\* The timer fires and connect() runs again.
Fires(t) ==
    /\ t \in c.timers
    /\ Connect([c EXCEPT !.timers = @ \ {t}, !.handle = IF @ = t THEN None ELSE @])
    /\ UNCHANGED <<client, hub, down, mounted, mounts, wanted, bus, published>>

(***************************************************************************)
(* The map: useRealtimeBuses (phone) and useSocketBuses (web).             *)
(***************************************************************************)

\* The subscriptions effect: subscribe to what is new, unsubscribe from what
\* is gone.  Both are saved for the next connection and sent if there is one.
Follows(k, routes) == [k EXCEPT !.subs = routes]

Mount ==
    /\ ~mounted /\ mounts < MaxMounts
    /\ client \in {"phone", "web"}
    /\ mounted' = TRUE
    /\ mounts' = mounts + 1
    /\ wanted' = Default
    /\ bus' = Unknown
    /\ Connect(IF client = "phone" THEN Follows(Fresh, Default)
               ELSE [Follows(c, c.subs \union Default) EXCEPT !.status = "connecting"])
    /\ hub' = Sent(c, Default, {})
    /\ UNCHANGED <<client, down, published>>

Unmount ==
    /\ mounted
    /\ mounted' = FALSE
    /\ c' = IF client = "phone" THEN PhoneDisconnects(c)
            ELSE [WebDisconnects(c) EXCEPT !.status = "disconnected"]
    /\ ready' = Hung(c)
    /\ UNCHANGED <<client, hub, down, mounts, wanted, bus, published>>

\* The routes the phone follows change on the same connection: the ones of
\* the database arrive after the three fixed lines (useRealRoutes).
RoutesChange ==
    /\ mounted /\ client = "phone"
    /\ \E routes \in {Default, Routes} \ {wanted} :
          /\ wanted' = routes
          /\ c' = Follows(c, (c.subs \union routes) \ (wanted \ routes))
          /\ hub' = Sent(c, routes \ wanted, wanted \ routes)
    /\ UNCHANGED <<client, ready, down, mounted, mounts, bus, published>>

\* Every half second the web hook copies isConnected() into its status.
Poll ==
    /\ mounted /\ client = "web"
    /\ c' = [c EXCEPT !.status = IF IsOpen(c) THEN "connected" ELSE "disconnected"]
    /\ UNCHANGED <<client, ready, hub, down, mounted, mounts, wanted, bus, published>>

\* applyBusUpdate: the position is replaced, what the message leaves out stays.
Applied(b, msg) ==
    [pos |-> msg.pos, people |-> IF msg.full THEN msg.pos ELSE b.people]

\* What the map draws: the buses of the socket while the status says it is
\* connected, the simulated ones otherwise (useMapBuses, PassengerMapPage).
Source == IF c.status = "connected" THEN "realtime" ELSE "simulated"

\* Somebody handles the messages of socket s.  The map of the phone listens to
\* its own client and takes its handler away before it hangs up; the handlers of
\* the web are of the module, whatever the socket; the native client, of which
\* the application is taken to listen all the time, never asks whether s is the
\* socket it holds.
Heard(s) ==
    CASE client = "phone"  -> s = c.cur
      [] client = "web"    -> mounted
      [] client = "native" -> TRUE

\* onmessage: also of a socket that is closing, in React Native.
Delivers(s) == ready[s] = "open" \/ (client # "web" /\ ready[s] = "closing")

Deliver(s) ==
    /\ Delivers(s) /\ down[s] # <<>>
    /\ bus' = IF Heard(s) THEN Applied(bus, Head(down[s])) ELSE bus
    /\ down' = [down EXCEPT ![s] = Tail(@)]
    /\ UNCHANGED <<client, ready, hub, c, mounted, mounts, wanted, published>>

\* The bus publishes and the hub sends it to every connection subscribed, the
\* ones the other end is closing included.
Publish(full) ==
    /\ published < MaxPos
    /\ published' = published + 1
    /\ LET to == {s \in Sockets : BusRoute \in hub[s]}
       IN  /\ \A s \in to : Len(down[s]) < MaxDown
           /\ down' = [s \in Sockets |->
                 IF s \in to THEN Append(down[s], [pos |-> published', full |-> full]) ELSE down[s]]
    /\ UNCHANGED <<client, ready, hub, c, mounted, mounts, wanted, bus>>

(***************************************************************************)
(* Calls the native client takes from its application.                     *)
(***************************************************************************)
NativeConnect ==
    /\ client = "native" /\ Connect(c)
    /\ UNCHANGED <<client, hub, down, mounted, mounts, wanted, bus, published>>

NativeDisconnect ==
    /\ client = "native"
    /\ c' = NativeDisconnects(c)
    /\ ready' = Hung(c)
    /\ UNCHANGED <<client, hub, down, mounted, mounts, wanted, bus, published>>

\* setOnline(false) hangs up.
GoesOffline ==
    /\ client = "native" /\ c.online /\ mounts < MaxMounts
    /\ mounts' = mounts + 1
    /\ c' = [c EXCEPT !.online = FALSE, !.timers = {}, !.handle = None, !.cur = None, !.status = "offline"]
    /\ ready' = Hung(c)
    /\ UNCHANGED <<client, hub, down, mounted, wanted, bus, published>>

\* setOnline(true) dials, only from the status "offline".
BackOnline ==
    /\ client = "native" /\ ~c.online
    /\ IF c.status = "offline"
       THEN Connect([c EXCEPT !.online = TRUE, !.retried = FALSE])
       ELSE c' = [c EXCEPT !.online = TRUE] /\ UNCHANGED ready
    /\ UNCHANGED <<client, hub, down, mounted, mounts, wanted, bus, published>>

NativeSubscribe(r) ==
    /\ client = "native"
    /\ c' = Follows(c, c.subs \union {r})
    /\ hub' = Sent(c, {r}, {})
    /\ UNCHANGED <<client, ready, down, mounted, mounts, wanted, bus, published>>

NativeUnsubscribe(r) ==
    /\ client = "native" /\ r \in c.subs
    /\ c' = Follows(c, c.subs \ {r})
    /\ hub' = Sent(c, {}, {r})
    /\ UNCHANGED <<client, ready, down, mounted, mounts, wanted, bus, published>>

(***************************************************************************)
(* The specification.                                                      *)
(***************************************************************************)
Init ==
    /\ client \in Clients
    /\ ready = [s \in Sockets |-> "none"]
    /\ hub = [s \in Sockets |-> {}]
    /\ down = [s \in Sockets |-> <<>>]
    /\ c = [Fresh EXCEPT !.status = IF client = "native" THEN "idle" ELSE "disconnected"]
    /\ mounted = FALSE
    /\ mounts = 0
    /\ wanted = Default
    /\ bus = Unknown
    /\ published = 0

Next ==
    \/ \E s \in Sockets : Opens(s) \/ Closes(s) \/ Fails(s) \/ Deliver(s)
    \/ \E t \in Timers : Fires(t)
    \/ Mount \/ Unmount \/ RoutesChange \/ Poll
    \/ \E full \in BOOLEAN : Publish(full)
    \/ NativeConnect \/ NativeDisconnect \/ GoesOffline \/ BackOnline
    \/ \E r \in Routes : NativeSubscribe(r) \/ NativeUnsubscribe(r)

\* Timers fire and close() ends.  A server that keeps being asked is reached
\* in the end: the constructor does not throw, and the socket opens, for ever.
Fairness ==
    /\ \A t \in Timers : WF_vars(Fires(t)) /\ SF_vars(Fires(t) /\ c'.cur # c.cur)
    /\ \A s \in Sockets : WF_vars(ready[s] = "closing" /\ Closes(s))
    /\ \A s \in Sockets : SF_vars(s = c.cur /\ Opens(s))
    /\ SF_vars(Poll /\ c'.status = "connected")

Spec == Init /\ [][Next]_vars /\ Fairness

-----------------------------------------------------------------------------
\* The types of the state; the phone and the native client never have two
\* reconnections pending (RealtimeClient.ts:164, mobileWebSocketClient.ts:207).
Fields == [cur : Sockets \union {None}, subs : SUBSET Routes, timers : SUBSET Timers,
           handle : Timers \union {None}, intentional : BOOLEAN, retried : BOOLEAN,
           online : BOOLEAN, status : Statuses]

TypeOK ==
    /\ client \in Clients
    /\ ready \in [Sockets -> {"none", "connecting", "open", "closing"}]
    /\ hub \in [Sockets -> SUBSET Routes]
    /\ down \in [Sockets -> Seq(Position)]
    /\ \A s \in Sockets : Len(down[s]) <= MaxDown
    /\ c \in Fields
    /\ mounted \in BOOLEAN /\ mounts \in 0..MaxMounts
    /\ wanted \in SUBSET Routes
    /\ bus \in [pos : 0..MaxPos, people : 0..MaxPos]
    /\ published \in 0..MaxPos
    /\ client # "web" => \A t, u \in c.timers : t = u

\* Whenever the client's socket is open the server has exactly the routes the
\* client means to follow, however many times the connection was lost, the
\* page left or the routes changed meanwhile (RealtimeClient.ts:75-79,
\* socketClient.ts:144-152, mobileWebSocketClient.ts:93-97).
FollowedWhenOpen ==
    /\ IsOpen(c) => hub[c.cur] = c.subs
    /\ mounted => c.subs = wanted

\* On the phone the real positions are drawn exactly while its socket is open,
\* so they and the simulated ones are never taken for each other
\* (useMapBuses.ts:38-47, RealtimeClient.ts:75-98).
PhoneStatusIsTrue ==
    client = "phone" => ((Source = "realtime") <=> IsOpen(c))

\* No socket but the one the client holds is alive, so no bus is heard twice;
\* the phone has none, and no timer, once the map is left
\* (RealtimeClient.ts:103-112, mobileWebSocketClient.ts:126-150).
OneSocket ==
    client # "web" =>
        /\ \A s \in Sockets : Alive(s) => s = c.cur
        /\ client = "phone" /\ ~mounted => c.cur = None /\ c.timers = {}

\* What these three rest on.  A connection that has not opened is subscribed to
\* nothing; outside the map nothing is followed on the web and the phone holds no
\* socket; the phone sets a timer only when it has none, and what it shows goes
\* with its socket.
SocketInv ==
    /\ \A s \in Sockets : ready[s] \in {"none", "connecting"} => hub[s] = {}
    /\ mounted => client \in {"phone", "web"}
    /\ client = "web" /\ ~mounted => c.subs = {}
    /\ client = "phone" => /\ c.cur # None => Alive(c.cur) /\ c.timers = {}
                           /\ mounted => ~c.intentional

\* Until the network is first lost the native client has one socket in all: it
\* hangs up by disconnect() only, and never dials again (line 72).
NativeInv ==
    client = "native" /\ mounts = 0 =>
        \A s \in Sockets : ready[s] = "closing" =>
            /\ c.intentional
            /\ \A t \in Sockets : ready[t] # "none" => t = s

\* The clients whose bus hears one socket at a time.
OneVoice == client = "phone" \/ (client = "native" /\ mounts = 0)

\* What is on its way comes in the order it was published, and after what the
\* screen has.
OrderInv ==
    /\ NativeInv
    /\ \A s \in Sockets : ready[s] \in {"none", "connecting"} => down[s] = <<>>
    /\ OneVoice =>
          /\ bus.pos <= published
          /\ \A s \in Sockets : Delivers(s) /\ Heard(s) =>
                /\ \A i \in DOMAIN down[s] : down[s][i].pos \in bus.pos..published
                /\ \A i, j \in DOMAIN down[s] : i < j => down[s][i].pos <= down[s][j].pos

\* On the map of the phone a bus never goes back to an older position, across
\* lost connections, reconnections, pages left and sockets that still deliver
\* while they close (liveBuses.ts:80-102, useRealtimeBuses.ts:75-80).  Of the
\* native client it says so until the application first reports the network
\* lost: a socket closed by setOnline(false) may then speak next to the one
\* setOnline(true) opens (mobileWebSocketClient.ts:99-101, 140), and the bus goes
\* back to what the old one says.
NeverBack == [][OneVoice /\ mounted' = mounted => bus'.pos >= bus.pos]_vars

\* While the map is on screen (or the native client is told to be online) the
\* connection comes back whatever happens to it (RealtimeClient.ts:164-173,
\* socketClient.ts:261-275, mobileWebSocketClient.ts:207-225).
Resting == IF client = "native" THEN c.intentional \/ ~c.online \/ IsOpen(c) \/ c.status = "idle"
           ELSE ~mounted \/ c.status = "connected"

Reconnects == []<>Resting

\* What socketClient.ts:190 says of disconnectWS, "Desconecta el WebSocket
\* intencionalmente (sin reconexión)": afterwards nothing is left running.
DisconnectedIsOff ==
    client = "web" /\ ~mounted => c.timers = {} /\ \A s \in Sockets : ~Alive(s)
=============================================================================
