---------------------------- MODULE ClientProofs ----------------------------
(***************************************************************************)
(* Theorems about the clients, for any constants.                          *)
(*                                                                         *)
(* LiveSockets: whatever connections are lost, dialled again or closed     *)
(* late, the server follows what the map follows, the phone's status is    *)
(* that of its one socket, and no bus of its map goes back.                *)
(*                                                                         *)
(* WebPages: a list at rest that nothing disturbed is what the server has, *)
(* what the company filters by is what it sees, and the answer to a change *)
(* of a route closes no dialog but its own.                                *)
(***************************************************************************)
EXTENDS LiveSockets, WebPages, SequenceTheorems, FiniteSetTheorems, TLAPS

-----------------------------------------------------------------------------
(* The sockets *)

LEMMA Kinds == ASSUME TypeOK PROVE client \in {"phone", "web", "native"}
BY LiveSocketsAssumption DEF TypeOK

\* A timer that was not pending.
LEMMA TimerFields ==
  ASSUME NEW k \in Fields, k.timers # Timers
  PROVE  /\ WithTimer(k) \in Fields
         /\ WithTimer(k).cur = k.cur /\ WithTimer(k).subs = k.subs
         /\ WithTimer(k).intentional = k.intentional /\ WithTimer(k).status = k.status
         /\ k.timers = {} => \A t, u \in WithTimer(k).timers : t = u
<1>. DEFINE new == CHOOSE x \in Timers : x \notin k.timers
            a   == [k EXCEPT !.timers = @ \union {new}]
<1>1. \E x \in Timers : x \notin k.timers
  BY DEF Fields
<1>2. new \in Timers /\ new \notin k.timers
  BY <1>1
<1>3. WithTimer(k) = [a EXCEPT !.handle = new]
  BY DEF WithTimer
<1>. HIDE DEF new
<1>4. /\ a \in Fields /\ a.cur = k.cur /\ a.subs = k.subs
      /\ a.intentional = k.intentional /\ a.status = k.status
      /\ a.timers = k.timers \union {new}
  BY <1>2 DEF Fields
<1>. HIDE DEF a
<1>5. /\ WithTimer(k) \in Fields /\ WithTimer(k).cur = a.cur /\ WithTimer(k).subs = a.subs
      /\ WithTimer(k).intentional = a.intentional /\ WithTimer(k).status = a.status
      /\ WithTimer(k).timers = a.timers
  BY <1>2, <1>3, <1>4 DEF Fields
<1>. QED  BY <1>4, <1>5

\* scheduleReconnect(): what it leaves alone.
LEMMA SchedulesFields ==
  ASSUME client \in {"phone", "web", "native"}, NEW k \in Fields, k.timers # Timers
  PROVE  /\ Schedules(k) \in Fields
         /\ Schedules(k).cur = k.cur /\ Schedules(k).subs = k.subs
         /\ Schedules(k).intentional = k.intentional
         /\ client = "phone" /\ k.timers = {}
              => \A t, u \in Schedules(k).timers : t = u
         /\ client = "native" /\ (\A t, u \in k.timers : t = u)
              => \A t, u \in Schedules(k).timers : t = u
         /\ client = "phone" /\ ~k.intentional => Schedules(k).status = "disconnected"
         /\ client = "phone" /\ k.intentional => Schedules(k) = k
<1>1. CASE client = "phone"
  <2>1. Schedules(k) = PhoneSchedules(k)
    BY <1>1 DEF Schedules
  <2>2. CASE k.intentional
    <3>1. Schedules(k) = k
      BY <2>1, <2>2 DEF PhoneSchedules
    <3>. QED  BY <1>1, <2>2, <3>1
  <2>3. CASE ~k.intentional
    <3>. DEFINE a == [k EXCEPT !.status = "disconnected"]
    <3>1. /\ a \in Fields /\ a.timers = k.timers /\ a.cur = k.cur /\ a.subs = k.subs
          /\ a.intentional = k.intentional /\ a.status = "disconnected"
      BY DEF Fields, Statuses
    <3>2. Schedules(k) = WithTimer(a)
      BY <2>1, <2>3 DEF PhoneSchedules
    <3>. HIDE DEF a
    <3>. QED  BY <1>1, <2>3, <3>1, <3>2, TimerFields
  <2>. QED  BY <2>2, <2>3
<1>2. CASE client = "web"
  BY <1>2, TimerFields DEF Schedules, WebSchedules
<1>3. CASE client = "native"
  <2>1. Schedules(k) = NativeSchedules(k)
    BY <1>3 DEF Schedules
  <2>2. CASE k.intentional \/ ~k.online \/ k.timers # {}
    <3>1. Schedules(k) = k
      BY <2>1, <2>2 DEF NativeSchedules
    <3>. QED  BY <1>3, <3>1
  <2>3. CASE ~(k.intentional \/ ~k.online \/ k.timers # {})
    <3>. DEFINE a == [k EXCEPT !.retried = TRUE, !.status = "reconnecting"]
    <3>1. /\ a \in Fields /\ a.timers = k.timers /\ a.cur = k.cur /\ a.subs = k.subs
          /\ a.intentional = k.intentional /\ a.timers = {}
      BY <2>3 DEF Fields, Statuses
    <3>2. Schedules(k) = WithTimer(a)
      BY <2>1, <2>3 DEF NativeSchedules
    <3>. HIDE DEF a
    <3>. QED  BY <1>3, <2>3, <3>1, <3>2, TimerFields
  <2>. QED  BY <2>2, <2>3
<1>. QED  BY <1>1, <1>2, <1>3

\* What connect() makes of the fields.
LEMMA ConnectsFields ==
  ASSUME client \in {"phone", "web", "native"}, NEW k \in Fields,
         NEW s \in Sockets \union {None}, s = None => k.timers # Timers
  PROVE  /\ Connects(k, s) \in Fields
         /\ Connects(k, s).cur = (IF s = None THEN k.cur ELSE s)
         /\ Connects(k, s).subs = k.subs
         /\ client # "web" /\ (\A t, u \in k.timers : t = u)
              => \A t, u \in Connects(k, s).timers : t = u
         /\ client = "phone" => /\ ~Connects(k, s).intentional
                                /\ Connects(k, s).status # "connected"
                                /\ s # None => Connects(k, s).timers = {}
<1>1. CASE client = "phone"
  <2>. DEFINE a == [k EXCEPT !.intentional = FALSE, !.timers = {}, !.handle = None,
                             !.status = "connecting"]
  <2>1. /\ a \in Fields /\ a.cur = k.cur /\ a.subs = k.subs /\ ~a.intentional
        /\ a.timers = {} /\ a.status = "connecting"
    BY DEF Fields, Statuses
  <2>2. Connects(k, s) = IF s = None THEN PhoneSchedules(a) ELSE [a EXCEPT !.cur = s]
    BY <1>1 DEF Connects, PhoneConnects
  <2>3. CASE s = None
    <3>1. a.timers # Timers
      BY <2>1, <2>3 DEF Fields
    <3>2. Connects(k, s) = Schedules(a)
      BY <1>1, <2>2, <2>3 DEF Schedules
    <3>. HIDE DEF a
    <3>. QED  BY <1>1, <2>1, <2>3, <3>1, <3>2, SchedulesFields
  <2>4. CASE s # None
    <3>. HIDE DEF a
    <3>. QED  BY <1>1, <2>1, <2>2, <2>4 DEF Fields
  <2>. QED  BY <2>3, <2>4
<1>2. CASE client = "web"
  <2>. DEFINE a == [k EXCEPT !.intentional = FALSE]
  <2>1. /\ a \in Fields /\ a.cur = k.cur /\ a.subs = k.subs /\ a.timers = k.timers
    BY DEF Fields
  <2>2. Connects(k, s) = IF s = None THEN WebSchedules(a) ELSE [a EXCEPT !.cur = s]
    BY <1>2 DEF Connects, WebConnects
  <2>3. CASE s = None
    <3>1. Connects(k, s) = Schedules(a)
      BY <1>2, <2>2, <2>3 DEF Schedules
    <3>. HIDE DEF a
    <3>. QED  BY <1>2, <2>1, <2>3, <3>1, SchedulesFields
  <2>4. CASE s # None
    <3>. HIDE DEF a
    <3>. QED  BY <1>2, <2>1, <2>2, <2>4 DEF Fields
  <2>. QED  BY <2>3, <2>4
<1>3. CASE client = "native"
  <2>. DEFINE a == [k EXCEPT !.status = IF k.retried THEN "reconnecting" ELSE "connecting"]
  <2>1. /\ a \in Fields /\ a.cur = k.cur /\ a.subs = k.subs /\ a.timers = k.timers
    BY DEF Fields, Statuses
  <2>2. Connects(k, s) = IF s = None THEN NativeSchedules(a) ELSE [a EXCEPT !.cur = s]
    BY <1>3 DEF Connects, NativeConnects
  <2>3. CASE s = None
    <3>1. Connects(k, s) = Schedules(a)
      BY <1>3, <2>2, <2>3 DEF Schedules
    <3>. HIDE DEF a
    <3>. QED  BY <1>3, <2>1, <2>3, <3>1, SchedulesFields
  <2>4. CASE s # None
    <3>. HIDE DEF a
    <3>. QED  BY <1>3, <2>1, <2>2, <2>4 DEF Fields
  <2>. QED  BY <2>3, <2>4
<1>. QED  BY <1>1, <1>2, <1>3

\* onclose.
LEMMA ClosedFields ==
  ASSUME client \in {"phone", "web", "native"}, NEW k \in Fields, NEW s \in Sockets,
         k.timers # Timers
  PROVE  /\ Closed(k, s) \in Fields
         /\ Closed(k, s).cur = (IF client = "web" \/ k.cur = s THEN None ELSE k.cur)
         /\ Closed(k, s).subs = k.subs
         /\ Closed(k, s).intentional = k.intentional
         /\ client = "native" /\ (\A t, u \in k.timers : t = u)
              => \A t, u \in Closed(k, s).timers : t = u
         /\ client = "phone" /\ k.cur # s => Closed(k, s) = k
         /\ client = "phone" /\ k.cur = s => Closed(k, s).status = "disconnected"
         /\ client = "phone" /\ k.cur = s /\ k.timers = {}
              => \A t, u \in Closed(k, s).timers : t = u
<1>1. CASE client = "phone"
  <2>1. Closed(k, s) = PhoneClosed(k, s)
    BY <1>1 DEF Closed
  <2>2. CASE k.cur # s
    BY <1>1, <2>1, <2>2 DEF PhoneClosed
  <2>3. CASE k.cur = s
    <3>. DEFINE a == [k EXCEPT !.cur = None, !.status = "disconnected"]
    <3>1. /\ a \in Fields /\ a.cur = None /\ a.subs = k.subs /\ a.timers = k.timers
          /\ a.intentional = k.intentional /\ a.status = "disconnected"
      BY DEF Fields, Statuses
    <3>2. Closed(k, s) = Schedules(a)
      BY <1>1, <2>1, <2>3 DEF PhoneClosed, Schedules
    <3>. HIDE DEF a
    <3>3. Closed(k, s).status = "disconnected"
      BY <1>1, <3>1, <3>2, SchedulesFields
    <3>. QED  BY <1>1, <2>3, <3>1, <3>2, <3>3, SchedulesFields
  <2>. QED  BY <2>2, <2>3
<1>2. CASE client = "web"
  <2>. DEFINE a == [k EXCEPT !.cur = None]
  <2>1. /\ a \in Fields /\ a.cur = None /\ a.subs = k.subs /\ a.timers = k.timers
        /\ a.intentional = k.intentional
    BY DEF Fields
  <2>2. Closed(k, s) = Schedules(a)
    BY <1>2 DEF Closed, WebClosed, Schedules
  <2>. HIDE DEF a
  <2>. QED  BY <1>2, <2>1, <2>2, SchedulesFields
<1>3. CASE client = "native"
  <2>. DEFINE a == IF k.cur = s THEN [k EXCEPT !.cur = None] ELSE k
  <2>1. /\ a \in Fields /\ a.cur = (IF k.cur = s THEN None ELSE k.cur)
        /\ a.subs = k.subs /\ a.timers = k.timers /\ a.intentional = k.intentional
    BY DEF Fields
  <2>2. \/ Closed(k, s) = Schedules(a)
        \/ \E x \in {"offline", "idle"} : Closed(k, s) = [a EXCEPT !.status = x]
    <3>. HIDE DEF a
    <3>1. Closed(k, s) = CASE ~a.intentional /\ a.online -> NativeSchedules(a)
                           [] ~a.online                  -> [a EXCEPT !.status = "offline"]
                           [] OTHER                      -> [a EXCEPT !.status = "idle"]
      BY <1>3 DEF Closed, NativeClosed, a
    <3>2. CASE ~a.intentional /\ a.online
      BY <1>3, <3>1, <3>2 DEF Schedules
    <3>3. CASE ~a.online
      BY <3>1, <3>3
    <3>4. CASE ~(~a.intentional /\ a.online) /\ a.online
      BY <3>1, <3>4
    <3>. QED  BY <3>2, <3>3, <3>4
  <2>. HIDE DEF a
  <2>3. CASE Closed(k, s) = Schedules(a)
    BY <1>3, <2>1, <2>3, SchedulesFields
  <2>4. ASSUME NEW x \in {"offline", "idle"}, Closed(k, s) = [a EXCEPT !.status = x]
        PROVE  /\ Closed(k, s) \in Fields /\ Closed(k, s).cur = a.cur
               /\ Closed(k, s).subs = a.subs /\ Closed(k, s).timers = a.timers
               /\ Closed(k, s).intentional = a.intentional
    BY <2>1, <2>4 DEF Fields, Statuses
  <2>. QED  BY <1>3, <2>1, <2>2, <2>3, <2>4
<1>. QED  BY <1>1, <1>2, <1>3

-----------------------------------------------------------------------------
Single(timers) == \A t, u \in timers : t = u

\* A call of connect(): nothing, a timer, or a socket that was free.
LEMMA ConnectStep ==
  ASSUME TypeOK, NEW k \in Fields, Connect(k), client # "web" => Single(k.timers)
  PROVE  /\ c' \in Fields /\ c'.subs = k.subs
         /\ ready' \in [Sockets -> {"none", "connecting", "open", "closing"}]
         /\ client # "web" => Single(c'.timers)
         /\ \/ ~Dials(k) /\ c' = k /\ ready' = ready
            \/ /\ Dials(k) /\ c'.cur = k.cur /\ ready' = ready
               /\ client = "phone" => ~c'.intentional /\ c'.status # "connected"
            \/ \E s \in Sockets :
                  /\ Dials(k) /\ ready[s] = "none" /\ c'.cur = s
                  /\ ready' = [ready EXCEPT ![s] = "connecting"]
                  /\ client = "phone" =>
                        c'.timers = {} /\ ~c'.intentional /\ c'.status # "connected"
<1>. USE DEF Single
<1>1. client \in {"phone", "web", "native"}
  BY Kinds
<1>2. CASE ~Dials(k)
  <2>1. c' = k /\ ready' = ready
    BY <1>2 DEF Connect
  <2>. QED  BY <1>2, <2>1 DEF TypeOK
<1>3. CASE Dials(k)
  <2>1. PICK s \in NewSocket \union {None} :
           /\ s = None => k.timers # Timers
           /\ c' = Connects(k, s)
           /\ ready' = IF s = None THEN ready ELSE [ready EXCEPT ![s] = "connecting"]
    BY <1>3 DEF Connect
  <2>2. s # None => s \in Sockets /\ ready[s] = "none"
    <3>. DEFINE free == {r \in Sockets : ready[r] = "none"}
    <3>1. CASE free = {}
      BY <2>1, <3>1 DEF NewSocket
    <3>2. CASE free # {}
      <4>1. (CHOOSE r \in free : TRUE) \in free
        BY <3>2
      <4>2. NewSocket = {CHOOSE r \in free : TRUE}
        BY <3>2 DEF NewSocket
      <4>. HIDE DEF free
      <4>3. s # None => s \in free
        BY <2>1, <4>1, <4>2
      <4>. QED  BY <4>3 DEF free
    <3>. QED  BY <3>1, <3>2
  <2>3. s \in Sockets \union {None}
    BY <2>1, <2>2
  <2>4. /\ c' \in Fields /\ c'.cur = (IF s = None THEN k.cur ELSE s)
        /\ c'.subs = k.subs
        /\ client # "web" => \A t, u \in c'.timers : t = u
        /\ client = "phone" => /\ ~c'.intentional /\ c'.status # "connected"
                               /\ s # None => c'.timers = {}
    BY <1>1, <2>1, <2>3, ConnectsFields
  <2>5. CASE s = None
    <3>1. ready' = ready
      BY <2>1, <2>5
    <3>. QED  BY <1>3, <2>4, <2>5, <3>1 DEF TypeOK
  <2>6. CASE s # None
    <3>1. s \in Sockets /\ ready[s] = "none" /\ ready' = [ready EXCEPT ![s] = "connecting"]
      BY <2>1, <2>2, <2>6
    <3>2. ready' \in [Sockets -> {"none", "connecting", "open", "closing"}]
      BY <3>1 DEF TypeOK
    <3>. QED  BY <1>3, <2>4, <2>6, <3>1, <3>2
  <2>. QED  BY <2>5, <2>6
<1>. QED  BY <1>2, <1>3

LEMMA HungType ==
  ASSUME TypeOK, NEW k
  PROVE  /\ Hung(k) \in [Sockets -> {"none", "connecting", "open", "closing"}]
         /\ \A s \in Sockets : Hung(k)[s] = IF s = k.cur /\ Alive(s) THEN "closing" ELSE ready[s]
BY DEF Hung, TypeOK

LEMMA SentType ==
  ASSUME TypeOK, NEW added \in SUBSET Routes, NEW removed \in SUBSET Routes
  PROVE  Sent(c, added, removed) \in [Sockets -> SUBSET Routes]
BY DEF Sent, TypeOK

LEMMA FreshType ==
  /\ Fresh \in Fields /\ Fresh.cur = None /\ Fresh.subs = {} /\ Fresh.timers = {}
  /\ ~Fresh.intentional /\ Fresh.status = "disconnected" /\ Single({})
BY DEF Fresh, Fields, Statuses, Single

LEMMA DownTypes ==
  ASSUME NEW s \in Seq(Position)
  PROVE  /\ Len(s) \in Nat
         /\ s # <<>> => Head(s) \in Position /\ Tail(s) \in Seq(Position) /\ Len(Tail(s)) = Len(s) - 1
         /\ \A m \in Position : Append(s, m) \in Seq(Position) /\ Len(Append(s, m)) = Len(s) + 1
BY HeadTailProperties, AppendProperties, LenProperties

LEMMA Bounds == MaxPos \in Nat /\ MaxDown \in Nat /\ MaxMounts \in Nat
BY LiveSocketsAssumption

LEMMA TypeInit == Init => TypeOK
<1>. SUFFICES ASSUME Init PROVE TypeOK
  OBVIOUS
<1>1. c \in Fields /\ c.timers = {}
  BY FreshType DEF Init, Fields, Statuses, Fresh
<1>2. <<>> \in Seq(Position) /\ Len(<<>>) = 0
  BY EmptySeq
<1>3. down \in [Sockets -> Seq(Position)] /\ \A s \in Sockets : Len(down[s]) <= MaxDown
  <2>1. down = [s \in Sockets |-> <<>>]
    BY DEF Init
  <2>2. \A s \in Sockets : down[s] = <<>>
    BY <2>1
  <2>3. \A s \in Sockets : Len(down[s]) <= MaxDown
    BY <1>2, <2>2, Bounds
  <2>. QED  BY <1>2, <2>1, <2>3
<1>4. mounted \in BOOLEAN /\ mounts \in 0..MaxMounts /\ published \in 0..MaxPos
  <2>1. mounted \in BOOLEAN
    BY DEF Init
  <2>2. mounts = 0 /\ published = 0
    BY DEF Init
  <2>. QED  BY <2>1, <2>2, Bounds
<1>6. bus \in [pos : 0..MaxPos, people : 0..MaxPos]
  <2>1. bus = [pos |-> 0, people |-> 0]
    BY DEF Init, Unknown
  <2>. QED  BY <2>1, Bounds
<1>7. wanted \in SUBSET Routes
  BY LiveSocketsAssumption DEF Init
<1>5. /\ client \in Clients
      /\ ready \in [Sockets -> {"none", "connecting", "open", "closing"}]
      /\ hub \in [Sockets -> SUBSET Routes]
  BY DEF Init
<1>. QED  BY <1>1, <1>3, <1>4, <1>5, <1>6, <1>7 DEF TypeOK

\* A step that changes the client's fields and its sockets only.
LEMMA TypeOfClient ==
  ASSUME TypeOK, c' \in Fields, client # "web" => Single(c'.timers),
         ready' \in [Sockets -> {"none", "connecting", "open", "closing"}],
         hub' \in [Sockets -> SUBSET Routes], wanted' \in SUBSET Routes,
         mounted' \in BOOLEAN, mounts' \in 0..MaxMounts,
         bus' \in [pos : 0..MaxPos, people : 0..MaxPos],
         UNCHANGED <<client, down, published>>
  PROVE  TypeOK'
BY DEF TypeOK, Single, Fields, Position

LEMMA TypeSocket ==
  ASSUME TypeOK, NEW s \in Sockets, Opens(s) PROVE TypeOK'
<1>1. client \in {"phone", "web", "native"}
  BY Kinds
<1>2. c' \in Fields /\ c'.timers = c.timers
  BY <1>1 DEF Opens, Opened, PhoneOpened, WebOpened, NativeOpened, TypeOK, Fields, Statuses
<1>3. hub' \in [Sockets -> SUBSET Routes]
  BY DEF Opens, Resent, TypeOK, Fields
<1>4. ready' \in [Sockets -> {"none", "connecting", "open", "closing"}]
  BY DEF Opens, TypeOK
<1>5. UNCHANGED <<client, down, mounted, mounts, wanted, bus, published>>
  BY DEF Opens
<1>. QED  BY <1>2, <1>3, <1>4, <1>5, TypeOfClient DEF TypeOK, Single

\* onclose of a socket.
LEMMA GoneType ==
  ASSUME TypeOK, SocketInv, NEW s \in Sockets, Gone(s, ready) \/ (client = "web" /\ Gone(s, Hung(c)))
  PROVE  TypeOK'
<1>1. client \in {"phone", "web", "native"} /\ c \in Fields
  BY Kinds DEF TypeOK
<1>2. /\ c.timers # Timers /\ c' = Closed(c, s)
      /\ hub' = [hub EXCEPT ![s] = {}] /\ down' = [down EXCEPT ![s] = <<>>]
      /\ UNCHANGED <<client, mounted, mounts, wanted, bus, published>>
  BY DEF Gone
<1>3. c' \in Fields
  BY <1>1, <1>2, ClosedFields
<1>4. client # "web" => \A t, u \in c'.timers : t = u
  <2>1. CASE client = "native"
    BY <1>1, <1>2, <2>1, ClosedFields DEF TypeOK
  <2>2. CASE client = "phone" /\ c.cur # s
    <3>1. c' = c
      BY <1>1, <1>2, <2>2, ClosedFields
    <3>. QED  BY <2>2, <3>1 DEF TypeOK
  <2>3. CASE client = "phone" /\ c.cur = s
    <3>1. c.timers = {}
      BY <2>3, LiveSocketsAssumption DEF SocketInv
    <3>. QED  BY <1>1, <1>2, <2>3, <3>1, ClosedFields
  <2>. QED  BY <1>1, <2>1, <2>2, <2>3
<1>5. ready' \in [Sockets -> {"none", "connecting", "open", "closing"}]
  <2>1. ready' = [ready EXCEPT ![s] = "none"] \/ ready' = [Hung(c) EXCEPT ![s] = "none"]
    BY DEF Gone
  <2>2. Hung(c) \in [Sockets -> {"none", "connecting", "open", "closing"}]
    BY HungType
  <2>. QED  BY <2>1, <2>2 DEF TypeOK
<1>6. hub' \in [Sockets -> SUBSET Routes]
  BY <1>2 DEF TypeOK
<1>7. down' \in [Sockets -> Seq(Position)] /\ \A r \in Sockets : Len(down'[r]) <= MaxDown
  <2>1. <<>> \in Seq(Position) /\ Len(<<>>) = 0
    BY EmptySeq
  <2>. QED  BY <1>2, <2>1, Bounds DEF TypeOK
<1>. QED  BY <1>2, <1>3, <1>4, <1>5, <1>6, <1>7 DEF TypeOK

LEMMA TypeFires == ASSUME TypeOK, NEW t \in Timers, Fires(t) PROVE TypeOK'
<1>. DEFINE k == [c EXCEPT !.timers = @ \ {t}, !.handle = IF @ = t THEN None ELSE @]
<1>1. k \in Fields /\ k.timers = c.timers \ {t}
  BY DEF TypeOK, Fields
<1>2. Connect(k) /\ UNCHANGED <<client, hub, down, mounted, mounts, wanted, bus, published>>
  BY DEF Fires
<1>. HIDE DEF k
<1>3. client # "web" => Single(k.timers)
  BY <1>1 DEF TypeOK, Single
<1>. QED  BY <1>1, <1>2, <1>3, ConnectStep, TypeOfClient DEF TypeOK

LEMMA TypeMount == ASSUME TypeOK, Mount PROVE TypeOK'
<1>. DEFINE k == IF client = "phone" THEN Follows(Fresh, Default)
                 ELSE [Follows(c, c.subs \union Default) EXCEPT !.status = "connecting"]
<1>1. /\ Connect(k) /\ mounted' = TRUE /\ mounts < MaxMounts /\ mounts' = mounts + 1
      /\ wanted' = Default /\ bus' = Unknown /\ hub' = Sent(c, Default, {})
      /\ UNCHANGED <<client, down, published>> /\ client \in {"phone", "web"}
  BY DEF Mount
<1>2. k \in Fields /\ (client = "phone" => k.timers = {})
  BY FreshType, LiveSocketsAssumption DEF Follows, TypeOK, Fields, Statuses
<1>. HIDE DEF k
<1>3. client # "web" => Single(k.timers)
  BY <1>1, <1>2, FreshType
<1>4. hub' \in [Sockets -> SUBSET Routes] /\ wanted' \in SUBSET Routes
  BY <1>1, SentType, LiveSocketsAssumption
<1>5. mounted' \in BOOLEAN /\ mounts' \in 0..MaxMounts
  BY <1>1, Bounds DEF TypeOK
<1>6. bus' \in [pos : 0..MaxPos, people : 0..MaxPos]
  BY <1>1, Bounds DEF Unknown
<1>. QED  BY <1>1, <1>2, <1>3, <1>4, <1>5, <1>6, ConnectStep, TypeOfClient

LEMMA TypeUnmount == ASSUME TypeOK, Unmount PROVE TypeOK'
<1>1. /\ mounted' = FALSE /\ ready' = Hung(c)
      /\ c' = IF client = "phone" THEN PhoneDisconnects(c)
              ELSE [WebDisconnects(c) EXCEPT !.status = "disconnected"]
      /\ UNCHANGED <<client, hub, down, mounts, wanted, bus, published>>
  BY DEF Unmount
<1>2. CASE client = "phone"
  <2>1. c' \in Fields /\ c'.timers = {}
    BY <1>1, <1>2, FreshType DEF PhoneDisconnects, Fields
  <2>. QED  BY <1>1, <2>1, HungType, FreshType, TypeOfClient DEF TypeOK
<1>3. CASE client # "phone"
  <2>. DEFINE a == WebDisconnects(c)
  <2>1. a \in Fields /\ a.timers \subseteq c.timers
    BY DEF WebDisconnects, TypeOK, Fields
  <2>2. c' = [a EXCEPT !.status = "disconnected"]
    BY <1>1, <1>3
  <2>. HIDE DEF a
  <2>3. c' \in Fields /\ c'.timers = a.timers
    BY <2>1, <2>2 DEF Fields, Statuses
  <2>4. client # "web" => Single(c'.timers)
    BY <2>1, <2>3 DEF TypeOK, Single
  <2>. QED  BY <1>1, <2>3, <2>4, HungType, TypeOfClient DEF TypeOK
<1>. QED  BY <1>2, <1>3

LEMMA TypeRoutes == ASSUME TypeOK, RoutesChange PROVE TypeOK'
<1>1. PICK routes \in {Default, Routes} \ {wanted} :
         /\ wanted' = routes
         /\ c' = Follows(c, (c.subs \union routes) \ (wanted \ routes))
         /\ hub' = Sent(c, routes \ wanted, wanted \ routes)
  BY DEF RoutesChange
<1>2. routes \in SUBSET Routes
  BY LiveSocketsAssumption
<1>3. c' \in Fields /\ c'.timers = c.timers
  BY <1>1, <1>2 DEF Follows, TypeOK, Fields
<1>4. hub' \in [Sockets -> SUBSET Routes]
  BY <1>1, <1>2, SentType DEF TypeOK
<1>. QED  BY <1>1, <1>2, <1>3, <1>4, TypeOfClient DEF RoutesChange, TypeOK, Single

LEMMA TypePoll == ASSUME TypeOK, Poll PROVE TypeOK'
<1>1. c' \in Fields /\ c'.timers = c.timers
  BY DEF Poll, TypeOK, Fields, Statuses
<1>. QED  BY <1>1, TypeOfClient DEF Poll, TypeOK, Single

LEMMA AppliedType ==
  ASSUME NEW b \in [pos : 0..MaxPos, people : 0..MaxPos], NEW m \in Position
  PROVE  Applied(b, m) \in [pos : 0..MaxPos, people : 0..MaxPos] /\ Applied(b, m).pos = m.pos
BY Bounds DEF Applied, Position

LEMMA TypeDeliver == ASSUME TypeOK, NEW s \in Sockets, Deliver(s) PROVE TypeOK'
<1>1. down[s] \in Seq(Position) /\ down[s] # <<>>
  BY DEF Deliver, TypeOK
<1>2. /\ Head(down[s]) \in Position /\ Tail(down[s]) \in Seq(Position)
      /\ Len(Tail(down[s])) = Len(down[s]) - 1 /\ Len(down[s]) \in Nat
  BY <1>1, DownTypes
<1>3. down' \in [Sockets -> Seq(Position)] /\ \A r \in Sockets : Len(down'[r]) <= MaxDown
  BY <1>2, Bounds DEF Deliver, TypeOK
<1>4. bus' \in [pos : 0..MaxPos, people : 0..MaxPos]
  BY <1>2, AppliedType DEF Deliver, TypeOK
<1>. QED  BY <1>3, <1>4 DEF Deliver, TypeOK

LEMMA TypePublish == ASSUME TypeOK, NEW full \in BOOLEAN, Publish(full) PROVE TypeOK'
<1>. DEFINE to == {s \in Sockets : BusRoute \in hub[s]}
            m  == [pos |-> published', full |-> full]
<1>1. /\ published' = published + 1 /\ published < MaxPos
      /\ \A s \in to : Len(down[s]) < MaxDown
      /\ down' = [s \in Sockets |-> IF s \in to THEN Append(down[s], m) ELSE down[s]]
      /\ UNCHANGED <<client, ready, hub, c, mounted, mounts, wanted, bus>>
  BY DEF Publish
<1>2. m \in Position /\ published' \in 0..MaxPos
  BY <1>1, Bounds DEF TypeOK, Position
<1>. HIDE DEF to, m
<1>3. ASSUME NEW s \in Sockets
      PROVE  down'[s] \in Seq(Position) /\ Len(down'[s]) <= MaxDown
  <2>1. down[s] \in Seq(Position) /\ Len(down[s]) <= MaxDown
    BY DEF TypeOK
  <2>2. /\ Len(down[s]) \in Nat /\ Append(down[s], m) \in Seq(Position)
        /\ Len(Append(down[s], m)) = Len(down[s]) + 1
    BY <1>2, <2>1, DownTypes
  <2>. QED  BY <1>1, <2>1, <2>2, Bounds
<1>. QED  BY <1>1, <1>2, <1>3 DEF TypeOK

LEMMA TypeNative ==
  ASSUME TypeOK,
         \/ NativeConnect \/ NativeDisconnect \/ GoesOffline \/ BackOnline
         \/ \E r \in Routes : NativeSubscribe(r) \/ NativeUnsubscribe(r)
  PROVE  TypeOK'
<1>1. CASE NativeConnect
  BY <1>1, ConnectStep, TypeOfClient DEF NativeConnect, TypeOK, Single
<1>2. CASE NativeDisconnect
  <2>1. c' \in Fields /\ c'.timers = {}
    BY <1>2 DEF NativeDisconnect, NativeDisconnects, TypeOK, Fields, Statuses
  <2>. QED  BY <1>2, <2>1, HungType, FreshType, TypeOfClient DEF NativeDisconnect, TypeOK
<1>3. CASE GoesOffline
  <2>1. c' \in Fields /\ c'.timers = {}
    BY <1>3 DEF GoesOffline, TypeOK, Fields, Statuses
  <2>2. mounts' \in 0..MaxMounts
    BY <1>3, Bounds DEF GoesOffline, TypeOK
  <2>. QED  BY <1>3, <2>1, <2>2, HungType, FreshType, TypeOfClient DEF GoesOffline, TypeOK
<1>4. CASE BackOnline
  <2>. DEFINE k == [c EXCEPT !.online = TRUE, !.retried = FALSE]
  <2>1. k \in Fields /\ k.timers = c.timers
    BY DEF TypeOK, Fields
  <2>2. \/ Connect(k)
        \/ c' = [c EXCEPT !.online = TRUE] /\ ready' = ready
    BY <1>4 DEF BackOnline
  <2>3. UNCHANGED <<client, hub, down, mounted, mounts, wanted, bus, published>>
    BY <1>4 DEF BackOnline
  <2>. HIDE DEF k
  <2>4. CASE Connect(k)
    BY <2>1, <2>3, <2>4, ConnectStep, TypeOfClient DEF TypeOK, Single
  <2>5. CASE c' = [c EXCEPT !.online = TRUE] /\ ready' = ready
    <3>1. c' \in Fields /\ c'.timers = c.timers
      BY <2>5 DEF TypeOK, Fields
    <3>. QED  BY <2>3, <2>5, <3>1, TypeOfClient DEF TypeOK, Single
  <2>. QED  BY <2>2, <2>4, <2>5
<1>5. ASSUME NEW r \in Routes, NativeSubscribe(r) \/ NativeUnsubscribe(r) PROVE TypeOK'
  <2>1. c' \in Fields /\ c'.timers = c.timers
    BY <1>5 DEF NativeSubscribe, NativeUnsubscribe, Follows, TypeOK, Fields
  <2>2. hub' \in [Sockets -> SUBSET Routes]
    BY <1>5, SentType DEF NativeSubscribe, NativeUnsubscribe
  <2>. QED  BY <1>5, <2>1, <2>2, TypeOfClient DEF NativeSubscribe, NativeUnsubscribe, TypeOK, Single
<1>. QED  BY <1>1, <1>2, <1>3, <1>4, <1>5

LEMMA TypeStep == ASSUME TypeOK, SocketInv, [Next]_vars PROVE TypeOK'
<1>1. ASSUME NEW s \in Sockets, Closes(s) \/ Fails(s) PROVE TypeOK'
  BY <1>1, GoneType DEF Closes, Fails
<1>2. CASE UNCHANGED vars
  BY <1>2 DEF vars, TypeOK
<1>3. CASE Next
  BY <1>1, <1>3, TypeSocket, TypeDeliver, TypeFires, TypeMount, TypeUnmount, TypeRoutes,
     TypePoll, TypePublish, TypeNative DEF Next
<1>. QED  BY <1>2, <1>3

-----------------------------------------------------------------------------
\* What the theorems are about and what they rest on, without the messages.
Sound == SocketInv /\ FollowedWhenOpen /\ OneSocket /\ PhoneStatusIsTrue

\* A phone shows the real buses exactly when its status says "connected".
LEMMA PhoneShows ==
  PhoneStatusIsTrue <=> (client = "phone" => (c.status = "connected" <=> IsOpen(c)))
BY DEF PhoneStatusIsTrue, Source

\* connect() keeps what is sound, provided the server knows of a connection
\* already open what the client is about to follow.
LEMMA ConnectKeeps ==
  ASSUME TypeOK, Sound, TypeOK', client' = client,
         NEW k \in Fields, Connect(k), client # "web" => Single(k.timers),
         k.cur = c.cur,
         \A s \in Sockets : ready[s] \in {"none", "connecting"} => hub'[s] = {},
         IsOpen(c) => hub'[c.cur] = k.subs,
         mounted' => client \in {"phone", "web"} /\ k.subs = wanted',
         client = "web" /\ ~mounted' => k.subs = {},
         client = "phone" => mounted' /\ k.cur = None
  PROVE  Sound'
<1>1. /\ c' \in Fields /\ c'.subs = k.subs
      /\ \/ ~Dials(k) /\ c' = k /\ ready' = ready
         \/ /\ Dials(k) /\ c'.cur = k.cur /\ ready' = ready
            /\ client = "phone" => ~c'.intentional /\ c'.status # "connected"
         \/ \E s \in Sockets :
               /\ Dials(k) /\ ready[s] = "none" /\ c'.cur = s
               /\ ready' = [ready EXCEPT ![s] = "connecting"]
               /\ client = "phone" =>
                     c'.timers = {} /\ ~c'.intentional /\ c'.status # "connected"
  BY ConnectStep
<1>2. client = "phone" => Dials(k)
  BY DEF Dials, PhoneDials
<1>3. None \notin Sockets
  BY LiveSocketsAssumption
<1>4. CASE c'.cur = k.cur /\ ready' = ready
  <2>1. client = "phone" => ~c'.intentional /\ c'.status # "connected"
    BY <1>1, <1>2, <1>3, <1>4
  <2>2. SocketInv'
    BY <1>1, <1>4, <2>1 DEF SocketInv
  <2>3. IsOpen(c)' <=> IsOpen(c)
    BY <1>4 DEF IsOpen
  <2>4. FollowedWhenOpen'
    BY <1>1, <1>4, <2>3 DEF FollowedWhenOpen
  <2>5. OneSocket'
    BY <1>1, <1>4 DEF OneSocket, Alive, Sound
  <2>6. PhoneStatusIsTrue'
    BY <1>4, <2>1 DEF PhoneStatusIsTrue, Source, IsOpen
  <2>. QED  BY <2>2, <2>4, <2>5, <2>6 DEF Sound
<1>5. ASSUME NEW s \in Sockets, Dials(k), ready[s] = "none", c'.cur = s,
             ready' = [ready EXCEPT ![s] = "connecting"],
             client = "phone" => c'.timers = {} /\ ~c'.intentional /\ c'.status # "connected"
      PROVE  Sound'
  <2>1. /\ ready'[s] = "connecting"
        /\ \A r \in Sockets : r # s => ready'[r] = ready[r]
    BY <1>5 DEF TypeOK
  <2>2. SocketInv'
    BY <1>1, <1>5, <2>1 DEF SocketInv, Alive
  <2>3. ~IsOpen(c)'
    BY <1>5, <2>1 DEF IsOpen
  <2>4. FollowedWhenOpen'
    BY <1>1, <2>3 DEF FollowedWhenOpen
  <2>5. client # "web" => \A r \in Sockets : ~Alive(r)
    <3>1. client # "web" => k.cur = None \/ ~Alive(k.cur)
      BY <1>5, Kinds DEF Dials, PhoneDials, NativeDials, WebDials
    <3>. QED  BY <1>3, <3>1 DEF Sound, OneSocket
  <2>6. OneSocket'
    BY <1>5, <2>1, <2>5 DEF OneSocket, Alive
  <2>7. PhoneStatusIsTrue'
    BY <1>5, <2>3 DEF PhoneStatusIsTrue, Source, IsOpen
  <2>. QED  BY <2>2, <2>4, <2>6, <2>7 DEF Sound
<1>. QED  BY <1>1, <1>4, <1>5

LEMMA SoundFires ==
  ASSUME TypeOK, Sound, TypeOK', NEW t \in Timers, Fires(t) PROVE Sound'
<1>. DEFINE k == [c EXCEPT !.timers = @ \ {t}, !.handle = IF @ = t THEN None ELSE @]
<1>1. k \in Fields /\ k.timers = c.timers \ {t} /\ k.cur = c.cur /\ k.subs = c.subs
  BY DEF TypeOK, Fields
<1>2. t \in c.timers /\ Connect(k) /\ UNCHANGED <<client, hub, down, mounted, mounts, wanted, bus, published>>
  BY DEF Fires
<1>. HIDE DEF k
<1>3. client # "web" => Single(k.timers)
  BY <1>1 DEF TypeOK, Single
<1>4. client = "phone" => mounted /\ c.cur = None
  BY <1>2 DEF Sound, SocketInv, OneSocket
<1>5. /\ \A s \in Sockets : ready[s] \in {"none", "connecting"} => hub[s] = {}
      /\ IsOpen(c) => hub[c.cur] = c.subs
      /\ mounted => client \in {"phone", "web"} /\ c.subs = wanted
      /\ client = "web" /\ ~mounted => c.subs = {}
  BY DEF Sound, SocketInv, FollowedWhenOpen
<1>. QED  BY <1>1, <1>2, <1>3, <1>4, <1>5, ConnectKeeps

LEMMA SoundMount == ASSUME TypeOK, Sound, TypeOK', Mount PROVE Sound'
<1>. DEFINE k == IF client = "phone" THEN Follows(Fresh, Default)
                 ELSE [Follows(c, c.subs \union Default) EXCEPT !.status = "connecting"]
<1>1. /\ Connect(k) /\ mounted' = TRUE /\ wanted' = Default /\ hub' = Sent(c, Default, {})
      /\ client' = client /\ client \in {"phone", "web"} /\ ~mounted
  BY DEF Mount
<1>2. /\ k \in Fields /\ (client = "phone" => k.timers = {} /\ k.cur = None)
      /\ client # "phone" => k.cur = c.cur
      /\ k.subs = IF client = "phone" THEN Default ELSE c.subs \union Default
  BY FreshType, LiveSocketsAssumption DEF Follows, TypeOK, Fields, Statuses
<1>. HIDE DEF k
<1>3. client # "web" => Single(k.timers)
  BY <1>1, <1>2, FreshType
<1>4. k.cur = c.cur
  BY <1>1, <1>2 DEF Sound, OneSocket
<1>5. client = "phone" => ~IsOpen(c)
  BY <1>1 DEF Sound, OneSocket, IsOpen
<1>6. client = "web" => c.subs = {}
  BY <1>1 DEF Sound, SocketInv
<1>7. k.subs = Default
  BY <1>1, <1>2, <1>6
<1>8. CASE IsOpen(c)
  <2>1. hub' = [hub EXCEPT ![c.cur] = (@ \union Default) \ {}]
    BY <1>1, <1>8 DEF Sent
  <2>2. c.cur \in Sockets /\ hub[c.cur] = c.subs /\ client = "web" /\ ready[c.cur] = "open"
    BY <1>1, <1>5, <1>8 DEF Sound, FollowedWhenOpen, IsOpen, TypeOK, Fields
  <2>3. hub'[c.cur] = Default /\ \A s \in Sockets : s # c.cur => hub'[s] = hub[s]
    BY <1>6, <2>1, <2>2 DEF TypeOK
  <2>4. \A s \in Sockets : ready[s] \in {"none", "connecting"} => hub'[s] = {}
    BY <2>2, <2>3 DEF Sound, SocketInv
  <2>. QED  BY <1>1, <1>2, <1>3, <1>4, <1>7, <2>2, <2>3, <2>4, ConnectKeeps
<1>9. CASE ~IsOpen(c)
  <2>1. hub' = hub
    BY <1>1, <1>9 DEF Sent
  <2>2. \A s \in Sockets : ready[s] \in {"none", "connecting"} => hub'[s] = {}
    BY <2>1 DEF Sound, SocketInv
  <2>. QED  BY <1>1, <1>2, <1>3, <1>4, <1>7, <1>9, <2>2, ConnectKeeps
<1>. QED  BY <1>8, <1>9

LEMMA SoundOpens ==
  ASSUME TypeOK, Sound, NEW s \in Sockets, Opens(s) PROVE Sound'
<1>1. /\ ready[s] = "connecting" /\ ready' = [ready EXCEPT ![s] = "open"]
      /\ hub' = IF c.cur # None /\ ready'[c.cur] = "open"
                THEN [hub EXCEPT ![c.cur] = @ \union c.subs] ELSE hub
      /\ UNCHANGED <<client, mounted, wanted>>
  BY DEF Opens, Resent
<1>2. /\ c'.cur = c.cur /\ c'.subs = c.subs /\ c'.timers = c.timers
      /\ c'.intentional = c.intentional
      /\ client = "phone" => c'.status = "connected"
  BY Kinds DEF Opens, Opened, PhoneOpened, WebOpened, NativeOpened, TypeOK, Fields
<1>3. ready'[s] = "open" /\ \A r \in Sockets : r # s => ready'[r] = ready[r]
  BY <1>1 DEF TypeOK
<1>4. client # "web" => c.cur = s
  BY <1>1 DEF Sound, OneSocket, Alive
<1>5. c.cur \in Sockets \union {None} /\ None \notin Sockets
  BY LiveSocketsAssumption DEF TypeOK, Fields
<1>6. \A r \in Sockets : ready'[r] \in {"none", "connecting"}
                         => ready[r] \in {"none", "connecting"} /\ hub'[r] = hub[r]
  BY <1>1, <1>3, <1>5 DEF TypeOK
<1>7. SocketInv'
  BY <1>1, <1>2, <1>3, <1>4, <1>5, <1>6 DEF Sound, SocketInv, Alive
<1>8. FollowedWhenOpen'
  <2>1. ASSUME IsOpen(c)' PROVE hub'[c.cur] = c.subs
    <3>1. /\ c.cur \in Sockets
          /\ hub' = [hub EXCEPT ![c.cur] = @ \union c.subs]
      BY <1>1, <1>2, <1>5, <2>1 DEF IsOpen
    <3>2. hub[c.cur] = {} \/ hub[c.cur] = c.subs
      <4>1. CASE c.cur = s
        BY <1>1, <3>1, <4>1 DEF Sound, SocketInv
      <4>2. CASE c.cur # s
        BY <1>2, <1>3, <2>1, <3>1, <4>2 DEF Sound, FollowedWhenOpen, IsOpen
      <4>. QED  BY <4>1, <4>2
    <3>. QED  BY <3>1, <3>2 DEF TypeOK
  <2>2. mounted' => c'.subs = wanted'
    BY <1>1, <1>2 DEF Sound, FollowedWhenOpen
  <2>. QED  BY <1>2, <2>1, <2>2 DEF FollowedWhenOpen
<1>9. OneSocket'
  BY <1>1, <1>2, <1>3, <1>4 DEF Sound, OneSocket, Alive
<1>10. PhoneStatusIsTrue'
  BY <1>1, <1>2, <1>3, <1>4, <1>5 DEF PhoneStatusIsTrue, Source, IsOpen
<1>. QED  BY <1>7, <1>8, <1>9, <1>10 DEF Sound

LEMMA SoundGone ==
  ASSUME TypeOK, Sound, NEW s \in Sockets, Closes(s) \/ Fails(s) PROVE Sound'
<1>1. /\ c.timers # Timers /\ c' = Closed(c, s) /\ hub' = [hub EXCEPT ![s] = {}]
      /\ UNCHANGED <<client, mounted, wanted>>
  BY DEF Closes, Fails, Gone
<1>2. \/ ready' = [ready EXCEPT ![s] = "none"]
      \/ client = "web" /\ ready' = [Hung(c) EXCEPT ![s] = "none"]
  BY DEF Closes, Fails, Gone
<1>3. /\ ready'[s] = "none"
      /\ \A r \in Sockets : ready'[r] \in {"none", "connecting"} /\ r # s
                            => ready[r] \in {"none", "connecting"}
      /\ client # "web" => \A r \in Sockets : r # s => ready'[r] = ready[r]
  <2>1. CASE ready' = [ready EXCEPT ![s] = "none"]
    BY <2>1 DEF TypeOK
  <2>2. CASE client = "web" /\ ready' = [Hung(c) EXCEPT ![s] = "none"]
    <3>1. ready'[s] = "none" /\ \A r \in Sockets : r # s => ready'[r] = Hung(c)[r]
      BY <2>2, HungType
    <3>2. \A r \in Sockets : Hung(c)[r] \in {"none", "connecting"} => ready[r] = Hung(c)[r]
      BY HungType
    <3>. QED  BY <2>2, <3>1, <3>2
  <2>. QED  BY <1>2, <2>1, <2>2
<1>4. hub'[s] = {} /\ \A r \in Sockets : r # s => hub'[r] = hub[r]
  BY <1>1 DEF TypeOK
<1>5. c \in Fields /\ c.cur \in Sockets \union {None} /\ None \notin Sockets
  BY LiveSocketsAssumption DEF TypeOK, Fields
<1>6. /\ c'.cur = (IF client = "web" \/ c.cur = s THEN None ELSE c.cur)
      /\ c'.subs = c.subs /\ c'.intentional = c.intentional
      /\ client = "phone" /\ c.cur # s => c' = c
      /\ client = "phone" /\ c.cur = s => c'.status = "disconnected"
  BY <1>1, <1>5, Kinds, ClosedFields
<1>7. SocketInv'
  <2>1. \A r \in Sockets : ready'[r] \in {"none", "connecting"} => hub'[r] = {}
    BY <1>3, <1>4 DEF Sound, SocketInv
  <2>2. client = "phone" /\ c'.cur # None => c'.cur # s /\ c' = c /\ ready'[c.cur] = ready[c.cur]
    BY <1>3, <1>5, <1>6
  <2>3. client = "phone" => /\ c'.cur # None => ready'[c'.cur] \in {"connecting", "open"} /\ c'.timers = {}
                            /\ mounted' => ~c'.intentional
    BY <1>1, <1>6, <2>2 DEF Sound, SocketInv, Alive
  <2>. QED  BY <1>1, <1>6, <2>1, <2>3 DEF Sound, SocketInv, Alive
<1>8. IsOpen(c)' => IsOpen(c) /\ client # "web" /\ c.cur # s /\ c'.cur = c.cur
  BY <1>3, <1>5, <1>6 DEF IsOpen
<1>9. FollowedWhenOpen'
  BY <1>1, <1>4, <1>5, <1>6, <1>8 DEF Sound, FollowedWhenOpen, IsOpen
<1>10. OneSocket'
  <2>1. client # "web" => \A r \in Sockets : ready'[r] \in {"connecting", "open"} => r = c'.cur
    BY <1>3, <1>6 DEF Sound, OneSocket, Alive
  <2>2. client = "phone" /\ ~mounted' => c'.cur = None /\ c'.timers = {}
    BY <1>1, <1>5, <1>6 DEF Sound, OneSocket
  <2>. QED  BY <1>1, <2>1, <2>2 DEF OneSocket, Alive
<1>11. PhoneStatusIsTrue'
  <2>1. CASE c.cur = s
    BY <1>1, <1>6, <1>8, <2>1 DEF PhoneStatusIsTrue, Source
  <2>2. CASE c.cur # s
    <3>1. client = "phone" => c' = c /\ (IsOpen(c)' <=> IsOpen(c))
      BY <1>3, <1>5, <1>6, <2>2 DEF IsOpen
    <3>. QED  BY <1>1, <3>1 DEF Sound, PhoneStatusIsTrue, Source
  <2>. QED  BY <2>1, <2>2
<1>. QED  BY <1>7, <1>9, <1>10, <1>11 DEF Sound

\* The client hangs up and forgets its socket.
LEMMA SoundHangsUp ==
  ASSUME TypeOK, Sound, UNCHANGED <<client, hub, wanted>>, ready' = Hung(c), c'.cur = None,
         mounted' => mounted /\ c'.subs = c.subs,
         client = "web" => c'.subs = {},
         client = "phone" => c'.timers = {} /\ c'.status # "connected" /\ ~mounted'
  PROVE  Sound'
<1>1. \A r \in Sockets : ready'[r] = IF r = c.cur /\ Alive(r) THEN "closing" ELSE ready[r]
  BY HungType
<1>2. SocketInv'
  BY <1>1 DEF Sound, SocketInv
<1>3. FollowedWhenOpen'
  BY DEF Sound, FollowedWhenOpen, IsOpen
<1>4. \A r \in Sockets : Alive(r)' => Alive(r) /\ r # c.cur
  BY <1>1 DEF Alive
<1>5. OneSocket'
  BY <1>4 DEF Sound, OneSocket
<1>6. PhoneStatusIsTrue'
  BY DEF PhoneStatusIsTrue, Source, IsOpen
<1>. QED  BY <1>2, <1>3, <1>5, <1>6 DEF Sound

LEMMA SoundUnmount == ASSUME TypeOK, Sound, Unmount PROVE Sound'
<1>1. /\ mounted' = FALSE /\ ready' = Hung(c) /\ mounted
      /\ c' = IF client = "phone" THEN PhoneDisconnects(c)
              ELSE [WebDisconnects(c) EXCEPT !.status = "disconnected"]
      /\ UNCHANGED <<client, hub, wanted>>
  BY DEF Unmount
<1>2. CASE client = "phone"
  BY <1>1, <1>2, SoundHangsUp DEF PhoneDisconnects, Fresh
<1>3. CASE client # "phone"
  <2>1. c'.cur = None /\ c'.subs = {}
    BY <1>1, <1>3 DEF WebDisconnects, TypeOK, Fields
  <2>. QED  BY <1>1, <1>3, <2>1, SoundHangsUp
<1>. QED  BY <1>2, <1>3

\* The client tells the server it follows other routes, and remembers it.
LEMMA SoundFollows ==
  ASSUME TypeOK, Sound, NEW routes \in SUBSET Routes,
         c' = Follows(c, routes), UNCHANGED <<client, ready, mounted>>,
         hub' = hub \/ (IsOpen(c) /\ hub' = [hub EXCEPT ![c.cur] = routes]),
         IsOpen(c) => hub'[c.cur] = routes,
         mounted => client \in {"phone", "web"} /\ routes = wanted',
         client # "web"
  PROVE  Sound'
<1>1. /\ c'.cur = c.cur /\ c'.subs = routes /\ c'.timers = c.timers
      /\ c'.intentional = c.intentional /\ c'.status = c.status
  BY DEF Follows, TypeOK, Fields
<1>2. \A r \in Sockets : ready[r] \in {"none", "connecting"} => hub'[r] = hub[r]
  BY DEF IsOpen, TypeOK
<1>3. SocketInv'
  BY <1>1, <1>2 DEF Sound, SocketInv, Alive
<1>4. IsOpen(c)' <=> IsOpen(c)
  BY <1>1 DEF IsOpen
<1>5. FollowedWhenOpen'
  BY <1>1, <1>4 DEF FollowedWhenOpen
<1>6. OneSocket'
  BY <1>1 DEF Sound, OneSocket, Alive
<1>7. PhoneStatusIsTrue'
  BY <1>1, <1>4 DEF Sound, PhoneStatusIsTrue, Source
<1>. QED  BY <1>3, <1>5, <1>6, <1>7 DEF Sound

LEMMA SentIs ==
  ASSUME TypeOK, Sound, NEW added \in SUBSET Routes, NEW removed \in SUBSET Routes
  PROVE  LET routes == (c.subs \union added) \ removed
         IN  /\ Sent(c, added, removed) = hub
                \/ (IsOpen(c) /\ Sent(c, added, removed) = [hub EXCEPT ![c.cur] = routes])
             /\ IsOpen(c) => Sent(c, added, removed)[c.cur] = routes
             /\ routes \in SUBSET Routes
<1>1. c.cur \in Sockets \union {None} /\ c.subs \in SUBSET Routes
  BY DEF TypeOK, Fields
<1>2. CASE IsOpen(c)
  <2>1. c.cur \in Sockets /\ hub[c.cur] = c.subs
    BY <1>1, <1>2 DEF IsOpen, Sound, FollowedWhenOpen
  <2>. QED  BY <1>1, <1>2, <2>1 DEF Sent, TypeOK
<1>3. CASE ~IsOpen(c)
  BY <1>1, <1>3 DEF Sent
<1>. QED  BY <1>2, <1>3

LEMMA SoundRoutes == ASSUME TypeOK, Sound, RoutesChange PROVE Sound'
<1>1. PICK routes \in {Default, Routes} \ {wanted} :
         /\ wanted' = routes
         /\ c' = Follows(c, (c.subs \union routes) \ (wanted \ routes))
         /\ hub' = Sent(c, routes \ wanted, wanted \ routes)
  BY DEF RoutesChange
<1>2. /\ mounted /\ client = "phone" /\ UNCHANGED <<client, ready, mounted>>
      /\ c.subs = wanted
  BY DEF RoutesChange, Sound, FollowedWhenOpen
<1>3. routes \in SUBSET Routes /\ wanted \in SUBSET Routes
  BY LiveSocketsAssumption DEF TypeOK
<1>4. /\ (c.subs \union routes) \ (wanted \ routes) = routes
      /\ (c.subs \union (routes \ wanted)) \ (wanted \ routes) = routes
  BY <1>2
<1>5. /\ hub' = hub \/ (IsOpen(c) /\ hub' = [hub EXCEPT ![c.cur] = routes])
      /\ IsOpen(c) => hub'[c.cur] = routes
  <2>1. routes \ wanted \in SUBSET Routes /\ wanted \ routes \in SUBSET Routes
    BY <1>3
  <2>2. /\ hub' = hub \/ (IsOpen(c) /\ hub' = [hub EXCEPT ![c.cur] = (c.subs \union (routes \ wanted)) \ (wanted \ routes)])
        /\ IsOpen(c) => hub'[c.cur] = (c.subs \union (routes \ wanted)) \ (wanted \ routes)
    BY <1>1, <2>1, SentIs
  <2>. QED  BY <1>4, <2>2
<1>. QED  BY <1>1, <1>2, <1>3, <1>4, <1>5, SoundFollows

LEMMA SoundNative ==
  ASSUME TypeOK, Sound, TypeOK',
         \/ NativeConnect \/ NativeDisconnect \/ GoesOffline \/ BackOnline
         \/ \E r \in Routes : NativeSubscribe(r) \/ NativeUnsubscribe(r)
  PROVE  Sound'
<1>1. client = "native" /\ ~mounted
  BY DEF NativeConnect, NativeDisconnect, GoesOffline, BackOnline, NativeSubscribe,
         NativeUnsubscribe, Sound, SocketInv
<1>2. c \in Fields /\ Single(c.timers)
  BY <1>1 DEF TypeOK, Single
<1>3. /\ \A s \in Sockets : ready[s] \in {"none", "connecting"} => hub[s] = {}
      /\ IsOpen(c) => hub[c.cur] = c.subs
  BY DEF Sound, SocketInv, FollowedWhenOpen
<1>4. CASE NativeConnect
  BY <1>1, <1>2, <1>3, <1>4, ConnectKeeps DEF NativeConnect
<1>5. CASE NativeDisconnect
  <2>1. c'.cur = None
    BY <1>5 DEF NativeDisconnect, NativeDisconnects, TypeOK, Fields
  <2>. QED  BY <1>1, <1>5, <2>1, SoundHangsUp DEF NativeDisconnect
<1>6. CASE GoesOffline
  <2>1. c'.cur = None
    BY <1>6 DEF GoesOffline, TypeOK, Fields
  <2>. QED  BY <1>1, <1>6, <2>1, SoundHangsUp DEF GoesOffline
<1>7. CASE BackOnline
  <2>. DEFINE k == [c EXCEPT !.online = TRUE, !.retried = FALSE]
  <2>1. k \in Fields /\ k.timers = c.timers /\ k.cur = c.cur /\ k.subs = c.subs
    BY DEF TypeOK, Fields
  <2>2. \/ Connect(k)
        \/ c' = [c EXCEPT !.online = TRUE] /\ ready' = ready
    BY <1>7 DEF BackOnline
  <2>3. UNCHANGED <<client, hub, mounted, wanted>>
    BY <1>7 DEF BackOnline
  <2>. HIDE DEF k
  <2>4. CASE Connect(k)
    BY <1>1, <1>2, <1>3, <2>1, <2>3, <2>4, ConnectKeeps
  <2>5. CASE c' = [c EXCEPT !.online = TRUE] /\ ready' = ready
    <3>1. c'.cur = c.cur /\ c'.subs = c.subs
      BY <2>5 DEF TypeOK, Fields
    <3>2. IsOpen(c)' <=> IsOpen(c)
      BY <2>5, <3>1 DEF IsOpen
    <3>3. SocketInv'
      BY <1>1, <2>3, <2>5 DEF Sound, SocketInv
    <3>4. FollowedWhenOpen'
      BY <1>1, <2>3, <3>1, <3>2 DEF Sound, FollowedWhenOpen
    <3>5. OneSocket'
      BY <1>1, <2>3, <2>5, <3>1 DEF Sound, OneSocket, Alive
    <3>. QED  BY <1>1, <2>3, <3>3, <3>4, <3>5 DEF Sound, PhoneStatusIsTrue
  <2>. QED  BY <2>2, <2>4, <2>5
<1>8. ASSUME NEW r \in Routes, NativeSubscribe(r) PROVE Sound'
  <2>1. hub' = Sent(c, {r}, {}) /\ c' = Follows(c, c.subs \union {r})
        /\ UNCHANGED <<client, ready, mounted>>
    BY <1>8 DEF NativeSubscribe
  <2>2. (c.subs \union {r}) \ {} = c.subs \union {r} /\ {r} \in SUBSET Routes /\ {} \in SUBSET Routes
    OBVIOUS
  <2>. DEFINE routes == c.subs \union {r}
  <2>3. /\ hub' = hub \/ (IsOpen(c) /\ hub' = [hub EXCEPT ![c.cur] = routes])
        /\ IsOpen(c) => hub'[c.cur] = routes
        /\ routes \in SUBSET Routes
    BY <2>1, <2>2, SentIs
  <2>. HIDE DEF routes
  <2>4. c' = Follows(c, routes)
    BY <2>1 DEF routes
  <2>. QED  BY <1>1, <2>1, <2>3, <2>4, SoundFollows
<1>9. ASSUME NEW r \in Routes, NativeUnsubscribe(r) PROVE Sound'
  <2>1. hub' = Sent(c, {}, {r}) /\ c' = Follows(c, c.subs \ {r})
        /\ UNCHANGED <<client, ready, mounted>>
    BY <1>9 DEF NativeUnsubscribe
  <2>2. (c.subs \union {}) \ {r} = c.subs \ {r} /\ {r} \in SUBSET Routes /\ {} \in SUBSET Routes
    OBVIOUS
  <2>. DEFINE routes == c.subs \ {r}
  <2>3. /\ hub' = hub \/ (IsOpen(c) /\ hub' = [hub EXCEPT ![c.cur] = routes])
        /\ IsOpen(c) => hub'[c.cur] = routes
        /\ routes \in SUBSET Routes
    BY <2>1, <2>2, SentIs
  <2>. HIDE DEF routes
  <2>4. c' = Follows(c, routes)
    BY <2>1 DEF routes
  <2>. QED  BY <1>1, <2>1, <2>3, <2>4, SoundFollows
<1>. QED  BY <1>4, <1>5, <1>6, <1>7, <1>8, <1>9

\* Steps that touch neither the sockets nor what is followed.
LEMMA SoundQuiet ==
  ASSUME TypeOK, Sound, UNCHANGED <<client, ready, hub, mounted, wanted>>,
         c' = c \/ Poll
  PROVE  Sound'
<1>1. /\ c'.cur = c.cur /\ c'.subs = c.subs /\ c'.timers = c.timers
      /\ c'.intentional = c.intentional /\ (client = "phone" => c'.status = c.status)
  BY DEF Poll, TypeOK, Fields
<1>2. IsOpen(c)' <=> IsOpen(c)
  BY <1>1 DEF IsOpen
<1>3. SocketInv'
  BY <1>1 DEF Sound, SocketInv, Alive
<1>4. FollowedWhenOpen'
  BY <1>1, <1>2 DEF Sound, FollowedWhenOpen
<1>5. OneSocket'
  BY <1>1 DEF Sound, OneSocket, Alive
<1>6. PhoneStatusIsTrue'
  BY <1>1, <1>2 DEF Sound, PhoneStatusIsTrue, Source
<1>. QED  BY <1>3, <1>4, <1>5, <1>6 DEF Sound

LEMMA SoundStep == ASSUME TypeOK, Sound, TypeOK', [Next]_vars PROVE Sound'
<1>1. CASE UNCHANGED vars
  BY <1>1, SoundQuiet DEF vars
<1>2. CASE Poll
  BY <1>2, SoundQuiet DEF Poll
<1>3. ASSUME NEW s \in Sockets, Deliver(s) PROVE Sound'
  BY <1>3, SoundQuiet DEF Deliver
<1>4. ASSUME NEW full \in BOOLEAN, Publish(full) PROVE Sound'
  BY <1>4, SoundQuiet DEF Publish
<1>5. CASE Next
  BY <1>2, <1>3, <1>4, <1>5, SoundOpens, SoundGone, SoundFires, SoundMount, SoundUnmount,
     SoundRoutes, SoundNative DEF Next
<1>. QED  BY <1>1, <1>5

LEMMA SoundInit == Init => Sound
<1>. SUFFICES ASSUME Init PROVE Sound
  OBVIOUS
<1>1. /\ c.cur = None /\ c.subs = {} /\ c.timers = {} /\ ~c.intentional
      /\ c.status # "connected" /\ ~mounted
  BY DEF Init, Fresh
<1>2. \A s \in Sockets : ready[s] = "none" /\ hub[s] = {}
  BY DEF Init
<1>. QED  BY <1>1, <1>2 DEF Sound, SocketInv, FollowedWhenOpen, OneSocket, PhoneStatusIsTrue, Source,
                            IsOpen, Alive

-----------------------------------------------------------------------------
\* The messages: the sequence of one connection.
InOrder(queue, lo, hi) ==
    /\ \A i \in DOMAIN queue : queue[i].pos \in lo..hi
    /\ \A i, j \in DOMAIN queue : i < j => queue[i].pos <= queue[j].pos

LEMMA TakenInOrder ==
  ASSUME NEW queue \in Seq(Position), queue # <<>>, NEW lo \in Nat, NEW hi \in Nat,
         InOrder(queue, lo, hi)
  PROVE  /\ InOrder(Tail(queue), lo, hi) /\ InOrder(Tail(queue), Head(queue).pos, hi)
         /\ Head(queue).pos \in lo..hi
<1>1. /\ Len(queue) \in Nat \ {0} /\ DOMAIN queue = 1..Len(queue) /\ Head(queue) = queue[1]
      /\ DOMAIN Tail(queue) = 1..(Len(queue) - 1)
      /\ \A i \in 1..(Len(queue) - 1) : Tail(queue)[i] = queue[i + 1]
  <2>1. Len(queue) \in Nat /\ DOMAIN queue = 1..Len(queue) /\ Len(queue) # 0
    BY LenProperties, EmptySeq
  <2>2. /\ Tail(queue) \in Seq(Position) /\ Len(Tail(queue)) = Len(queue) - 1
        /\ \A i \in 1..Len(Tail(queue)) : Tail(queue)[i] = queue[i + 1]
    BY HeadTailProperties
  <2>3. DOMAIN Tail(queue) = 1..Len(Tail(queue))
    BY <2>2, LenProperties
  <2>4. Head(queue) = queue[1]
    OBVIOUS
  <2>. QED  BY <2>1, <2>2, <2>3, <2>4
<1>3. Head(queue).pos \in lo..hi
  BY <1>1 DEF InOrder
<1>4. \A i \in 1..(Len(queue) - 1) :
         Tail(queue)[i].pos \in lo..hi /\ Head(queue).pos <= Tail(queue)[i].pos
  BY <1>1 DEF InOrder
<1>5. \A i, j \in 1..(Len(queue) - 1) : i < j => Tail(queue)[i].pos <= Tail(queue)[j].pos
  BY <1>1 DEF InOrder
<1>6. \A i \in 1..(Len(queue) - 1) : Tail(queue)[i].pos \in Head(queue).pos..hi
  BY <1>3, <1>4
<1>. QED  BY <1>1, <1>3, <1>4, <1>5, <1>6 DEF InOrder

LEMMA AppendedInOrder ==
  ASSUME NEW queue \in Seq(Position), NEW m \in Position, NEW lo \in Nat, NEW hi \in Nat,
         InOrder(queue, lo, hi), lo <= hi, m.pos = hi + 1
  PROVE  InOrder(Append(queue, m), lo, hi + 1) /\ InOrder(queue, lo, hi + 1)
<1>1. /\ Len(queue) \in Nat /\ DOMAIN queue = 1..Len(queue)
      /\ DOMAIN Append(queue, m) = 1..(Len(queue) + 1)
      /\ \A i \in 1..Len(queue) : Append(queue, m)[i] = queue[i]
      /\ Append(queue, m)[Len(queue) + 1] = m
  BY AppendProperties, LenProperties
<1>2. \A i \in 1..Len(queue) : queue[i].pos \in lo..hi
  BY <1>1 DEF InOrder
<1>3. InOrder(queue, lo, hi + 1)
  BY <1>1, <1>2 DEF InOrder
<1>4. \A i \in 1..(Len(queue) + 1) : Append(queue, m)[i].pos \in lo..(hi + 1)
  BY <1>1, <1>2
<1>5. \A i, j \in 1..(Len(queue) + 1) : i < j => Append(queue, m)[i].pos <= Append(queue, m)[j].pos
  <2>. SUFFICES ASSUME NEW i \in 1..(Len(queue) + 1), NEW j \in 1..(Len(queue) + 1), i < j
                PROVE  Append(queue, m)[i].pos <= Append(queue, m)[j].pos
    OBVIOUS
  <2>1. i \in 1..Len(queue) /\ Append(queue, m)[i] = queue[i] /\ queue[i].pos \in lo..hi
    BY <1>1, <1>2
  <2>2. CASE j \in 1..Len(queue)
    BY <1>1, <2>1, <2>2 DEF InOrder
  <2>3. CASE j = Len(queue) + 1
    BY <1>1, <2>1, <2>3
  <2>. QED  BY <1>1, <2>2, <2>3
<1>. QED  BY <1>1, <1>3, <1>4, <1>5 DEF InOrder

LEMMA OrderIs ==
  OrderInv <=>
    /\ NativeInv
    /\ \A s \in Sockets : ready[s] \in {"none", "connecting"} => down[s] = <<>>
    /\ OneVoice =>
          /\ bus.pos <= published
          /\ \A s \in Sockets : Delivers(s) /\ Heard(s) => InOrder(down[s], bus.pos, published)
BY DEF OrderInv, InOrder

LEMMA Numbers ==
  ASSUME TypeOK PROVE bus.pos \in Nat /\ published \in Nat /\ mounts \in Nat
BY Bounds DEF TypeOK

LEMMA NothingInOrder ==
  ASSUME NEW lo, NEW hi PROVE InOrder(<<>>, lo, hi)
BY DEF InOrder

\* The screen of the phone, and of the native client until the network is first
\* lost, hears one socket.
LEMMA OneSpeaker ==
  ASSUME Sound, NativeInv, OneVoice, NEW s \in Sockets, Delivers(s), Heard(s),
         NEW r \in Sockets, Delivers(r), Heard(r)
  PROVE  r = s
<1>1. CASE client = "phone"
  BY <1>1 DEF Heard
<1>2. CASE client = "native" /\ mounts = 0
  <2>1. ready[s] \in {"open", "closing"} /\ ready[r] \in {"open", "closing"}
    BY DEF Delivers
  <2>2. CASE ready[s] = "closing" \/ ready[r] = "closing"
    BY <1>2, <2>1, <2>2 DEF NativeInv
  <2>3. CASE ready[s] = "open" /\ ready[r] = "open"
    BY <1>2, <2>3 DEF Sound, OneSocket, Alive
  <2>. QED  BY <2>1, <2>2, <2>3
<1>. QED  BY <1>1, <1>2 DEF OneVoice

\* Steps that put nothing on the way and leave the bus of the screen alone, or
\* empty the screen.
LEMMA OrderKept ==
  ASSUME TypeOK, OrderInv, NativeInv', UNCHANGED <<client, published>>,
         mounts' = 0 => mounts = 0,
         bus' = bus \/ bus' = Unknown,
         client = "phone" => \/ c'.cur = c.cur \/ c'.cur \notin Sockets
                             \/ ready'[c'.cur] \in {"none", "connecting"},
         \A s \in Sockets : /\ down'[s] = down[s] \/ down'[s] = <<>>
                            /\ ready'[s] \in {"none", "connecting"} =>
                                  down'[s] = <<>> \/ ready[s] \in {"none", "connecting"}
                            /\ ready'[s] \in {"open", "closing"} =>
                                  ready[s] \in {"open", "closing"} \/ down'[s] = <<>>
  PROVE  OrderInv'
<1>1. \A s \in Sockets : ready'[s] \in {"none", "connecting"} => down'[s] = <<>>
  BY OrderIs
<1>2. bus.pos \in Nat /\ published \in Nat /\ bus'.pos \in Nat /\ bus'.pos <= bus.pos
  BY Numbers DEF Unknown
<1>3. OneVoice' => OneVoice /\ client # "web"
  BY DEF OneVoice
<1>4. ASSUME OneVoice', NEW s \in Sockets, Delivers(s)', Heard(s)'
      PROVE  InOrder(down'[s], bus'.pos, published')
  <2>1. CASE down'[s] = <<>>
    BY <2>1, NothingInOrder
  <2>2. CASE down'[s] # <<>>
    <3>1. ready'[s] \in {"open", "closing"}
      BY <1>4 DEF Delivers
    <3>2. ready[s] \in {"open", "closing"} /\ down'[s] = down[s] /\ client # "web"
      BY <1>3, <1>4, <2>2, <3>1
    <3>3. Delivers(s)
      BY <3>2 DEF Delivers
    <3>4. CASE client = "phone"
      <4>1. s = c'.cur
        BY <1>4, <3>4 DEF Heard
      <4>2. s = c.cur
        BY <3>1, <3>4, <4>1
      <4>3. Heard(s)
        BY <3>4, <4>2 DEF Heard
      <4>. QED  BY <1>2, <1>3, <1>4, <3>2, <3>3, <4>3, OrderIs DEF InOrder
    <3>5. CASE client = "native"
      <4>1. Heard(s)
        BY <3>5 DEF Heard
      <4>. QED  BY <1>2, <1>3, <1>4, <3>2, <3>3, <4>1, OrderIs DEF InOrder
    <3>. QED  BY <3>2, <3>4, <3>5, Kinds
  <2>. QED  BY <2>1, <2>2
<1>5. OneVoice' => bus'.pos <= published'
  BY <1>2, <1>3, OrderIs
<1>. QED  BY <1>1, <1>4, <1>5 DEF OrderInv, InOrder

\* ready and the socket held, after a call of connect().
LEMMA OrderConnect ==
  ASSUME TypeOK, NEW k \in Fields, Connect(k), client # "web" => Single(k.timers)
  PROVE  /\ \A s \in Sockets : ready'[s] = ready[s] \/ (ready[s] = "none" /\ ready'[s] = "connecting")
         /\ c'.cur = k.cur \/ (c'.cur \in Sockets /\ ready'[c'.cur] = "connecting")
<1>1. \/ ready' = ready /\ c'.cur = k.cur
      \/ \E r \in Sockets : /\ ready[r] = "none" /\ c'.cur = r
                            /\ ready' = [ready EXCEPT ![r] = "connecting"]
  BY ConnectStep
<1>. QED  BY <1>1 DEF TypeOK

LEMMA OrderOfConnect ==
  ASSUME TypeOK, OrderInv, NativeInv', NEW k \in Fields, Connect(k),
         client # "web" => Single(k.timers), k.cur \in {c.cur, None},
         UNCHANGED <<client, down, published>>, mounts' = 0 => mounts = 0,
         bus' = bus \/ bus' = Unknown
  PROVE  OrderInv'
<1>1. /\ \A s \in Sockets : ready'[s] = ready[s] \/ (ready[s] = "none" /\ ready'[s] = "connecting")
      /\ c'.cur = k.cur \/ (c'.cur \in Sockets /\ ready'[c'.cur] = "connecting")
  BY OrderConnect
<1>2. None \notin Sockets
  BY LiveSocketsAssumption
<1>. QED  BY <1>1, <1>2, OrderKept

LEMMA OrderOfHung ==
  ASSUME TypeOK, OrderInv, NativeInv', ready' = Hung(c), UNCHANGED <<client, down, published, bus>>,
         mounts' = 0 => mounts = 0, c'.cur = None
  PROVE  OrderInv'
<1>1. \A s \in Sockets : ready'[s] = ready[s] \/ (ready'[s] = "closing" /\ Alive(s))
  BY HungType
<1>2. \A s \in Sockets : Alive(s) => ready[s] = "open" \/ down[s] = <<>>
  BY DEF Alive, OrderInv
<1>3. None \notin Sockets
  BY LiveSocketsAssumption
<1>. QED  BY <1>1, <1>2, <1>3, OrderKept

LEMMA OrderDeliver ==
  ASSUME TypeOK, Sound, OrderInv, NEW s \in Sockets, Deliver(s)
  PROVE  OrderInv' /\ (OneVoice => bus'.pos >= bus.pos)
<1>1. /\ Delivers(s) /\ down[s] # <<>> /\ down' = [down EXCEPT ![s] = Tail(@)]
      /\ bus' = (IF Heard(s) THEN Applied(bus, Head(down[s])) ELSE bus)
      /\ UNCHANGED <<client, ready, c, mounts, mounted, published>>
  BY DEF Deliver
<1>2. /\ down[s] \in Seq(Position) /\ bus \in [pos : 0..MaxPos, people : 0..MaxPos]
      /\ down'[s] = Tail(down[s]) /\ \A r \in Sockets : r # s => down'[r] = down[r]
  BY <1>1 DEF TypeOK
<1>3. bus.pos \in Nat /\ published \in Nat
  BY Numbers
<1>4. /\ ready[s] \in {"open", "closing"}
      /\ \A r \in Sockets : (Delivers(r)' <=> Delivers(r)) /\ (Heard(r)' <=> Heard(r))
      /\ OneVoice' <=> OneVoice
  BY <1>1 DEF Delivers, Heard, OneVoice
<1>5. \A r \in Sockets : ready'[r] \in {"none", "connecting"} => down'[r] = <<>>
  BY <1>1, <1>2, <1>4 DEF OrderInv
<1>6. NativeInv'
  BY <1>1 DEF OrderInv, NativeInv
<1>7. ASSUME OneVoice, Heard(s)
      PROVE  /\ bus'.pos <= published /\ bus'.pos >= bus.pos
             /\ \A r \in Sockets : Delivers(r) /\ Heard(r) => InOrder(down'[r], bus'.pos, published)
  <2>1. bus.pos <= published /\ InOrder(down[s], bus.pos, published)
    BY <1>1, <1>7, OrderIs
  <2>2. /\ InOrder(Tail(down[s]), Head(down[s]).pos, published)
        /\ Head(down[s]).pos \in bus.pos..published
    BY <1>1, <1>2, <1>3, <2>1, TakenInOrder
  <2>3. bus'.pos = Head(down[s]).pos
    BY <1>1, <1>2, <1>7, AppliedType, DownTypes
  <2>4. \A r \in Sockets : Delivers(r) /\ Heard(r) => r = s
    BY <1>1, <1>7, OneSpeaker DEF OrderInv
  <2>. QED  BY <1>2, <1>3, <2>2, <2>3, <2>4
<1>8. ASSUME OneVoice, ~Heard(s)
      PROVE  /\ bus'.pos <= published /\ bus'.pos >= bus.pos
             /\ \A r \in Sockets : Delivers(r) /\ Heard(r) => InOrder(down'[r], bus'.pos, published)
  <2>1. bus' = bus /\ bus.pos <= published
    BY <1>1, <1>8, OrderIs
  <2>2. \A r \in Sockets : Heard(r) => down'[r] = down[r]
    BY <1>2, <1>8
  <2>. QED  BY <1>3, <1>8, <2>1, <2>2, OrderIs
<1>. QED  BY <1>1, <1>4, <1>5, <1>6, <1>7, <1>8, OrderIs DEF OrderInv, InOrder

LEMMA OrderPublish ==
  ASSUME TypeOK, OrderInv, SocketInv, NEW full \in BOOLEAN, Publish(full)
  PROVE  OrderInv'
<1>. DEFINE to == {s \in Sockets : BusRoute \in hub[s]}
            m  == [pos |-> published', full |-> full]
<1>1. /\ published' = published + 1 /\ published < MaxPos
      /\ down' = [s \in Sockets |-> IF s \in to THEN Append(down[s], m) ELSE down[s]]
      /\ UNCHANGED <<client, ready, c, mounts, mounted, bus>>
  BY DEF Publish
<1>2. m \in Position /\ m.pos = published + 1 /\ bus.pos \in Nat /\ published \in Nat
  BY <1>1, Bounds, Numbers DEF Position
<1>3. \A s \in to : s \in Sockets /\ ready[s] \notin {"none", "connecting"}
  BY DEF SocketInv
<1>. HIDE DEF to, m
<1>4. \A s \in Sockets : ready[s] \in {"none", "connecting"} => down'[s] = <<>>
  BY <1>1, <1>3 DEF OrderInv
<1>5. ASSUME OneVoice PROVE bus.pos <= published
  BY <1>5 DEF OrderInv
<1>6. ASSUME OneVoice, NEW s \in Sockets, Delivers(s), Heard(s)
      PROVE  InOrder(down'[s], bus.pos, published + 1)
  <2>1. down[s] \in Seq(Position) /\ InOrder(down[s], bus.pos, published) /\ bus.pos <= published
    BY <1>6, OrderIs DEF TypeOK
  <2>2. InOrder(Append(down[s], m), bus.pos, published + 1) /\ InOrder(down[s], bus.pos, published + 1)
    BY <1>2, <2>1, AppendedInOrder
  <2>. QED  BY <1>1, <2>2
<1>7. OneVoice => bus.pos <= published + 1
  BY <1>2, <1>5
<1>8. /\ \A s \in Sockets : (Delivers(s)' <=> Delivers(s)) /\ (Heard(s)' <=> Heard(s))
      /\ OneVoice' <=> OneVoice
      /\ NativeInv'
  BY <1>1 DEF Delivers, Heard, OneVoice, OrderInv, NativeInv
<1>. QED  BY <1>1, <1>4, <1>6, <1>7, <1>8 DEF OrderInv, InOrder

LEMMA OrderFires == ASSUME TypeOK, OrderInv, NativeInv', NEW t \in Timers, Fires(t) PROVE OrderInv'
<1>. DEFINE k == [c EXCEPT !.timers = @ \ {t}, !.handle = IF @ = t THEN None ELSE @]
<1>1. k \in Fields /\ k.timers = c.timers \ {t} /\ k.cur = c.cur
  BY DEF TypeOK, Fields
<1>2. Connect(k) /\ UNCHANGED <<client, down, bus, mounts, published>>
  BY DEF Fires
<1>. HIDE DEF k
<1>3. client # "web" => Single(k.timers)
  BY <1>1 DEF TypeOK, Single
<1>. QED  BY <1>1, <1>2, <1>3, OrderOfConnect

LEMMA OrderMount == ASSUME TypeOK, OrderInv, NativeInv', Mount PROVE OrderInv'
<1>. DEFINE k == IF client = "phone" THEN Follows(Fresh, Default)
                 ELSE [Follows(c, c.subs \union Default) EXCEPT !.status = "connecting"]
<1>1. /\ Connect(k) /\ bus' = Unknown /\ UNCHANGED <<client, down, published>>
      /\ client \in {"phone", "web"} /\ mounts' = mounts + 1
  BY DEF Mount
<1>2. k \in Fields /\ (client = "phone" => k.timers = {}) /\ k.cur \in {c.cur, None}
  BY FreshType, LiveSocketsAssumption DEF Follows, TypeOK, Fields, Statuses
<1>. HIDE DEF k
<1>3. client # "web" => Single(k.timers)
  BY <1>1, <1>2, FreshType
<1>4. mounts' # 0
  BY <1>1, Numbers
<1>. QED  BY <1>1, <1>2, <1>3, <1>4, OrderOfConnect

LEMMA OrderNative ==
  ASSUME TypeOK, OrderInv, NativeInv',
         \/ NativeConnect \/ NativeDisconnect \/ GoesOffline \/ BackOnline
         \/ \E r \in Routes : NativeSubscribe(r) \/ NativeUnsubscribe(r)
  PROVE  OrderInv' /\ bus' = bus
<1>1. UNCHANGED <<client, down, published, bus>> /\ (mounts' = mounts \/ mounts' = mounts + 1)
  BY DEF NativeConnect, NativeDisconnect, GoesOffline, BackOnline, NativeSubscribe,
         NativeUnsubscribe
<1>2. client = "native"
  BY DEF NativeConnect, NativeDisconnect, GoesOffline, BackOnline, NativeSubscribe,
         NativeUnsubscribe
<1>3. c \in Fields /\ Single(c.timers)
  BY <1>2 DEF TypeOK, Single
<1>4. mounts' = 0 => mounts = 0
  BY <1>1, Numbers
<1>5. CASE ready' = ready
  BY <1>1, <1>2, <1>4, <1>5, OrderKept
<1>6. CASE ready' = Hung(c)
  <2>1. \A s \in Sockets : ready'[s] = ready[s] \/ (ready'[s] = "closing" /\ Alive(s))
    BY <1>6, HungType
  <2>2. \A s \in Sockets : Alive(s) => ready[s] = "open" \/ down[s] = <<>>
    BY DEF Alive, OrderInv
  <2>. QED  BY <1>1, <1>2, <1>4, <2>1, <2>2, OrderKept
<1>7. ASSUME NEW k \in Fields, Connect(k), k.timers = c.timers, k.cur = c.cur PROVE OrderInv'
  BY <1>1, <1>3, <1>4, <1>7, OrderOfConnect
<1>8. \/ ready' = ready \/ ready' = Hung(c) \/ Connect(c)
      \/ Connect([c EXCEPT !.online = TRUE, !.retried = FALSE])
  BY DEF NativeConnect, NativeDisconnect, GoesOffline, BackOnline, NativeSubscribe,
         NativeUnsubscribe
<1>. DEFINE k == [c EXCEPT !.online = TRUE, !.retried = FALSE]
<1>9. k \in Fields /\ k.timers = c.timers /\ k.cur = c.cur
  BY <1>3 DEF Fields
<1>. HIDE DEF k
<1>10. ready' = ready \/ ready' = Hung(c) \/ Connect(c) \/ Connect(k)
  BY <1>8 DEF k
<1>. QED  BY <1>1, <1>3, <1>5, <1>6, <1>7, <1>9, <1>10

\* Before the network is first lost the native client hangs up for good.
LEMMA NativeKeeps ==
  ASSUME TypeOK, NativeInv, UNCHANGED client, mounts' = 0 => mounts = 0,
         c'.intentional = c.intentional,
         \A s \in Sockets : ready'[s] # "none" => ready[s] # "none",
         \A s \in Sockets : ready'[s] = "closing" => ready[s] = "closing"
  PROVE  NativeInv'
BY DEF NativeInv

LEMMA NativeDialled ==
  ASSUME TypeOK, NativeInv, client = "native", UNCHANGED client, mounts' = mounts,
         NEW k \in Fields, Connect(k), k.intentional = c.intentional, Single(k.timers)
  PROVE  NativeInv'
<1>1. CASE ~Dials(k)
  <2>1. c' = k /\ ready' = ready
    BY <1>1 DEF Connect
  <2>. QED  BY <2>1, NativeKeeps
<1>2. CASE Dials(k)
  <2>1. ~c.intentional
    BY <1>2 DEF Dials, NativeDials
  <2>2. \A s \in Sockets : ready'[s] = "closing" => ready[s] = "closing"
    BY OrderConnect
  <2>. QED  BY <2>1, <2>2 DEF NativeInv
<1>. QED  BY <1>1, <1>2

LEMMA NativeHangsUp ==
  ASSUME TypeOK, Sound, NativeInv, NativeDisconnect
  PROVE  NativeInv'
<1>1. /\ client = "native" /\ client' = client /\ mounts' = mounts /\ ready' = Hung(c)
      /\ c' = NativeDisconnects(c)
  BY DEF NativeDisconnect
<1>2. c'.intentional
  BY <1>1 DEF NativeDisconnects, TypeOK, Fields
<1>3. \A s \in Sockets : ready'[s] = IF s = c.cur /\ Alive(s) THEN "closing" ELSE ready[s]
  BY <1>1, HungType
<1>4. ASSUME mounts = 0, NEW s \in Sockets, ready'[s] = "closing", NEW t \in Sockets, ready'[t] # "none"
      PROVE  t = s
  <2>1. ready[s] # "none" /\ ready[t] # "none"
    BY <1>3, <1>4 DEF Alive
  <2>2. CASE ready[s] = "closing" \/ ready[t] = "closing"
    BY <1>1, <1>4, <2>1, <2>2 DEF NativeInv
  <2>3. CASE ready[s] # "closing" /\ ready[t] # "closing"
    <3>1. Alive(s) /\ Alive(t)
      BY <2>1, <2>3 DEF TypeOK, Alive
    <3>. QED  BY <1>1, <3>1 DEF Sound, OneSocket
  <2>. QED  BY <2>2, <2>3
<1>. QED  BY <1>1, <1>2, <1>4 DEF NativeInv

LEMMA NativeStep ==
  ASSUME TypeOK, Sound, NativeInv, [Next]_vars PROVE NativeInv'
<1>1. CASE UNCHANGED vars
  BY <1>1 DEF vars, NativeInv
<1>2. ASSUME client # "native", client' = client PROVE NativeInv'
  BY <1>2 DEF NativeInv
<1>3. ASSUME NEW s \in Sockets, Opens(s) PROVE NativeInv'
  <2>1. /\ client' = client /\ mounts' = mounts /\ c' = Opened(c) /\ ready[s] = "connecting"
        /\ ready' = [ready EXCEPT ![s] = "open"]
    BY <1>3 DEF Opens
  <2>2. c'.intentional = c.intentional
    BY <2>1, Kinds DEF Opened, PhoneOpened, WebOpened, NativeOpened, TypeOK, Fields
  <2>. QED  BY <2>1, <2>2, NativeKeeps DEF TypeOK
<1>4. ASSUME NEW s \in Sockets, Closes(s) PROVE NativeInv'
  <2>1. /\ client' = client /\ mounts' = mounts /\ c' = Closed(c, s) /\ c.timers # Timers
        /\ ready' = [ready EXCEPT ![s] = "none"]
    BY <1>4 DEF Closes, Gone
  <2>2. c'.intentional = c.intentional
    BY <2>1, Kinds, ClosedFields DEF TypeOK
  <2>. QED  BY <2>1, <2>2, NativeKeeps DEF TypeOK
<1>5. ASSUME NEW s \in Sockets, Fails(s) PROVE NativeInv'
  BY <1>2, <1>5 DEF Fails, Gone
<1>6. ASSUME NEW s \in Sockets, Deliver(s) PROVE NativeInv'
  BY <1>6 DEF Deliver, NativeInv
<1>7. ASSUME NEW t \in Timers, Fires(t) PROVE NativeInv'
  <2>. DEFINE k == [c EXCEPT !.timers = @ \ {t}, !.handle = IF @ = t THEN None ELSE @]
  <2>1. k \in Fields /\ k.timers = c.timers \ {t} /\ k.intentional = c.intentional
    BY DEF TypeOK, Fields
  <2>2. Connect(k) /\ UNCHANGED <<client, mounts>>
    BY <1>7 DEF Fires
  <2>. HIDE DEF k
  <2>3. client # "web" => Single(k.timers)
    BY <2>1 DEF TypeOK, Single
  <2>. QED  BY <1>2, <2>1, <2>2, <2>3, NativeDialled
<1>8. CASE Mount \/ Unmount \/ RoutesChange \/ Poll
  <2>1. client' = client
    BY <1>8 DEF Mount, Unmount, RoutesChange, Poll
  <2>2. client # "native"
    BY <1>8 DEF Mount, Unmount, RoutesChange, Poll, Sound, SocketInv
  <2>. QED  BY <1>2, <2>1, <2>2
<1>9. ASSUME NEW full \in BOOLEAN, Publish(full) PROVE NativeInv'
  BY <1>9 DEF Publish, NativeInv
<1>10. CASE NativeConnect
  <2>1. client = "native" /\ Connect(c) /\ UNCHANGED <<client, mounts>>
    BY <1>10 DEF NativeConnect
  <2>2. c \in Fields /\ Single(c.timers)
    BY <2>1 DEF TypeOK, Single
  <2>. QED  BY <2>1, <2>2, NativeDialled
<1>11. CASE NativeDisconnect
  BY <1>11, NativeHangsUp
<1>12. CASE GoesOffline
  <2>1. mounts' = mounts + 1
    BY <1>12 DEF GoesOffline
  <2>2. mounts' # 0
    BY <2>1, Numbers
  <2>. QED  BY <2>2 DEF NativeInv
<1>13. CASE BackOnline
  <2>1. client = "native" /\ UNCHANGED <<client, mounts>>
    BY <1>13 DEF BackOnline
  <2>2. c \in Fields /\ Single(c.timers)
    BY <2>1 DEF TypeOK, Single
  <2>. DEFINE k == [c EXCEPT !.online = TRUE, !.retried = FALSE]
  <2>3. k \in Fields /\ k.timers = c.timers /\ k.intentional = c.intentional
    BY <2>2 DEF Fields
  <2>4. Connect(k) \/ (c' = [c EXCEPT !.online = TRUE] /\ ready' = ready)
    BY <1>13 DEF BackOnline
  <2>. HIDE DEF k
  <2>5. CASE Connect(k)
    BY <2>1, <2>2, <2>3, <2>5, NativeDialled
  <2>6. CASE c' = [c EXCEPT !.online = TRUE] /\ ready' = ready
    <3>1. c'.intentional = c.intentional
      BY <2>2, <2>6 DEF Fields
    <3>. QED  BY <2>1, <2>6, <3>1, NativeKeeps
  <2>. QED  BY <2>4, <2>5, <2>6
<1>14. ASSUME NEW r \in Routes, NativeSubscribe(r) \/ NativeUnsubscribe(r) PROVE NativeInv'
  <2>1. UNCHANGED <<client, ready, mounts>> /\ \E routes : c' = Follows(c, routes)
    BY <1>14 DEF NativeSubscribe, NativeUnsubscribe
  <2>2. c'.intentional = c.intentional
    BY <2>1 DEF Follows, TypeOK, Fields
  <2>. QED  BY <2>1, <2>2, NativeKeeps
<1>. QED  BY <1>1, <1>3, <1>4, <1>5, <1>6, <1>7, <1>8, <1>9, <1>10, <1>11, <1>12, <1>13, <1>14
          DEF Next

\* Every step keeps the order, and none but a delivery and a new map change the
\* bus of the screen.
LEMMA OrderStep ==
  ASSUME TypeOK, Sound, OrderInv, [Next]_vars
  PROVE  /\ OrderInv'
         /\ OneVoice /\ mounted' = mounted => bus'.pos >= bus.pos
<1>1. bus.pos \in Nat /\ mounts \in Nat /\ NativeInv' /\ None \notin Sockets
  BY Numbers, NativeStep, LiveSocketsAssumption DEF OrderInv
<1>. DEFINE Goal == OrderInv' /\ (OneVoice /\ mounted' = mounted => bus'.pos >= bus.pos)
<1>2. ASSUME OrderInv', bus' = bus PROVE Goal
  BY <1>1, <1>2
<1>3. ASSUME UNCHANGED <<client, ready, down, published, mounts, bus>>, c'.cur = c.cur
      PROVE  OrderInv' /\ bus' = bus
  BY <1>1, <1>3, OrderKept
<1>4. CASE UNCHANGED vars
  BY <1>2, <1>3, <1>4 DEF vars
<1>5. ASSUME NEW s \in Sockets, Opens(s) PROVE Goal
  <2>1. UNCHANGED <<client, down, published, mounts, bus>> /\ ready[s] = "connecting"
        /\ ready' = [ready EXCEPT ![s] = "open"] /\ c' = Opened(c)
    BY <1>5 DEF Opens
  <2>2. \A r \in Sockets : ready'[r] = ready[r] \/ (r = s /\ ready'[r] = "open" /\ down'[r] = <<>>)
    BY <2>1 DEF TypeOK, OrderInv
  <2>3. c'.cur = c.cur
    BY <2>1, Kinds DEF Opened, PhoneOpened, WebOpened, NativeOpened, TypeOK, Fields
  <2>4. OrderInv'
    BY <1>1, <2>1, <2>2, <2>3, OrderKept
  <2>. QED  BY <1>2, <2>1, <2>4
<1>6. ASSUME NEW s \in Sockets, Closes(s) \/ Fails(s) PROVE Goal
  <2>1. /\ UNCHANGED <<client, published, mounts, bus>> /\ down' = [down EXCEPT ![s] = <<>>]
        /\ ready' = [ready EXCEPT ![s] = "none"] \/ ready' = [Hung(c) EXCEPT ![s] = "none"]
        /\ c' = Closed(c, s) /\ c.timers # Timers
    BY <1>6 DEF Closes, Fails, Gone
  <2>2. \A r \in Sockets : r # s => ready'[r] = ready[r] \/ ready'[r] = Hung(c)[r]
    BY <2>1, HungType DEF TypeOK
  <2>3. \A r \in Sockets : r # s => ready'[r] = ready[r] \/ (ready'[r] = "closing" /\ Alive(r))
    BY <2>2, HungType
  <2>4. down'[s] = <<>> /\ \A r \in Sockets : r # s => down'[r] = down[r]
    BY <2>1 DEF TypeOK
  <2>5. \A r \in Sockets : Alive(r) => ready[r] = "open" \/ down[r] = <<>>
    BY DEF Alive, OrderInv
  <2>6. c'.cur = c.cur \/ c'.cur = None
    BY <2>1, Kinds, ClosedFields DEF TypeOK
  <2>7. OrderInv'
    BY <1>1, <2>1, <2>3, <2>4, <2>5, <2>6, OrderKept
  <2>. QED  BY <1>2, <2>1, <2>7
<1>7. ASSUME NEW s \in Sockets, Deliver(s) PROVE Goal
  BY <1>7, OrderDeliver
<1>8. ASSUME NEW t \in Timers, Fires(t) PROVE Goal
  <2>1. bus' = bus
    BY <1>8 DEF Fires
  <2>2. OrderInv'
    BY <1>1, <1>8, OrderFires
  <2>. QED  BY <1>2, <2>1, <2>2
<1>9. CASE Mount
  <2>1. mounted' = TRUE /\ mounted # TRUE
    BY <1>9 DEF Mount, TypeOK
  <2>2. OrderInv'
    BY <1>1, <1>9, OrderMount
  <2>. QED  BY <2>1, <2>2
<1>10. CASE Unmount
  <2>1. ready' = Hung(c) /\ UNCHANGED <<client, down, mounts, bus, published>>
    BY <1>10 DEF Unmount
  <2>2. c'.cur = None
    <3>1. CASE client = "phone"
      BY <1>10, <3>1 DEF Unmount, PhoneDisconnects, Fresh
    <3>2. CASE client # "phone"
      BY <1>10, <3>2 DEF Unmount, WebDisconnects, TypeOK, Fields
    <3>. QED  BY <3>1, <3>2
  <2>. QED  BY <1>1, <1>2, <2>1, <2>2, OrderOfHung
<1>11. CASE RoutesChange
  <2>1. UNCHANGED <<client, ready, down, mounts, bus, published>> /\ \E routes : c' = Follows(c, routes)
    BY <1>11 DEF RoutesChange
  <2>2. c'.cur = c.cur
    BY <2>1 DEF Follows, TypeOK, Fields
  <2>. QED  BY <1>2, <1>3, <2>1, <2>2
<1>12. CASE Poll
  <2>1. c'.cur = c.cur
    BY <1>12 DEF Poll, TypeOK, Fields
  <2>. QED  BY <1>2, <1>3, <1>12, <2>1 DEF Poll
<1>13. ASSUME NEW full \in BOOLEAN, Publish(full) PROVE Goal
  <2>1. bus' = bus
    BY <1>13 DEF Publish
  <2>2. OrderInv'
    BY <1>13, OrderPublish DEF Sound
  <2>. QED  BY <1>2, <2>1, <2>2
<1>14. CASE \/ NativeConnect \/ NativeDisconnect \/ GoesOffline \/ BackOnline
            \/ \E r \in Routes : NativeSubscribe(r) \/ NativeUnsubscribe(r)
  BY <1>1, <1>2, <1>14, OrderNative
<1>15. ASSUME Next PROVE Goal
  BY <1>5, <1>6, <1>7, <1>8, <1>9, <1>10, <1>11, <1>12, <1>13, <1>14, <1>15 DEF Next
<1>. QED  BY <1>4, <1>15

LEMMA OrderInit == Init => OrderInv
<1>. SUFFICES ASSUME Init PROVE OrderInv
  OBVIOUS
<1>1. bus.pos = 0 /\ published = 0
  BY DEF Init, Unknown
<1>2. \A s \in Sockets : ready[s] = "none" /\ down[s] = <<>>
  BY DEF Init
<1>. QED  BY <1>1, <1>2 DEF OrderInv, NativeInv

-----------------------------------------------------------------------------
LiveInv == TypeOK /\ Sound /\ OrderInv

LEMMA LiveInvariant == Spec => []LiveInv
<1>1. Init => LiveInv
  BY TypeInit, SoundInit, OrderInit DEF LiveInv
<1>2. LiveInv /\ [Next]_vars => LiveInv'
  BY TypeStep, SoundStep, OrderStep DEF LiveInv, Sound
<1>. QED  BY <1>1, <1>2, PTL DEF Spec

\* Whenever the socket of a client is open the server has exactly the routes it
\* means to follow (RealtimeClient.ts:75-79, socketClient.ts:144-152,
\* mobileWebSocketClient.ts:93-97).
THEOREM ServerFollowsTheMap == Spec => []FollowedWhenOpen
<1>1. LiveInv => FollowedWhenOpen
  BY DEF LiveInv, Sound
<1>. QED  BY <1>1, LiveInvariant, PTL

\* The phone draws real positions exactly while its socket is open
\* (useMapBuses.ts:38-47, RealtimeClient.ts:75-98).
THEOREM RealBusesAreReal == Spec => []PhoneStatusIsTrue
<1>1. LiveInv => PhoneStatusIsTrue
  BY DEF LiveInv, Sound
<1>. QED  BY <1>1, LiveInvariant, PTL

\* The phone and the native client never have two live sockets
\* (RealtimeClient.ts:103-112, mobileWebSocketClient.ts:126-150).
THEOREM NoSecondSocket == Spec => []OneSocket
<1>1. LiveInv => OneSocket
  BY DEF LiveInv, Sound
<1>. QED  BY <1>1, LiveInvariant, PTL

\* On the phone's map a bus never goes back, whatever connections come and go and
\* whatever closing sockets still deliver; of the native client the theorem speaks
\* until the network is first reported lost (liveBuses.ts:80-102,
\* useRealtimeBuses.ts:75-80, mobileWebSocketClient.ts:72).
THEOREM BusesNeverGoBack == Spec => NeverBack
<1>1. LiveInv /\ [Next]_vars => [OneVoice /\ mounted' = mounted => bus'.pos >= bus.pos]_vars
  BY OrderStep DEF LiveInv
<1>. QED  BY <1>1, LiveInvariant, PTL DEF Spec, NeverBack

-----------------------------------------------------------------------------
(* The pages *)

(* What the list of a page, its dialog, its loads and its changes satisfy  *)
(* together.                                                               *)
PageInv ==
  /\ PageTypeOK /\ LoadsInv /\ PageJobsInv /\ RouteInv /\ OneOfEach /\ QuietInv /\ FilterIsObeyed

ALoad == LoadsOf("list") \cup LoadsOf("stats")

(* The loads have their types, by what they read.                          *)
LEMMA LoadTypes ==
  ASSUME PageTypeOK
  PROVE  /\ load \in [Loads -> ALoad]
         /\ \A l \in Loads : /\ load[l].what \in {"list", "stats"}
                             /\ load[l].what = "list" => load[l].got \in Tables \cup {Nothing}
                             /\ load[l].what = "stats" => load[l].got \in Nat \cup {Nothing}
<1>1. \A l \in Loads : load[l].what \in {"list", "stats"} /\ load[l] \in LoadsOf(load[l].what)
  BY DEF PageTypeOK
<1>2. \A l \in Loads : load[l] \in ALoad
  BY <1>1 DEF ALoad
<1>3. load \in [Loads -> ALoad]
  BY <1>2 DEF PageTypeOK
<1>4. \A l \in Loads : /\ load[l].what = "list" => load[l].got \in Tables \cup {Nothing}
                       /\ load[l].what = "stats" => load[l].got \in Nat \cup {Nothing}
  BY <1>1 DEF LoadsOf
<1> QED
  BY <1>1, <1>3, <1>4

LEMMA TypedLoads ==
  ASSUME NEW r \in [Loads -> ALoad]
  PROVE  r = [l \in Loads |-> r[l]] /\ \A l \in Loads : r[l].what \in {"list", "stats"} /\ r[l] \in LoadsOf(r[l].what)
BY DEF ALoad, LoadsOf

LEMMA ALoadFields ==
  /\ \A x \in ALoad : /\ x.what = "list" => x.got \in Tables \cup {Nothing}
                      /\ x.what = "stats" => x.got \in Nat \cup {Nothing}
                      /\ x.what \in {"list", "stats"} /\ x.want \in Filters /\ x.of \in Jobs \cup {Nothing}
                      /\ x.pc \in {"idle", "asked", "served", "failed"}
  /\ Idle \in ALoad /\ Idle.pc = "idle" /\ Idle.of = Nothing /\ Idle.got = Nothing
BY WebPagesAssumption DEF ALoad, LoadsOf, Idle

(* What a load becomes.                                                    *)
LEMMA ServedLoad ==
  ASSUME NEW x \in ALoad, NEW a, x.what = "list" => a \in Tables, x.what = "stats" => a \in Nat
  PROVE  LET y == [x EXCEPT !.pc = "served", !.got = a]
         IN  y \in ALoad /\ y.pc = "served" /\ y.what = x.what /\ y.want = x.want /\ y.of = x.of /\ y.got = a
BY DEF ALoad, LoadsOf

LEMMA FailedLoad ==
  ASSUME NEW x \in ALoad
  PROVE  LET y == [x EXCEPT !.pc = "failed"]
         IN  y \in ALoad /\ y.pc = "failed" /\ y.what = x.what /\ y.want = x.want /\ y.of = x.of /\ y.got = x.got
BY DEF ALoad, LoadsOf

(* What a change becomes.                                                  *)
LEMMA ServedJob ==
  ASSUME NEW d \in JobsOf, NEW g \in [id : Ids, row : Row] \cup {Nothing}
  PROVE  LET x == [d EXCEPT !.pc = "served", !.got = g]
         IN  x \in JobsOf /\ x.pc = "served" /\ x.kind = d.kind /\ x.row = d.row /\ x.want = d.want /\ x.got = g
BY DEF JobsOf

LEMMA MovedJob ==
  ASSUME NEW d \in JobsOf, NEW p \in {"served", "failed", "reloading"}
  PROVE  LET x == [d EXCEPT !.pc = p]
         IN  x \in JobsOf /\ x.pc = p /\ x.kind = d.kind /\ x.row = d.row /\ x.want = d.want /\ x.got = d.got
BY DEF JobsOf

LEMMA DoneJob == Done \in JobsOf /\ Done.pc = "idle"
BY DEF Done, JobsOf

(* The states of a page are states.                                        *)
LEMMA PageStates ==
  ASSUME page \in Pages
  PROVE  /\ RowsOf(page) \subseteq Row
         /\ page \in {"buses", "users", "routes"} =>
              /\ \A r \in Row, s \in {"on", "off"} : [r EXCEPT !.state = s] \in Row
              /\ SampleRows \in Tables
         /\ page \in MakesRows => \A r \in Row : [r EXCEPT !.state = FirstState, !.unsent = Nothing] \in Row
         /\ \A r, old \in Row : [r EXCEPT !.unsent = old.unsent] \in Row
         /\ NoRows \in Tables
<1> DEFINE States == UNION {StatesOf(p) : p \in Pages}
<1>1. StatesOf(page) \subseteq States
  OBVIOUS
<1>2. page \in {"buses", "users", "routes"} => {"on", "off"} \subseteq States
  BY <1>1 DEF StatesOf, Complaints
<1>3. page = "mine" => "PENDING" \in States
  BY <1>1 DEF StatesOf, Complaints
<1>4. TextsOf(page) \subseteq Texts \cup {Nothing}
  BY DEF TextsOf
<1>13. UnsentOf(page) \subseteq Texts \cup {Nothing}
  BY DEF UnsentOf
<1> HIDE DEF States
<1>5. Row = [text : Texts \cup {Nothing}, unsent : Texts \cup {Nothing}, state : States]
  BY DEF Row, States
<1>6. RowsOf(page) \subseteq Row
  BY <1>1, <1>4, <1>5, <1>13 DEF RowsOf
<1>7. page \in {"buses", "users", "routes"} => \A r \in Row, s \in {"on", "off"} : [r EXCEPT !.state = s] \in Row
  BY <1>2, <1>5
<1>14. page \in MakesRows => FirstState \in States
  BY <1>2, <1>3 DEF FirstState, MakesRows
<1>8. page \in MakesRows => \A r \in Row : [r EXCEPT !.state = FirstState, !.unsent = Nothing] \in Row
  BY <1>5, <1>14
<1>15. \A r, old \in Row : [r EXCEPT !.unsent = old.unsent] \in Row
  BY <1>5
<1>9. (CHOOSE t \in Texts : TRUE) \in Texts
  BY WebPagesAssumption
<1>10. page \in {"buses", "users", "routes"} => SampleRow \in Row
  BY <1>2, <1>5, <1>9 DEF SampleRow
<1>11. page \in {"buses", "users", "routes"} => SampleRows \in Tables
  BY <1>10 DEF SampleRows, Tables
<1>12. NoRows \in Tables
  BY DEF NoRows, Tables
<1> QED
  BY <1>6, <1>7, <1>8, <1>11, <1>12, <1>15

(* The types that are needed most.                                         *)
LEMMA Types ==
  ASSUME PageInv
  PROVE  /\ rows \in Tables /\ table \in Tables /\ used \subseteq Ids /\ trouble \in BOOLEAN /\ error \in BOOLEAN
         /\ saving \in BOOLEAN /\ deleting \in BOOLEAN /\ page \in Pages /\ filter \in Filters
         /\ \A i \in Ids : rows[i] \in Row \cup {NoRow} /\ table[i] \in Row \cup {NoRow}
         /\ \A i \in Ids : rows[i] # NoRow => i \in used
BY DEF PageInv, PageTypeOK, PageJobsInv, Tables

(* What a request carries of a row.                                        *)
LEMMA CarriedRow ==
  ASSUME NEW x \in Row, NEW y \in Row
  PROVE  /\ Carried(x) \in Row
         /\ [x EXCEPT !.state = y.state] \in Row
         /\ Carried([x EXCEPT !.state = y.state]) = [Carried(x) EXCEPT !.state = y.state]
         /\ [x EXCEPT !.unsent = y.unsent] \in Row
         /\ Carried([x EXCEPT !.unsent = y.unsent]) = Carried(x)
<1>1. [x EXCEPT !.state = y.state] \in Row /\ [x EXCEPT !.unsent = y.unsent] \in Row
  BY DEF Row
<1>2. \A r \in Row : Carried(r) = [r EXCEPT !.unsent = Nothing] /\ [r EXCEPT !.unsent = Nothing] \in Row
  BY WebPagesAssumption DEF Carried, Row
<1>3. /\ [[x EXCEPT !.state = y.state] EXCEPT !.unsent = Nothing] = [[x EXCEPT !.unsent = Nothing] EXCEPT !.state = y.state]
      /\ [[x EXCEPT !.unsent = y.unsent] EXCEPT !.unsent = Nothing] = [x EXCEPT !.unsent = Nothing]
  BY DEF Row
<1> QED
  BY <1>1, <1>2, <1>3

LEMMA PendingIsNat == \A t : Pending(t) \in Nat
<1> SUFFICES ASSUME NEW t PROVE Pending(t) \in Nat
  OBVIOUS
<1>1. IsFiniteSet({i \in Ids : t[i] # NoRow /\ t[i].state = "PENDING"})
  BY FS_Subset, WebPagesAssumption
<1> QED
  BY <1>1, FS_CardinalityType DEF Pending

(* A step that starts no load and ends none.                               *)
LEMMA LoadsStay ==
  ASSUME PageInv, UNCHANGED <<page, filter, load, loading>>, used \subseteq used',
         trouble => trouble',
         \A j \in Jobs : job[j].pc = "reloading" => job'[j].pc = "reloading"
  PROVE  LoadsInv' /\ OneOfEach'
<1>1. LoadsInv'
  <2>1. \A l \in Loads : load[l].of # Nothing => load[l].of \in Jobs
    BY LoadTypes, ALoadFields DEF PageInv
  <2> QED
    BY <2>1 DEF PageInv, LoadsInv, Free, Passes
<1>2. OneOfEach'
  BY DEF PageInv, OneOfEach, Free
<1> QED
  BY <1>1, <1>2

(* Loads are asked for, each slot for one thing the page reads.            *)
Asking(ls) ==
  /\ DOMAIN ls \subseteq Loads
  /\ \A l \in DOMAIN ls : ls[l] \in Reads(page)
  /\ \A l, k \in DOMAIN ls : ls[l] = ls[k] => l = k

LEMMA BothAsk ==
  ASSUME NEW ls \in Both
  PROVE  Asking(ls) /\ {ls[l] : l \in DOMAIN ls} = Reads(page)
BY DEF Both, Asking

LEMMA OneAsks ==
  ASSUME NEW l \in Loads
  PROVE  LET ls == [k \in {l} |-> "list"]
         IN  Asking(ls) /\ DOMAIN ls = {l} /\ {ls[k] : k \in DOMAIN ls} = {"list"}
BY DEF Asking, Reads

(* What asking makes of the slots.                                         *)
LEMMA AskedLoads ==
  ASSUME PageTypeOK, NEW ls, Asking(ls), NEW f \in Filters, NEW by \in Jobs \cup {Nothing}, Asks(ls, f, by)
  PROVE  /\ load' \in [Loads -> ALoad]
         /\ \A l \in Loads : /\ l \in DOMAIN ls => /\ load'[l].pc = "asked" /\ load'[l].what = ls[l]
                                                  /\ load'[l].want = f /\ load'[l].of = by
                                                  /\ load'[l].got = Nothing
                             /\ l \notin DOMAIN ls => load'[l] = load[l]
<1>1. \A l \in DOMAIN ls : ls[l] \in {"list", "stats"}
  BY DEF Asking, Reads
<1> DEFINE new(w) == [Idle EXCEPT !.pc = "asked", !.what = w, !.want = f, !.of = by]
<1>2. \A w \in {"list", "stats"} : /\ new(w) \in ALoad /\ new(w).pc = "asked" /\ new(w).what = w
                                 /\ new(w).want = f /\ new(w).of = by /\ new(w).got = Nothing
  BY DEF ALoad, LoadsOf, Idle
<1>3. load' = [l \in Loads |-> IF l \in DOMAIN ls THEN new(ls[l]) ELSE load[l]]
  BY DEF Asks
<1> HIDE DEF new
<1> QED
  BY <1>1, <1>2, <1>3, LoadTypes

(* Asking for loads keeps what is known of loads.                          *)
LEMMA AsksKeeps ==
  ASSUME PageInv, NEW ls, Asking(ls), NEW f \in Filters, NEW by \in Jobs \cup {Nothing}, Asks(ls, f, by),
         UNCHANGED page, filter' \in Filters, filter' = "ALL" \/ page \in {"replies", "mine"},
         used \subseteq used', trouble => trouble',
         \A j \in Jobs : job[j].pc = "reloading" => job'[j].pc = "reloading",
         by # Nothing => /\ job'[by].pc = "reloading"
                         /\ \A l, k \in DOMAIN ls : l = k
                         /\ \A l \in Loads : load[l].of # by,
         ~trouble' \/ page = "replies" => loading = {} /\ f = filter'
  PROVE  /\ LoadsInv' /\ OneOfEach'
         /\ ~trouble' => \A l \in Loads : load'[l].pc \in {"idle", "asked"}
<1>1. /\ load' \in [Loads -> ALoad]
      /\ \A l \in Loads : /\ l \in DOMAIN ls => /\ load'[l].pc = "asked" /\ load'[l].what = ls[l]
                                               /\ load'[l].want = f /\ load'[l].of = by
                                               /\ load'[l].got = Nothing
                          /\ l \notin DOMAIN ls => load'[l] = load[l]
  BY AskedLoads DEF PageInv
<1>2. loading' = loading \cup {ls[l] : l \in DOMAIN ls} /\ \A l \in DOMAIN ls : Free(l)
  BY DEF Asks
<1>3. \A l \in Loads : load[l].of # Nothing => load[l].of \in Jobs
  BY LoadTypes, ALoadFields DEF PageInv
<1>4. LoadsInv'
  <2>1. loading' \subseteq Reads(page')
    BY <1>2 DEF PageInv, LoadsInv, Asking
  <2>2. ASSUME NEW l \in Loads
        PROVE  /\ Free(l)' => load'[l].of = Nothing
               /\ ~Free(l)' => load'[l].what \in Reads(page')
               /\ load'[l].pc = "served" <=> load'[l].got # Nothing
               /\ load'[l].pc = "served" /\ load'[l].what = "list" =>
                    \A i \in Ids : load'[l].got[i] # NoRow => i \in used' /\ Passes(load'[l].got[i], load'[l].want)
               /\ load'[l].of # Nothing => job'[load'[l].of].pc = "reloading"
    <3>1. CASE l \in DOMAIN ls
      BY <1>1, <3>1 DEF Free, Asking
    <3>2. CASE l \notin DOMAIN ls
      <4>1. load'[l] = load[l]
        BY <1>1, <3>2
      <4> QED
        BY <1>3, <4>1 DEF PageInv, LoadsInv, Free
    <3> QED
      BY <3>1, <3>2
  <2>3. ASSUME NEW l \in Loads, NEW k \in Loads, load'[l].of # Nothing, load'[l].of = load'[k].of
        PROVE  l = k
    BY <1>1, <2>3 DEF PageInv, LoadsInv
  <2> QED
    BY <2>1, <2>2, <2>3 DEF LoadsInv, Passes
<1>5. ASSUME ~trouble' \/ page = "replies"
      PROVE  /\ \A l \in Loads : Free(l)
             /\ \A l \in Loads : ~Free(l)' <=> l \in DOMAIN ls
  <2>1. loading = {} /\ (~trouble \/ page = "replies")
    BY <1>5
  <2>2. \A l \in Loads : Free(l)
    BY <2>1 DEF PageInv, OneOfEach
  <2> QED
    BY <1>1, <2>2 DEF Free
<1>6. OneOfEach'
  <2> SUFFICES ASSUME ~trouble' \/ page' = "replies"
               PROVE  /\ \A l \in Loads : ~Free(l)' => load'[l].what \in loading' /\ load'[l].want = filter'
                      /\ \A l, k \in Loads : ~Free(l)' /\ ~Free(k)' /\ load'[l].what = load'[k].what => l = k
                      /\ \A w \in loading' : \E l \in Loads : ~Free(l)' /\ load'[l].what = w
    BY DEF OneOfEach
  <2> QED
    BY <1>1, <1>2, <1>5 DEF Asking
<1>7. ~trouble' => \A l \in Loads : load'[l].pc \in {"idle", "asked"}
  BY <1>1, <1>5 DEF Free
<1> QED
  BY <1>4, <1>6, <1>7

LEMMA InitPage == PageInit => PageInv
<1> SUFFICES ASSUME PageInit PROVE PageInv
  OBVIOUS
<1>0. /\ page \in Pages /\ used = Present \cup Samples
      /\ rows = IF page \in {"buses", "users"} THEN SampleRows ELSE NoRows
      /\ stats = Nothing /\ filter = "ALL" /\ loading = Reads(page) /\ error = FALSE
      /\ dialog = NoDialog /\ saving = FALSE /\ deleting = FALSE
      /\ job = [j \in Jobs |-> Done] /\ changes = 0 /\ trouble = FALSE
  BY DEF PageInit
<1>1. PICK t \in TextsOf(page), s \in [Present -> StatesOf(page)] :
        table = [i \in Ids |-> IF i \in Present THEN [text |-> t, unsent |-> Nothing, state |-> s[i]] ELSE NoRow]
  BY DEF PageInit
<1>2. page \in Pages /\ \A i \in Present : [text |-> t, unsent |-> Nothing, state |-> s[i]] \in Row
  BY <1>0, <1>1 DEF Row, TextsOf
<1>3. table \in Tables /\ \A i \in Ids : table[i] # NoRow => i \in Present
  BY <1>1, <1>2, WebPagesAssumption DEF Tables
<1>4. /\ \A i \in Ids : rows[i] # NoRow => i \in Samples
      /\ page \in {"buses", "users"} \/ rows = NoRows
  BY <1>0 DEF SampleRows, NoRows
<1>7. rows \in Tables
  BY <1>0, PageStates
<1>8. PICK ls \in Both :
        load = [l \in Loads |-> IF l \in DOMAIN ls
                                THEN [Idle EXCEPT !.pc = "asked", !.what = ls[l]] ELSE Idle]
  BY DEF PageInit
<1>9. Asking(ls) /\ {ls[l] : l \in DOMAIN ls} = Reads(page)
  BY BothAsk
<1>10. \A w \in {"list", "stats"} : LET x == [Idle EXCEPT !.pc = "asked", !.what = w]
       IN  x \in ALoad /\ x.pc = "asked" /\ x.what = w /\ x.want = "ALL" /\ x.of = Nothing /\ x.got = Nothing
  BY WebPagesAssumption DEF ALoad, LoadsOf, Idle
<1>11. \A l \in DOMAIN ls : ls[l] \in {"list", "stats"}
  BY <1>9 DEF Asking, Reads
<1>12. /\ load \in [Loads -> ALoad]
       /\ \A l \in Loads : /\ l \in DOMAIN ls => /\ load[l].pc = "asked" /\ load[l].what = ls[l]
                                                /\ load[l].want = "ALL" /\ load[l].of = Nothing
                                                /\ load[l].got = Nothing
                           /\ l \notin DOMAIN ls => load[l] = Idle
  <2> DEFINE new(w) == [Idle EXCEPT !.pc = "asked", !.what = w]
  <2>1. \A l \in DOMAIN ls : /\ new(ls[l]) \in ALoad /\ new(ls[l]).pc = "asked" /\ new(ls[l]).what = ls[l]
                            /\ new(ls[l]).want = "ALL" /\ new(ls[l]).of = Nothing /\ new(ls[l]).got = Nothing
    BY <1>10, <1>11
  <2>2. load = [l \in Loads |-> IF l \in DOMAIN ls THEN new(ls[l]) ELSE Idle]
    BY <1>8
  <2> HIDE DEF new
  <2> QED
    BY <2>1, <2>2, ALoadFields
<1>13. \A j \in Jobs : job[j] = Done /\ job[j].pc = "idle"
  BY <1>0, DoneJob
<1>14. PageTypeOK
  <2>1. load = [l \in Loads |-> load[l]] /\ \A l \in Loads : load[l].what \in {"list", "stats"} /\ load[l] \in LoadsOf(load[l].what)
    BY <1>12, TypedLoads
  <2>2. job \in [Jobs -> JobsOf]
    BY <1>0, DoneJob
  <2>3. dialog \in [kind : {"none", "form", "remove"}, row : Ids \cup {Nothing}]
    BY <1>0 DEF NoDialog
  <2>4. changes \in 0 .. MaxChanges
    BY <1>0, WebPagesAssumption
  <2>6. filter \in Filters /\ used \subseteq Ids /\ loading \subseteq {"list", "stats"} /\ stats \in Nat \cup {Nothing}
    BY <1>0, WebPagesAssumption DEF Reads
  <2>5. error \in BOOLEAN /\ saving \in BOOLEAN /\ deleting \in BOOLEAN /\ trouble \in BOOLEAN
    BY <1>0
  <2> QED
    BY <1>2, <1>3, <1>7, <2>1, <2>2, <2>3, <2>4, <2>5, <2>6, Zenon DEF PageTypeOK
<1>22. \A l \in Loads : load[l].pc \in {"idle", "asked"} /\ load[l].of = Nothing /\ load[l].got = Nothing
  BY <1>12, ALoadFields
<1>21. \A l \in Loads : Free(l) <=> l \notin DOMAIN ls
  BY <1>12, ALoadFields DEF Free
<1>15. LoadsInv
  <2>1. \A l \in Loads : ~Free(l) => load[l].what \in Reads(page)
    BY <1>9, <1>12, <1>21 DEF Asking
  <2>2. loading \subseteq Reads(page) /\ filter = "ALL"
    BY <1>0
  <2>3. \A l \in Loads : load[l].of = Nothing /\ load[l].got = Nothing /\ load[l].pc # "served"
    BY <1>22
  <2> QED
    BY <2>1, <2>2, <2>3 DEF LoadsInv
<1>16. PageJobsInv
  <2>1. \A j \in Jobs : job[j].row = Nothing /\ ~Running(j)
    BY <1>13 DEF Running, Done
  <2>2. Present \cup Samples \subseteq used /\ \A i \in Ids : table[i] # NoRow \/ rows[i] # NoRow => i \in used
    BY <1>0, <1>3, <1>4
  <2>3. dialog.kind = "none" /\ dialog.row = Nothing
    BY <1>0 DEF NoDialog
  <2> QED
    BY <2>1, <2>2, <2>3 DEF PageJobsInv
<1>17. RouteInv
  BY <1>0, <1>13 DEF RouteInv, Running
<1>18. OneOfEach
  <2>1. \A l \in Loads : ~Free(l) => l \in DOMAIN ls /\ load[l].what = ls[l] /\ load[l].want = "ALL"
    BY <1>12, <1>21
  <2>2. \A w \in Reads(page) : \E l \in DOMAIN ls : ls[l] = w
    BY <1>9
  <2>3. \A w \in loading : \E l \in Loads : ~Free(l) /\ load[l].what = w
    BY <1>0, <1>9, <1>12, <1>21, <2>2 DEF Asking
  <2>4. \A l \in Loads : ~Free(l) => load[l].what \in loading /\ load[l].want = filter
    BY <1>0, <1>9, <2>1 DEF Asking
  <2>5. \A l, k \in Loads : ~Free(l) /\ ~Free(k) /\ load[l].what = load[k].what => l = k
    BY <1>0, <1>9, <2>1 DEF Asking
  <2> QED
    BY <2>3, <2>4, <2>5, Zenon DEF OneOfEach
<1>19. QuietInv
  <2>1. \A l \in Loads : load[l].pc \in {"idle", "asked"}
    BY <1>12, ALoadFields
  <2>2. \A j \in Jobs : ~Asked(j)
    BY <1>0, <1>13 DEF Asked
  <2>3. "list" \in loading /\ (page = "complaints" => "stats" \in loading)
    BY <1>0 DEF Reads
  <2> QED
    BY <1>0, <1>4, <2>1, <2>2, <2>3 DEF QuietInv, StatsAgree, Judged
<1>20. FilterIsObeyed
  BY <1>0 DEF FilterIsObeyed, Reads
<1> QED
  BY <1>14, <1>15, <1>16, <1>17, <1>18, <1>19, <1>20 DEF PageInv
-----------------------------------------------------------------------------
(* The dialogs *)

(* Without trouble, no spinner means no load.                              *)
LEMMA QuietFree ==
  ASSUME PageInv, ~trouble, loading = {}
  PROVE  \A l \in Loads : Free(l)
BY DEF PageInv, OneOfEach

(* What quiet lists satisfy depends on nothing else.                       *)
LEMMA QuietStays ==
  ASSUME QuietInv, UNCHANGED <<page, table, rows, stats, filter, load, loading, job, trouble>>
  PROVE  QuietInv'
<1>1. Judged' = Judged /\ (StatsAgree' <=> StatsAgree) /\ Pending(table)' = Pending(table)
  BY DEF Judged, StatsAgree, Pending
<1>2. \A i \in Judged : Agrees(i)' <=> Agrees(i)
  BY DEF Agrees, Carried, Passes
<1>3. AllAgree' <=> AllAgree
  BY <1>1, <1>2 DEF AllAgree
<1>4. \A j \in Jobs : (Asked(j)' <=> Asked(j)) /\ Target(j)' = Target(j)
  BY DEF Asked, Target
<1>5. \A j \in Jobs : WillAgree(j)' <=> WillAgree(j)
  BY <1>1 DEF WillAgree, Carried
<1> QED
  BY <1>1, <1>2, <1>3, <1>4, <1>5 DEF QuietInv, Passes

(* A dialog is opened or closed, and nothing else happens.                  *)
LEMMA DialogSteps ==
  ASSUME PageInv, NEW d \in [kind : {"none", "form", "remove"}, row : Ids \cup {Nothing}],
         OpensDialog(d),
         d.kind = "form" => page # "replies" /\ (d.row = Nothing => page \in MakesRows),
         d.kind = "remove" => d.row # Nothing /\ page \in {"buses", "routes"},
         page = "mine" => d.row = Nothing,
         error' \in BOOLEAN, page = "replies" => error' = error,
         page = "routes" => dialog = NoDialog \/ (~saving /\ ~deleting)
  PROVE  PageInv'
<1>1. /\ dialog' = d
      /\ UNCHANGED <<page, server, rows, stats, filter, load, loading, saving, deleting, job, changes, trouble>>
      /\ UNCHANGED <<table, used>>
  BY DEF OpensDialog, server
<1>2. PageTypeOK'
  BY <1>1 DEF PageInv, PageTypeOK
<1>3. LoadsInv' /\ OneOfEach'
  BY <1>1, LoadsStay
<1>4. PageJobsInv'
  BY <1>1 DEF PageInv, PageJobsInv, Running
<1>5. RouteInv'
  <2>1. page = "routes" => \A j \in Jobs : Running(j) /\ job[j].kind # "toggle" => job[j].pc = "reloading"
    BY DEF PageInv, PageTypeOK, JobsOf, RouteInv, NoDialog
  <2> QED
    BY <1>1, <2>1 DEF PageInv, RouteInv, Running
<1>6. QuietInv'
  BY <1>1, QuietStays DEF PageInv
<1>7. FilterIsObeyed'
  BY <1>1 DEF PageInv, FilterIsObeyed, Passes
<1> QED
  BY <1>2, <1>3, <1>4, <1>5, <1>6, <1>7 DEF PageInv

LEMMA Dialogs ==
  ASSUME PageInv, OpenNew \/ Cancel \/ \E i \in Ids : OpenForm(i) \/ Ask(i)
  PROVE  PageInv'
<1>1. /\ NoDialog \in [kind : {"none", "form", "remove"}, row : Ids \cup {Nothing}]
      /\ NoDialog.kind = "none" /\ NoDialog.row = Nothing
  BY DEF NoDialog
<1>2. error \in BOOLEAN
  BY DEF PageInv, PageTypeOK
<1>3. CASE OpenNew
  <2> DEFINE d == [NoDialog EXCEPT !.kind = "form"]
  <2>1. d = [kind |-> "form", row |-> Nothing]
    BY DEF NoDialog
  <2>2. OpensDialog(d) /\ error' = (error /\ page # "mine") /\ page \in MakesRows
    BY <1>3 DEF OpenNew, NewBus, NewUser, NewRoute, NewComplaint, MakesRows
  <2>3. page = "routes" => dialog = NoDialog
    BY <1>3 DEF OpenNew, NewBus, NewUser, NewRoute, NewComplaint
  <2> HIDE DEF d
  <2> QED
    BY <1>2, <2>1, <2>2, <2>3, DialogSteps DEF MakesRows
<1>4. CASE Cancel
  <2>1. OpensDialog(NoDialog) /\ error' = (error /\ page # "mine")
    BY <1>4 DEF Cancel
  <2>2. page = "routes" => ~saving /\ ~deleting
    BY <1>4 DEF Cancel, RouteCancel, MineCancel, OtherCancel
  <2> QED
    BY <1>1, <1>2, <2>1, <2>2, DialogSteps
<1>5. ASSUME NEW i \in Ids, OpenForm(i)
      PROVE  PageInv'
  <2> DEFINE d == [kind |-> "form", row |-> i]
  <2>1. OpensDialog(d) /\ dialog = NoDialog /\ page \in {"buses", "complaints", "users", "routes"} /\ UNCHANGED error
    BY <1>5 DEF OpenForm, Button, BusButton, ComplaintButton, UserButton, RouteButton
  <2>2. d.kind = "form" /\ d.row = i /\ i # Nothing /\ d \in [kind : {"none", "form", "remove"}, row : Ids \cup {Nothing}]
    BY WebPagesAssumption
  <2> HIDE DEF d
  <2> QED
    BY <1>2, <2>1, <2>2, DialogSteps
<1>6. ASSUME NEW i \in Ids, Ask(i)
      PROVE  PageInv'
  <2> DEFINE d == [kind |-> "remove", row |-> i]
  <2>1. OpensDialog(d) /\ dialog = NoDialog /\ page \in {"buses", "routes"} /\ UNCHANGED error
    BY <1>6 DEF Ask, Button, BusButton, ComplaintButton, UserButton, RouteButton
  <2>2. d.kind = "remove" /\ d.row = i /\ i # Nothing /\ d \in [kind : {"none", "form", "remove"}, row : Ids \cup {Nothing}]
    BY WebPagesAssumption
  <2> HIDE DEF d
  <2> QED
    BY <1>2, <2>1, <2>2, DialogSteps
<1> QED
  BY <1>3, <1>4, <1>5, <1>6
-----------------------------------------------------------------------------
(* Changes begin *)

(* A change is sent.                                                       *)
LEMMA JobStarts ==
  ASSUME PageInv, NEW j \in Jobs, NEW kind \in {"save", "toggle", "remove"},
         NEW i \in Ids \cup {Nothing}, NEW want \in Row \cup {NoRow}, Starts(j, kind, i, want),
         page # "replies", kind # "remove" => want \in Row,
         kind = "remove" => page \in {"buses", "routes"},
         kind = "toggle" => page \in {"users", "routes"},
         i = Nothing => kind = "save" /\ page \in MakesRows, page = "mine" => i = Nothing,
         dialog' \in {dialog, NoDialog}, page = "routes" => dialog' = dialog,
         error' \in BOOLEAN, saving' \in BOOLEAN, deleting' \in BOOLEAN,
         page = "routes" /\ kind = "save" => /\ ~saving /\ saving' /\ deleting' = deleting
                                             /\ dialog.kind = "form" /\ dialog.row = i,
         page = "routes" /\ kind = "remove" => /\ ~deleting /\ deleting' /\ saving' = saving
                                               /\ dialog.kind = "remove" /\ dialog.row = i,
         page = "routes" /\ kind = "toggle" => UNCHANGED <<saving, deleting>>
  PROVE  PageInv'
<1> DEFINE d == [pc |-> "sent", kind |-> kind, row |-> i, want |-> want, got |-> Nothing]
<1>1. /\ changes < MaxChanges /\ changes' = changes + 1
      /\ job' = [job EXCEPT ![j] = d] /\ ~Running(j)
      /\ trouble' = (trouble \/ loading # {} \/ (\E k \in Jobs : Running(k)) \/ i \in Samples)
      /\ UNCHANGED <<page, table, used, rows, stats, filter, load, loading>>
  BY DEF Starts, FirstJob, server
<1>2. d \in JobsOf /\ d.pc = "sent" /\ d.kind = kind /\ d.row = i /\ d.want = want
  BY DEF JobsOf
<1> HIDE DEF d
<1>3. job \in [Jobs -> JobsOf]
  BY DEF PageInv, PageTypeOK
<1>4. \A k \in Jobs : job'[k] = IF k = j THEN d ELSE job[k]
  BY <1>1, <1>3
<1>5. job[j].pc = "idle"
  BY <1>1 DEF Running
<1>6. PageTypeOK'
  <2>1. changes' \in 0 .. MaxChanges
    BY <1>1, WebPagesAssumption DEF PageInv, PageTypeOK
  <2>2. job' \in [Jobs -> JobsOf]
    BY <1>1, <1>2, <1>3
  <2>3. dialog' \in [kind : {"none", "form", "remove"}, row : Ids \cup {Nothing}]
    BY DEF PageInv, PageTypeOK, NoDialog
  <2>4. trouble' \in BOOLEAN
    BY <1>1
  <2> QED
    BY <1>1, <2>1, <2>2, <2>3, <2>4 DEF PageInv, PageTypeOK
<1>7. LoadsInv' /\ OneOfEach'
  <2>1. \A k \in Jobs : job[k].pc = "reloading" => job'[k].pc = "reloading"
    BY <1>4, <1>5
  <2> QED
    BY <1>1, <2>1, LoadsStay
<1>8. PageJobsInv'
  <2>1. \A k \in Jobs : k # j => job'[k] = job[k] /\ (Running(k)' <=> Running(k))
    BY <1>4 DEF Running
  <2>2. job'[j] = d
    BY <1>4
  <2>3. /\ dialog'.kind = "form" => page # "replies" /\ (dialog'.row = Nothing => page \in MakesRows)
        /\ dialog'.kind = "remove" => dialog'.row # Nothing /\ page \in {"buses", "routes"}
    BY DEF PageInv, PageJobsInv, NoDialog
  <2>4. Present \cup Samples \subseteq used' /\ \A k \in Ids : table'[k] # NoRow \/ rows'[k] # NoRow => k \in used'
    BY <1>1 DEF PageInv, PageJobsInv
  <2>5. page = "mine" => dialog'.row = Nothing /\ \A k \in Jobs : job'[k].row = Nothing
    BY <1>2, <1>4 DEF PageInv, PageJobsInv, NoDialog
  <2>6. ASSUME NEW k \in Jobs, Running(k)'
        PROVE  /\ page # "replies"
               /\ job'[k].kind # "remove" => job'[k].want \in Row
               /\ job'[k].kind = "remove" => page \in {"buses", "routes"}
               /\ job'[k].kind = "toggle" => page \in {"users", "routes"}
               /\ job'[k].row = Nothing => job'[k].kind = "save" /\ page \in MakesRows
               /\ job'[k].pc = "served" /\ job'[k].row = Nothing => job'[k].got # Nothing /\ job'[k].got.id \in used \ (Present \cup Samples)
               /\ job'[k].pc = "reloading" => \E l \in Loads : load[l].of = k
    <3>1. CASE k = j
      BY <1>2, <2>2, <3>1
    <3>2. CASE k # j
      BY <2>1, <2>6, <3>2 DEF PageInv, PageJobsInv
    <3> QED
      BY <3>1, <3>2
  <2> QED
    BY <1>1, <2>3, <2>4, <2>5, <2>6 DEF PageJobsInv
<1>9. RouteInv'
  BY <1>1, <1>2, <1>4 DEF PageInv, RouteInv, Running
<1>10. QuietInv'
  <2> SUFFICES ASSUME ~trouble' PROVE QuietInv'
    BY DEF QuietInv, Judged
  <2>1. ~trouble /\ loading = {} /\ (\A k \in Jobs : ~Running(k)) /\ i \notin Samples
    BY <1>1
  <2>2. \A k \in Jobs : ~Asked(k) /\ (Asked(k)' <=> k = j)
    BY <1>2, <1>4, <2>1 DEF Asked, Running
  <2>3. AllAgree' /\ StatsAgree'
    BY <1>1, <2>1, <2>2 DEF PageInv, QuietInv, AllAgree, StatsAgree, Agrees, Passes, Pending, Carried, Judged
  <2>4. job'[j] = d
    BY <1>4
  <2>5. \A l \in Loads : Free(l)'
    BY <1>1, <2>1, QuietFree DEF Free
  <2> QED
    BY <1>1, <1>2, <2>1, <2>2, <2>3, <2>4, <2>5 DEF QuietInv, Free, Judged
<1>11. FilterIsObeyed'
  BY <1>1 DEF FilterIsObeyed
<1> QED
  BY <1>6, <1>7, <1>8, <1>9, <1>10, <1>11 DEF PageInv

LEMMA Begins ==
  ASSUME PageInv, NEW j \in Jobs,
         \/ Confirm(j)
         \/ \E want \in Row : Submit(j, want) \/ SubmitUser(j, want)
         \/ \E i \in Ids : Toggle(j, i)
  PROVE  PageInv'
<1>1. /\ dialog.row \in Ids \cup {Nothing} /\ error \in BOOLEAN /\ saving \in BOOLEAN /\ deleting \in BOOLEAN
      /\ rows \in Tables /\ page \in Pages
  BY DEF PageInv, PageTypeOK
<1>2. /\ dialog.kind = "form" => page # "replies" /\ (dialog.row = Nothing => page \in MakesRows)
      /\ dialog.kind = "remove" => dialog.row # Nothing /\ page \in {"buses", "routes"}
      /\ page = "mine" => dialog.row = Nothing
  BY DEF PageInv, PageJobsInv
<1>3. CASE Confirm(j)
  <2>1. /\ Starts(j, "remove", dialog.row, NoRow) /\ dialog.kind = "remove" /\ UNCHANGED <<dialog, saving>>
        /\ deleting' = (page = "routes") /\ error' = (error /\ page # "routes")
        /\ page = "routes" => ~deleting
    BY <1>3 DEF Confirm, BusQuestion, RouteQuestion
  <2> QED
    BY <1>1, <1>2, <2>1, JobStarts
<1>4. ASSUME NEW want \in Row, Submit(j, want)
      PROVE  PageInv'
  <2>1. /\ Starts(j, "save", dialog.row, want) /\ dialog.kind = "form" /\ ~saving /\ saving' = TRUE
        /\ error' = (error /\ page \notin {"routes", "mine"}) /\ UNCHANGED <<dialog, deleting>>
    BY <1>4 DEF Submit
  <2> QED
    BY <1>1, <1>2, <2>1, JobStarts
<1>5. ASSUME NEW want \in Row, SubmitUser(j, want)
      PROVE  PageInv'
  <2>1. /\ Starts(j, "save", dialog.row, want) /\ dialog.kind = "form" /\ page = "users" /\ dialog' = NoDialog
        /\ UNCHANGED <<error, saving, deleting>>
    BY <1>5 DEF SubmitUser, UserForm
  <2> QED
    BY <1>1, <1>2, <2>1, JobStarts
<1>6. ASSUME NEW i \in Ids, Toggle(j, i)
      PROVE  PageInv'
  <2> DEFINE want == [rows[i] EXCEPT !.state = IF @ = "on" THEN "off" ELSE "on"]
  <2>1. /\ Starts(j, "toggle", i, want) /\ UNCHANGED modal /\ error' = (error /\ page # "routes")
        /\ rows[i] # NoRow /\ page \in {"users", "routes"}
    BY <1>6 DEF Toggle, Button, BusButton, ComplaintButton, UserButton, RouteButton
  <2>2. rows[i] \in Row /\ i # Nothing
    BY <1>1, <2>1, WebPagesAssumption DEF Tables
  <2>3. want \in Row
    BY <1>1, <2>1, <2>2, PageStates
  <2> HIDE DEF want
  <2> QED
    BY <1>1, <2>1, <2>2, <2>3, JobStarts DEF modal
<1> QED
  BY <1>3, <1>4, <1>5, <1>6
-----------------------------------------------------------------------------
(* The server *)

(* One change becomes another that is still under way.                     *)
LEMMA JobMoves ==
  ASSUME PageInv, NEW j \in Jobs, job[j].pc \in {"sent", "served"},
         NEW d \in JobsOf, job' \in [Jobs -> JobsOf], \A k \in Jobs : job'[k] = IF k = j THEN d ELSE job[k],
         d.pc \in {"served", "failed"}, d.kind = job[j].kind, d.row = job[j].row, d.want = job[j].want,
         d.pc = "served" /\ d.row = Nothing => d.got # Nothing /\ d.got.id \in used' \ (Present \cup Samples),
         UNCHANGED <<page, rows, stats, filter, load, loading, error, dialog, saving, deleting, changes>>,
         table' \in Tables, used \subseteq used', used' \subseteq Ids, trouble' \in BOOLEAN, trouble => trouble',
         \A i \in Ids : table'[i] # NoRow => i \in used' \/ table[i] # NoRow
  PROVE  /\ PageTypeOK' /\ LoadsInv' /\ PageJobsInv' /\ RouteInv' /\ OneOfEach' /\ FilterIsObeyed'
<1>2. \A k \in Jobs : job'[k] = IF k = j THEN d ELSE job[k]
  OBVIOUS
<1>3. /\ \A k \in Jobs : k # j => job'[k] = job[k] /\ (Running(k)' <=> Running(k))
      /\ job'[j] = d /\ Running(j) /\ Running(j)'
  BY <1>2 DEF Running
<1>4. PageTypeOK'
  BY DEF PageInv, PageTypeOK
<1>5. LoadsInv' /\ OneOfEach'
  <2>1. \A k \in Jobs : job[k].pc = "reloading" => job'[k].pc = "reloading"
    BY <1>2
  <2> QED
    BY <2>1, LoadsStay
<1>6. PageJobsInv'
  <2>1. \A i \in Ids : table'[i] # NoRow \/ rows'[i] # NoRow => i \in used'
    BY DEF PageInv, PageJobsInv
  <2>2. ASSUME NEW k \in Jobs, Running(k)'
        PROVE  /\ page # "replies"
               /\ job'[k].kind # "remove" => job'[k].want \in Row
               /\ job'[k].kind = "remove" => page \in {"buses", "routes"}
               /\ job'[k].kind = "toggle" => page \in {"users", "routes"}
               /\ job'[k].row = Nothing => job'[k].kind = "save" /\ page \in MakesRows
               /\ job'[k].pc = "served" /\ job'[k].row = Nothing => job'[k].got # Nothing /\ job'[k].got.id \in used' \ (Present \cup Samples)
               /\ job'[k].pc = "reloading" => \E l \in Loads : load[l].of = k
    BY <1>3, <2>2 DEF PageInv, PageJobsInv
  <2> QED
    BY <2>1, <2>2 DEF PageInv, PageJobsInv
<1>7. RouteInv'
  BY <1>3 DEF PageInv, RouteInv
<1>8. FilterIsObeyed'
  BY DEF PageInv, FilterIsObeyed, Passes
<1> QED
  BY <1>4, <1>5, <1>6, <1>7, <1>8

LEMMA Creates ==
  ASSUME PageInv, NEW j \in Jobs, job[j].pc = "sent", job[j].kind = "save", job[j].row = Nothing,
         NEW i \in Ids, i \notin used, NEW new \in Row,
         NEW d \in JobsOf, d.pc = "served", d.kind = job[j].kind, d.row = job[j].row, d.want = job[j].want,
         d.got # Nothing, d.got.id = i, d.got.row = new,
         job' = [job EXCEPT ![j] = d], table' = [table EXCEPT ![i] = new], used' = used \cup {i},
         UNCHANGED <<page, rows, stats, filter, load, loading, error, dialog, saving, deleting, changes, trouble>>
  PROVE  PageInv'
<1>1. job \in [Jobs -> JobsOf] /\ page \in Pages /\ table \in Tables /\ used \subseteq Ids /\ trouble \in BOOLEAN
  BY DEF PageInv, PageTypeOK
<1>2. job' \in [Jobs -> JobsOf] /\ \A k \in Jobs : job'[k] = IF k = j THEN d ELSE job[k]
  BY <1>1
<1>3. table' \in Tables /\ \A k \in Ids : table'[k] = IF k = i THEN new ELSE table[k]
  BY <1>1 DEF Tables
<1>4. \A k \in Ids : table'[k] # NoRow => k \in used' \/ table[k] # NoRow
  BY <1>3
<1>7. i \in used' \ (Present \cup Samples)
  BY DEF PageInv, PageJobsInv
<1>5. /\ PageTypeOK' /\ LoadsInv' /\ PageJobsInv' /\ RouteInv' /\ OneOfEach' /\ FilterIsObeyed'
  BY <1>1, <1>2, <1>3, <1>4, <1>7, JobMoves
<1>6. QuietInv'
  <2> SUFFICES ASSUME ~trouble' PROVE QuietInv'
    BY DEF QuietInv, Judged
  <2>1. ~trouble /\ Asked(j)
    BY DEF Asked
  <2>2. \A k \in Jobs : Asked(k) <=> k = j
    BY <2>1 DEF PageInv, QuietInv, Judged
  <2>3. \A k \in Jobs : Asked(k)' <=> k = j
    BY <1>2, <2>2 DEF Asked
  <2>4. loading = {} /\ AllAgree /\ StatsAgree
    BY <2>1 DEF PageInv, QuietInv, Judged
  <2>5. \A l \in Loads : load'[l].pc = "idle"
    BY <2>1, <2>4, QuietFree DEF Free
  <2>6. job'[j] = d
    BY <1>2
  <2>7. WillAgree(j)' /\ Target(j)' = i
    BY <1>3, <2>6 DEF WillAgree, Target, Carried
  <2>8. \A k \in Judged : k # i => Agrees(k)'
    BY <1>3, <2>4 DEF AllAgree, Agrees, Passes, Carried, Judged
  <2>9. d.row \notin Samples
    BY WebPagesAssumption
  <2> QED
    BY <2>3, <2>4, <2>5, <2>6, <2>7, <2>8, <2>9 DEF QuietInv, Judged
<1> QED
  BY <1>5, <1>6 DEF PageInv

LEMMA Creating ==
  ASSUME PageInv, NEW j \in Jobs, Create(j)
  PROVE  PageInv'
<1>1. /\ job[j].pc = "sent" /\ job[j].kind = "save" /\ job[j].row = Nothing
      /\ UNCHANGED <<page, rows, stats, filter, load, loading, error, dialog, saving, deleting, changes, trouble>>
  BY DEF Create, list, modal
<1>2. PICK i \in Ids :
        /\ FirstId(i)
        /\ table' = [table EXCEPT ![i] = Created(job[j])]
        /\ used' = used \cup {i}
        /\ job' = [job EXCEPT ![j] = [job[j] EXCEPT !.pc = "served", !.got = [id |-> i, row |-> Created(job[j])]]]
  BY DEF Create
<1>3. job[j] \in JobsOf /\ page \in Pages
  BY DEF PageInv, PageTypeOK
<1>4. page \in MakesRows /\ job[j].want \in Row
  BY <1>1 DEF PageInv, PageJobsInv, Running
<1>5. PICK new \in Row : new = Created(job[j])
  BY <1>3, <1>4, PageStates DEF Created
<1>6. PICK g \in [id : Ids, row : Row] : g = [id |-> i, row |-> new] /\ g # Nothing /\ g.id = i /\ g.row = new
  <2>1. \A g \in [id : Ids, row : Row] : g # Nothing
    BY WebPagesAssumption
  <2>2. [id |-> i, row |-> new] \in [id : Ids, row : Row]
    OBVIOUS
  <2> QED
    BY <2>1, <2>2
<1>7. PICK d \in JobsOf : /\ d = [job[j] EXCEPT !.pc = "served", !.got = g]
                         /\ d.pc = "served" /\ d.kind = job[j].kind /\ d.row = job[j].row
                         /\ d.want = job[j].want /\ d.got = g
  <2> DEFINE x == [job[j] EXCEPT !.pc = "served", !.got = g]
  <2>1. x \in JobsOf /\ x.pc = "served" /\ x.kind = job[j].kind /\ x.row = job[j].row
        /\ x.want = job[j].want /\ x.got = g
    BY <1>3 DEF JobsOf
  <2> HIDE DEF x
  <2>2. \E d \in JobsOf : /\ d = x
                         /\ d.pc = "served" /\ d.kind = job[j].kind /\ d.row = job[j].row
                         /\ d.want = job[j].want /\ d.got = g
    BY <2>1
  <2> QED
    BY <2>2 DEF x
<1>8. job' = [job EXCEPT ![j] = d]
  BY <1>2, <1>5, <1>6, <1>7
<1>9. i \notin used /\ table' = [table EXCEPT ![i] = new] /\ used' = used \cup {i}
  BY <1>2, <1>5 DEF FirstId
<1> QED
  BY <1>1, <1>6, <1>7, <1>8, <1>9, Creates, ZenonT(30)

LEMMA Serves ==
  ASSUME PageInv, NEW j \in Jobs, job[j].pc = "sent", job[j].row # Nothing, table[job[j].row] # NoRow,
         NEW new \in Row \cup {NoRow}, new = After(job[j], table[job[j].row]),
         NEW d \in JobsOf, d.pc = "served", d.kind = job[j].kind, d.row = job[j].row, d.want = job[j].want,
         job' = [job EXCEPT ![j] = d], table' = [table EXCEPT ![job[j].row] = new], UNCHANGED used,
         UNCHANGED <<page, rows, stats, filter, load, loading, error, dialog, saving, deleting, changes, trouble>>
  PROVE  PageInv'
<1>1. /\ job \in [Jobs -> JobsOf] /\ page \in Pages /\ table \in Tables /\ used \subseteq Ids /\ trouble \in BOOLEAN
      /\ job[j].row \in Ids
  BY DEF PageInv, PageTypeOK, JobsOf
<1>2. job' \in [Jobs -> JobsOf] /\ \A k \in Jobs : job'[k] = IF k = j THEN d ELSE job[k]
  BY <1>1
<1>3. table' \in Tables /\ \A k \in Ids : table'[k] = IF k = d.row THEN new ELSE table[k]
  BY <1>1 DEF Tables
<1>4. \A k \in Ids : table'[k] # NoRow => k \in used' \/ table[k] # NoRow
  BY <1>3
<1>5. PageTypeOK' /\ LoadsInv' /\ PageJobsInv' /\ RouteInv' /\ OneOfEach' /\ FilterIsObeyed'
  BY <1>1, <1>2, <1>3, <1>4, JobMoves
<1>6. QuietInv'
  <2> SUFFICES ASSUME ~trouble' PROVE QuietInv'
    BY DEF QuietInv, Judged
  <2>1. ~trouble /\ Asked(j)
    BY DEF Asked
  <2>2. \A k \in Jobs : Asked(k) <=> k = j
    BY <2>1 DEF PageInv, QuietInv, Judged
  <2>3. \A k \in Jobs : Asked(k)' <=> k = j
    BY <1>2, <2>2 DEF Asked
  <2>4. loading = {} /\ AllAgree /\ d.row \notin Samples
    BY <2>1 DEF PageInv, QuietInv, Judged
  <2>5. \A l \in Loads : load'[l].pc = "idle"
    BY <2>1, <2>4, QuietFree DEF Free
  <2>6. job'[j] = d
    BY <1>2
  <2>7. Target(j)' = d.row
    BY <2>6 DEF Target
  <2>8. \A k \in Judged : k # d.row => Agrees(k)'
    BY <1>3, <2>4 DEF AllAgree, Agrees, Passes, Carried, Judged
  <2>9. filter = "ALL" /\ d.row \in Judged => rows[d.row] # NoRow /\ Carried(rows[d.row]) = Carried(table[d.row])
    <3>1. d.row \in Judged => Agrees(d.row)
      BY <2>4 DEF AllAgree
    <3>2. table[d.row] \in Row
      BY <1>1 DEF Tables
    <3>3. filter = "ALL" => Passes(table[d.row], filter)
      BY <3>2, WebPagesAssumption DEF Passes
    <3>4. Carried(NoRow) = NoRow /\ Carried(table[d.row]) # NoRow
      BY <3>2, CarriedRow, WebPagesAssumption DEF Carried
    <3> SUFFICES ASSUME filter = "ALL", d.row \in Judged
                 PROVE  rows[d.row] # NoRow /\ Carried(rows[d.row]) = Carried(table[d.row])
      OBVIOUS
    <3>5. Carried(rows[d.row]) = Carried(table[d.row])
      BY <3>1, <3>3 DEF Agrees
    <3> QED
      BY <3>4, <3>5
  <2>10. page = "users" => filter = "ALL"
    BY DEF PageInv, LoadsInv
  <2>11. table'[d.row] = After(job[j], table[d.row])
    BY <1>1, <1>3
  <2>12. WillAgree(j)'
    <3>1. d.kind = "remove" => table'[d.row] = NoRow
      BY <2>11 DEF After
    <3>2. d.row # Nothing
      OBVIOUS
    <3>3. d.kind = "save" => Carried(table'[d.row]) = Carried(d.want)
      <4>1. d.kind = "save" => table'[d.row] = [d.want EXCEPT !.unsent = table[d.row].unsent]
        BY <2>11 DEF After
      <4>2. d.kind = "save" => d.want \in Row
        BY DEF PageInv, PageJobsInv, Running
      <4>3. table[d.row] \in Row
        BY <1>1 DEF Tables
      <4>4. d.kind = "save" => Carried([d.want EXCEPT !.unsent = table[d.row].unsent]) = Carried(d.want)
        BY <4>2, <4>3, CarriedRow
      <4> QED
        BY <4>1, <4>4
    <3>4. d.kind = "toggle" /\ page = "users" /\ d.row \in Judged =>
            Carried(table'[d.row]) = Carried([rows[d.row] EXCEPT !.state = d.want.state])
      <4> SUFFICES ASSUME d.kind = "toggle", page = "users", d.row \in Judged
                   PROVE  Carried(table'[d.row]) = Carried([rows[d.row] EXCEPT !.state = d.want.state])
        OBVIOUS
      <4>1. table'[d.row] = [table[d.row] EXCEPT !.state = d.want.state]
        BY <2>11 DEF After
      <4>2. table[d.row] \in Row /\ rows[d.row] \in Row /\ Carried(rows[d.row]) = Carried(table[d.row])
        BY <1>1, <2>9, <2>10, Types DEF Tables
      <4>3. d.want \in Row
        BY DEF PageInv, PageJobsInv, Running
      <4>4. /\ Carried([table[d.row] EXCEPT !.state = d.want.state]) = [Carried(table[d.row]) EXCEPT !.state = d.want.state]
            /\ Carried([rows[d.row] EXCEPT !.state = d.want.state]) = [Carried(rows[d.row]) EXCEPT !.state = d.want.state]
        BY <4>2, <4>3, CarriedRow
      <4> QED
        BY <4>1, <4>2, <4>4
    <3> QED
      <4>1. WillAgree(j)' <=>
              /\ job'[j].kind = "remove" => table'[job'[j].row] = NoRow
              /\ job'[j].row = Nothing => table'[job'[j].got.id] = job'[j].got.row
              /\ job'[j].kind = "save" /\ job'[j].row # Nothing =>
                   /\ Carried(table'[job'[j].row]) = Carried(job'[j].want)
                   /\ filter' = "ALL" /\ job'[j].row \in Judged' => rows'[job'[j].row] # NoRow
              /\ job'[j].kind = "toggle" /\ page' = "users" /\ job'[j].row \in Judged' =>
                   /\ rows'[job'[j].row] # NoRow
                   /\ Carried(table'[job'[j].row]) = Carried([rows'[job'[j].row] EXCEPT !.state = job'[j].want.state])
        BY DEF WillAgree, Carried
      <4>2. Judged' = Judged /\ page' = page /\ rows' = rows /\ filter' = filter
        BY DEF Judged
      <4> QED
        BY <2>6, <2>9, <2>10, <3>1, <3>2, <3>3, <3>4, <4>1, <4>2
  <2> QED
    BY <2>3, <2>4, <2>5, <2>6, <2>7, <2>8, <2>12 DEF QuietInv, Judged
<1> QED
  BY <1>5, <1>6 DEF PageInv

LEMMA Serving ==
  ASSUME PageInv, NEW j \in Jobs, Serve(j)
  PROVE  PageInv'
<1>1. /\ job[j].pc = "sent" /\ job[j].row # Nothing /\ table[job[j].row] # NoRow
      /\ table' = [table EXCEPT ![job[j].row] = After(job[j], table[job[j].row])]
      /\ job' = [job EXCEPT ![j].pc = "served"]
      /\ UNCHANGED <<page, used, rows, stats, filter, load, loading, error, dialog, saving, deleting, changes, trouble>>
  BY DEF Serve, list, modal
<1>2. job[j] \in JobsOf /\ table[job[j].row] \in Row
  BY <1>1 DEF PageInv, PageTypeOK, JobsOf, Tables
<1>3. job[j].kind # "remove" => job[j].want \in Row
  BY <1>1 DEF PageInv, PageJobsInv, Running
<1>4. PICK new \in Row \cup {NoRow} : new = After(job[j], table[job[j].row])
  <2>1. page \in Pages
    BY DEF PageInv, PageTypeOK
  <2>2. job[j].kind = "toggle" /\ page = "users" => [table[job[j].row] EXCEPT !.state = job[j].want.state] \in Row
    BY <1>2, <1>3 DEF Row
  <2> QED
    BY <1>2, <1>3, <2>1, <2>2, PageStates DEF After
<1>5. PICK d \in JobsOf : /\ d = [job[j] EXCEPT !.pc = "served"]
                         /\ d.pc = "served" /\ d.kind = job[j].kind /\ d.row = job[j].row
                         /\ d.want = job[j].want /\ d.got = job[j].got
  <2> DEFINE x == [job[j] EXCEPT !.pc = "served"]
  <2>1. x \in JobsOf /\ x.pc = "served" /\ x.kind = job[j].kind /\ x.row = job[j].row
        /\ x.want = job[j].want /\ x.got = job[j].got
    BY <1>2 DEF JobsOf
  <2> HIDE DEF x
  <2>2. \E d \in JobsOf : /\ d = x
                         /\ d.pc = "served" /\ d.kind = job[j].kind /\ d.row = job[j].row
                         /\ d.want = job[j].want /\ d.got = job[j].got
    BY <2>1
  <2> QED
    BY <2>2 DEF x
<1>6. job' = [job EXCEPT ![j] = d]
  BY <1>1, <1>5
<1> QED
  BY <1>1, <1>4, <1>5, <1>6, Serves

LEMMA JobFails ==
  ASSUME PageInv, NEW j \in Jobs, JobBreaks(j)
  PROVE  PageInv'
<1>1. /\ job[j].pc \in {"sent", "served"} /\ job' = [job EXCEPT ![j].pc = "failed"] /\ trouble' = TRUE
      /\ UNCHANGED <<page, table, used, rows, stats, filter, load, loading, error, dialog, saving, deleting, changes>>
  BY DEF JobBreaks, server, list, modal
<1>2. job \in [Jobs -> JobsOf] /\ table \in Tables /\ used \subseteq Ids
  BY DEF PageInv, PageTypeOK
<1>3. PICK d \in JobsOf : /\ d = [job[j] EXCEPT !.pc = "failed"]
                         /\ d.pc = "failed" /\ d.kind = job[j].kind /\ d.row = job[j].row /\ d.want = job[j].want
  <2> DEFINE x == [job[j] EXCEPT !.pc = "failed"]
  <2>1. x \in JobsOf /\ x.pc = "failed" /\ x.kind = job[j].kind /\ x.row = job[j].row /\ x.want = job[j].want
    BY <1>2 DEF JobsOf
  <2> HIDE DEF x
  <2>2. \E d \in JobsOf : /\ d = x
                         /\ d.pc = "failed" /\ d.kind = job[j].kind /\ d.row = job[j].row /\ d.want = job[j].want
    BY <2>1
  <2> QED
    BY <2>2 DEF x
<1>4. job' = [job EXCEPT ![j] = d]
  BY <1>1, <1>3
<1>5. job' \in [Jobs -> JobsOf] /\ \A k \in Jobs : job'[k] = IF k = j THEN d ELSE job[k]
  BY <1>2, <1>4
<1>6. PageTypeOK' /\ LoadsInv' /\ PageJobsInv' /\ RouteInv' /\ OneOfEach' /\ FilterIsObeyed'
  BY <1>1, <1>2, <1>3, <1>5, JobMoves
<1>7. QuietInv'
  BY <1>1 DEF QuietInv, Judged
<1> QED
  BY <1>6, <1>7 DEF PageInv

LEMMA Others ==
  ASSUME PageInv, NEW i \in Ids, NEW new \in Row \cup {NoRow}, Foreign(i, new)
  PROVE  PageInv'
<1>1. /\ changes < MaxChanges /\ changes' = changes + 1
      /\ table' = [table EXCEPT ![i] = new] /\ used' = used \cup {i} /\ trouble' = TRUE
      /\ UNCHANGED <<page, rows, stats, filter, load, loading, error, dialog, saving, deleting, job>>
  BY DEF Foreign, list, modal
<1>2. table' \in Tables /\ \A k \in Ids : table'[k] = IF k = i THEN new ELSE table[k]
  BY <1>1 DEF PageInv, PageTypeOK, Tables
<1>3. changes' \in 0 .. MaxChanges
  BY <1>1, WebPagesAssumption DEF PageInv, PageTypeOK
<1>4. PageTypeOK'
  BY <1>1, <1>2, <1>3 DEF PageInv, PageTypeOK
<1>5. LoadsInv' /\ OneOfEach'
  BY <1>1, LoadsStay
<1>6. PageJobsInv'
  <2>1. used \subseteq used' /\ i \in used'
    BY <1>1
  <2>2. \A k \in Ids : table'[k] # NoRow \/ rows'[k] # NoRow => k \in used'
    BY <1>1, <1>2, <2>1 DEF PageInv, PageJobsInv
  <2>3. ASSUME NEW k \in Jobs, job[k].pc = "served", job[k].row = Nothing, Running(k)
        PROVE  job[k].got # Nothing /\ job[k].got.id \in used' \ (Present \cup Samples)
    BY <2>1, <2>3 DEF PageInv, PageJobsInv
  <2> QED
    BY <1>1, <2>2, <2>3 DEF PageInv, PageJobsInv, Running
<1>7. RouteInv' /\ FilterIsObeyed'
  BY <1>1 DEF PageInv, RouteInv, FilterIsObeyed, Running, Passes
<1>8. QuietInv'
  BY <1>1 DEF QuietInv, Judged
<1> QED
  BY <1>4, <1>5, <1>6, <1>7, <1>8 DEF PageInv
-----------------------------------------------------------------------------
(* The answers *)

(* A change ends and no load begins.                                       *)
LEMMA JobEnds ==
  ASSUME PageInv, NEW j \in Jobs, job[j].pc \in {"served", "failed"}, Finishes(j),
         UNCHANGED <<page, table, stats, filter, load, loading, changes>>,
         rows' \in Tables, used \subseteq used', used' \subseteq Ids, \A i \in Ids : rows'[i] # NoRow => i \in used',
         trouble' \in BOOLEAN, trouble => trouble', dialog' \in {dialog, NoDialog}, page = "routes" => dialog' = dialog,
         error' \in BOOLEAN, saving' \in BOOLEAN, deleting' \in BOOLEAN,
         page = "routes" => /\ saving' = (saving /\ job[j].kind # "save")
                            /\ deleting' = (deleting /\ job[j].kind # "remove"),
         ~trouble' => page # "complaints" /\ \A i \in Judged : Agrees(i)'
  PROVE  PageInv'
<1>1. job \in [Jobs -> JobsOf]
  BY DEF PageInv, PageTypeOK
<1>2. job' \in [Jobs -> JobsOf] /\ \A k \in Jobs : job'[k] = IF k = j THEN Done ELSE job[k]
  BY <1>1, DoneJob DEF Finishes
<1>3. /\ \A k \in Jobs : k # j => job'[k] = job[k]
      /\ Running(j) /\ \A k \in Jobs : Running(k)' <=> Running(k) /\ k # j
  BY <1>2, DoneJob DEF Running
<1>4. page # "replies" /\ page' = page
  BY <1>3 DEF PageInv, PageJobsInv
<1>5. PageTypeOK'
  <2>1. dialog' \in [kind : {"none", "form", "remove"}, row : Ids \cup {Nothing}]
    BY DEF PageInv, PageTypeOK, NoDialog
  <2> QED
    BY <1>2, <2>1 DEF PageInv, PageTypeOK
<1>6. LoadsInv' /\ OneOfEach'
  <2>1. \A k \in Jobs : job[k].pc = "reloading" => job'[k].pc = "reloading"
    BY <1>3
  <2> QED
    BY <2>1, LoadsStay
<1>7. PageJobsInv'
  <2>1. Present \cup Samples \subseteq used' /\ \A k \in Ids : table'[k] # NoRow \/ rows'[k] # NoRow => k \in used'
    BY DEF PageInv, PageJobsInv
  <2>2. page = "mine" => dialog'.row = Nothing /\ \A k \in Jobs : job'[k].row = Nothing
    BY <1>2 DEF PageInv, PageJobsInv, NoDialog, Done
  <2>3. /\ dialog'.kind = "form" => page # "replies" /\ (dialog'.row = Nothing => page \in MakesRows)
        /\ dialog'.kind = "remove" => dialog'.row # Nothing /\ page \in {"buses", "routes"}
    BY DEF PageInv, PageJobsInv, NoDialog
  <2>4. ASSUME NEW k \in Jobs, Running(k)'
        PROVE  /\ page # "replies"
               /\ job'[k].kind # "remove" => job'[k].want \in Row
               /\ job'[k].kind = "remove" => page \in {"buses", "routes"}
               /\ job'[k].kind = "toggle" => page \in {"users", "routes"}
               /\ job'[k].row = Nothing => job'[k].kind = "save" /\ page \in MakesRows
               /\ job'[k].pc = "served" /\ job'[k].row = Nothing => job'[k].got # Nothing /\ job'[k].got.id \in used' \ (Present \cup Samples)
               /\ job'[k].pc = "reloading" => \E l \in Loads : load[l].of = k
    BY <1>3, <2>4 DEF PageInv, PageJobsInv
  <2> QED
    BY <2>1, <2>2, <2>3, <2>4 DEF PageJobsInv
<1>8. RouteInv'
  <2> SUFFICES ASSUME page = "routes" PROVE RouteInv'
    BY DEF RouteInv
  <2>1. UNCHANGED dialog /\ saving' = (saving /\ job[j].kind # "save") /\ deleting' = (deleting /\ job[j].kind # "remove")
    OBVIOUS
  <2>2. /\ \A k, m \in Jobs : Running(k) /\ Running(m) /\ job[k].kind = job[m].kind /\ job[k].kind # "toggle" => k = m
        /\ \A k \in Jobs : Running(k) =>
             /\ job[k].kind = "save" => saving
             /\ job[k].kind = "remove" => deleting
             /\ job[k].kind # "toggle" /\ job[k].pc # "reloading" =>
                  /\ dialog.row = job[k].row
                  /\ dialog.kind = IF job[k].kind = "save" THEN "form" ELSE "remove"
    BY DEF PageInv, RouteInv
  <2>3. ASSUME NEW k \in Jobs, Running(k)'
        PROVE  /\ job'[k].kind = "save" => saving'
               /\ job'[k].kind = "remove" => deleting'
               /\ job'[k].kind # "toggle" /\ job'[k].pc # "reloading" =>
                    /\ dialog'.row = job'[k].row
                    /\ dialog'.kind = IF job'[k].kind = "save" THEN "form" ELSE "remove"
    <3>1. k # j /\ Running(k) /\ job'[k] = job[k]
      BY <1>3, <2>3
    <3> QED
      BY <1>3, <2>1, <2>2, <3>1
  <2>4. \A k, m \in Jobs : Running(k)' /\ Running(m)' /\ job'[k].kind = job'[m].kind /\ job'[k].kind # "toggle" => k = m
    BY <1>3, <2>2
  <2> QED
    BY <2>3, <2>4 DEF RouteInv
<1>9. FilterIsObeyed'
  BY <1>4 DEF FilterIsObeyed
<1>10. QuietInv'
  <2> SUFFICES ASSUME ~trouble' PROVE QuietInv'
    BY DEF QuietInv, Judged
  <2>1. ~trouble /\ Asked(j) /\ page # "complaints" /\ \A i \in Judged : Agrees(i)'
    BY DEF Asked
  <2>2. loading = {} /\ \A k \in Jobs : Asked(k) => k = j
    BY <2>1 DEF PageInv, QuietInv, Judged
  <2>3. \A k \in Jobs : ~Asked(k)'
    BY <1>2, <2>2, DoneJob DEF Asked
  <2>4. \A l \in Loads : load'[l].pc = "idle"
    BY <2>1, <2>2, QuietFree DEF Free
  <2>5. AllAgree' /\ StatsAgree'
    BY <2>1 DEF AllAgree, StatsAgree, Judged
  <2> QED
    BY <2>2, <2>3, <2>4, <2>5 DEF QuietInv, Judged
<1> QED
  BY <1>5, <1>6, <1>7, <1>8, <1>9, <1>10 DEF PageInv

(* What is known of a change when its answer comes.                        *)
LEMMA AnswerComes ==
  ASSUME PageInv, NEW j \in Jobs, job[j].pc \in {"served", "failed"}
  PROVE  /\ job[j].kind \in {"save", "toggle", "remove"} /\ job[j].row \in Ids \cup {Nothing}
         /\ job[j].kind # "remove" => job[j].want \in Row
         /\ job[j].row = Nothing => job[j].kind = "save"
         /\ page = "mine" => job[j].row = Nothing
         /\ job[j].kind = "toggle" => page \in {"users", "routes"}
         /\ job[j].kind = "remove" => page \in {"buses", "routes"}
         /\ job[j].pc = "served" /\ job[j].row = Nothing =>
              job[j].got.id \in Ids /\ job[j].got.row \in Row /\ job[j].got.id \in used \ (Present \cup Samples)
         /\ ~trouble => /\ job[j].pc = "served" /\ loading = {} /\ WillAgree(j) /\ job[j].row \notin Samples
                        /\ \A i \in Judged : i # Target(j) => Agrees(i)
         /\ page # "replies" /\ (page # "mine" => filter = "ALL")
<1>1. job[j] \in JobsOf /\ Running(j)
  BY DEF PageInv, PageTypeOK, Running
<1>2. job[j].got # Nothing => job[j].got.id \in Ids /\ job[j].got.row \in Row
  BY <1>1 DEF JobsOf
<1>3. job[j].kind \in {"save", "toggle", "remove"} /\ job[j].row \in Ids \cup {Nothing}
  BY <1>1 DEF JobsOf
<1>4. ~trouble => /\ job[j].pc = "served" /\ loading = {} /\ WillAgree(j) /\ job[j].row \notin Samples
                  /\ \A i \in Judged : i # Target(j) => Agrees(i)
  BY DEF PageInv, QuietInv, Asked, Judged
<1>5. page # "replies" /\ (page # "mine" => filter = "ALL")
  BY <1>1 DEF PageInv, PageJobsInv, LoadsInv
<1>6. /\ job[j].kind # "remove" => job[j].want \in Row
      /\ job[j].row = Nothing => job[j].kind = "save"
      /\ page = "mine" => job[j].row = Nothing
      /\ job[j].kind = "toggle" => page \in {"users", "routes"}
      /\ job[j].kind = "remove" => page \in {"buses", "routes"}
      /\ job[j].pc = "served" /\ job[j].row = Nothing => job[j].got # Nothing /\ job[j].got.id \in used \ (Present \cup Samples)
  BY <1>1 DEF PageInv, PageJobsInv
<1> QED
  BY <1>2, <1>3, <1>4, <1>5, <1>6

(* One row of the list becomes what the server made of it.                 *)
LEMMA OneRow ==
  ASSUME PageInv, NEW j \in Jobs, job[j].pc \in {"served", "failed"}, NEW i \in Ids, NEW r \in Row \cup {NoRow},
         rows' = [rows EXCEPT ![i] = r], UNCHANGED <<page, table, filter>>, used \subseteq used', used' \subseteq Ids,
         i \in used' \/ r = NoRow, trouble => trouble',
         ~trouble' => /\ i = Target(j) \/ Target(j) \notin Judged
                      /\ i \in Judged => Carried(r) = Carried(table[i])
  PROVE  /\ rows' \in Tables /\ \A k \in Ids : rows'[k] # NoRow => k \in used'
         /\ ~trouble' => \A k \in Judged : Agrees(k)'
<1>1. \A k \in Ids : rows'[k] = IF k = i THEN r ELSE rows[k]
  BY Types DEF Tables
<1>2. rows' \in Tables
  BY Types DEF Tables
<1>3. \A k \in Ids : rows'[k] # NoRow => k \in used'
  BY <1>1, Types
<1>4. ASSUME ~trouble', NEW k \in Judged PROVE Agrees(k)'
  <2>1. k # i => Agrees(k)
    BY <1>4, AnswerComes
  <2>2. k # i => Agrees(k)'
    BY <1>1, <2>1 DEF Agrees, Passes, Carried
  <2>3. k = i => Agrees(k)'
    BY <1>1, <1>4 DEF Agrees, Carried, Judged
  <2> QED
    BY <2>2, <2>3
<1> QED
  BY <1>2, <1>3, <1>4

LEMMA SaveBusEnds ==
  ASSUME PageInv, NEW j \in Jobs, job[j].pc \in {"served", "failed"}, SaveBusAnswered(j),
         UNCHANGED <<page, table, filter, changes, trouble>>
  PROVE  PageInv'
<1>1. /\ page = "buses" /\ job[j].kind = "save" /\ saving' = FALSE /\ Finishes(j)
      /\ UNCHANGED <<used, stats, load, loading, error, deleting>>
  BY DEF SaveBusAnswered
<1>2. rows' \in Tables /\ (\A k \in Ids : rows'[k] # NoRow => k \in used')
      /\ (~trouble' => \A k \in Judged : Agrees(k)') /\ dialog' \in {dialog, NoDialog}
  <2>1. CASE job[j].pc # "served"
    <3>1. UNCHANGED <<rows, dialog>>
      BY <2>1 DEF SaveBusAnswered, Succeeded
    <3>2. trouble
      BY <2>1, AnswerComes
    <3> QED
      BY <1>1, <3>1, <3>2, Types
  <2>2. CASE job[j].pc = "served" /\ job[j].row = Nothing
    <3>1. rows' = [rows EXCEPT ![job[j].got.id] = job[j].got.row] /\ dialog' \in {dialog, NoDialog}
      BY <2>2 DEF SaveBusAnswered, Succeeded
    <3>2. job[j].got.id \in Ids /\ job[j].got.row \in Row /\ job[j].got.id \in used \ (Present \cup Samples)
      BY <2>2, AnswerComes
    <3>3. ~trouble' => job[j].got.id = Target(j) /\ job[j].got.row = table[job[j].got.id]
      BY <2>2, AnswerComes DEF Target, WillAgree, Carried
    <3> QED
      BY <1>1, <3>1, <3>2, <3>3, OneRow, Types
  <2>3. CASE job[j].pc = "served" /\ job[j].row # Nothing
    <3>1. rows' = Put(job[j].row, job[j].want) /\ dialog' \in {dialog, NoDialog}
      BY <2>3 DEF SaveBusAnswered, Succeeded
    <3>2. job[j].row \in Ids /\ job[j].want \in Row /\ filter = "ALL"
      BY <1>1, <2>3, AnswerComes
    <3>3. PICK r \in Row \cup {NoRow} : r = IF rows[job[j].row] = NoRow THEN NoRow ELSE job[j].want
      BY <3>2
    <3>4. rows' = [rows EXCEPT ![job[j].row] = r]
      BY <3>1, <3>3 DEF Put
    <3>5. ~trouble' => job[j].row = Target(j) /\ Carried(r) = Carried(table[job[j].row])
      <4>1. job[j].row = Target(j)
        BY <2>3 DEF Target
      <4>2. ~trouble' => job[j].row \in Judged
        BY <1>1, <3>2, AnswerComes DEF Judged
      <4>3. ~trouble' => rows[job[j].row] # NoRow /\ Carried(table[job[j].row]) = Carried(job[j].want)
        BY <1>1, <2>3, <3>2, <4>2, AnswerComes DEF WillAgree
      <4> QED
        BY <3>3, <4>1, <4>3
    <3>6. job[j].row \in used \/ r = NoRow
      BY <3>2, <3>3, Types
    <3> QED
      BY <1>1, <3>1, <3>2, <3>4, <3>5, <3>6, OneRow, Types
  <2> QED
    BY <2>1, <2>2, <2>3
<1> QED
  BY <1>1, <1>2, JobEnds, Types

LEMMA DeleteBusEnds ==
  ASSUME PageInv, NEW j \in Jobs, job[j].pc \in {"served", "failed"}, DeleteBusAnswered(j),
         UNCHANGED <<page, table, filter, changes, trouble>>
  PROVE  PageInv'
<1>1. /\ page = "buses" /\ job[j].kind = "remove" /\ Finishes(j) /\ rows' = [rows EXCEPT ![job[j].row] = NoRow]
      /\ dialog' \in {dialog, NoDialog} /\ UNCHANGED <<used, stats, load, loading, error, saving, deleting>>
  BY DEF DeleteBusAnswered
<1>2. job[j].row \in Ids /\ (~trouble' => job[j].row = Target(j) /\ NoRow = table[job[j].row])
  BY <1>1, AnswerComes, WebPagesAssumption DEF Target, WillAgree, Carried
<1>3. /\ rows' \in Tables /\ (\A k \in Ids : rows'[k] # NoRow => k \in used')
      /\ ~trouble' => \A k \in Judged : Agrees(k)'
  BY <1>1, <1>2, OneRow, Types
<1> QED
  BY <1>1, <1>3, JobEnds, Types

LEMMA UserEnds ==
  ASSUME PageInv, NEW j \in Jobs, job[j].pc \in {"served", "failed"}, UserAnswered(j),
         UNCHANGED <<page, table, filter, changes, trouble>>
  PROVE  PageInv'
<1>1. /\ page = "users" /\ Finishes(j)
      /\ UNCHANGED <<stats, load, loading, error, dialog, saving, deleting>>
  BY DEF UserAnswered, modal
<1>2. job[j].want \in Row /\ job[j].kind \in {"save", "toggle"}
  BY <1>1, AnswerComes
<1>3. /\ rows' \in Tables /\ (\A k \in Ids : rows'[k] # NoRow => k \in used')
      /\ ~trouble' => \A k \in Judged : Agrees(k)'
      /\ used \subseteq used' /\ used' \subseteq Ids
  <2>1. CASE job[j].row = Nothing
    <3>1. PICK i \in Ids : i \notin used /\ used' = used \cup {i} /\ rows' = [rows EXCEPT ![i] = job[j].want]
      BY <2>1 DEF UserAnswered, FirstId
    <3>2. used \subseteq used' /\ used' \subseteq Ids /\ i \in used' /\ Present \subseteq used
      BY <3>1, Types DEF PageInv, PageJobsInv
    <3>3. i \notin Judged
      BY <1>1, <3>1, <3>2 DEF Judged
    <3>4. ~trouble' => Target(j) \notin Judged
      <4>1. ~trouble' => job[j].pc = "served"
        BY AnswerComes
      <4> QED
        BY <1>1, <2>1, <4>1, AnswerComes DEF Judged, Target
    <3> QED
      BY <1>2, <3>1, <3>2, <3>3, <3>4, OneRow
  <2>2. CASE job[j].row # Nothing
    <3> DEFINE new == IF job[j].kind = "save" \/ rows[job[j].row] = NoRow THEN job[j].want
                      ELSE [rows[job[j].row] EXCEPT !.state = job[j].want.state]
    <3>1. UNCHANGED used /\ rows' = Put(job[j].row, new)
      BY <2>2 DEF UserAnswered
    <3>2. job[j].row \in Ids
      BY <2>2, AnswerComes
    <3>3. rows[job[j].row] \in Row \cup {NoRow}
      BY <3>2, Types
    <3>4. rows[job[j].row] \in Row => [rows[job[j].row] EXCEPT !.state = job[j].want.state] \in Row
      BY <1>2 DEF Row
    <3>5. new \in Row
      BY <1>2, <3>3, <3>4
    <3>6. /\ job[j].row = Target(j)
          /\ ~trouble /\ job[j].row \in Judged =>
               rows[job[j].row] # NoRow /\ Carried(new) = Carried(table[job[j].row])
      BY <1>1, <1>2, <2>2, AnswerComes DEF WillAgree, Target, Judged
    <3> HIDE DEF new
    <3>7. PICK r \in Row \cup {NoRow} : r = IF rows[job[j].row] = NoRow THEN NoRow ELSE new
      BY <3>5
    <3>8. rows' = [rows EXCEPT ![job[j].row] = r]
      BY <3>1, <3>7 DEF Put
    <3>9. job[j].row \in used \/ r = NoRow
      BY <3>2, <3>7, Types
    <3>10. ~trouble' /\ job[j].row \in Judged => Carried(r) = Carried(table[job[j].row])
      BY <1>1, <3>6, <3>7
    <3>11. used \subseteq used' /\ used' \subseteq Ids
      BY <3>1, Types
    <3> QED
      BY <1>1, <3>1, <3>2, <3>6, <3>8, <3>9, <3>10, <3>11, OneRow
  <2> QED
    BY <2>1, <2>2
<1> QED
  BY <1>1, <1>3, JobEnds, Types

LEMMA MineEnds ==
  ASSUME PageInv, NEW j \in Jobs, job[j].pc \in {"served", "failed"}, MineAnswered(j),
         UNCHANGED <<page, table, filter, changes, trouble>>
  PROVE  PageInv'
<1>1. /\ page = "mine" /\ saving' = FALSE /\ Finishes(j) /\ UNCHANGED <<used, stats, load, loading, deleting>>
  BY DEF MineAnswered
<1>2. /\ rows' \in Tables /\ (\A k \in Ids : rows'[k] # NoRow => k \in used')
      /\ ~trouble' => \A k \in Judged : Agrees(k)'
      /\ error' \in BOOLEAN /\ dialog' \in {dialog, NoDialog}
  <2>1. CASE job[j].pc # "served"
    <3>1. UNCHANGED <<rows, dialog>> /\ error' = TRUE
      BY <2>1 DEF MineAnswered, Succeeded
    <3>2. trouble
      BY <2>1, AnswerComes
    <3> QED
      BY <1>1, <3>1, <3>2, Types
  <2>2. CASE job[j].pc = "served"
    <3>1. rows' = [rows EXCEPT ![job[j].got.id] = job[j].got.row] /\ dialog' = NoDialog /\ UNCHANGED error
      BY <2>2 DEF MineAnswered, Succeeded
    <3>2. job[j].got.id \in Ids /\ job[j].got.row \in Row /\ job[j].got.id \in used \ (Present \cup Samples)
      BY <1>1, <2>2, AnswerComes
    <3>3. ~trouble' => job[j].got.id = Target(j) /\ job[j].got.row = table[job[j].got.id]
      BY <1>1, AnswerComes DEF Target, WillAgree, Carried
    <3> QED
      BY <1>1, <3>1, <3>2, <3>3, OneRow, Types
  <2> QED
    BY <2>1, <2>2
<1> QED
  BY <1>1, <1>2, JobEnds, Types

(* What stays of the loads when others are asked for.                      *)
LEMMA AskedStays ==
  ASSUME PageInv, NEW ls, Asking(ls), NEW f \in Filters, NEW by \in Jobs \cup {Nothing}, Asks(ls, f, by)
  PROVE  /\ load' = [l \in Loads |-> load'[l]]
         /\ \A l \in Loads : load'[l].what \in {"list", "stats"} /\ load'[l] \in LoadsOf(load'[l].what)
         /\ loading' = loading \cup {ls[l] : l \in DOMAIN ls} /\ loading' \subseteq {"list", "stats"}
         /\ \A k \in Jobs : (\E l \in Loads : load[l].of = k) => \E l \in Loads : load'[l].of = k
         /\ \A l \in DOMAIN ls : l \in Loads /\ load'[l].of = by
<1>1. /\ load' \in [Loads -> ALoad]
      /\ \A l \in Loads : /\ l \in DOMAIN ls => /\ load'[l].pc = "asked" /\ load'[l].what = ls[l]
                                               /\ load'[l].want = f /\ load'[l].of = by
                                               /\ load'[l].got = Nothing
                          /\ l \notin DOMAIN ls => load'[l] = load[l]
  BY AskedLoads DEF PageInv
<1>2. /\ load' = [l \in Loads |-> load'[l]]
      /\ \A l \in Loads : load'[l].what \in {"list", "stats"} /\ load'[l] \in LoadsOf(load'[l].what)
  <2>1. PICK r \in [Loads -> ALoad] : r = load'
    BY <1>1
  <2> QED
    BY <2>1, TypedLoads
<1>3. loading' = loading \cup {ls[l] : l \in DOMAIN ls} /\ \A l \in DOMAIN ls : Free(l)
  BY DEF Asks
<1>4. loading' \subseteq {"list", "stats"}
  BY <1>3 DEF PageInv, PageTypeOK, Asking, Reads
<1>5. ASSUME NEW k \in Jobs, NEW l \in Loads, load[l].of = k PROVE load'[l].of = k
  <2>1. k # Nothing
    BY WebPagesAssumption
  <2>2. ~Free(l)
    BY <1>5, <2>1 DEF PageInv, LoadsInv
  <2> QED
    BY <1>1, <1>3, <1>5, <2>2
<1>6. \A l \in DOMAIN ls : l \in Loads /\ load'[l].of = by
  BY <1>1 DEF Asking
<1> QED
  BY <1>2, <1>3, <1>4, <1>5, <1>6

LEMMA ResolutionEnds ==
  ASSUME PageInv, NEW j \in Jobs, job[j].pc \in {"served", "failed"}, ResolutionAnswered(j),
         UNCHANGED <<page, table, filter, changes, trouble>>
  PROVE  PageInv'
<1>1. /\ page = "complaints" /\ saving' = FALSE /\ Finishes(j) /\ UNCHANGED <<used, rows, stats, error, deleting>>
  BY DEF ResolutionAnswered
<1>2. CASE job[j].pc # "served"
  <2>1. UNCHANGED <<dialog, load, loading>>
    BY <1>2 DEF ResolutionAnswered, Succeeded
  <2>2. trouble
    BY <1>2, AnswerComes
  <2> QED
    BY <1>1, <2>1, <2>2, JobEnds, Types
<1>3. CASE job[j].pc = "served"
  <2>1. PICK ls \in Both : dialog' = NoDialog /\ Asks(ls, "ALL", Nothing)
    BY <1>3 DEF ResolutionAnswered, Succeeded
  <2>2. Asking(ls) /\ {ls[l] : l \in DOMAIN ls} = {"list", "stats"}
    BY <1>1, BothAsk DEF Reads
  <2>3. filter = "ALL" /\ (~trouble => loading = {}) /\ "ALL" \in Filters
    BY <1>1, AnswerComes, WebPagesAssumption
  <2>4. job \in [Jobs -> JobsOf]
    BY DEF PageInv, PageTypeOK
  <2>5. job' \in [Jobs -> JobsOf] /\ \A k \in Jobs : job'[k] = IF k = j THEN Done ELSE job[k]
    BY <1>1, <2>4, DoneJob DEF Finishes
  <2>6. /\ load' = [l \in Loads |-> load'[l]]
        /\ \A l \in Loads : load'[l].what \in {"list", "stats"} /\ load'[l] \in LoadsOf(load'[l].what)
        /\ loading' = loading \cup {"list", "stats"} /\ loading' \subseteq {"list", "stats"}
        /\ \A k \in Jobs : (\E l \in Loads : load[l].of = k) => \E l \in Loads : load'[l].of = k
    BY <2>1, <2>2, <2>3, AskedStays
  <2>7. LoadsInv' /\ OneOfEach' /\ (~trouble' => \A l \in Loads : load'[l].pc \in {"idle", "asked"})
    <3>1. \A k \in Jobs : job[k].pc = "reloading" => job'[k].pc = "reloading"
      BY <2>5
    <3> QED
      BY <1>1, <2>1, <2>2, <2>3, <3>1, AsksKeeps
  <2>8. PageTypeOK'
    <3>1. dialog' \in [kind : {"none", "form", "remove"}, row : Ids \cup {Nothing}]
      BY <2>1 DEF NoDialog
    <3> QED
      BY <1>1, <2>5, <2>6, <3>1 DEF PageInv, PageTypeOK
  <2>9. PageJobsInv'
    <3>1. dialog'.kind = "none"
      BY <2>1 DEF NoDialog
    <3>2. ASSUME NEW k \in Jobs, Running(k)'
          PROVE  /\ page # "replies"
                 /\ job'[k].kind # "remove" => job'[k].want \in Row
                 /\ job'[k].kind = "remove" => page \in {"buses", "routes"}
                 /\ job'[k].kind = "toggle" => page \in {"users", "routes"}
                 /\ job'[k].row = Nothing => job'[k].kind = "save" /\ page \in MakesRows
                 /\ job'[k].pc = "served" /\ job'[k].row = Nothing => job'[k].got # Nothing /\ job'[k].got.id \in used' \ (Present \cup Samples)
                 /\ job'[k].pc = "reloading" => \E l \in Loads : load'[l].of = k
      <4>1. job'[k] = job[k] /\ Running(k)
        BY <2>5, <3>2, DoneJob DEF Running
      <4> QED
        BY <1>1, <2>6, <4>1 DEF PageInv, PageJobsInv
    <3>3. Present \cup Samples \subseteq used' /\ \A k \in Ids : table'[k] # NoRow \/ rows'[k] # NoRow => k \in used'
      BY <1>1 DEF PageInv, PageJobsInv
    <3> QED
      BY <1>1, <3>1, <3>2, <3>3 DEF PageJobsInv
  <2>10. RouteInv' /\ FilterIsObeyed'
    BY <1>1 DEF RouteInv, FilterIsObeyed
  <2>11. QuietInv'
    <3> SUFFICES ASSUME ~trouble' PROVE QuietInv'
      BY DEF QuietInv, Judged
    <3>1. \A k \in Jobs : Asked(k) => k = j
      BY DEF PageInv, QuietInv, Asked, Judged
    <3>2. \A k \in Jobs : ~Asked(k)'
      BY <2>5, <3>1, DoneJob DEF Asked
    <3>3. \A l \in Loads : load'[l].pc \notin {"served", "failed"}
      BY <2>7
    <3> QED
      BY <1>1, <2>6, <3>2, <3>3 DEF QuietInv, Judged
  <2> QED
    BY <2>7, <2>8, <2>9, <2>10, <2>11 DEF PageInv
<1> QED
  BY <1>2, <1>3

LEMMA RouteEnds ==
  ASSUME PageInv, NEW j \in Jobs, job[j].pc \in {"served", "failed"}, RouteAnswered(j),
         UNCHANGED <<page, table, filter, changes, trouble>>
  PROVE  PageInv'
<1>1. page = "routes" /\ UNCHANGED <<used, rows, stats>>
  BY DEF RouteAnswered
<1>2. CASE job[j].pc # "served"
  <2>1. /\ error' = TRUE /\ saving' = (saving /\ job[j].kind # "save")
        /\ deleting' = (deleting /\ job[j].kind # "remove") /\ Finishes(j) /\ UNCHANGED <<dialog, load, loading>>
    BY <1>2 DEF RouteAnswered, Succeeded
  <2>2. trouble
    BY <1>2, AnswerComes
  <2> QED
    BY <1>1, <2>1, <2>2, JobEnds, Types
<1>3. CASE job[j].pc = "served"
  <2>1. PICK l \in Loads :
          /\ Asks([k \in {l} |-> "list"], "ALL", j) /\ dialog' = RouteDialogAfter(j)
          /\ job' = [job EXCEPT ![j].pc = "reloading"] /\ error' = FALSE /\ UNCHANGED <<saving, deleting>>
    BY <1>3 DEF RouteAnswered, Succeeded
  <2>2. PICK ls : /\ ls = [k \in {l} |-> "list"]
                  /\ Asking(ls) /\ DOMAIN ls = {l} /\ {ls[k] : k \in DOMAIN ls} = {"list"}
    <3>1. \E ls : ls = [k \in {l} |-> "list"]
      OBVIOUS
    <3>2. PICK ls : ls = [k \in {l} |-> "list"]
      BY <3>1
    <3>3. Asking(ls) /\ DOMAIN ls = {l} /\ {ls[k] : k \in DOMAIN ls} = {"list"}
      BY <3>2 DEF Asking, Reads
    <3> QED
      BY <3>2, <3>3
  <2>3. filter = "ALL" /\ (~trouble => loading = {}) /\ "ALL" \in Filters /\ j \in Jobs \cup {Nothing} /\ Asks(ls, "ALL", j)
    BY <1>1, <2>1, <2>2, AnswerComes, WebPagesAssumption
  <2>4. PICK d \in JobsOf : /\ d = [job[j] EXCEPT !.pc = "reloading"]
                           /\ d.pc = "reloading" /\ d.kind = job[j].kind /\ d.row = job[j].row /\ d.want = job[j].want
    <3> DEFINE x == [job[j] EXCEPT !.pc = "reloading"]
    <3>0. job[j] \in JobsOf
      BY DEF PageInv, PageTypeOK
    <3>1. x \in JobsOf /\ x.pc = "reloading" /\ x.kind = job[j].kind /\ x.row = job[j].row /\ x.want = job[j].want
      BY <3>0 DEF JobsOf
    <3> HIDE DEF x
    <3>2. \E d \in JobsOf : /\ d = x
                           /\ d.pc = "reloading" /\ d.kind = job[j].kind /\ d.row = job[j].row /\ d.want = job[j].want
      BY <3>1
    <3> QED
      BY <3>2 DEF x
  <2>5. job' \in [Jobs -> JobsOf] /\ \A k \in Jobs : job'[k] = IF k = j THEN d ELSE job[k]
    <3>1. job \in [Jobs -> JobsOf]
      BY DEF PageInv, PageTypeOK
    <3>2. job' = [job EXCEPT ![j] = d]
      BY <2>1, <2>4
    <3> QED
      BY <3>1, <3>2
  <2>6. /\ load' = [m \in Loads |-> load'[m]]
        /\ \A m \in Loads : load'[m].what \in {"list", "stats"} /\ load'[m] \in LoadsOf(load'[m].what)
        /\ loading' = loading \cup {"list"} /\ loading' \subseteq {"list", "stats"}
        /\ \A k \in Jobs : (\E m \in Loads : load[m].of = k) => \E m \in Loads : load'[m].of = k
        /\ load'[l].of = j
    BY <2>2, <2>3, AskedStays
  <2>7. LoadsInv' /\ OneOfEach' /\ (~trouble' => \A m \in Loads : load'[m].pc \in {"idle", "asked"})
    <3>1. \A k \in Jobs : job[k].pc = "reloading" => job'[k].pc = "reloading"
      BY <2>4, <2>5
    <3>2. job'[j].pc = "reloading" /\ \A m, k \in DOMAIN ls : m = k
      BY <2>2, <2>4, <2>5
    <3>3. \A m \in Loads : load[m].of # j
      <4>1. j # Nothing
        BY WebPagesAssumption
      <4> QED
        BY <4>1 DEF PageInv, LoadsInv
    <3> QED
      BY <1>1, <2>2, <2>3, <3>1, <3>2, <3>3, AsksKeeps
  <2>8. dialog' = IF job[j].kind = "toggle" THEN dialog ELSE NoDialog
    BY <2>1 DEF RouteDialogAfter
  <2>9. PageTypeOK'
    <3>1. dialog' \in [kind : {"none", "form", "remove"}, row : Ids \cup {Nothing}]
      BY <2>8 DEF NoDialog, PageInv, PageTypeOK
    <3> QED
      BY <1>1, <2>1, <2>5, <2>6, <3>1 DEF PageInv, PageTypeOK
  <2>10. \A k \in Jobs : Running(k)' <=> Running(k)
    BY <1>3, <2>4, <2>5 DEF Running
  <2>11. PageJobsInv'
    <3>1. /\ dialog'.kind = "form" => page # "replies" /\ (dialog'.row = Nothing => page \in MakesRows)
          /\ dialog'.kind = "remove" => dialog'.row # Nothing /\ page \in {"buses", "routes"}
      BY <2>8 DEF NoDialog, PageInv, PageJobsInv
    <3>2. ASSUME NEW k \in Jobs, Running(k)'
          PROVE  /\ page # "replies"
                 /\ job'[k].kind # "remove" => job'[k].want \in Row
                 /\ job'[k].kind = "remove" => page \in {"buses", "routes"}
                 /\ job'[k].kind = "toggle" => page \in {"users", "routes"}
                 /\ job'[k].row = Nothing => job'[k].kind = "save" /\ page \in MakesRows
                 /\ job'[k].pc = "served" /\ job'[k].row = Nothing => job'[k].got # Nothing /\ job'[k].got.id \in used' \ (Present \cup Samples)
                 /\ job'[k].pc = "reloading" => \E m \in Loads : load'[m].of = k
      <4>1. Running(k)
        BY <2>10, <3>2
      <4>2. CASE k = j
        <5>1. job'[k].pc = "reloading" /\ job'[k].kind = job[k].kind /\ job'[k].row = job[k].row /\ job'[k].want = job[k].want
          BY <2>4, <2>5, <4>2
        <5>2. /\ job[k].kind # "remove" => job[k].want \in Row
              /\ job[k].kind = "remove" => page \in {"buses", "routes"}
              /\ job[k].kind = "toggle" => page \in {"users", "routes"}
              /\ job[k].row = Nothing => job[k].kind = "save" /\ page \in MakesRows
          BY <4>1 DEF PageInv, PageJobsInv
        <5> QED
          BY <1>1, <2>6, <4>2, <5>1, <5>2
      <4>3. CASE k # j
        BY <1>1, <2>5, <2>6, <4>1, <4>3 DEF PageInv, PageJobsInv
      <4> QED
        BY <4>2, <4>3
    <3>3. Present \cup Samples \subseteq used' /\ \A k \in Ids : table'[k] # NoRow \/ rows'[k] # NoRow => k \in used'
      BY <1>1 DEF PageInv, PageJobsInv
    <3> QED
      BY <1>1, <3>1, <3>2, <3>3 DEF PageJobsInv
  <2>12. RouteInv'
    <3>1. /\ \A k, m \in Jobs : Running(k) /\ Running(m) /\ job[k].kind = job[m].kind /\ job[k].kind # "toggle" => k = m
          /\ \A k \in Jobs : Running(k) =>
               /\ job[k].kind = "save" => saving
               /\ job[k].kind = "remove" => deleting
               /\ job[k].kind # "toggle" /\ job[k].pc # "reloading" =>
                    /\ dialog.row = job[k].row
                    /\ dialog.kind = IF job[k].kind = "save" THEN "form" ELSE "remove"
      BY <1>1 DEF PageInv, RouteInv
    <3>2. \A k \in Jobs : job'[k].kind = job[k].kind /\ job'[k].row = job[k].row
      BY <2>4, <2>5
    <3>3. ASSUME NEW k \in Jobs, Running(k)'
          PROVE  /\ job'[k].kind = "save" => saving'
                 /\ job'[k].kind = "remove" => deleting'
                 /\ job'[k].kind # "toggle" /\ job'[k].pc # "reloading" =>
                      /\ dialog'.row = job'[k].row
                      /\ dialog'.kind = IF job'[k].kind = "save" THEN "form" ELSE "remove"
      <4>1. Running(k) /\ Running(j)
        BY <1>3, <2>10, <3>3 DEF Running
      <4>2. ASSUME job'[k].kind # "toggle", job'[k].pc # "reloading"
            PROVE  job[j].kind = "toggle"
        <5>1. k # j /\ job'[k] = job[k]
          BY <2>4, <2>5, <4>2
        <5>2. job[j].kind # "toggle" => /\ dialog.kind = IF job[j].kind = "save" THEN "form" ELSE "remove"
                                       /\ dialog.kind = IF job[k].kind = "save" THEN "form" ELSE "remove"
          BY <1>3, <3>1, <4>1, <4>2, <5>1
        <5>3. job[j].kind \in {"save", "toggle", "remove"} /\ job[k].kind \in {"save", "toggle", "remove"}
          BY DEF PageInv, PageTypeOK, JobsOf
        <5> QED
          BY <3>1, <4>1, <4>2, <5>1, <5>2, <5>3
      <4>3. k = j => job'[k].pc = "reloading"
        BY <2>4, <2>5
      <4> QED
        BY <2>1, <2>5, <2>8, <3>1, <3>2, <4>1, <4>2, <4>3
    <3>4. \A k, m \in Jobs : Running(k)' /\ Running(m)' /\ job'[k].kind = job'[m].kind /\ job'[k].kind # "toggle" => k = m
      BY <2>10, <3>1, <3>2
    <3> QED
      BY <3>3, <3>4 DEF RouteInv
  <2>13. FilterIsObeyed'
    BY <1>1 DEF FilterIsObeyed
  <2>14. QuietInv'
    <3> SUFFICES ASSUME ~trouble' PROVE QuietInv'
      BY DEF QuietInv, Judged
    <3>1. \A k \in Jobs : Asked(k) => k = j
      BY DEF PageInv, QuietInv, Asked, Judged
    <3>2. \A k \in Jobs : ~Asked(k)'
      BY <2>4, <2>5, <3>1 DEF Asked
    <3>3. \A m \in Loads : load'[m].pc \notin {"served", "failed"}
      BY <2>7
    <3>4. StatsAgree'
      BY <1>1 DEF StatsAgree
    <3> QED
      BY <1>1, <2>6, <3>2, <3>3, <3>4 DEF QuietInv, Judged
  <2> QED
    BY <2>7, <2>9, <2>11, <2>12, <2>13, <2>14 DEF PageInv
<1> QED
  BY <1>2, <1>3

LEMMA Answers ==
  ASSUME PageInv, NEW j \in Jobs, Answered(j)
  PROVE  PageInv'
<1>1. job[j].pc \in {"served", "failed"} /\ UNCHANGED <<page, table, filter, changes, trouble>>
  BY DEF Answered
<1>2. \/ SaveBusAnswered(j) \/ DeleteBusAnswered(j) \/ ResolutionAnswered(j)
      \/ UserAnswered(j) \/ RouteAnswered(j) \/ MineAnswered(j)
  BY DEF Answered
<1> QED
  BY <1>1, <1>2, SaveBusEnds, DeleteBusEnds, ResolutionEnds, RouteEnds, MineEnds, UserEnds
-----------------------------------------------------------------------------
(* The loads *)

(* The user has the list read again.                                       *)
LEMMA AskedAgain ==
  ASSUME PageInv, NEW ls, Asking(ls), {ls[l] : l \in DOMAIN ls} = Reads(page), loading = {},
         Asks(ls, filter', Nothing), filter' \in Filters, filter' = "ALL" \/ page \in {"replies", "mine"},
         page # "users", error' \in BOOLEAN, trouble' = (trouble \/ \E j \in Jobs : Running(j)),
         UNCHANGED <<page, table, used, rows, stats, dialog, saving, deleting, job, changes>>
  PROVE  PageInv'
<1>1. PICK f \in Filters : f = filter'
  OBVIOUS
<1>2. Asks(ls, f, Nothing)
  BY <1>1
<1>3. /\ load' = [l \in Loads |-> load'[l]]
      /\ \A l \in Loads : load'[l].what \in {"list", "stats"} /\ load'[l] \in LoadsOf(load'[l].what)
      /\ loading' = Reads(page) /\ loading' \subseteq {"list", "stats"}
      /\ \A k \in Jobs : (\E l \in Loads : load[l].of = k) => \E l \in Loads : load'[l].of = k
  <2>1. /\ load' = [l \in Loads |-> load'[l]]
        /\ \A l \in Loads : load'[l].what \in {"list", "stats"} /\ load'[l] \in LoadsOf(load'[l].what)
        /\ loading' = loading \cup {ls[l] : l \in DOMAIN ls} /\ loading' \subseteq {"list", "stats"}
        /\ \A k \in Jobs : (\E l \in Loads : load[l].of = k) => \E l \in Loads : load'[l].of = k
    BY <1>2, AskedStays
  <2>2. loading' = Reads(page)
    BY <2>1
  <2> QED
    BY <2>1, <2>2
<1>4. LoadsInv' /\ OneOfEach' /\ (~trouble' => \A l \in Loads : load'[l].pc \in {"idle", "asked"})
  BY <1>1, <1>2, AsksKeeps
<1>5. PageTypeOK'
  <2>1. trouble' \in BOOLEAN
    OBVIOUS
  <2> QED
    BY <1>3, <2>1 DEF PageInv, PageTypeOK
<1>6. PageJobsInv'
  <2>1. ASSUME NEW k \in Jobs, Running(k)
        PROVE  /\ page # "replies"
               /\ job[k].kind # "remove" => job[k].want \in Row
               /\ job[k].kind = "remove" => page \in {"buses", "routes"}
               /\ job[k].kind = "toggle" => page \in {"users", "routes"}
               /\ job[k].row = Nothing => job[k].kind = "save" /\ page \in MakesRows
               /\ job[k].pc = "served" /\ job[k].row = Nothing => job[k].got # Nothing /\ job[k].got.id \in used \ (Present \cup Samples)
               /\ job[k].pc = "reloading" => \E l \in Loads : load'[l].of = k
    BY <1>3, <2>1 DEF PageInv, PageJobsInv
  <2>2. /\ Present \cup Samples \subseteq used /\ \A i \in Ids : table[i] # NoRow \/ rows[i] # NoRow => i \in used
        /\ page = "mine" => dialog.row = Nothing /\ \A j \in Jobs : job[j].row = Nothing
        /\ dialog.kind = "form" => page # "replies" /\ (dialog.row = Nothing => page \in MakesRows)
        /\ dialog.kind = "remove" => dialog.row # Nothing /\ page \in {"buses", "routes"}
    BY DEF PageInv, PageJobsInv
  <2>3. \A k \in Jobs : Running(k)' <=> Running(k)
    BY DEF Running
  <2> QED
    BY <2>1, <2>2, <2>3 DEF PageJobsInv
<1>7. RouteInv'
  BY DEF PageInv, RouteInv, Running
<1>8. "list" \in loading' /\ (page = "complaints" => "stats" \in loading')
  BY <1>3 DEF Reads
<1>9. FilterIsObeyed'
  BY <1>8 DEF FilterIsObeyed
<1>10. QuietInv'
  <2> SUFFICES ASSUME ~trouble' PROVE QuietInv'
    BY DEF QuietInv, Judged
  <2>1. ~trouble /\ \A k \in Jobs : ~Running(k)
    OBVIOUS
  <2>2. \A k \in Jobs : ~Asked(k)'
    BY <2>1 DEF Asked, Running
  <2>3. \A l \in Loads : load'[l].pc \notin {"served", "failed"}
    BY <1>4
  <2>4. StatsAgree' \/ "stats" \in loading'
    BY <1>8 DEF StatsAgree
  <2>5. page = "users" /\ "list" \in loading' => \A i \in Ids \ Samples : rows'[i] = NoRow
    OBVIOUS
  <2> QED
    BY <1>8, <2>2, <2>3, <2>4, <2>5 DEF QuietInv, Judged
<1> QED
  BY <1>4, <1>5, <1>6, <1>7, <1>9, <1>10 DEF PageInv

LEMMA Refreshing ==
  ASSUME PageInv, Refresh
  PROVE  PageInv'
<1>1. PICK ls \in Both : Asks(ls, "ALL", Nothing)
  BY DEF Refresh
<1>2. Asking(ls) /\ {ls[l] : l \in DOMAIN ls} = Reads(page)
  BY BothAsk
<1>3. /\ page \in {"buses", "complaints"} /\ loading = {} /\ trouble' = (trouble \/ \E j \in Jobs : Running(j))
      /\ UNCHANGED <<page, table, used, rows, stats, filter, error, dialog, saving, deleting, job, changes>>
  BY DEF Refresh, BusesHeader, ComplaintsHeader, server, modal
<1>4. filter = "ALL"
  BY <1>3 DEF PageInv, LoadsInv
<1>5. Asks(ls, filter', Nothing) /\ filter' \in Filters /\ error' \in BOOLEAN
  BY <1>1, <1>3, <1>4, Types
<1> QED
  BY <1>2, <1>3, <1>4, <1>5, AskedAgain

LEMMA Filtering ==
  ASSUME PageInv, NEW l \in Loads, NEW f \in Filters, ChooseFilter(l, f)
  PROVE  PageInv'
<1>1. /\ page \in {"replies", "mine"} /\ loading = {} /\ filter' = f /\ error' = FALSE
      /\ Asks([k \in {l} |-> "list"], f, Nothing) /\ trouble' = (trouble \/ \E j \in Jobs : Running(j))
      /\ UNCHANGED <<page, table, used, rows, stats, dialog, saving, deleting, job, changes>>
  BY DEF ChooseFilter, FilterIsThere, server, modal
<1>2. PICK ls : /\ ls = [k \in {l} |-> "list"]
                /\ Asking(ls) /\ {ls[k] : k \in DOMAIN ls} = {"list"}
  <2>1. \E ls : ls = [k \in {l} |-> "list"]
    OBVIOUS
  <2>2. PICK ls : ls = [k \in {l} |-> "list"]
    BY <2>1
  <2>3. Asking(ls) /\ {ls[k] : k \in DOMAIN ls} = {"list"}
    BY <2>2 DEF Asking, Reads
  <2> QED
    BY <2>2, <2>3
<1>3. Asks(ls, filter', Nothing) /\ {ls[k] : k \in DOMAIN ls} = Reads(page)
  BY <1>1, <1>2 DEF Reads
<1> QED
  BY <1>1, <1>2, <1>3, AskedAgain

(* A load moves on: what it was asked for stays.                           *)
LEMMA LoadMoves ==
  ASSUME PageInv, NEW l \in Loads, load[l].pc = "asked", NEW x \in ALoad,
         x.pc \in {"served", "failed"}, x.what = load[l].what, x.want = load[l].want, x.of = load[l].of,
         x.pc = "served" <=> x.got # Nothing,
         x.pc = "served" /\ x.what = "list" =>
           \A i \in Ids : x.got[i] # NoRow => i \in used /\ Passes(x.got[i], x.want),
         load' = [load EXCEPT ![l] = x], trouble' \in BOOLEAN, trouble => trouble',
         UNCHANGED <<page, table, used, rows, stats, filter, loading, error, dialog, saving, deleting, job, changes>>
  PROVE  /\ PageTypeOK' /\ LoadsInv' /\ PageJobsInv' /\ RouteInv' /\ OneOfEach' /\ FilterIsObeyed'
         /\ \A m \in Loads : load'[m] = IF m = l THEN x ELSE load[m]
<1>1. load \in [Loads -> ALoad]
  BY LoadTypes DEF PageInv
<1>2. load' \in [Loads -> ALoad] /\ \A m \in Loads : load'[m] = IF m = l THEN x ELSE load[m]
  BY <1>1
<1>3. \A m \in Loads : /\ load'[m].what = load[m].what /\ load'[m].want = load[m].want /\ load'[m].of = load[m].of
                      /\ Free(m)' <=> Free(m)
  BY <1>2 DEF Free
<1>4. PageTypeOK'
  <2>1. PICK r \in [Loads -> ALoad] : r = load'
    BY <1>2
  <2>2. /\ load' = [m \in Loads |-> load'[m]]
        /\ \A m \in Loads : load'[m].what \in {"list", "stats"} /\ load'[m] \in LoadsOf(load'[m].what)
    BY <2>1, TypedLoads
  <2> QED
    BY <2>2 DEF PageInv, PageTypeOK
<1>5. LoadsInv'
  <2>1. loading \subseteq Reads(page) /\ (filter = "ALL" \/ page \in {"replies", "mine"})
    BY DEF PageInv, LoadsInv
  <2>2. ASSUME NEW m \in Loads
        PROVE  /\ Free(m)' => load'[m].of = Nothing
               /\ ~Free(m)' => load'[m].what \in Reads(page)
               /\ load'[m].of # Nothing => job[load'[m].of].pc = "reloading"
    BY <1>3 DEF PageInv, LoadsInv
  <2>3. ASSUME NEW m \in Loads
        PROVE  /\ load'[m].pc = "served" <=> load'[m].got # Nothing
               /\ load'[m].pc = "served" /\ load'[m].what = "list" =>
                    \A i \in Ids : load'[m].got[i] # NoRow => i \in used /\ Passes(load'[m].got[i], load'[m].want)
    BY <1>2 DEF PageInv, LoadsInv
  <2>4. \A m, k \in Loads : load'[m].of # Nothing /\ load'[m].of = load'[k].of => m = k
    BY <1>3 DEF PageInv, LoadsInv
  <2> QED
    BY <2>1, <2>2, <2>3, <2>4 DEF LoadsInv, Passes
<1>6. PageJobsInv'
  <2>1. ASSUME NEW k \in Jobs, Running(k)
        PROVE  /\ page # "replies"
               /\ job[k].kind # "remove" => job[k].want \in Row
               /\ job[k].kind = "remove" => page \in {"buses", "routes"}
               /\ job[k].kind = "toggle" => page \in {"users", "routes"}
               /\ job[k].row = Nothing => job[k].kind = "save" /\ page \in MakesRows
               /\ job[k].pc = "served" /\ job[k].row = Nothing => job[k].got # Nothing /\ job[k].got.id \in used \ (Present \cup Samples)
               /\ job[k].pc = "reloading" => \E m \in Loads : load'[m].of = k
    BY <1>3, <2>1 DEF PageInv, PageJobsInv
  <2>2. /\ Present \cup Samples \subseteq used /\ \A i \in Ids : table[i] # NoRow \/ rows[i] # NoRow => i \in used
        /\ page = "mine" => dialog.row = Nothing /\ \A j \in Jobs : job[j].row = Nothing
        /\ dialog.kind = "form" => page # "replies" /\ (dialog.row = Nothing => page \in MakesRows)
        /\ dialog.kind = "remove" => dialog.row # Nothing /\ page \in {"buses", "routes"}
    BY DEF PageInv, PageJobsInv
  <2>3. \A k \in Jobs : Running(k)' <=> Running(k)
    BY DEF Running
  <2> QED
    BY <2>1, <2>2, <2>3 DEF PageJobsInv
<1>7. RouteInv' /\ FilterIsObeyed'
  BY DEF PageInv, RouteInv, FilterIsObeyed, Running, Passes
<1>8. OneOfEach'
  BY <1>3 DEF PageInv, OneOfEach
<1> QED
  BY <1>2, <1>4, <1>5, <1>6, <1>7, <1>8

(* QuietInv has a part about the loads and one that is not.                *)
QuietLoads ==
  \A l \in Loads :
    /\ load[l].pc # "failed"
    /\ load[l].pc = "served" /\ load[l].what = "stats" => load[l].got = Pending(table)
    /\ load[l].pc = "served" /\ load[l].what = "list" =>
         load[l].got = [i \in Ids |-> IF Passes(table[i], filter) THEN table[i] ELSE NoRow]

QuietRest ==
  /\ \A j, k \in Jobs : Asked(j) /\ Asked(k) => j = k
  /\ \A j \in Jobs : Asked(j) =>
       /\ loading = {} /\ job[j].pc # "failed" /\ job[j].row \notin Samples
       /\ job[j].pc = "sent" => AllAgree /\ StatsAgree
       /\ job[j].pc = "served" =>
            WillAgree(j) /\ \A i \in Judged : i # Target(j) => Agrees(i)
  /\ (\A j \in Jobs : ~Asked(j)) =>
       /\ "list" \notin loading => AllAgree
       /\ "stats" \notin loading => StatsAgree
  /\ page = "users" /\ "list" \in loading => \A i \in Ids \ Samples : rows[i] = NoRow

LEMMA QuietParts ==
  /\ QuietInv <=> (~trouble => QuietLoads /\ QuietRest)
  /\ QuietInv' <=> (~trouble' => QuietLoads' /\ QuietRest')
BY DEF QuietInv, QuietLoads, QuietRest, Judged

LEMMA QuietRestStays ==
  ASSUME QuietRest, UNCHANGED <<page, table, rows, stats, filter, loading, job>>
  PROVE  QuietRest'
<1>0. Judged' = Judged
  BY DEF Judged
<1>5. \A i \in Judged : Agrees(i) <=> Agrees(i)'
  BY DEF Agrees, Passes, Carried
<1>1. (AllAgree <=> AllAgree') /\ (StatsAgree <=> StatsAgree')
  BY <1>0, <1>5 DEF AllAgree, StatsAgree, Pending
<1>2. \A j \in Jobs : (Asked(j) <=> Asked(j)') /\ Target(j) = Target(j)'
  BY DEF Asked, Target
<1>3. \A j \in Jobs : WillAgree(j) <=> WillAgree(j)'
  BY <1>0 DEF WillAgree, Carried
<1>. QED  BY <1>0, <1>1, <1>2, <1>3, <1>5 DEF QuietRest

LEMMA LoadServing ==
  ASSUME PageInv, NEW l \in Loads, LoadServed(l)
  PROVE  PageInv'
<1> DEFINE read == [i \in Ids |-> IF Passes(table[i], load[l].want) THEN table[i] ELSE NoRow]
           answer == IF load[l].what = "stats" THEN Pending(table) ELSE read
<1>1. /\ load[l].pc = "asked" /\ load' = [load EXCEPT ![l] = [load[l] EXCEPT !.pc = "served", !.got = answer]]
      /\ UNCHANGED <<page, table, used, rows, stats, filter, loading, error, dialog, saving, deleting, job, changes, trouble>>
  BY DEF LoadServed, server, modal
<1>2. load[l] \in ALoad /\ load[l].what \in {"list", "stats"}
  BY LoadTypes DEF PageInv
<1>3. read \in Tables
  BY Types DEF Tables
<1>4. /\ load[l].what = "list" => answer \in Tables /\ answer = read
      /\ load[l].what = "stats" => answer \in Nat /\ answer = Pending(table)
  BY <1>2, <1>3, PendingIsNat
<1>5. answer # Nothing
  <2>1. Nothing \notin Tables /\ Nothing \notin Nat
    BY WebPagesAssumption
  <2> QED
    BY <1>2, <1>4, <2>1
<1>6. \A i \in Ids : read[i] # NoRow => i \in used /\ Passes(read[i], load[l].want)
  BY DEF PageInv, PageJobsInv
<1> HIDE DEF answer
<1>7. PICK x \in ALoad : /\ x = [load[l] EXCEPT !.pc = "served", !.got = answer]
                        /\ x.pc = "served" /\ x.what = load[l].what /\ x.want = load[l].want
                        /\ x.of = load[l].of /\ x.got = answer
  <2> DEFINE y == [load[l] EXCEPT !.pc = "served", !.got = answer]
  <2>1. /\ y \in ALoad /\ y.pc = "served" /\ y.what = load[l].what /\ y.want = load[l].want
        /\ y.of = load[l].of /\ y.got = answer
    BY <1>2, <1>4 DEF ALoad, LoadsOf
  <2> HIDE DEF y
  <2>2. \E x \in ALoad : /\ x = y
                        /\ x.pc = "served" /\ x.what = load[l].what /\ x.want = load[l].want
                        /\ x.of = load[l].of /\ x.got = answer
    BY <2>1
  <2> QED
    BY <2>2 DEF y
<1> HIDE DEF read
<1>8. load' = [load EXCEPT ![l] = x]
  BY <1>1, <1>7
<1>9. x.pc = "served" /\ x.what = "list" =>
        \A i \in Ids : x.got[i] # NoRow => i \in used /\ Passes(x.got[i], x.want)
  BY <1>4, <1>6, <1>7
<1>10. /\ PageTypeOK' /\ LoadsInv' /\ PageJobsInv' /\ RouteInv' /\ OneOfEach' /\ FilterIsObeyed'
       /\ \A m \in Loads : load'[m] = IF m = l THEN x ELSE load[m]
  <2>1. x.pc \in {"served", "failed"} /\ (x.pc = "served" <=> x.got # Nothing)
    BY <1>5, <1>7
  <2>2. trouble' \in BOOLEAN /\ (trouble => trouble')
    BY <1>1, Types
  <2>3. x.what = load[l].what /\ x.want = load[l].want /\ x.of = load[l].of /\ load[l].pc = "asked"
    BY <1>1, <1>7
  <2>4. UNCHANGED <<page, table, used, rows, stats, filter, loading, error, dialog, saving, deleting, job, changes>>
    BY <1>1
  <2> QED
    BY <1>8, <1>9, <2>1, <2>2, <2>3, <2>4, LoadMoves
<1>11. QuietInv'
  <2> SUFFICES ASSUME ~trouble PROVE QuietLoads' /\ QuietRest'
    BY <1>1, QuietParts
  <2>1. QuietLoads /\ QuietRest
    BY QuietParts DEF PageInv
  <2>2. QuietRest'
    BY <1>1, <2>1, QuietRestStays
  <2>3. load[l].want = filter
    BY <1>1 DEF PageInv, OneOfEach, Free
  <2>4. \A m \in Loads : m # l => load'[m] = load[m]
    BY <1>10
  <2>5. load'[l] = x
    BY <1>10
  <2>6. read = [i \in Ids |-> IF Passes(table[i], filter) THEN table[i] ELSE NoRow]
    BY <2>3 DEF read
  <2>7. QuietLoads'
    BY <1>1, <1>4, <1>7, <2>1, <2>4, <2>5, <2>6 DEF QuietLoads, Passes, Pending
  <2> QED
    BY <2>2, <2>7
<1> QED
  BY <1>10, <1>11 DEF PageInv

LEMMA LoadFailing ==
  ASSUME PageInv, NEW l \in Loads, LoadBreaks(l)
  PROVE  PageInv'
<1>1. /\ load[l].pc = "asked" /\ load' = [load EXCEPT ![l] = [load[l] EXCEPT !.pc = "failed"]] /\ trouble' = TRUE
      /\ UNCHANGED <<page, table, used, rows, stats, filter, loading, error, dialog, saving, deleting, job, changes>>
  BY DEF LoadBreaks, server, modal
<1>2. load[l] \in ALoad /\ load[l].got = Nothing
  BY <1>1, LoadTypes DEF PageInv, LoadsInv
<1>3. PICK x \in ALoad : /\ x = [load[l] EXCEPT !.pc = "failed"]
                        /\ x.pc = "failed" /\ x.what = load[l].what /\ x.want = load[l].want
                        /\ x.of = load[l].of /\ x.got = load[l].got
  <2> DEFINE y == [load[l] EXCEPT !.pc = "failed"]
  <2>1. /\ y \in ALoad /\ y.pc = "failed" /\ y.what = load[l].what /\ y.want = load[l].want
        /\ y.of = load[l].of /\ y.got = load[l].got
    BY <1>2 DEF ALoad, LoadsOf
  <2> HIDE DEF y
  <2>2. \E x \in ALoad : /\ x = y
                        /\ x.pc = "failed" /\ x.what = load[l].what /\ x.want = load[l].want
                        /\ x.of = load[l].of /\ x.got = load[l].got
    BY <2>1
  <2> QED
    BY <2>2 DEF y
<1>4. load' = [load EXCEPT ![l] = x]
  BY <1>1, <1>3
<1>5. /\ PageTypeOK' /\ LoadsInv' /\ PageJobsInv' /\ RouteInv' /\ OneOfEach' /\ FilterIsObeyed'
  BY <1>1, <1>2, <1>3, <1>4, LoadMoves
<1>6. QuietInv'
  BY <1>1 DEF QuietInv, Judged
<1> QED
  BY <1>5, <1>6 DEF PageInv

(* What the page shows when a load ends.                                   *)
LEMMA Shown ==
  ASSUME PageInv, NEW l \in Loads, load[l].pc \in {"served", "failed"},
         \/ BusesLoaded(l) \/ UsersLoaded(l) \/ RoutesLoaded(l) \/ RepliesLoaded(l)
         \/ MineLoaded(l) \/ ComplaintsLoaded(l) \/ StatsLoaded(l)
  PROVE  /\ rows' \in Tables /\ (\A i \in Ids : rows'[i] # NoRow => i \in used)
         /\ stats' \in Nat \cup {Nothing} /\ error' \in BOOLEAN
         /\ load[l].what = "stats" => /\ rows' = rows /\ page = "complaints"
                                      /\ load[l].pc = "served" => stats' = load[l].got
         /\ load[l].what = "list" => stats' = stats
         /\ load[l].what = "list" /\ load[l].pc = "served" =>
              \A i \in Ids \ Samples : \/ rows'[i] = load[l].got[i]
                                       \/ page = "users" /\ load[l].got[i] = NoRow /\ rows'[i] = rows[i]
         /\ page = "replies" => /\ load[l].pc = "served" => rows' = load[l].got /\ load[l].what = "list"
                                /\ load[l].pc = "failed" => error' = TRUE
<1>1. load[l].what \in Reads(page) /\ load[l] \in ALoad
  BY LoadTypes DEF PageInv, LoadsInv, Free
<1>2. load[l].pc = "served" => load[l].got # Nothing
  BY DEF PageInv, LoadsInv
<1>3. load[l].pc = "served" /\ load[l].what = "list" =>
        load[l].got \in Tables /\ \A i \in Ids : load[l].got[i] # NoRow => i \in used
  BY <1>1, <1>2, ALoadFields DEF PageInv, LoadsInv
<1>4. load[l].pc = "served" /\ load[l].what = "stats" => load[l].got \in Nat
  BY <1>1, <1>2, ALoadFields
<1>5. stats \in Nat \cup {Nothing} /\ Present \cup Samples \subseteq used /\ page \in Pages
  BY DEF PageInv, PageTypeOK, PageJobsInv
<1>6. \A i \in Ids : NoRows[i] = NoRow /\ (i \notin Samples => SampleRows[i] = NoRow)
  BY DEF NoRows, SampleRows
<1>7. \A i \in Ids : SampleRows[i] # NoRow => i \in used
  BY <1>5, <1>6
<1>8. CASE BusesLoaded(l)
  <2>1. page = "buses" /\ UNCHANGED <<stats, error>> /\ load[l].what = "list" /\ SampleRows \in Tables
    BY <1>1, <1>5, <1>8, PageStates DEF BusesLoaded, Reads
  <2>2. /\ load[l].pc = "served" => rows' = IF load[l].got = NoRows THEN SampleRows ELSE load[l].got
        /\ load[l].pc = "failed" => rows' = IF rows = NoRows THEN SampleRows ELSE rows
    BY <1>8 DEF BusesLoaded
  <2> QED
    BY <1>3, <1>5, <1>6, <1>7, <2>1, <2>2, Types
<1>9. CASE UsersLoaded(l)
  <2>1. page = "users" /\ UNCHANGED <<stats, error>> /\ load[l].what = "list"
    BY <1>1, <1>9 DEF UsersLoaded, Reads
  <2>2. rows' = IF load[l].pc = "served" /\ load[l].got # NoRows THEN load[l].got ELSE rows
    BY <1>9 DEF UsersLoaded
  <2> QED
    BY <1>3, <1>5, <1>6, <2>1, <2>2, Types
<1>10. CASE RoutesLoaded(l) \/ RepliesLoaded(l) \/ MineLoaded(l)
  <2>1. page \in {"routes", "replies", "mine"} /\ load[l].what = "list"
    BY <1>1, <1>10 DEF RoutesLoaded, RepliesLoaded, MineLoaded, Reads
  <2>2. /\ load[l].pc = "served" => rows' = load[l].got /\ UNCHANGED <<stats, error>>
        /\ load[l].pc = "failed" => error' = TRUE /\ UNCHANGED <<rows, stats>>
    BY <1>10 DEF RoutesLoaded, RepliesLoaded, MineLoaded, ListLoaded
  <2> QED
    BY <1>3, <1>5, <2>1, <2>2, Types
<1>11. CASE ComplaintsLoaded(l)
  <2>1. /\ page = "complaints" /\ load[l].what = "list" /\ UNCHANGED <<stats, error>>
        /\ rows' = IF load[l].pc = "served" THEN load[l].got ELSE rows
    BY <1>11 DEF ComplaintsLoaded
  <2> QED
    BY <1>3, <1>5, <2>1, Types
<1>12. CASE StatsLoaded(l)
  <2>1. /\ page = "complaints" /\ load[l].what = "stats" /\ UNCHANGED <<rows, error>>
        /\ stats' = IF load[l].pc = "served" THEN load[l].got ELSE stats
    BY <1>12 DEF StatsLoaded
  <2> QED
    BY <1>4, <1>5, <2>1, Types
<1> QED
  BY <1>8, <1>9, <1>10, <1>11, <1>12

LEMMA LoadEnding ==
  ASSUME PageInv, NEW l \in Loads, LoadEnds(l)
  PROVE  PageInv'
<1> DEFINE by == load[l].of
<1>1. /\ load[l].pc \in {"served", "failed"} /\ loading' = loading \ {load[l].what}
      /\ load' = [load EXCEPT ![l] = Idle] /\ UNCHANGED <<page, table, used, filter, dialog, changes, trouble>>
      /\ \/ BusesLoaded(l) \/ UsersLoaded(l) \/ RoutesLoaded(l) \/ RepliesLoaded(l)
         \/ MineLoaded(l) \/ ComplaintsLoaded(l) \/ StatsLoaded(l)
  BY DEF LoadEnds, server
<1>2. /\ by = Nothing => UNCHANGED <<job, saving, deleting>>
      /\ by # Nothing => /\ job' = [job EXCEPT ![by] = Done]
                         /\ saving' = (saving /\ job[by].kind # "save")
                         /\ deleting' = (deleting /\ job[by].kind # "remove")
  BY DEF LoadEnds
<1>3. load \in [Loads -> ALoad] /\ load[l] \in ALoad /\ ~Free(l) /\ load[l].what \in Reads(page) /\ by \in Jobs \cup {Nothing}
  BY <1>1, LoadTypes, ALoadFields DEF PageInv, LoadsInv, Free
<1>4. by # Nothing => job[by].pc = "reloading"
  BY DEF PageInv, LoadsInv
<1>5. load' \in [Loads -> ALoad] /\ \A m \in Loads : load'[m] = IF m = l THEN Idle ELSE load[m]
  BY <1>1, <1>3, ALoadFields
<1>6. job' \in [Jobs -> JobsOf] /\ \A k \in Jobs : job'[k] = IF k = by THEN Done ELSE job[k]
  <2>1. job \in [Jobs -> JobsOf]
    BY DEF PageInv, PageTypeOK
  <2>2. CASE by = Nothing
    <3>1. \A k \in Jobs : k # by
      BY <2>2, WebPagesAssumption
    <3> QED
      BY <1>2, <2>1, <2>2, <3>1
  <2>3. CASE by # Nothing
    BY <1>2, <1>3, <2>1, <2>3, DoneJob
  <2> QED
    BY <2>2, <2>3
<1>7. /\ \A k \in Jobs : Running(k)' <=> Running(k) /\ k # by
      /\ \A k \in Jobs : k # by => job'[k] = job[k]
      /\ \A k \in Jobs : Asked(k)' <=> Asked(k)
  <2>1. \A k \in Jobs : k = by => ~Asked(k) /\ ~Asked(k)' /\ ~Running(k)'
    BY <1>4, <1>6, DoneJob, WebPagesAssumption DEF Asked, Running
  <2>2. \A k \in Jobs : k # by => job'[k] = job[k]
    BY <1>6
  <2> QED
    BY <2>1, <2>2 DEF Asked, Running
<1>8. /\ rows' \in Tables /\ (\A i \in Ids : rows'[i] # NoRow => i \in used)
      /\ stats' \in Nat \cup {Nothing} /\ error' \in BOOLEAN
      /\ load[l].what = "stats" => /\ rows' = rows /\ page = "complaints"
                                   /\ load[l].pc = "served" => stats' = load[l].got
      /\ load[l].what = "list" => stats' = stats
      /\ load[l].what = "list" /\ load[l].pc = "served" =>
           \A i \in Ids \ Samples : \/ rows'[i] = load[l].got[i]
                                    \/ page = "users" /\ load[l].got[i] = NoRow /\ rows'[i] = rows[i]
      /\ page = "replies" => /\ load[l].pc = "served" => rows' = load[l].got /\ load[l].what = "list"
                             /\ load[l].pc = "failed" => error' = TRUE
  BY <1>1, Shown
<1>9. saving' \in BOOLEAN /\ deleting' \in BOOLEAN
  BY <1>2, Types
<1> HIDE DEF by
<1>10. PageTypeOK'
  <2>1. PICK r \in [Loads -> ALoad] : r = load'
    BY <1>5
  <2>2. /\ load' = [m \in Loads |-> load'[m]]
        /\ \A m \in Loads : load'[m].what \in {"list", "stats"} /\ load'[m] \in LoadsOf(load'[m].what)
    BY <2>1, TypedLoads
  <2> QED
    BY <1>1, <1>6, <1>8, <1>9, <2>2 DEF PageInv, PageTypeOK
<1>11. load'[l] = Idle /\ Free(l)' /\ \A m \in Loads : m # l => load'[m] = load[m] /\ (Free(m)' <=> Free(m))
  BY <1>5, ALoadFields DEF Free
<1>12. LoadsInv'
  <2>1. loading' \subseteq Reads(page) /\ (filter = "ALL" \/ page \in {"replies", "mine"})
    BY <1>1 DEF PageInv, LoadsInv
  <2>2. ASSUME NEW m \in Loads
        PROVE  /\ Free(m)' => load'[m].of = Nothing
               /\ ~Free(m)' => load'[m].what \in Reads(page)
               /\ load'[m].pc = "served" <=> load'[m].got # Nothing
               /\ load'[m].pc = "served" /\ load'[m].what = "list" =>
                    \A i \in Ids : load'[m].got[i] # NoRow => i \in used /\ Passes(load'[m].got[i], load'[m].want)
               /\ load'[m].of # Nothing => job'[load'[m].of].pc = "reloading"
    <3>1. CASE m = l
      BY <1>11, <3>1, ALoadFields
    <3>2. CASE m # l
      <4>1. load'[m] = load[m] /\ (Free(m)' <=> Free(m))
        BY <1>11, <3>2
      <4>2. load[m].of # Nothing => job'[load[m].of].pc = "reloading"
        <5>1. load[m].of \in Jobs \cup {Nothing}
          BY LoadTypes, ALoadFields DEF PageInv
        <5>2. load[m].of # Nothing => load[m].of # by /\ job[load[m].of].pc = "reloading"
          BY <3>2 DEF PageInv, LoadsInv, by
        <5> QED
          BY <1>7, <5>1, <5>2
      <4> QED
        BY <4>1, <4>2 DEF PageInv, LoadsInv
    <3> QED
      BY <3>1, <3>2
  <2>3. \A m, k \in Loads : load'[m].of # Nothing /\ load'[m].of = load'[k].of => m = k
    BY <1>11, ALoadFields DEF PageInv, LoadsInv
  <2> QED
    BY <1>1, <2>1, <2>2, <2>3 DEF LoadsInv, Passes
<1>13. PageJobsInv'
  <2>1. ASSUME NEW k \in Jobs, Running(k)'
        PROVE  /\ page # "replies"
               /\ job'[k].kind # "remove" => job'[k].want \in Row
               /\ job'[k].kind = "remove" => page \in {"buses", "routes"}
               /\ job'[k].kind = "toggle" => page \in {"users", "routes"}
               /\ job'[k].row = Nothing => job'[k].kind = "save" /\ page \in MakesRows
               /\ job'[k].pc = "served" /\ job'[k].row = Nothing => job'[k].got # Nothing /\ job'[k].got.id \in used \ (Present \cup Samples)
               /\ job'[k].pc = "reloading" => \E m \in Loads : load'[m].of = k
    <3>1. Running(k) /\ k # by /\ job'[k] = job[k]
      BY <1>7, <2>1
    <3>2. job[k].pc = "reloading" => \E m \in Loads : load[m].of = k
      BY <3>1 DEF PageInv, PageJobsInv
    <3>3. job[k].pc = "reloading" => \E m \in Loads : load'[m].of = k
      BY <1>11, <3>1, <3>2 DEF by
    <3> QED
      BY <3>1, <3>3 DEF PageInv, PageJobsInv
  <2>2. /\ Present \cup Samples \subseteq used /\ \A i \in Ids : table[i] # NoRow \/ rows'[i] # NoRow => i \in used
        /\ dialog.kind = "form" => page # "replies" /\ (dialog.row = Nothing => page \in MakesRows)
        /\ dialog.kind = "remove" => dialog.row # Nothing /\ page \in {"buses", "routes"}
    BY <1>8 DEF PageInv, PageJobsInv
  <2>3. page = "mine" => dialog.row = Nothing /\ \A j \in Jobs : job'[j].row = Nothing
    BY <1>6 DEF PageInv, PageJobsInv, Done
  <2> QED
    BY <1>1, <2>1, <2>2, <2>3 DEF PageJobsInv
<1>14. RouteInv'
  <2> SUFFICES ASSUME page = "routes" PROVE RouteInv'
    BY <1>1 DEF RouteInv
  <2>1. /\ \A k, m \in Jobs : Running(k) /\ Running(m) /\ job[k].kind = job[m].kind /\ job[k].kind # "toggle" => k = m
        /\ \A k \in Jobs : Running(k) =>
             /\ job[k].kind = "save" => saving
             /\ job[k].kind = "remove" => deleting
             /\ job[k].kind # "toggle" /\ job[k].pc # "reloading" =>
                  /\ dialog.row = job[k].row
                  /\ dialog.kind = IF job[k].kind = "save" THEN "form" ELSE "remove"
    BY DEF PageInv, RouteInv
  <2>2. ASSUME NEW k \in Jobs, Running(k)'
        PROVE  /\ job'[k].kind = "save" => saving'
               /\ job'[k].kind = "remove" => deleting'
               /\ job'[k].kind # "toggle" /\ job'[k].pc # "reloading" =>
                    /\ dialog.row = job'[k].row
                    /\ dialog.kind = IF job'[k].kind = "save" THEN "form" ELSE "remove"
    <3>1. Running(k) /\ k # by /\ job'[k] = job[k]
      BY <1>7, <2>2
    <3>2. by # Nothing => Running(by) /\ by \in Jobs
      BY <1>3, <1>4 DEF Running, by
    <3>3. by # Nothing /\ job[k].kind = job[by].kind => job[k].kind = "toggle"
      BY <2>1, <3>1, <3>2
    <3>4. job[k].kind = "save" /\ saving => saving'
      BY <1>2, <3>3 DEF by
    <3>5. job[k].kind = "remove" /\ deleting => deleting'
      BY <1>2, <3>3 DEF by
    <3> QED
      BY <2>1, <3>1, <3>4, <3>5
  <2>3. \A k, m \in Jobs : Running(k)' /\ Running(m)' /\ job'[k].kind = job'[m].kind /\ job'[k].kind # "toggle" => k = m
    BY <1>7, <2>1
  <2> QED
    BY <1>1, <2>2, <2>3 DEF RouteInv
<1>15. OneOfEach'
  <2> SUFFICES ASSUME ~trouble \/ page = "replies" PROVE OneOfEach'
    BY <1>1 DEF OneOfEach
  <2>1. /\ \A m \in Loads : ~Free(m) => load[m].what \in loading /\ load[m].want = filter
        /\ \A m, k \in Loads : ~Free(m) /\ ~Free(k) /\ load[m].what = load[k].what => m = k
        /\ \A w \in loading : \E m \in Loads : ~Free(m) /\ load[m].what = w
    BY DEF PageInv, OneOfEach
  <2>2. \A m \in Loads : ~Free(m)' => load'[m].what \in loading' /\ load'[m].want = filter
    BY <1>1, <1>3, <1>11, <2>1
  <2>3. \A m, k \in Loads : ~Free(m)' /\ ~Free(k)' /\ load'[m].what = load'[k].what => m = k
    BY <1>11, <2>1
  <2>4. \A w \in loading' : \E m \in Loads : ~Free(m)' /\ load'[m].what = w
    BY <1>1, <1>11, <2>1
  <2> QED
    BY <1>1, <2>2, <2>3, <2>4 DEF OneOfEach
<1>16. FilterIsObeyed'
  <2> SUFFICES ASSUME page = "replies", ~error' PROVE \A i \in Ids : rows'[i] # NoRow => Passes(rows'[i], filter)
    BY <1>1 DEF FilterIsObeyed, Passes
  <2>1. load[l].pc = "served" /\ rows' = load[l].got /\ load[l].what = "list"
    BY <1>1, <1>8
  <2>2. load[l].want = filter
    BY <1>3 DEF PageInv, OneOfEach
  <2> QED
    BY <2>1, <2>2 DEF PageInv, LoadsInv
<1>17. QuietInv'
  <2> SUFFICES ASSUME ~trouble PROVE QuietLoads' /\ QuietRest'
    BY <1>1, QuietParts
  <2>1. QuietLoads /\ QuietRest
    BY QuietParts DEF PageInv
  <2>2. QuietLoads'
    BY <1>1, <1>11, <2>1, ALoadFields DEF QuietLoads, Passes, Pending
  <2>3. load[l].pc = "served" /\ load[l].what \in loading /\ load[l].what \in {"list", "stats"}
    BY <1>1, <1>3, <2>1 DEF QuietLoads, PageInv, OneOfEach, Reads
  <2>4. \A k \in Jobs : ~Asked(k) /\ ~Asked(k)'
    BY <1>7, <2>1, <2>3 DEF QuietRest
  <2>5. /\ "list" \notin loading => AllAgree
        /\ "stats" \notin loading => StatsAgree
        /\ page = "users" => \A i \in Ids \ Samples : rows[i] = NoRow
    <3>1. page = "users" => "list" \in loading
      BY <1>3, <2>3 DEF Reads
    <3> QED
      BY <2>1, <2>4, <3>1 DEF QuietRest
  <2>6. "list" \notin loading' => AllAgree'
    <3>1. CASE load[l].what = "list"
      <4>1. \A i \in Ids : load[l].got[i] = IF Passes(table[i], filter) THEN table[i] ELSE NoRow
        BY <2>1, <2>3, <3>1 DEF QuietLoads
      <4>2. \A i \in Ids \ Samples : rows'[i] = load[l].got[i]
        BY <1>8, <2>3, <2>5, <3>1
      <4> QED
        <5>1. Judged' = Judged /\ Judged \subseteq Ids \ Samples
          BY <1>1, WebPagesAssumption DEF Judged
        <5>2. ASSUME NEW i \in Judged PROVE Agrees(i)'
          <6>1. rows'[i] = IF Passes(table[i], filter) THEN table[i] ELSE NoRow
            BY <4>1, <4>2, <5>1
          <6> QED
            BY <1>1, <6>1 DEF Agrees, Passes
        <5> QED
          BY <5>1, <5>2 DEF AllAgree
    <3>2. CASE load[l].what = "stats"
      BY <1>1, <1>8, <2>5, <3>2 DEF AllAgree, Agrees, Passes, Carried, Judged
    <3> QED
      BY <2>3, <3>1, <3>2
  <2>7. "stats" \notin loading' => StatsAgree'
    <3>1. CASE load[l].what = "list"
      BY <1>1, <1>8, <2>5, <3>1 DEF StatsAgree, Pending
    <3>2. CASE load[l].what = "stats"
      BY <1>1, <1>8, <2>1, <2>3, <3>2 DEF StatsAgree, QuietLoads, Pending
    <3> QED
      BY <2>3, <3>1, <3>2
  <2>8. page = "users" => "list" \notin loading'
    BY <1>1, <1>3 DEF Reads
  <2>9. QuietRest'
    BY <1>1, <2>4, <2>6, <2>7, <2>8 DEF QuietRest
  <2> QED
    BY <2>2, <2>9
<1> QED
  BY <1>10, <1>12, <1>13, <1>14, <1>15, <1>16, <1>17 DEF PageInv
-----------------------------------------------------------------------------
(* Every step keeps it.                                                    *)
LEMMA PageSteps == PageInv /\ [PageNext]_pageVars => PageInv'
<1> SUFFICES ASSUME PageInv, [PageNext]_pageVars PROVE PageInv'
  OBVIOUS
<1>1. ASSUME NEW l \in Loads, LoadGoesOn(l) PROVE PageInv'
  BY <1>1, LoadServing, LoadFailing, LoadEnding DEF LoadGoesOn
<1>2. ASSUME NEW j \in Jobs, JobGoesOn(j) PROVE PageInv'
  BY <1>2, Creating, Serving, JobFails, Answers DEF JobGoesOn
<1>3. ASSUME UserActs PROVE PageInv'
  <2>1. ASSUME NEW l \in Loads, NEW f \in Filters, ChooseFilter(l, f) PROVE PageInv'
    BY <2>1, Filtering
  <2>2. CASE OpenNew \/ Cancel \/ \E i \in Ids : OpenForm(i) \/ Ask(i)
    BY <2>2, Dialogs
  <2>3. ASSUME NEW j \in Jobs,
               \/ Confirm(j)
               \/ \E want \in Row : Submit(j, want) \/ SubmitUser(j, want)
               \/ \E i \in Ids : Toggle(j, i)
        PROVE  PageInv'
    BY <2>3, Begins
  <2> QED
    BY <1>3, <2>1, <2>2, <2>3, Refreshing DEF UserActs
<1>4. ASSUME NEW i \in Ids, NEW new \in Row \cup {NoRow}, Foreign(i, new) PROVE PageInv'
  BY <1>4, Others
<1>5. CASE UNCHANGED pageVars
  <2>1. UNCHANGED <<page, table, used, rows, stats, filter, load, loading, error, dialog, saving, deleting, job, changes, trouble>>
    BY <1>5 DEF pageVars, server, list, modal
  <2>2. PageTypeOK'
    BY <2>1 DEF PageInv, PageTypeOK
  <2>3. LoadsInv' /\ OneOfEach'
    BY <2>1, LoadsStay
  <2>4. PageJobsInv'
    BY <2>1 DEF PageInv, PageJobsInv, Running
  <2>5. RouteInv' /\ FilterIsObeyed'
    BY <2>1 DEF PageInv, RouteInv, FilterIsObeyed, Running, Passes
  <2>6. QuietInv'
    BY <2>1, QuietStays DEF PageInv
  <2> QED
    BY <2>2, <2>3, <2>4, <2>5, <2>6 DEF PageInv
<1> QED
  BY <1>1, <1>2, <1>3, <1>4, <1>5 DEF PageNext

LEMMA PageInvariant == PageSpec => []PageInv
<1>1. PageInit => PageInv
  BY InitPage
<1>2. PageInv /\ [PageNext]_pageVars => PageInv'
  BY PageSteps
<1> QED
  BY <1>1, <1>2, PTL DEF PageSpec

(* Everything a page holds, with its loads and its changes in flight, has   *)
(* the shape the components give it (frontend/src/presentation/pages).     *)
THEOREM PageTypeCorrect == PageSpec => []PageTypeOK
<1>1. PageInv => PageTypeOK
  BY DEF PageInv
<1> QED
  BY <1>1, PageInvariant, PTL

(* The company's list, when it is not loading, has only complaints of the  *)
(* state it filters by, although requests are not numbered: the filter is  *)
(* away meanwhile (CompanyComplaintsPage.tsx:58-86, 92-172).               *)
THEOREM FiltersShowWhatTheyAsk == PageSpec => []FilterIsObeyed
<1>1. PageInv => FilterIsObeyed
  BY DEF PageInv
<1> QED
  BY <1>1, PageInvariant, PTL

(* Where the invented rows come from: a step that shows no more of them,   *)
(* and takes no row for gone that is there, keeps what is known of them.   *)
LEMMA InventedStays ==
  ASSUME InventedInv, UNCHANGED page, trouble => trouble', "list" \in loading => "list" \in loading',
         \A i \in Samples : table'[i] = NoRow /\ (rows'[i] # NoRow => rows[i] # NoRow),
         ~trouble' => \A k \in Present : table[k] = NoRow => table'[k] = NoRow
  PROVE  InventedInv'
BY DEF InventedInv

(* A list that was read takes the place of what there was.                 *)
LEMMA InventedShown ==
  ASSUME InventedInv, PageInv, NEW l \in Loads, LoadEnds(l)
  PROVE  InventedInv'
<1>1. /\ load[l].pc \in {"served", "failed"} /\ loading' = loading \ {load[l].what}
      /\ UNCHANGED <<page, table, filter, trouble>>
      /\ \/ BusesLoaded(l) \/ UsersLoaded(l) \/ RoutesLoaded(l) \/ RepliesLoaded(l)
         \/ MineLoaded(l) \/ ComplaintsLoaded(l) \/ StatsLoaded(l)
  BY DEF LoadEnds, server
<1>2. \A i \in Samples : table'[i] = NoRow
  BY <1>1 DEF InventedInv
<1>3. load[l].what \in {"list", "stats"} /\ load[l].what \in Reads(page)
  BY <1>1, LoadTypes DEF PageInv, LoadsInv, Free
<1>4. CASE load[l].what = "stats"
  <2>1. rows' = rows /\ ("list" \in loading => "list" \in loading')
    BY <1>1, <1>4, Shown
  <2> QED
    BY <1>1, <1>2, <2>1, InventedStays
<1>5. CASE load[l].what = "list"
  <2> SUFFICES ASSUME ~trouble, NEW i \in Samples, NEW k \in Present, rows'[i] # NoRow
               PROVE  table[k] = NoRow
    BY <1>1, <1>2 DEF InventedInv
  <2>1. /\ load[l].pc = "served"
        /\ load[l].got = [n \in Ids |-> IF Passes(table[n], filter) THEN table[n] ELSE NoRow]
    BY <1>1, <1>5 DEF PageInv, QuietInv
  <2>2. i \in Ids /\ k \in Ids
    BY WebPagesAssumption
  <2>3. load[l].got[i] = NoRow
    BY <2>1, <2>2 DEF InventedInv, Passes
  <2>4. rows' # load[l].got
    BY <2>3
  <2>5. page \in {"buses", "users"} /\ load[l].got = NoRows
    <3>1. ~RoutesLoaded(l) /\ ~RepliesLoaded(l) /\ ~MineLoaded(l) /\ ~ComplaintsLoaded(l) /\ ~StatsLoaded(l)
      BY <1>5, <2>1, <2>4 DEF RoutesLoaded, RepliesLoaded, MineLoaded, ListLoaded, ComplaintsLoaded, StatsLoaded
    <3>2. BusesLoaded(l) \/ UsersLoaded(l)
      BY <1>1, <3>1
    <3> QED
      BY <2>1, <2>4, <3>2 DEF BusesLoaded, UsersLoaded
  <2>6. filter = "ALL"
    BY <2>5 DEF PageInv, LoadsInv
  <2>7. table[k] \in Row => Passes(table[k], filter)
    BY <2>6, WebPagesAssumption DEF Passes
  <2>8. load[l].got[k] = NoRow
    BY <2>2, <2>5 DEF NoRows
  <2> QED
    BY <2>1, <2>2, <2>7, <2>8, Types
<1> QED
  BY <1>3, <1>4, <1>5

(* An answer puts rows where the server made them, or where the page did.  *)
LEMMA InventedAnswered ==
  ASSUME InventedInv, PageInv, NEW j \in Jobs, Answered(j)
  PROVE  InventedInv'
<1>1. /\ job[j].pc \in {"served", "failed"} /\ UNCHANGED <<page, table, filter, trouble>>
      /\ \/ SaveBusAnswered(j) \/ DeleteBusAnswered(j) \/ ResolutionAnswered(j)
         \/ UserAnswered(j) \/ RouteAnswered(j) \/ MineAnswered(j)
  BY DEF Answered
<1>2. rows \in Tables /\ Samples \subseteq Ids /\ Samples \subseteq used
  BY WebPagesAssumption DEF PageInv, PageTypeOK, PageJobsInv
<1>3. job[j].row \in Ids \cup {Nothing}
  BY <1>1, AnswerComes
<1>4. job[j].pc = "served" /\ job[j].row = Nothing => job[j].got.id \in Ids \ Samples
  BY <1>1, AnswerComes
<1>5. "list" \in loading => "list" \in loading'
  BY <1>1 DEF SaveBusAnswered, DeleteBusAnswered, ResolutionAnswered, UserAnswered, RouteAnswered, MineAnswered, Asks
<1>6. ASSUME NEW i \in Samples, rows'[i] # NoRow PROVE rows[i] # NoRow
  <2>1. \A m \in Ids : \A x : m # i => [rows EXCEPT ![m] = x][i] = rows[i]
    BY <1>2 DEF Tables
  <2>2. \A m \in Ids : \A x : Put(m, x)[i] # NoRow => rows[i] # NoRow
    BY <1>2 DEF Put, Tables
  <2>3. CASE SaveBusAnswered(j)
    BY <1>3, <1>4, <1>6, <2>1, <2>2, <2>3 DEF SaveBusAnswered, Succeeded
  <2>4. CASE DeleteBusAnswered(j)
    <3>1. rows' = [rows EXCEPT ![job[j].row] = NoRow]
      BY <2>4 DEF DeleteBusAnswered
    <3> QED
      BY <1>2, <1>6, <3>1 DEF Tables
  <2>5. CASE ResolutionAnswered(j) \/ RouteAnswered(j)
    BY <1>6, <2>5 DEF ResolutionAnswered, RouteAnswered
  <2>6. CASE UserAnswered(j)
    <3>1. CASE job[j].row = Nothing
      BY <1>2, <1>6, <2>1, <2>6, <3>1 DEF UserAnswered, FirstId
    <3>2. CASE job[j].row # Nothing
      <4>1. \E x : rows' = Put(job[j].row, x)
        BY <2>6, <3>2 DEF UserAnswered
      <4> QED
        BY <1>3, <1>6, <2>2, <3>2, <4>1
    <3> QED
      BY <3>1, <3>2
  <2>7. CASE MineAnswered(j)
    <3>1. job[j].row = Nothing
      BY <1>1, <2>7, AnswerComes DEF MineAnswered
    <3> QED
      BY <1>4, <1>6, <2>1, <2>7, <3>1 DEF MineAnswered, Succeeded
  <2> QED
    BY <1>1, <2>3, <2>4, <2>5, <2>6, <2>7
<1> QED
  BY <1>1, <1>5, <1>6, InventedStays DEF InventedInv

LEMMA InventedSteps == InventedInv /\ PageInv /\ [PageNext]_pageVars => InventedInv'
<1> SUFFICES ASSUME InventedInv, PageInv, [PageNext]_pageVars PROVE InventedInv'
  OBVIOUS
<1>1. \A i \in Samples : table[i] = NoRow /\ i \in used
  BY DEF InventedInv, PageInv, PageJobsInv
<1>2. table \in Tables /\ Present \subseteq used
  BY DEF PageInv, PageTypeOK, PageJobsInv
<1>3. ASSUME UNCHANGED <<page, table, rows>>, trouble => trouble', loading \subseteq loading'
      PROVE  InventedInv'
  BY <1>1, <1>3, InventedStays
<1>4. ASSUME NEW l \in Loads, LoadGoesOn(l) PROVE InventedInv'
  <2>1. CASE LoadServed(l) \/ LoadBreaks(l)
    BY <1>3, <2>1 DEF LoadServed, LoadBreaks, server
  <2> QED
    BY <1>4, <2>1, InventedShown DEF LoadGoesOn
<1>5. ASSUME NEW j \in Jobs, JobGoesOn(j) PROVE InventedInv'
  <2>1. CASE Create(j)
    <3>1. PICK i \in Ids : i \notin used /\ table' = [table EXCEPT ![i] = Created(job[j])]
      BY <2>1 DEF Create, FirstId
    <3>2. UNCHANGED <<page, rows, loading, trouble>>
      BY <2>1 DEF Create, list
    <3>3. \A k \in Ids : k # i => table'[k] = table[k]
      BY <1>2, <3>1 DEF Tables
    <3> QED
      BY <1>1, <1>2, <3>1, <3>2, <3>3, InventedStays, WebPagesAssumption
  <2>2. CASE Serve(j)
    <3>1. table[job[j].row] # NoRow /\ table' = [table EXCEPT ![job[j].row] = After(job[j], table[job[j].row])]
      BY <2>2 DEF Serve
    <3>2. UNCHANGED <<page, rows, loading, trouble>>
      BY <2>2 DEF Serve, list
    <3>3. \A k \in Ids : table[k] = NoRow => table'[k] = NoRow
      BY <1>2, <3>1 DEF Tables
    <3> QED
      BY <1>1, <3>2, <3>3, InventedStays, WebPagesAssumption
  <2>3. CASE JobBreaks(j)
    BY <1>3, <2>3 DEF JobBreaks, server, list
  <2> QED
    BY <1>5, <2>1, <2>2, <2>3, InventedAnswered DEF JobGoesOn
<1>6. ASSUME UserActs PROVE InventedInv'
  <2>1. ASSUME NEW j \in Jobs, NEW kind, NEW i, NEW want, Starts(j, kind, i, want) PROVE InventedInv'
    BY <1>3, <2>1 DEF Starts, server
  <2>2. ASSUME NEW d, OpensDialog(d) PROVE InventedInv'
    BY <1>3, <2>2 DEF OpensDialog, server
  <2>3. CASE Refresh \/ \E l \in Loads, f \in Filters : ChooseFilter(l, f)
    BY <1>3, <2>3 DEF Refresh, ChooseFilter, Asks, server
  <2>4. CASE OpenNew \/ Cancel \/ \E i \in Ids : OpenForm(i) \/ Ask(i)
    BY <2>2, <2>4 DEF OpenNew, Cancel, OpenForm, Ask
  <2>5. CASE \E j \in Jobs : \/ Confirm(j)
                             \/ \E want \in Row : Submit(j, want) \/ SubmitUser(j, want)
                             \/ \E i \in Ids : Toggle(j, i)
    BY <2>1, <2>5 DEF Confirm, Submit, SubmitUser, Toggle
  <2> QED
    BY <1>6, <2>3, <2>4, <2>5 DEF UserActs
<1>7. ASSUME NEW i \in Ids, NEW new \in Row \cup {NoRow}, Foreign(i, new) PROVE InventedInv'
  <2>1. /\ table' = [table EXCEPT ![i] = new] /\ trouble' = TRUE /\ UNCHANGED <<page, rows, loading>>
        /\ table[i] = NoRow => i \notin used
    BY <1>7 DEF Foreign, list, FirstId
  <2>2. \A k \in Samples : table'[k] = NoRow
    BY <1>1, <1>2, <2>1, WebPagesAssumption DEF Tables
  <2> QED
    BY <2>1, <2>2, InventedStays
<1>8. CASE UNCHANGED pageVars
  BY <1>3, <1>8 DEF pageVars, server, list
<1> QED
  BY <1>4, <1>5, <1>6, <1>7, <1>8 DEF PageNext

LEMMA InventedInvariant == PageSpec => []InventedInv
<1>1. PageInit => InventedInv
  <2> SUFFICES ASSUME PageInit PROVE InventedInv
    OBVIOUS
  <2>1. "list" \in loading
    BY DEF PageInit, Reads
  <2>2. \A i \in Samples : table[i] = NoRow
    BY WebPagesAssumption DEF PageInit
  <2> QED
    BY <2>1, <2>2 DEF InventedInv
<1>2. InventedInv /\ PageInv /\ [PageNext]_pageVars => InventedInv'
  BY InventedSteps
<1> QED
  BY <1>1, <1>2, PageInvariant, PTL DEF PageSpec

(* As long as nothing fails or overlaps and nobody else changes a row, a   *)
(* page at rest shows of each row the server has what its requests carry   *)
(* of it, also where it edits its list itself after an answer, and the     *)
(* rows it invents only in the place of an empty list                      *)
(* (CompanyBusesPage.tsx:130-156, 206-263, AdminUsersPage.tsx:231-293). On *)
(* the page of the users: of the accounts there were when it was opened.   *)
THEOREM ListsAgreeAtRest == PageSpec => []QuietAgrees
<1>1. PageInv /\ InventedInv => QuietAgrees
  <2> SUFFICES ASSUME PageInv, InventedInv, ~trouble, Quiet PROVE QuietAgrees
    BY DEF QuietAgrees
  <2>1. loading = {}
    BY DEF PageInv, OneOfEach, PageTypeOK, Quiet
  <2>2. \A j \in Jobs : ~Asked(j)
    BY DEF Quiet, Running, Asked
  <2>3. AllAgree /\ StatsAgree
    BY <2>1, <2>2 DEF PageInv, QuietInv
  <2>4. \A i \in Samples, k \in Present : rows[i] # NoRow => table[k] = NoRow
    BY <2>1 DEF InventedInv
  <2> QED
    BY <2>3, <2>4 DEF QuietAgrees, AllAgree, Agrees, StatsAgree
<1> QED
  BY <1>1, PageInvariant, InventedInvariant, PTL

(* The answer to a change of a route closes the dialog of that change or   *)
(* none (AdminRoutesPage.tsx:56-82, 257-318).                              *)
THEOREM RoutesCloseTheirDialog == PageSpec => OnlyOwnDialogCloses
<1>1. PageInv /\ [PageNext]_pageVars =>
        [\A j \in Jobs : RouteAnswered(j) /\ dialog' # dialog => dialog.row = job[j].row /\ dialog # NoDialog]_pageVars
  <2> SUFFICES ASSUME PageInv, NEW j \in Jobs, RouteAnswered(j), dialog' # dialog
               PROVE  dialog.row = job[j].row /\ dialog # NoDialog
    OBVIOUS
  <2>1. page = "routes" /\ job[j].pc = "served" /\ job[j].kind # "toggle"
    BY DEF RouteAnswered, Succeeded, RouteDialogAfter
  <2>2. dialog.row = job[j].row /\ dialog.kind \in {"form", "remove"}
    BY <2>1 DEF PageInv, RouteInv, Running
  <2> QED
    BY <2>2 DEF NoDialog
<1> QED
  BY <1>1, PageInvariant, PTL DEF PageSpec, OnlyOwnDialogCloses
=============================================================================
