----------------------------- MODULE NodeBackend -----------------------------
(***************************************************************************)
(* The Node backend the Go one was ported from (backend/src): accounts and *)
(* complaints, each in a store with two tiers, and the simulation of buses *)
(* it broadcasts.                                                          *)
(*                                                                         *)
(* UserStore and ComplaintStore try the database first.  A read falls back *)
(* to the memory of the process when the database fails or does not have   *)
(* the record; a write falls back when the database throws, whatever the   *)
(* reason: it is down, the e-mail is taken, the record is not there, or    *)
(* the write was done and its answer was lost.  The memory is seeded when  *)
(* the process starts and is gone when it ends.                            *)
(*                                                                         *)
(* A handler is one action between two awaits.  A record is named by its   *)
(* number, in the order of creation, which is the order of the memory.     *)
(***************************************************************************)
EXTENDS Integers, Sequences, SequencesExt, FiniteSetsExt

CONSTANTS
    Emails, Passwords,
    SeedUser,      \* the account the memory is seeded with
    Changes,       \* bodies of PUT /users/:id: [email, password, active], None where absent
    ComplaintStatuses,
    Capacity,      \* MAX_BUS_CAPACITY
    Slots,         \* bound: requests about accounts in flight at a time
    Viewers,       \* Socket.IO clients
    MaxUsers, MaxComplaints, \* bounds: records ever created
    MaxQueue,      \* bound: messages on their way to a client
    MaxActs,       \* bound: requests, events and failures
    None

Accounts   == 1..MaxUsers
Complaints == 1..MaxComplaints
User    == [email : Emails, password : Passwords, active : BOOLEAN]
Change  == [email : Emails \union {None}, password : Passwords \union {None}, active : BOOLEAN \union {None}]
Promise == [active : BOOLEAN, password : Passwords]

\* A request about accounts that waits: a login, once it has found the account,
\* holds the record it read; a change holds what is asked for.
Registration == [op : {"register"}, at : {"find", "password"}, user : {None}, email : Emails,
                 password : Passwords, change : {None}, seen : {None}]
LoginAsked   == [op : {"login"}, at : {"find"}, user : {None}, email : Emails,
                 password : Passwords, change : {None}, seen : [Accounts -> Promise \union {None}]]
LoginFound   == [op : {"login"}, at : {"password"}, user : Accounts, email : Emails,
                 password : Passwords, change : User, seen : [Accounts -> Promise \union {None}]]
Put          == [op : {"put"}, at : {"find", "update"}, user : Accounts, email : {None},
                 password : {None}, change : Change, seen : {None}]
Deletion     == [op : {"delete"}, at : {"update"}, user : Accounts, email : {None},
                 password : {None}, change : Change, seen : {None}]
Waiting      == Registration \union LoginAsked \union LoginFound \union Put \union Deletion

ASSUME NodeBackendAssumption ==
    /\ SeedUser \in User /\ Changes \subseteq Change
    /\ {"PENDING", "IN_REVIEW"} \subseteq ComplaintStatuses
    /\ Capacity \in Nat \ {0} /\ {MaxUsers, MaxComplaints} \subseteq Nat \ {0}
    /\ {MaxQueue, MaxActs} \subseteq Nat
    /\ None \notin User \union Promise \union Accounts \union Waiting \union ComplaintStatuses

VARIABLES
    dbUp,           \* the database answers
    dbUsers, memUsers,
    nextUser,       \* the number of the next account
    requests,       \* handlers of accounts that are waiting, None: free
    dbComplaints, memComplaints, nextComplaint,
    bus,            \* a simulated bus: passengers, boardings, alightings
    viewers,        \* what every client shows, what is on its way to it
    acts,
    promised,       \* history: what the last answered change says of an account
    told,           \* history: the status the last answered change says
    broken          \* history: a login ignored a change answered before it began

users      == <<dbUsers, memUsers, nextUser, requests, promised, broken>>
complaints == <<dbComplaints, memComplaints, nextComplaint, told>>
simulation == <<bus, viewers>>
nodeVars == <<dbUp, users, complaints, simulation, acts>>

Act == acts < MaxActs /\ acts' = acts + 1

(***************************************************************************)
(* UserStore.                                                              *)
(***************************************************************************)
WithEmail(store, e) == {i \in Accounts : store[i] # None /\ store[i].email = e}
Having(e) == WithEmail(dbUsers, e) \union WithEmail(memUsers, e)

\* findByEmail: the database, else the first of the memory.
FindByEmail(e) ==
    LET db == WithEmail(dbUsers, e)
        memory == WithEmail(memUsers, e)
    IN  IF dbUp /\ db # {} THEN Min(db) ELSE IF memory # {} THEN Min(memory) ELSE None

\* findById.
UserRecord(i) == IF dbUp /\ dbUsers[i] # None THEN dbUsers[i] ELSE memUsers[i]

\* create: answers the account n.  If the answer of the database is lost,
\* there is an account in each store, and the memory's is answered.
CreateAccount(u, n) ==
    LET taken == WithEmail(dbUsers, u.email) # {}
    IN  /\ nextUser' = n + 1
        /\ \/ /\ n = nextUser /\ dbUp /\ ~taken
              /\ dbUsers' = [dbUsers EXCEPT ![n] = u]
              /\ UNCHANGED memUsers
           \/ /\ n = nextUser /\ (~dbUp \/ taken)
              /\ memUsers' = [memUsers EXCEPT ![n] = u]
              /\ UNCHANGED dbUsers
           \/ /\ n = nextUser + 1 /\ dbUp /\ ~taken
              /\ dbUsers' = [dbUsers EXCEPT ![nextUser] = u]
              /\ memUsers' = [memUsers EXCEPT ![n] = u]

\* Mutant: a field is written only if it is truthy, as the others are.
Changed_OnlyTruthy(u, c) ==
    [email    |-> IF c.email = None THEN u.email ELSE c.email,
     password |-> IF c.password = None THEN u.password ELSE c.password,
     active   |-> u.active \/ c.active = TRUE]

\* The fields a change has.
Changed(u, c) ==
    [email    |-> IF c.email = None THEN u.email ELSE c.email,
     password |-> IF c.password = None THEN u.password ELSE c.password,
     active   |-> IF c.active = None THEN u.active ELSE c.active]

\* update: answers the account or nothing (done or not).  The e-mail is unique
\* in the database only.
UpdateUser(i, c, done) ==
    LET hasIt == dbUp /\ dbUsers[i] # None
                 /\ WithEmail(dbUsers, Changed(dbUsers[i], c).email) \subseteq {i}
    IN  \/ /\ hasIt
           /\ dbUsers' = [dbUsers EXCEPT ![i] = Changed(@, c)]
           /\ UNCHANGED memUsers
        \/ /\ ~hasIt /\ memUsers[i] # None /\ done
           /\ memUsers' = [memUsers EXCEPT ![i] = Changed(@, c)]
           /\ UNCHANGED dbUsers
        \/ /\ ~hasIt /\ memUsers[i] = None /\ ~done
           /\ UNCHANGED <<dbUsers, memUsers>>

(***************************************************************************)
(* The routes of accounts.  A request in flight holds what its handler has *)
(* read and, for the properties, what was promised when it came in.        *)
(***************************************************************************)
Request(op, at, user, email, password, change, seen) ==
    [op |-> op, at |-> at, user |-> user, email |-> email, password |-> password,
     change |-> change, seen |-> seen]

Takes(q, r)  == requests' = [requests EXCEPT ![q] = r]
Answered(q)  == Takes(q, None)

\* A login under way is held to nothing about an account that changes meanwhile.
TakesChange(q, i, r) ==
    requests' = [p \in Slots |-> IF p = q THEN r
                                 ELSE IF requests[p] # None /\ requests[p].op = "login"
                                      THEN [requests[p] EXCEPT !.seen[i] = None]
                                      ELSE requests[p]]

\* The slots are interchangeable.
Free == LET free == {q \in Slots : requests[q] = None}
        IN  IF free = {} THEN {} ELSE {CHOOSE q \in free : TRUE}

\* The deactivation of DELETE /users/:id.
Deactivation == [email |-> None, password |-> None, active |-> FALSE]

\* POST /auth/register and /auth/login, PUT and DELETE /users/:id come in,
\* validated.  What was promised of an account holds no more once another
\* change of it is under way.
Receives ==
    /\ Act
    /\ \E q \in Free :
        \/ \E e \in Emails, p \in Passwords :
              /\ \/ Takes(q, Request("register", "find", None, e, p, None, None))
                 \/ Takes(q, Request("login", "find", None, e, p, None, promised))
              /\ UNCHANGED promised
        \/ \E i \in 1..(nextUser - 1) :
              /\ \/ \E c \in Changes : TakesChange(q, i, Request("put", "find", i, None, None, c, None))
                 \/ TakesChange(q, i, Request("delete", "update", i, None, None, Deactivation, None))
              /\ promised' = [promised EXCEPT ![i] = None]
    /\ UNCHANGED <<dbUp, dbUsers, memUsers, nextUser, broken, complaints, simulation>>

\* What a login that finds its account is held to: all it was promised, or,
\* where the e-mail has a second account, what it was promised of the one found
\* (the one of the database, if it answers).
HeldTo(r, found) ==
    IF Having(r.email) = {found} THEN r.seen
    ELSE [i \in Accounts |-> IF i = found THEN r.seen[i] ELSE None]

\* The handler looks the account up and goes on to the password (a hash or a
\* comparison, which suspend it), or answers 409, 401 or 404.
Finds(q) ==
    LET r == requests[q]
        user == IF r.op = "put" THEN r.user ELSE FindByEmail(r.email)
        goesOn == CASE r.op = "register" -> user = None
                    [] r.op = "login"    -> user # None
                    [] OTHER             -> UserRecord(user) # None
    IN  /\ r.at = "find"
        /\ IF goesOn
           THEN Takes(q, [r EXCEPT !.at = IF r.op = "put" THEN "update" ELSE "password",
                                   !.user = user,
                                   !.change = IF r.op = "login" THEN UserRecord(user) ELSE @,
                                   !.seen = IF r.op = "login" THEN HeldTo(r, user) ELSE @])
           ELSE Answered(q)
        /\ UNCHANGED <<dbUsers, memUsers, nextUser, promised, broken>>

\* The account is created, active, and its token is answered.
Registers(q) ==
    LET r == requests[q]
    IN  /\ r.op = "register" /\ r.at = "password"
        /\ Answered(q)
        /\ \E n \in Accounts :
              /\ CreateAccount([email |-> r.email, password |-> r.password, active |-> TRUE], n)
              /\ promised' = [promised EXCEPT ![n] = [active |-> TRUE, password |-> r.password]]
        /\ UNCHANGED broken

\* Whether the login gives a token, by the record it read.
LoginSucceeds(r) == r.change.password = r.password /\ r.change.active

\* The login is wrong if it succeeds against what it is held to, of the account
\* it found or of any that has the e-mail it gave.
Logs(q) ==
    LET r == requests[q]
    IN  /\ r.op = "login" /\ r.at = "password"
        /\ Answered(q)
        /\ broken' = (broken \/ /\ LoginSucceeds(r)
                                /\ \E i \in {r.user} \union Having(r.email) :
                                      r.seen[i] \notin {None, [active |-> TRUE, password |-> r.password]})
        /\ UNCHANGED <<dbUsers, memUsers, nextUser, promised>>

\* What an answered change promises: what it asked for, the rest as it is.
Asked(c, now) == [active   |-> IF c.active = None THEN now.active ELSE c.active,
                  password |-> IF c.password = None THEN now.password ELSE c.password]

Updates(q) ==
    LET r == requests[q]
        others == {p \in Slots \ {q} : requests[p] # None /\ requests[p].op \in {"put", "delete"}
                                       /\ requests[p].user = r.user}
        now == IF dbUsers'[r.user] # None THEN dbUsers'[r.user] ELSE memUsers'[r.user]
    IN  /\ r.at = "update"
        /\ Answered(q)
        /\ \E done \in BOOLEAN :
              /\ UpdateUser(r.user, r.change, done)
              /\ promised' = IF done /\ others = {}
                              THEN [promised EXCEPT ![r.user] = Asked(r.change, now)]
                              ELSE promised
        /\ UNCHANGED <<nextUser, broken>>

RequestGoesOn ==
    /\ \E q \in Slots : requests[q] # None /\ (Finds(q) \/ Registers(q) \/ Logs(q) \/ Updates(q))
    /\ UNCHANGED <<dbUp, complaints, simulation, acts>>

(***************************************************************************)
(* Complaints: ComplaintStore and its routes.                              *)
(***************************************************************************)

\* findById.
ComplaintRecord(i) == IF dbUp /\ dbComplaints[i] # None THEN dbComplaints[i] ELSE memComplaints[i]

\* listAll with a set of statuses: one store or the other, never both.
Listed(store, statuses) == {i \in Complaints : store[i] # None /\ store[i] \in statuses}
ListAll(statuses) ==
    LET db == IF dbUp THEN Listed(dbComplaints, statuses) ELSE {}
    IN  IF db # {} THEN {<<i, dbComplaints[i]>> : i \in db}
        ELSE {<<i, memComplaints[i]>> : i \in Listed(memComplaints, statuses)}

\* POST /complaints.
FileComplaint ==
    LET n == nextComplaint
    IN  /\ Act
        /\ \/ /\ dbUp /\ n \in Complaints
              /\ dbComplaints' = [dbComplaints EXCEPT ![n] = "PENDING"]
              /\ nextComplaint' = n + 1
              /\ told' = [told EXCEPT ![n] = "PENDING"]
              /\ UNCHANGED memComplaints
           \/ /\ ~dbUp /\ n \in Complaints
              /\ memComplaints' = [memComplaints EXCEPT ![n] = "PENDING"]
              /\ nextComplaint' = n + 1
              /\ told' = [told EXCEPT ![n] = "PENDING"]
              /\ UNCHANGED dbComplaints
           \/ /\ dbUp /\ n + 1 \in Complaints
              /\ dbComplaints' = [dbComplaints EXCEPT ![n] = "PENDING"]
              /\ memComplaints' = [memComplaints EXCEPT ![n + 1] = "PENDING"]
              /\ nextComplaint' = n + 2
              /\ told' = [told EXCEPT ![n + 1] = "PENDING"]
        /\ UNCHANGED <<dbUp, users, simulation>>

\* Mutant: what the database could not do is answered as done.
UpdateComplaint_SaysYes(i, s) ==
    \/ /\ dbUp /\ dbComplaints[i] # None
       /\ dbComplaints' = [dbComplaints EXCEPT ![i] = s]
       /\ told' = [told EXCEPT ![i] = s]
       /\ UNCHANGED memComplaints
    \/ /\ ~(dbUp /\ dbComplaints[i] # None)
       /\ memComplaints' = IF memComplaints[i] = None THEN memComplaints ELSE [memComplaints EXCEPT ![i] = s]
       /\ told' = [told EXCEPT ![i] = s]
       /\ UNCHANGED dbComplaints

\* updateStatus: the database, else the memory if it has the complaint; a
\* complaint of a database that fails is answered 404.  Whoever lost the
\* answer of a change knows nothing of the complaint.
UpdateComplaint(i, s) ==
    \/ /\ dbUp /\ dbComplaints[i] # None
       /\ dbComplaints' = [dbComplaints EXCEPT ![i] = s]
       /\ told' \in {[told EXCEPT ![i] = s], [told EXCEPT ![i] = None]}
       /\ UNCHANGED memComplaints
    \/ /\ ~(dbUp /\ dbComplaints[i] # None) /\ memComplaints[i] # None
       /\ memComplaints' = [memComplaints EXCEPT ![i] = s]
       /\ told' = [told EXCEPT ![i] = s]
       /\ UNCHANGED dbComplaints
    \/ /\ ~(dbUp /\ dbComplaints[i] # None) /\ memComplaints[i] = None
       /\ UNCHANGED <<dbComplaints, memComplaints, told>>

\* PUT and PATCH /complaints/:id/status.
StatusChanges ==
    /\ Act
    /\ \E i \in 1..(nextComplaint - 1), s \in ComplaintStatuses : UpdateComplaint(i, s)
    /\ UNCHANGED <<dbUp, users, nextComplaint, simulation>>

(***************************************************************************)
(* The simulation.                                                         *)
(***************************************************************************)

\* calculateOccupancy keeps the count within the bus.
Clamped(n) == Min({Capacity, Max({0, n})})

\* processSimulationEvent: a card (normal or student, counted together here),
\* the sensor of the rear door, or a tool that fills or empties the bus.
After(event) ==
    CASE event = "tap_in" ->
            IF bus.passengers < Capacity
            THEN [bus EXCEPT !.passengers = @ + 1, !.boardings = @ + 1] ELSE bus
      [] event = "sensor_alight" ->
            IF bus.passengers > 0
            THEN [bus EXCEPT !.passengers = @ - 1, !.alightings = @ + 1] ELSE bus
      [] event = "fill_max" ->
            [bus EXCEPT !.passengers = Capacity, !.boardings = @ + Max({0, Capacity - bus.passengers})]
      [] event = "reset_empty" ->
            [bus EXCEPT !.passengers = 0, !.alightings = @ + bus.passengers]

\* io.emit: to every client that is connected, in order.
Emits(b) ==
    /\ \A v \in Viewers : Len(viewers[v].queue) < MaxQueue
    /\ viewers' = [v \in Viewers |-> IF viewers[v].on
                                     THEN [viewers[v] EXCEPT !.queue = Append(@, b)]
                                     ELSE viewers[v]]

\* Mutant: the event is not emitted.
Event_Silent ==
    /\ Act
    /\ \E event \in {"tap_in", "sensor_alight", "fill_max", "reset_empty"} :
          bus' = [After(event) EXCEPT !.passengers = Clamped(@)]
    /\ UNCHANGED <<dbUp, users, complaints, viewers>>

\* An event over HTTP or the socket.
Event ==
    /\ Act
    /\ \E event \in {"tap_in", "sensor_alight", "fill_max", "reset_empty"} :
          bus' = [After(event) EXCEPT !.passengers = Clamped(@)]
    /\ Emits(bus')
    /\ UNCHANGED <<dbUp, users, complaints>>

\* Every two seconds the bus moves and is emitted.
SimulationTick ==
    /\ bus' = [bus EXCEPT !.passengers = Clamped(@)]
    /\ Emits(bus')
    /\ UNCHANGED <<dbUp, users, complaints, acts>>

\* A client connects and is sent the buses as they are.
Connects ==
    /\ Act
    /\ \E v \in Viewers :
          /\ ~viewers[v].on
          /\ viewers' = [viewers EXCEPT ![v] = [on |-> TRUE, queue |-> <<bus>>, shown |-> None]]
    /\ UNCHANGED <<dbUp, users, complaints, bus>>

Disconnects ==
    /\ \E v \in Viewers :
          /\ viewers[v].on
          /\ viewers' = [viewers EXCEPT ![v] = [on |-> FALSE, queue |-> <<>>, shown |-> None]]
    /\ UNCHANGED <<dbUp, users, complaints, bus, acts>>

Arrives ==
    /\ \E v \in Viewers :
          /\ viewers[v].queue # <<>>
          /\ viewers' = [viewers EXCEPT ![v].shown = Head(viewers[v].queue), ![v].queue = Tail(@)]
    /\ UNCHANGED <<dbUp, users, complaints, bus, acts>>

(***************************************************************************)
(* The database and the process.                                           *)
(***************************************************************************)
DatabaseChanges ==
    /\ Act
    /\ dbUp' = ~dbUp
    /\ UNCHANGED <<users, complaints, simulation>>

Seeded(store, first) == [i \in DOMAIN store |-> IF i = 1 THEN first ELSE None]
NewBus == [passengers |-> 1, boardings |-> 1, alightings |-> 0]
NobodyOn == [v \in Viewers |-> [on |-> FALSE, queue |-> <<>>, shown |-> None]]

\* SIGTERM, and a new process: the requests and the memory are gone, the sockets
\* closed.  What was answered of the seeded records holds no more: they are back
\* as the seed has them.
NodeRestarts ==
    /\ Act
    /\ memUsers' = Seeded(memUsers, SeedUser)
    /\ memComplaints' = Seeded(memComplaints, "IN_REVIEW")
    /\ requests' = [q \in Slots |-> None]
    /\ promised' = [promised EXCEPT ![1] = None]
    /\ told' = [told EXCEPT ![1] = None]
    /\ bus' = NewBus
    /\ viewers' = NobodyOn
    /\ UNCHANGED <<dbUp, dbUsers, nextUser, broken, dbComplaints, nextComplaint>>

NodeInit ==
    /\ dbUp = TRUE
    /\ dbUsers = [i \in Accounts |-> None]
    /\ memUsers = [i \in Accounts |-> IF i = 1 THEN SeedUser ELSE None]
    /\ nextUser = 2
    /\ requests = [q \in Slots |-> None]
    /\ dbComplaints = [i \in Complaints |-> None]
    /\ memComplaints = [i \in Complaints |-> IF i = 1 THEN "IN_REVIEW" ELSE None]
    /\ nextComplaint = 2
    /\ bus = NewBus
    /\ viewers = NobodyOn
    /\ acts = 0
    /\ promised = [i \in Accounts |-> None]
    /\ told = [i \in Complaints |-> None]
    /\ broken = FALSE

NodeNext ==
    \/ Receives \/ RequestGoesOn
    \/ FileComplaint \/ StatusChanges
    \/ Event \/ SimulationTick \/ Connects \/ Disconnects \/ Arrives
    \/ DatabaseChanges \/ NodeRestarts

NodeSpec == NodeInit /\ [][NodeNext]_nodeVars

(***************************************************************************)
(* Properties.                                                             *)
(***************************************************************************)
Bus == [passengers : 0..Capacity, boardings : Nat, alightings : Nat]

AccountsOK ==
    /\ broken \in BOOLEAN
    /\ dbUsers \in [Accounts -> User \union {None}]
    /\ memUsers \in [Accounts -> User \union {None}]
    /\ nextUser \in 2..(MaxUsers + 1)
    /\ requests \in [Slots -> Waiting \union {None}]
    /\ promised \in [Accounts -> Promise \union {None}]

ComplaintsOK ==
    /\ dbComplaints \in [Complaints -> ComplaintStatuses \union {None}]
    /\ memComplaints \in [Complaints -> ComplaintStatuses \union {None}]
    /\ told \in [Complaints -> ComplaintStatuses \union {None}]
    /\ nextComplaint \in 2..(MaxComplaints + 1)

SimulationOK ==
    /\ bus \in Bus
    /\ viewers \in [Viewers -> [on : BOOLEAN, queue : Seq(Bus), shown : Bus \union {None}]]

NodeTypeOK == dbUp \in BOOLEAN /\ acts \in 0..MaxActs /\ AccountsOK /\ ComplaintsOK /\ SimulationOK

\* A login that comes in after a deactivation or a new password was answered
\* obeys it, whatever the database did in between (auth.routes.ts:71-128,
\* user.routes.ts:54-104): the last one answered of the account that has its
\* e-mail, or, where the e-mail has two, of the one it finds (userStore.ts:63-74).
\* A change answered of the other one of two is not seen, and a restart undoes
\* those of the seeded accounts: the property does not ask for either.
LoginsSeeAnsweredChanges == ~broken

\* A complaint found or listed shows the status that was last answered of it,
\* whichever store answers, except the seeded ones after a restart
\* (complaintStore.ts:114-194).
AnsweredStatusIsRead ==
    \A i \in Complaints : told[i] # None =>
        /\ ComplaintRecord(i) \in {None, told[i]}
        /\ \A c \in ListAll(ComplaintStatuses) : c[1] = i => c[2] = told[i]

\* A client with nothing on its way shows the bus as it is, and the count of
\* passengers is what boarded minus what got off (simulation.ts:111-297).
ViewersCatchUp ==
    /\ \A v \in Viewers : viewers[v].on /\ viewers[v].queue = <<>> => viewers[v].shown = bus
    /\ bus.passengers = bus.boardings - bus.alightings

\* What these rest on.  A record is in one store at most, and the seeded one in
\* the memory only.
InOneStore(db, memory, next) ==
    /\ db[1] = None
    /\ \A i \in DOMAIN db : db[i] = None \/ memory[i] = None
    /\ \A i \in DOMAIN db : i >= next => db[i] = None /\ memory[i] = None

\* The record of an account, whether or not the database answers.
Record(i) == IF dbUsers[i] # None THEN dbUsers[i] ELSE memUsers[i]

\* A record says what was promised of it.
Keeps(record, promise) ==
    record # None /\ record.active = promise.active /\ record.password = promise.password

\* It does, if there still is one.
Kept(record, promise) == record = None \/ Keeps(record, promise)

\* What is promised is in the record, and changes under way are of accounts of
\* which nothing is promised; a login that was promised as much is promised it
\* still, and has read it.
AccountsInv ==
    /\ InOneStore(dbUsers, memUsers, nextUser)
    /\ \A i \in Accounts : promised[i] # None => Kept(Record(i), promised[i])
    /\ \A q \in Slots : requests[q] # None /\ requests[q].op \in {"put", "delete"} =>
          requests[q].user < nextUser /\ promised[requests[q].user] = None
    /\ \A q \in Slots : requests[q] # None /\ requests[q].op = "login" =>
          /\ \A i \in Accounts : requests[q].seen[i] \in {None, promised[i]}
          /\ requests[q].at = "password" /\ requests[q].seen[requests[q].user] # None
                => Keeps(requests[q].change, requests[q].seen[requests[q].user])

\* Promises are of accounts that were created, and a login is held to nothing
\* about another account with its e-mail than the one it found.
HeldInv ==
    /\ \A i \in Accounts : promised[i] # None => i < nextUser
    /\ \A q \in Slots : requests[q] # None /\ requests[q].op = "login" /\ requests[q].at = "password" =>
          \A i \in Having(requests[q].email) : i = requests[q].user \/ requests[q].seen[i] = None

\* What was last answered of a complaint, one that was filed, is what its store
\* says, if it has it.
ComplaintsInv ==
    /\ InOneStore(dbComplaints, memComplaints, nextComplaint)
    /\ \A i \in Complaints : told[i] # None =>
          i < nextComplaint /\ (IF dbComplaints[i] # None THEN dbComplaints[i] ELSE memComplaints[i]) \in {None, told[i]}

\* The last message on its way to a client is the bus as it is.
SimulationInv ==
    /\ bus.passengers = bus.boardings - bus.alightings
    /\ \A v \in Viewers : LET queue == viewers[v].queue
                          IN  IF ~viewers[v].on THEN queue = <<>>
                              ELSE bus = IF queue = <<>> THEN viewers[v].shown ELSE queue[Len(queue)]

\* "El correo electronico ya se encuentra registrado" (auth.routes.ts:29-35):
\* an e-mail has one account.  It does not hold: two registrations that both
\* found none, or one whose answer the database lost, leave one in each store.
OneAccountAnEmail ==
    \A e \in Emails :
        Cardinality({i \in Accounts : \/ dbUsers[i] # None /\ dbUsers[i].email = e
                                      \/ memUsers[i] # None /\ memUsers[i].email = e}) <= 1
=============================================================================
