-------------------------------- MODULE Hub --------------------------------
(***************************************************************************)
(* The WebSocket hub of backend-go/internal/websocket: the goroutine Run   *)
(* that owns registration and fan-out (hub.go), and for every connection   *)
(* the goroutine that reads it and the one that writes it (client.go).     *)
(*                                                                         *)
(* A client is one connection: a peer that comes back is another client.   *)
(* Subscribe and Unsubscribe run in the reader's goroutine and not in Run, *)
(* so each is two steps here, the look at the topic map and the update     *)
(* that relies on it, and everybody else may run in between.               *)
(***************************************************************************)
EXTENDS Naturals, Sequences, FiniteSets

CONSTANTS
  Clients,            \* connections that may be made
  Routes, Buses,      \* topic keys "route:<id>" and "bus:<id>"
  SendBufferSize,     \* capacity of Client.send, 256 in the code
  PublishBufferSize,  \* capacity of Hub.publish, 256 in the code
  MaxPublish,         \* bound of the model: publications accepted
  MaxReads            \* bound of the model: frames read from one client

ASSUME HubAssumption ==
  /\ IsFiniteSet(Clients)
  /\ Routes \cap Buses = {}
  /\ Routes # {}
  /\ Buses # {}
  /\ SendBufferSize \in Nat \ {0}
  /\ PublishBufferSize \in Nat \ {0}
  /\ MaxPublish \in Nat
  /\ MaxReads \in Nat

Topics == Routes \cup Buses
SomeTopic == CHOOSE t \in Topics : TRUE

(* A payload is the number of the publication it carries, or an error      *)
(* reply to the client itself.                                             *)
ErrorReply == 0
Payload == 0 .. MaxPublish

(* What the reader's goroutine of a client is about to do.                 *)
ReaderStates == {"new", "registering", "reading", "subscribing",
                 "unsubscribing", "publishing", "leaving", "closing", "done"}

(* How the process may end: a send on a closed channel, the runtime's      *)
(* detection of concurrent map use, a write to a nil map.                  *)
CrashKinds == {"none", "closed_channel", "concurrent_map", "nil_map"}

VARIABLES
  clients,   \* Hub.clients
  topics,    \* Hub.topics: the subscribers of every key
  keys,      \* the keys Hub.topics holds
  publish,   \* the channel Hub.publish, publications by number
  phase,     \* where Run is: "idle" in its select, or in a fan-out
  current,   \* the publication being fanned out
  todo,      \* the subscribers the current range has still to visit
  pc,        \* the reader of every client
  target,    \* the topic key the reader is working on
  seen,      \* what the reader found in the topic map at its first step
  ctopics,   \* Client.topics
  send,      \* the channel Client.send
  closed,    \* whether Client.send has been closed
  writer,    \* the writer's goroutine of every client
  conn,      \* the socket, as this process sees it
  reads,     \* frames read so far
  crash,     \* whether, and how, the process has died
  log,       \* history: the publications accepted, in order
  got,       \* history: the publications ever put in Client.send
  evicted    \* history: the clients removed because their buffer was full

hubVars    == <<clients, publish, phase, current, todo, log>>
mapVars    == <<topics, keys>>
readerVars == <<pc, target, seen, ctopics, reads>>
outVars    == <<send, closed, writer, conn, got, evicted>>
vars == <<hubVars, mapVars, readerVars, outVars, crash>>

HubTypeOK ==
  /\ clients \subseteq Clients
  /\ publish \in Seq(1 .. MaxPublish)
  /\ Len(publish) <= PublishBufferSize
  /\ phase \in {"idle", "route", "bus"}
  /\ current \in Payload
  /\ todo \subseteq Clients
  /\ log \in Seq([route : Routes, bus : Buses])

MapTypeOK ==
  /\ topics \in [Topics -> SUBSET Clients]
  /\ keys \subseteq Topics

ReaderTypeOK ==
  /\ pc \in [Clients -> ReaderStates]
  /\ target \in [Clients -> Topics]
  /\ seen \in [Clients -> BOOLEAN]
  /\ ctopics \in [Clients -> SUBSET Topics]
  /\ reads \in [Clients -> 0 .. MaxReads]

OutTypeOK ==
  /\ send \in [Clients -> Seq(Payload)]
  /\ \A c \in Clients : Len(send[c]) <= SendBufferSize
  /\ closed \in [Clients -> BOOLEAN]
  /\ writer \in [Clients -> {"none", "running", "done"}]
  /\ conn \in [Clients -> {"open", "closed"}]
  /\ got \in [Clients -> Seq(1 .. MaxPublish)]
  /\ evicted \subseteq Clients

TypeOK ==
  /\ HubTypeOK
  /\ MapTypeOK
  /\ ReaderTypeOK
  /\ OutTypeOK
  /\ crash \in CrashKinds

Init ==
  /\ clients = {}
  /\ topics = [t \in Topics |-> {}]
  /\ keys = {}
  /\ publish = <<>>
  /\ phase = "idle"
  /\ current = 0
  /\ todo = {}
  /\ pc = [c \in Clients |-> "new"]
  /\ target = [c \in Clients |-> SomeTopic]
  /\ seen = [c \in Clients |-> FALSE]
  /\ ctopics = [c \in Clients |-> {}]
  /\ send = [c \in Clients |-> <<>>]
  /\ closed = [c \in Clients |-> FALSE]
  /\ writer = [c \in Clients |-> "none"]
  /\ conn = [c \in Clients |-> "open"]
  /\ reads = [c \in Clients |-> 0]
  /\ crash = "none"
  /\ log = <<>>
  /\ got = [c \in Clients |-> <<>>]
  /\ evicted = {}

-----------------------------------------------------------------------------
(* Operators shared by the actions.                                        *)

Full_OffByOne(c) == Len(send[c]) = SendBufferSize + 1
Full(c) == Len(send[c]) = SendBufferSize

(* A payload enters a channel that is open and has room.                   *)
Put_EvenIfClosed(c, payload) ==
  /\ ~Full(c)
  /\ send' = [send EXCEPT ![c] = Append(@, payload)]
Put(c, payload) ==
  /\ ~closed[c] /\ ~Full(c)
  /\ send' = [send EXCEPT ![c] = Append(@, payload)]

(* The client leaves Hub.clients and its channel is closed.                *)
Forget_Nothing(c) == UNCHANGED <<clients, closed>>
Forget(c) ==
  /\ clients' = clients \ {c}
  /\ closed' = [closed EXCEPT ![c] = TRUE]

(* removeFromTopic for every key of a set, in one step of Run.             *)
RemoveFromTopics_None(c, ts) == UNCHANGED mapVars
RemoveFromTopics(c, ts) ==
  /\ topics' = [t \in Topics |-> IF t \in ts THEN topics[t] \ {c} ELSE topics[t]]
  /\ keys' = {t \in keys : t \in ts => topics[t] \ {c} # {}}

(* The topic whose subscribers Run is visiting.                            *)
Fanning(t) ==
  \/ phase = "route" /\ t = log[current].route
  \/ phase = "bus" /\ t = log[current].bus

(* Readers stopped with a publication that the hub has not yet taken: each *)
(* has its place in the bound.                                             *)
Publishing == {c \in Clients : pc[c] = "publishing"}
MayPublish == Len(log) + Cardinality(Publishing) < MaxPublish

Enqueue_InFront(r, b) ==
  /\ Len(publish) < PublishBufferSize
  /\ publish' = <<Len(log) + 1>> \o publish
  /\ log' = Append(log, [route |-> r, bus |-> b])
  /\ UNCHANGED <<clients, phase, current, todo>>
Enqueue(r, b) ==
  /\ Len(publish) < PublishBufferSize
  /\ publish' = Append(publish, Len(log) + 1)
  /\ log' = Append(log, [route |-> r, bus |-> b])
  /\ UNCHANGED <<clients, phase, current, todo>>

-----------------------------------------------------------------------------
(* A connection: the upgrade, the registration, the reader's frames.       *)

(* ServeHTTP up to the send on Hub.register, which waits for Run.          *)
Connect(c) ==
  /\ pc[c] = "new"
  /\ pc' = [pc EXCEPT ![c] = "registering"]
  /\ UNCHANGED <<hubVars, mapVars, target, seen, ctopics, reads, outVars, crash>>

(* Run takes the client from Hub.register; ServeHTTP starts both pumps.    *)
Register(c) ==
  /\ phase = "idle"
  /\ pc[c] = "registering"
  /\ pc' = [pc EXCEPT ![c] = "reading"]
  /\ writer' = [writer EXCEPT ![c] = "running"]
  /\ clients' = clients \cup {c}
  /\ UNCHANGED <<publish, phase, current, todo, log, mapVars, target, seen,
                 ctopics, reads, send, closed, conn, got, evicted, crash>>

(* A frame arrives and the reader moves on to deal with it. A frame that   *)
(* was already buffered is still read after the socket has been closed.    *)
ReadFrame(c, next) ==
  /\ pc[c] = "reading"
  /\ reads[c] < MaxReads
  /\ reads' = [reads EXCEPT ![c] = @ + 1]
  /\ pc' = [pc EXCEPT ![c] = next]

(* First half of Subscribe: does the topic have a map of subscribers?      *)
ReadSubscribe(c, t) ==
  /\ ReadFrame(c, "subscribing")
  /\ target' = [target EXCEPT ![c] = t]
  /\ seen' = [seen EXCEPT ![c] = t \in keys]
  /\ UNCHANGED <<hubVars, mapVars, ctopics, outVars, crash>>

(* Back to the loop after a topic operation.                               *)
TopicOpEnds(c) ==
  /\ pc' = [pc EXCEPT ![c] = "reading"]
  /\ target' = [target EXCEPT ![c] = SomeTopic]
  /\ seen' = [seen EXCEPT ![c] = FALSE]
  /\ UNCHANGED reads

(* Second half, the topic had no map: a new one is stored, in place of     *)
(* whatever another reader stored meanwhile, and the client goes in it.    *)
SubscribeFresh(c) ==
  LET t == target[c] IN
  /\ pc[c] = "subscribing" /\ ~seen[c]
  /\ topics' = [topics EXCEPT ![t] = {c}]
  /\ keys' = keys \cup {t}
  /\ ctopics' = [ctopics EXCEPT ![c] = @ \cup {t}]
  /\ TopicOpEnds(c)
  /\ UNCHANGED <<hubVars, outVars, crash>>

(* Second half, the topic had a map and still has one. A range in progress *)
(* over it may or may not visit the new entry.                             *)
SubscribeExisting(c) ==
  LET t == target[c] IN
  /\ pc[c] = "subscribing" /\ seen[c] /\ t \in keys
  /\ topics' = [topics EXCEPT ![t] = @ \cup {c}]
  /\ ctopics' = [ctopics EXCEPT ![c] = @ \cup {t}]
  /\ \/ UNCHANGED todo
     \/ Fanning(t) /\ c \notin topics[t] /\ todo' = todo \cup {c}
  /\ TopicOpEnds(c)
  /\ UNCHANGED <<keys, clients, publish, phase, current, log, outVars, crash>>

(* Second half, the last subscriber left after the look: the entry is      *)
(* written to a nil map.                                                   *)
SubscribeNilMap(c) ==
  /\ pc[c] = "subscribing" /\ seen[c] /\ target[c] \notin keys
  /\ crash' = "nil_map"
  /\ UNCHANGED <<hubVars, mapVars, readerVars, outVars>>

(* First half of Unsubscribe: removeFromTopic deletes the entry and looks  *)
(* whether it was the last one. A range in progress does not visit it.     *)
ReadUnsubscribe(c, t) ==
  /\ ReadFrame(c, "unsubscribing")
  /\ topics' = [topics EXCEPT ![t] = @ \ {c}]
  /\ target' = [target EXCEPT ![c] = t]
  /\ seen' = [seen EXCEPT ![c] = t \in keys /\ topics[t] \ {c} = {}]
  /\ todo' = IF Fanning(t) /\ c \in topics[t] THEN todo \ {c} ELSE todo
  /\ UNCHANGED <<keys, ctopics, clients, publish, phase, current, log, outVars, crash>>

(* Second half: a topic found empty is deleted, with whoever is in it now. *)
Unsubscribe(c) ==
  LET t == target[c] IN
  /\ pc[c] = "unsubscribing"
  /\ topics' = IF seen[c] THEN [topics EXCEPT ![t] = {}] ELSE topics
  /\ keys' = IF seen[c] THEN keys \ {t} ELSE keys
  /\ ctopics' = [ctopics EXCEPT ![c] = @ \ {t}]
  /\ TopicOpEnds(c)
  /\ UNCHANGED <<hubVars, outVars, crash>>

(* sendError: a frame that is not understood, or a publication refused for *)
(* its token, role, fields or ownership. A full buffer drops the reply; a  *)
(* channel the hub has closed panics.                                      *)
ReadRejected(c) ==
  /\ ReadFrame(c, "reading")
  /\ \/ Put(c, ErrorReply) /\ UNCHANGED crash
     \/ ~closed[c] /\ Full(c) /\ UNCHANGED <<send, crash>>
     \/ closed[c] /\ crash' = "closed_channel" /\ UNCHANGED send
  /\ UNCHANGED <<hubVars, mapVars, target, seen, ctopics,
                 closed, writer, conn, got, evicted>>

(* A publication that passed every check of handlePublish.                 *)
ReadPublish(c) ==
  /\ MayPublish
  /\ ReadFrame(c, "publishing")
  /\ UNCHANGED <<hubVars, mapVars, target, seen, ctopics, outVars, crash>>

(* The reader waits for a place in Hub.publish.                            *)
EnqueuePublish(c, r, b) ==
  /\ pc[c] = "publishing"
  /\ Enqueue(r, b)
  /\ pc' = [pc EXCEPT ![c] = "reading"]
  /\ UNCHANGED <<mapVars, target, seen, ctopics, reads, outVars, crash>>

(* ReadMessage fails: the peer left, the pong deadline passed or the       *)
(* socket was closed here. The deferred function goes to unregister.       *)
ReadFails(c) ==
  /\ pc[c] = "reading"
  /\ pc' = [pc EXCEPT ![c] = "leaving"]
  /\ UNCHANGED <<hubVars, mapVars, target, seen, ctopics, reads, outVars, crash>>

(* The rest of the deferred function, once Run has taken the client.       *)
ReaderCloses(c) ==
  /\ pc[c] = "closing"
  /\ pc' = [pc EXCEPT ![c] = "done"]
  /\ conn' = [conn EXCEPT ![c] = "closed"]
  /\ UNCHANGED <<hubVars, mapVars, target, seen, ctopics, reads, send, closed,
                 writer, got, evicted, crash>>

-----------------------------------------------------------------------------
(* The hub's goroutine.                                                    *)

(* Run takes a client from Hub.unregister. One that is no longer in        *)
(* Hub.clients, because it was evicted, is left as it is.                  *)
Unregister(c) ==
  /\ phase = "idle"
  /\ pc[c] = "leaving"
  /\ pc' = [pc EXCEPT ![c] = "closing"]
  /\ \/ /\ c \in clients
        /\ RemoveFromTopics(c, ctopics[c])
        /\ Forget(c)
     \/ /\ c \notin clients
        /\ UNCHANGED <<mapVars, clients, closed>>
  /\ UNCHANGED <<publish, phase, current, todo, log, target, seen, ctopics, reads,
                 send, writer, conn, got, evicted, crash>>

(* The simulation's publications need no token.                            *)
PublishInternal(r, b) ==
  /\ MayPublish
  /\ Enqueue(r, b)
  /\ UNCHANGED <<mapVars, readerVars, outVars, crash>>

(* Run takes a publication and starts with the subscribers of its route.   *)
TakePublish ==
  /\ phase = "idle"
  /\ publish # <<>>
  /\ phase' = "route"
  /\ current' = Head(publish)
  /\ publish' = Tail(publish)
  /\ todo' = topics[log[Head(publish)].route]
  /\ UNCHANGED <<clients, log, mapVars, readerVars, outVars, crash>>

(* broadcastToTopic visits a subscriber whose buffer has room...           *)
Deliver(c) ==
  /\ c \in todo
  /\ Put(c, current)
  /\ got' = [got EXCEPT ![c] = Append(@, current)]
  /\ todo' = todo \ {c}
  /\ UNCHANGED <<clients, publish, phase, current, log, mapVars, readerVars,
                 closed, writer, conn, evicted, crash>>

(* ... one whose buffer is full: it leaves this topic and Hub.clients and  *)
(* its channel is closed, but the other topics still hold it...            *)
Evict_Never(c) == FALSE
Evict(c) ==
  /\ c \in todo
  /\ ~closed[c] /\ Full(c)
  /\ RemoveFromTopics(c, {t \in Topics : Fanning(t)})
  /\ Forget(c)
  /\ evicted' = evicted \cup {c}
  /\ todo' = todo \ {c}
  /\ UNCHANGED <<publish, phase, current, log, readerVars, send, writer, conn, got, crash>>

(* ... and one whose channel is closed already: the process dies.          *)
SendOnClosed(c) ==
  /\ c \in todo
  /\ closed[c]
  /\ crash' = "closed_channel"
  /\ UNCHANGED <<hubVars, mapVars, readerVars, outVars>>

(* The range is over: the bus follows the route, then Run selects again.   *)
EndOfRange ==
  /\ todo = {}
  /\ \/ /\ phase = "route"
        /\ phase' = "bus"
        /\ todo' = topics[log[current].bus]
        /\ UNCHANGED current
     \/ /\ phase = "bus"
        /\ phase' = "idle"
        /\ current' = 0
        /\ UNCHANGED todo
  /\ UNCHANGED <<clients, publish, log, mapVars, readerVars, outVars, crash>>

-----------------------------------------------------------------------------
(* The race on the topic maps: readers between the two halves of a topic   *)
(* operation, against each other and against Run.                          *)

InTopics == {c \in Clients : pc[c] \in {"subscribing", "unsubscribing"}}

(* The operation adds or deletes a key of Hub.topics, or changes the map   *)
(* that holds the subscribers of its topic.                                *)
ChangesKeys(c) == (pc[c] = "subscribing") # seen[c]
ChangesTopic(c, t) ==
  /\ target[c] = t
  /\ pc[c] = "subscribing" \/ t \in keys

(* The topics Run looks at when it fans out or is about to unregister.     *)
RunLooksAt ==
  {t \in Topics : Fanning(t)} \cup
  UNION {ctopics[d] : d \in {d \in clients : phase = "idle" /\ pc[d] = "leaving"}}

MapConflict ==
  \E c \in InTopics :
    \/ \E d \in InTopics \ {c} : ChangesKeys(c) \/ ChangesTopic(c, target[d])
    \/ \E t \in RunLooksAt : ChangesKeys(c) \/ ChangesTopic(c, t)

(* The runtime may notice and stop the process; it may also not notice,    *)
(* and then the steps above say what becomes of the maps.                  *)
MapFault ==
  /\ MapConflict
  /\ crash' = "concurrent_map"
  /\ UNCHANGED <<hubVars, mapVars, readerVars, outVars>>

-----------------------------------------------------------------------------
(* The writer's goroutine of a client.                                     *)

(* One write carries the payload received and all that were behind it.     *)
WriterSends(c) ==
  /\ writer[c] = "running"
  /\ send[c] # <<>>
  /\ conn[c] = "open"
  /\ send' = [send EXCEPT ![c] = <<>>]
  /\ UNCHANGED <<hubVars, mapVars, readerVars, closed, writer, conn, got, evicted, crash>>

WriterStops_SocketOpen(c) ==
  /\ writer' = [writer EXCEPT ![c] = "done"]
  /\ UNCHANGED <<hubVars, mapVars, readerVars, closed, conn, got, evicted, crash>>
WriterStops(c) ==
  /\ writer' = [writer EXCEPT ![c] = "done"]
  /\ conn' = [conn EXCEPT ![c] = "closed"]
  /\ UNCHANGED <<hubVars, mapVars, readerVars, closed, got, evicted, crash>>

(* A write fails or passes its deadline: what it carried is lost, one      *)
(* payload or the whole batch.                                             *)
WriteFails(c) ==
  /\ writer[c] = "running"
  /\ send[c] # <<>>
  /\ \E rest \in {Tail(send[c]), <<>>} : send' = [send EXCEPT ![c] = rest]
  /\ WriterStops(c)

(* A ping finds the peer gone.                                             *)
PingFails(c) ==
  /\ writer[c] = "running"
  /\ UNCHANGED send
  /\ WriterStops(c)

(* The channel is closed and empty: a close frame, then the socket.        *)
WriterEnds(c) ==
  /\ writer[c] = "running"
  /\ closed[c]
  /\ send[c] = <<>>
  /\ UNCHANGED send
  /\ WriterStops(c)

-----------------------------------------------------------------------------
ReaderStep(c) ==
  \/ Connect(c)
  \/ \E t \in Topics : ReadSubscribe(c, t) \/ ReadUnsubscribe(c, t)
  \/ ReadRejected(c)
  \/ ReadPublish(c)
  \/ ReadFails(c)

(* What a reader that has started a frame, or is leaving, goes on to do.   *)
ReaderGoesOn(c) ==
  \/ SubscribeFresh(c)
  \/ SubscribeExisting(c)
  \/ SubscribeNilMap(c)
  \/ Unsubscribe(c)
  \/ \E r \in Routes, b \in Buses : EnqueuePublish(c, r, b)
  \/ ReaderCloses(c)

RunSelects_NoUnregister(c) == Register(c)
RunSelects(c) == Register(c) \/ Unregister(c)

FanOut ==
  \/ TakePublish
  \/ \E c \in Clients : Deliver(c) \/ Evict(c) \/ SendOnClosed(c)
  \/ EndOfRange

WriterStep(c) == WriterSends(c) \/ WriteFails(c) \/ WriterEnds(c)

Alive(A) == crash = "none" /\ A

Next ==
  /\ crash = "none"
  /\ \/ \E c \in Clients : \/ ReaderStep(c)
                           \/ ReaderGoesOn(c)
                           \/ RunSelects(c)
                           \/ WriterStep(c)
                           \/ PingFails(c)
     \/ \E r \in Routes, b \in Buses : PublishInternal(r, b)
     \/ FanOut
     \/ MapFault

Spec == Init /\ [][Next]_vars

(* Every goroutine that can run eventually does: the Go scheduler is       *)
(* preemptive. Run's select picks at random among the ready channels and   *)
(* a blocked sender waits in order, so no channel is passed over forever.  *)
(* The write deadline (writeWait) ends every write. A closed socket makes  *)
(* ReadMessage fail. Peers owe nothing: they connect, send frames, leave   *)
(* or let pings fail when they like.                                       *)
Fairness ==
  /\ WF_vars(Alive(FanOut))
  /\ \A c \in Clients :
       /\ WF_vars(Alive(ReaderGoesOn(c)))
       /\ SF_vars(Alive(RunSelects(c)))
       /\ WF_vars(Alive(WriterStep(c)))
       /\ WF_vars(Alive(conn[c] = "closed" /\ ReadFails(c)))

FairSpec == Spec /\ Fairness

-----------------------------------------------------------------------------
(* What a connection's peer is sent: the publications put in its channel,  *)
(* broadcast by broadcast (handlePublish), never go back to an earlier     *)
(* one, whatever the readers do to the topic maps meanwhile.               *)
InOrder ==
  \A c \in Clients : \A i, j \in DOMAIN got[c] :
    i < j => got[c][i] <= got[c][j]

(* A client that was never evicted is in a topic only while it is          *)
(* registered and its channel open: Unregister finds every topic it is in. *)
NoStaleSubscriber ==
  \A c \in Clients \ evicted : \A t \in Topics :
    c \in topics[t] => c \in clients /\ ~closed[c]

(* The hub sends on a closed channel only after it evicted a slow client:  *)
(* the close of an ordinary leave can never panic it or the reader.        *)
PanicNeedsEviction == crash = "closed_channel" => evicted # {}

(* A reader's frame or the hub's fan-out cannot leave a client registered  *)
(* whose goroutines are both over: the hub holds no connection for good.   *)
NoDeadRegistration ==
  \A c \in clients : pc[c] \notin {"new", "registering", "closing", "done"}

-----------------------------------------------------------------------------
Down == crash # "none"

(* The hub never stays with a publication: no slow client, and no reader   *)
(* that waits for the hub, keeps it from emptying Hub.publish.             *)
PublicationsFanOut == publish # <<>> ~> (publish = <<>> \/ Down)

(* A reader that has started to publish or to leave gets through, however  *)
(* busy the hub is: nobody waits for ever on Hub.publish or Hub.unregister.*)
ReadersGetThrough ==
  \A c \in Clients :
    pc[c] \in {"publishing", "leaving"} ~> (pc[c] \in {"reading", "done"} \/ Down)

(* A channel closed by the hub takes the connection with it: writer over,  *)
(* socket closed, reader gone. It is how an evicted peer learns of it.     *)
ClosedIsDisconnected ==
  \A c \in Clients :
    closed[c] ~> (writer[c] = "done" /\ conn[c] = "closed" /\ pc[c] = "done") \/ Down

-----------------------------------------------------------------------------
(* What the hub promises of its broadcasts, apart from how.                *)

Lifecycle(c) ==
  IF closed[c] THEN "shut" ELSE IF writer[c] = "none" THEN "absent" ELSE "open"

Abstract == INSTANCE Delivery WITH
  Peers <- Clients,
  Max   <- MaxPublish,
  head  <- Len(log) - Len(publish),
  link  <- [c \in Clients |-> Lifecycle(c)],
  inbox <- got

(* The hub implements Delivery: of a connection that is open, and of no    *)
(* other, the channel takes the publication being fanned out, and nothing  *)
(* older; a channel once closed takes nothing more (hub.go, whole).        *)
ImplementsDelivery == Abstract!Spec

-----------------------------------------------------------------------------
(* The inductive invariant behind the safety properties.                   *)

(* A reader that waits to publish has its place in the bound.              *)
BoundInv == Len(log) + Cardinality(Publishing) <= MaxPublish

(* Hub.publish holds the last publications accepted, in the order of their *)
(* numbers; the one being fanned out comes just before them. Between       *)
(* fan-outs there is nobody to visit.                                      *)
QueueInv ==
  /\ Len(publish) <= Len(log)
  /\ \A i \in 1 .. Len(publish) : publish[i] = Len(log) - Len(publish) + i
  /\ phase # "idle" => current = Len(log) - Len(publish) /\ current > 0
  /\ phase = "idle" => todo = {}

(* The invariant TypeOK needs: a publication's number is a place in log.   *)
TypeInv == TypeOK /\ BoundInv /\ QueueInv

(* The life of a connection. A reader that is active is one whose client   *)
(* the hub holds, unless it was evicted; a client that never was is closed *)
(* only by Unregister, which finds it in no topic but those it knows of.   *)
Active == {"reading", "subscribing", "unsubscribing", "publishing", "leaving"}

LifeInv ==
  /\ \A c \in clients : pc[c] \in Active /\ ~closed[c]
  /\ \A c \in Clients :
       /\ writer[c] = "none" <=> pc[c] \in {"new", "registering"}
       /\ writer[c] = "none" =>
            ~closed[c] /\ c \notin todo /\ \A t \in Topics : c \notin topics[t]
  /\ \A c \in Clients \ evicted :
       /\ pc[c] \in Active => c \in clients
       /\ closed[c] => pc[c] \in {"closing", "done"}
       /\ pc[c] \notin Active => c \notin todo
       /\ \A t \in Topics : c \in topics[t] => pc[c] \in Active /\ t \in ctopics[c]
       /\ pc[c] = "unsubscribing" => c \notin topics[target[c]]

(* Both together are inductive, and imply every safety property above; the  *)
(* ones below, about the comments of hub.go, do not hold.                  *)
IInv == TypeInv /\ LifeInv /\ PanicNeedsEviction

-----------------------------------------------------------------------------
(* What the comments of hub.go say and the code does not do.               *)

(* "A slow client must never block the others": its subscription goes and  *)
(* its connection is closed. The eviction leaves it in its other topics,   *)
(* and the next broadcast there kills the process.                         *)
SlowClientIsContained == crash # "closed_channel"

(* "Only the goroutine Run modifies clients and topics": no concurrent     *)
(* writes to these maps. The readers call Subscribe and Unsubscribe.       *)
OnlyRunModifiesTopics == crash \notin {"concurrent_map", "nil_map"}

(* "Subscribe adds a client to a topic": a reader back in its loop is in   *)
(* every topic it has subscribed to. The other reader's map may win.       *)
SubscriptionsTakeEffect ==
  \A c \in Clients \ evicted :
    pc[c] = "reading" => \A t \in ctopics[c] : c \in topics[t]

=============================================================================
