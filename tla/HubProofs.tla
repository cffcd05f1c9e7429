------------------------------ MODULE HubProofs ------------------------------
(***************************************************************************)
(* Theorems about Hub, for any set of connections, any buffers and any     *)
(* number of publications.                                                 *)
(***************************************************************************)
EXTENDS Hub, FiniteSetTheorems, SequenceTheorems, TLAPS

-----------------------------------------------------------------------------
(* Lemmas about the operators the actions share.                           *)

LEMMA RemoveFromTopicsType ==
  ASSUME MapTypeOK, NEW c \in Clients, NEW ts \in SUBSET Topics, RemoveFromTopics(c, ts)
  PROVE  MapTypeOK'
BY DEF MapTypeOK, RemoveFromTopics

LEMMA PutType ==
  ASSUME OutTypeOK, NEW c \in Clients, NEW m \in Payload, Put(c, m)
  PROVE  /\ send' \in [Clients -> Seq(Payload)]
         /\ \A d \in Clients : Len(send'[d]) <= SendBufferSize
BY HubAssumption DEF OutTypeOK, Put, Full, Payload

LEMMA SomeTopicType == SomeTopic \in Topics
BY HubAssumption DEF SomeTopic, Topics

LEMMA RouteAndBus ==
  ASSUME HubTypeOK, NEW n \in 1 .. Len(log)
  PROVE  log[n].route \in Topics /\ log[n].bus \in Topics
<1>1. log[n] \in [route : Routes, bus : Buses]
  BY ElementOfSeq DEF HubTypeOK
<1>. QED  BY <1>1 DEF Topics

(* The publications waiting in readers are finitely many, and how a reader *)
(* that starts or ends waiting changes their number.                       *)
LEMMA PublishingCount ==
  ASSUME ReaderTypeOK
  PROVE  IsFiniteSet(Publishing) /\ Cardinality(Publishing) \in Nat
BY HubAssumption, FS_Subset, FS_CardinalityType DEF Publishing

LEMMA PublishingStarts ==
  ASSUME ReaderTypeOK, NEW c \in Clients, pc[c] # "publishing",
         pc' = [pc EXCEPT ![c] = "publishing"]
  PROVE  Cardinality(Publishing') = Cardinality(Publishing) + 1
<1>1. Publishing' = Publishing \cup {c} /\ c \notin Publishing
  BY DEF Publishing, ReaderTypeOK
<1>. QED  BY <1>1, PublishingCount, FS_AddElement

LEMMA PublishingEnds ==
  ASSUME ReaderTypeOK, NEW c \in Clients, NEW s \in ReaderStates, s # "publishing",
         pc[c] = "publishing", pc' = [pc EXCEPT ![c] = s]
  PROVE  Cardinality(Publishing') = Cardinality(Publishing) - 1
<1>1. Publishing' = Publishing \ {c} /\ c \in Publishing
  BY DEF Publishing, ReaderTypeOK
<1>. QED  BY <1>1, PublishingCount, FS_RemoveElement

LEMMA PublishingSame ==
  ASSUME ReaderTypeOK, NEW c \in Clients, NEW s \in ReaderStates, s # "publishing",
         pc[c] # "publishing", pc' = [pc EXCEPT ![c] = s]
  PROVE  Cardinality(Publishing') = Cardinality(Publishing)
<1>1. Publishing' = Publishing
  BY DEF Publishing, ReaderTypeOK
<1>. QED  BY <1>1

(* A publication that is accepted goes to the end of the queue.            *)
LEMMA EnqueueType ==
  ASSUME HubTypeOK, QueueInv, NEW r \in Routes, NEW b \in Buses,
         Len(log) + 1 <= MaxPublish, Enqueue(r, b)
  PROVE  HubTypeOK' /\ QueueInv' /\ Len(log') = Len(log) + 1
<1>. USE HubAssumption
<1>1. /\ log' \in Seq([route : Routes, bus : Buses])
      /\ Len(log') = Len(log) + 1
      /\ publish' \in Seq(1 .. MaxPublish)
      /\ Len(publish') = Len(publish) + 1
      /\ Len(publish') <= PublishBufferSize
  BY DEF HubTypeOK, Enqueue
<1>2. HubTypeOK'
  BY <1>1 DEF HubTypeOK, Enqueue
<1>3. \A i \in 1 .. Len(publish') : publish'[i] = Len(log') - Len(publish') + i
  BY <1>1 DEF HubTypeOK, QueueInv, Enqueue
<1>. QED  BY <1>1, <1>2, <1>3 DEF HubTypeOK, QueueInv, Enqueue

(* There is room for the publication that a reader or the simulation adds. *)
LEMMA EnqueueRoom ==
  ASSUME TypeInv, NEW c \in Clients, pc[c] = "publishing"
  PROVE  Len(log) + 1 <= MaxPublish
<1>1. Cardinality(Publishing) >= 1
  <2>1. c \in Publishing
    BY DEF Publishing
  <2>. QED
    BY <2>1, PublishingCount, FS_EmptySet DEF TypeInv, TypeOK
<1>. QED
  BY <1>1, PublishingCount, HubAssumption DEF TypeInv, TypeOK, HubTypeOK, BoundInv

LEMMA InternalRoom ==
  ASSUME TypeInv, MayPublish
  PROVE  Len(log) + 1 <= MaxPublish
BY PublishingCount, HubAssumption DEF MayPublish, TypeInv, TypeOK, HubTypeOK

(* The head of the queue is the publication after those taken already.     *)
LEMMA TakeType ==
  ASSUME TypeInv, TakePublish
  PROVE  HubTypeOK' /\ QueueInv'
<1>. USE HubAssumption DEF TypeInv, TypeOK
<1>1. /\ publish \in Seq(1 .. MaxPublish) /\ publish # <<>>
      /\ Head(publish) = Len(log) - Len(publish) + 1
      /\ Head(publish) \in 1 .. Len(log)
      /\ Head(publish) \in 1 .. MaxPublish
  BY DEF TakePublish, HubTypeOK, QueueInv
<1>2. topics[log[Head(publish)].route] \subseteq Clients
  BY <1>1, RouteAndBus DEF MapTypeOK
<1>3. /\ publish' \in Seq(1 .. MaxPublish)
      /\ Len(publish') = Len(publish) - 1
      /\ \A i \in 1 .. Len(publish') : publish'[i] = publish[i + 1]
  BY <1>1 DEF TakePublish
<1>4. HubTypeOK'
  BY <1>1, <1>2, <1>3 DEF TakePublish, HubTypeOK, Payload
<1>5. \A i \in 1 .. Len(publish') : publish'[i] = Len(log) - Len(publish') + i
  BY <1>1, <1>3 DEF HubTypeOK, QueueInv
<1>. QED  BY <1>1, <1>3, <1>4, <1>5 DEF TakePublish, HubTypeOK, QueueInv

(* Whoever is being visited, it is for a publication that was taken.       *)
LEMMA DeliverCurrent ==
  ASSUME TypeInv, NEW c \in Clients, Deliver(c)
  PROVE  current \in 1 .. MaxPublish /\ current \in Payload
BY HubAssumption DEF TypeInv, TypeOK, HubTypeOK, QueueInv, Deliver, Payload

-----------------------------------------------------------------------------
(* Type correctness, one lemma per group of variables. In each, the        *)
(* actions that change the group have a step each, the others one together.*)

LEMMA MapTypeStep ==
  ASSUME TypeInv, Next
  PROVE  MapTypeOK'
<1>. USE DEF TypeInv, TypeOK
<1>1. ASSUME NEW c \in Clients, NEW t \in Topics, ReadUnsubscribe(c, t) PROVE MapTypeOK'
  BY <1>1 DEF ReadUnsubscribe, MapTypeOK
<1>2. ASSUME NEW c \in Clients, SubscribeFresh(c) PROVE MapTypeOK'
  <2>1. target[c] \in Topics
    BY DEF ReaderTypeOK
  <2>. QED  BY <1>2, <2>1 DEF SubscribeFresh, MapTypeOK
<1>3. ASSUME NEW c \in Clients, SubscribeExisting(c) PROVE MapTypeOK'
  BY <1>3 DEF SubscribeExisting, MapTypeOK
<1>4. ASSUME NEW c \in Clients, Unsubscribe(c) PROVE MapTypeOK'
  BY <1>4 DEF Unsubscribe, MapTypeOK
<1>5. ASSUME NEW c \in Clients, Unregister(c) PROVE MapTypeOK'
  <2>1. CASE c \in clients
    <3>1. RemoveFromTopics(c, ctopics[c]) /\ ctopics[c] \in SUBSET Topics
      BY <1>5, <2>1 DEF Unregister, ReaderTypeOK
    <3>. QED  BY <3>1, RemoveFromTopicsType
  <2>2. CASE c \notin clients
    BY <1>5, <2>2 DEF Unregister, MapTypeOK, mapVars
  <2>. QED  BY <2>1, <2>2
<1>6. ASSUME NEW c \in Clients, Evict(c) PROVE MapTypeOK'
  BY <1>6, RemoveFromTopicsType DEF Evict
<1>7. CASE UNCHANGED mapVars
  BY <1>7 DEF MapTypeOK, mapVars
<1>. QED
  BY <1>1, <1>2, <1>3, <1>4, <1>5, <1>6, <1>7
  DEF Next, ReaderStep, ReaderGoesOn, RunSelects, WriterStep, FanOut,
      Connect, Register, ReadSubscribe, ReadRejected, ReadPublish, ReadFails,
      SubscribeNilMap, EnqueuePublish, ReaderCloses, PublishInternal, TakePublish,
      Deliver, SendOnClosed, EndOfRange, MapFault, WriterSends, WriteFails,
      PingFails, WriterEnds, WriterStops

LEMMA ReaderTypeStep ==
  ASSUME TypeInv, Next
  PROVE  ReaderTypeOK'
<1>. USE HubAssumption DEF TypeInv, TypeOK
<1>1. ASSUME NEW c \in Clients, NEW s \in ReaderStates, ReadFrame(c, s)
      PROVE  pc' \in [Clients -> ReaderStates] /\ reads' \in [Clients -> 0 .. MaxReads]
  BY <1>1 DEF ReadFrame, ReaderTypeOK
<1>2. ASSUME NEW c \in Clients, TopicOpEnds(c)
      PROVE  /\ pc' \in [Clients -> ReaderStates]
             /\ target' \in [Clients -> Topics]
             /\ seen' \in [Clients -> BOOLEAN]
             /\ reads' \in [Clients -> 0 .. MaxReads]
  BY <1>2, SomeTopicType DEF TopicOpEnds, ReaderTypeOK, ReaderStates
<1>3. ASSUME NEW c \in Clients, NEW t \in Topics, ReadSubscribe(c, t) PROVE ReaderTypeOK'
  BY <1>1, <1>3 DEF ReadSubscribe, ReaderTypeOK, ReaderStates
<1>4. ASSUME NEW c \in Clients, NEW t \in Topics, ReadUnsubscribe(c, t) PROVE ReaderTypeOK'
  BY <1>1, <1>4 DEF ReadUnsubscribe, ReaderTypeOK, ReaderStates
<1>5. ASSUME NEW c \in Clients, ReadRejected(c) \/ ReadPublish(c) PROVE ReaderTypeOK'
  BY <1>1, <1>5 DEF ReadRejected, ReadPublish, ReaderTypeOK, ReaderStates
<1>6. ASSUME NEW c \in Clients, SubscribeFresh(c) \/ SubscribeExisting(c) PROVE ReaderTypeOK'
  <2>1. TopicOpEnds(c) /\ ctopics' = [ctopics EXCEPT ![c] = @ \cup {target[c]}]
    BY <1>6 DEF SubscribeFresh, SubscribeExisting
  <2>. QED  BY <1>2, <2>1 DEF ReaderTypeOK
<1>7. ASSUME NEW c \in Clients, Unsubscribe(c) PROVE ReaderTypeOK'
  <2>1. TopicOpEnds(c) /\ ctopics' = [ctopics EXCEPT ![c] = @ \ {target[c]}]
    BY <1>7 DEF Unsubscribe
  <2>. QED  BY <1>2, <2>1 DEF ReaderTypeOK
<1>8. ASSUME NEW c \in Clients, NEW s \in ReaderStates,
             pc' = [pc EXCEPT ![c] = s], UNCHANGED <<target, seen, ctopics, reads>>
      PROVE  ReaderTypeOK'
  BY <1>8 DEF ReaderTypeOK
<1>9. ASSUME NEW c \in Clients,
             \/ Connect(c) \/ Register(c) \/ ReadFails(c) \/ ReaderCloses(c) \/ Unregister(c)
             \/ \E r \in Routes, b \in Buses : EnqueuePublish(c, r, b)
      PROVE  ReaderTypeOK'
  BY <1>8, <1>9
  DEF Connect, Register, ReadFails, ReaderCloses, Unregister, EnqueuePublish, ReaderStates
<1>10. CASE UNCHANGED readerVars
  BY <1>10 DEF ReaderTypeOK, readerVars
<1>. QED
  BY <1>3, <1>4, <1>5, <1>6, <1>7, <1>9, <1>10
  DEF Next, ReaderStep, ReaderGoesOn, RunSelects, WriterStep, FanOut, SubscribeNilMap,
      PublishInternal, TakePublish, Deliver, Evict, SendOnClosed, EndOfRange, MapFault,
      WriterSends, WriteFails, PingFails, WriterEnds, WriterStops

LEMMA OutTypeStep ==
  ASSUME TypeInv, Next
  PROVE  OutTypeOK'
<1>. USE HubAssumption DEF TypeInv, TypeOK
<1>1. ASSUME NEW c \in Clients, Register(c) PROVE OutTypeOK'
  BY <1>1 DEF Register, OutTypeOK
<1>2. ASSUME NEW c \in Clients, ReadRejected(c) PROVE OutTypeOK'
  <2>1. ErrorReply \in Payload
    BY DEF ErrorReply, Payload
  <2>2. CASE Put(c, ErrorReply)
    BY <1>2, <2>1, <2>2, PutType DEF ReadRejected, OutTypeOK
  <2>3. CASE UNCHANGED send
    BY <1>2, <2>3 DEF ReadRejected, OutTypeOK
  <2>. QED  BY <1>2, <2>2, <2>3 DEF ReadRejected
<1>3. ASSUME NEW c \in Clients, ReaderCloses(c) PROVE OutTypeOK'
  BY <1>3 DEF ReaderCloses, OutTypeOK
<1>4. ASSUME NEW c \in Clients, Unregister(c) PROVE OutTypeOK'
  BY <1>4 DEF Unregister, Forget, OutTypeOK
<1>5. ASSUME NEW c \in Clients, Deliver(c) PROVE OutTypeOK'
  <2>1. current \in 1 .. MaxPublish /\ current \in Payload
    BY <1>5, DeliverCurrent
  <2>2. /\ Put(c, current)
        /\ got' = [got EXCEPT ![c] = Append(@, current)]
        /\ UNCHANGED <<closed, writer, conn, evicted>>
    BY <1>5 DEF Deliver
  <2>3. got' \in [Clients -> Seq(1 .. MaxPublish)]
    BY <2>1, <2>2 DEF OutTypeOK
  <2>. QED  BY <2>1, <2>2, <2>3, PutType DEF OutTypeOK
<1>6. ASSUME NEW c \in Clients, Evict(c) PROVE OutTypeOK'
  BY <1>6 DEF Evict, Forget, OutTypeOK
<1>7. ASSUME NEW c \in Clients, NEW rest \in Seq(Payload), Len(rest) <= SendBufferSize,
             send' = [send EXCEPT ![c] = rest]
      PROVE  /\ send' \in [Clients -> Seq(Payload)]
             /\ \A d \in Clients : Len(send'[d]) <= SendBufferSize
  BY <1>7 DEF OutTypeOK
<1>8. ASSUME NEW c \in Clients, WriterSends(c) PROVE OutTypeOK'
  BY <1>7, <1>8, EmptySeq DEF WriterSends, OutTypeOK
<1>9. ASSUME NEW c \in Clients, WriterStops(c)
      PROVE  /\ writer' \in [Clients -> {"none", "running", "done"}]
             /\ conn' \in [Clients -> {"open", "closed"}]
             /\ UNCHANGED <<closed, got, evicted>>
  BY <1>9 DEF WriterStops, OutTypeOK
<1>10. ASSUME NEW c \in Clients, WriteFails(c) PROVE OutTypeOK'
  <2>1. PICK rest \in {Tail(send[c]), <<>>} : send' = [send EXCEPT ![c] = rest]
    BY <1>10 DEF WriteFails
  <2>2. send[c] \in Seq(Payload) /\ send[c] # <<>> /\ Len(send[c]) <= SendBufferSize
    BY <1>10 DEF WriteFails, OutTypeOK
  <2>3. rest \in Seq(Payload) /\ Len(rest) <= SendBufferSize
    <3>1. CASE rest = Tail(send[c])
      BY <2>2, <3>1, HeadTailProperties, LenProperties, HubAssumption
    <3>2. CASE rest = <<>>
      BY <3>2, EmptySeq, HubAssumption
    <3>. QED  BY <2>1, <3>1, <3>2
  <2>. QED  BY <1>7, <1>9, <1>10, <2>1, <2>3 DEF WriteFails, OutTypeOK
<1>11. ASSUME NEW c \in Clients, PingFails(c) \/ WriterEnds(c) PROVE OutTypeOK'
  BY <1>9, <1>11 DEF PingFails, WriterEnds, OutTypeOK
<1>12. CASE UNCHANGED outVars
  BY <1>12 DEF OutTypeOK, outVars
<1>. QED
  BY <1>1, <1>2, <1>3, <1>4, <1>5, <1>6, <1>8, <1>10, <1>11, <1>12
  DEF Next, ReaderStep, ReaderGoesOn, RunSelects, WriterStep, FanOut, Connect,
      ReadSubscribe, ReadUnsubscribe, ReadPublish, ReadFails, SubscribeFresh,
      SubscribeExisting, SubscribeNilMap, Unsubscribe, EnqueuePublish, PublishInternal,
      TakePublish, SendOnClosed, EndOfRange, MapFault

LEMMA HubTypeStep ==
  ASSUME TypeInv, Next
  PROVE  HubTypeOK'
<1>. USE DEF TypeInv, TypeOK
<1>1. ASSUME NEW c \in Clients, Register(c) PROVE HubTypeOK'
  BY <1>1 DEF Register, HubTypeOK
<1>2. ASSUME NEW c \in Clients, NEW t \in Topics, ReadUnsubscribe(c, t) PROVE HubTypeOK'
  BY <1>2 DEF ReadUnsubscribe, HubTypeOK
<1>3. ASSUME NEW c \in Clients, SubscribeExisting(c) PROVE HubTypeOK'
  BY <1>3 DEF SubscribeExisting, HubTypeOK
<1>4. ASSUME NEW c \in Clients, NEW r \in Routes, NEW b \in Buses, EnqueuePublish(c, r, b)
      PROVE  HubTypeOK'
  BY <1>4, EnqueueRoom, EnqueueType DEF EnqueuePublish
<1>5. ASSUME NEW r \in Routes, NEW b \in Buses, PublishInternal(r, b) PROVE HubTypeOK'
  BY <1>5, InternalRoom, EnqueueType DEF PublishInternal
<1>6. ASSUME NEW c \in Clients, Unregister(c) PROVE HubTypeOK'
  BY <1>6 DEF Unregister, Forget, HubTypeOK
<1>7. CASE TakePublish
  BY <1>7, TakeType
<1>8. ASSUME NEW c \in Clients, Deliver(c) PROVE HubTypeOK'
  BY <1>8 DEF Deliver, HubTypeOK
<1>9. ASSUME NEW c \in Clients, Evict(c) PROVE HubTypeOK'
  BY <1>9 DEF Evict, Forget, HubTypeOK
<1>10. CASE EndOfRange
  <2>1. CASE phase = "route"
    <3>1. current \in 1 .. Len(log)
      BY <2>1, LenProperties DEF QueueInv, HubTypeOK, Payload
    <3>2. log[current].bus \in Topics
      BY <3>1, RouteAndBus
    <3>. QED  BY <1>10, <2>1, <3>2 DEF EndOfRange, HubTypeOK, MapTypeOK
  <2>2. CASE phase = "bus"
    BY <1>10, <2>2, HubAssumption DEF EndOfRange, HubTypeOK, Payload
  <2>. QED  BY <1>10, <2>1, <2>2 DEF EndOfRange
<1>11. CASE UNCHANGED hubVars
  BY <1>11 DEF HubTypeOK, hubVars
<1>. QED
  BY <1>1, <1>2, <1>3, <1>4, <1>5, <1>6, <1>7, <1>8, <1>9, <1>10, <1>11
  DEF Next, ReaderStep, ReaderGoesOn, RunSelects, WriterStep, FanOut, Connect,
      ReadSubscribe, ReadRejected, ReadPublish, ReadFails, SubscribeFresh, SubscribeNilMap,
      Unsubscribe, ReaderCloses, SendOnClosed, MapFault, WriterSends, WriteFails,
      PingFails, WriterEnds, WriterStops

LEMMA BoundStep ==
  ASSUME TypeInv, Next
  PROVE  BoundInv'
<1>. USE DEF TypeInv, TypeOK
<1>1. ASSUME NEW c \in Clients, NEW s \in ReaderStates, s # "publishing",
             pc[c] # "publishing", pc' = [pc EXCEPT ![c] = s], UNCHANGED log
      PROVE  BoundInv'
  BY <1>1, PublishingSame DEF BoundInv
<1>2. ASSUME NEW c \in Clients,
             \/ Connect(c) \/ Register(c) \/ ReadRejected(c) \/ ReadFails(c)
             \/ SubscribeFresh(c) \/ SubscribeExisting(c) \/ Unsubscribe(c)
             \/ ReaderCloses(c) \/ Unregister(c)
             \/ \E t \in Topics : ReadSubscribe(c, t) \/ ReadUnsubscribe(c, t)
      PROVE  BoundInv'
  <2>1. UNCHANGED log /\ pc[c] # "publishing"
    BY <1>2
    DEF Connect, Register, ReadRejected, ReadFails, SubscribeFresh, SubscribeExisting,
        Unsubscribe, ReaderCloses, Unregister, ReadSubscribe, ReadUnsubscribe,
        ReadFrame, hubVars
  <2>2. PICK s \in ReaderStates \ {"publishing"} : pc' = [pc EXCEPT ![c] = s]
    BY <1>2
    DEF Connect, Register, ReadRejected, ReadFails, SubscribeFresh, SubscribeExisting,
        Unsubscribe, ReaderCloses, Unregister, ReadSubscribe, ReadUnsubscribe,
        ReadFrame, TopicOpEnds, ReaderStates
  <2>. QED  BY <1>1, <2>1, <2>2
<1>3. ASSUME NEW c \in Clients, ReadPublish(c) PROVE BoundInv'
  <2>1. Cardinality(Publishing') = Cardinality(Publishing) + 1
    BY <1>3, PublishingStarts DEF ReadPublish, ReadFrame
  <2>. QED
    BY <1>3, <2>1, PublishingCount, LenProperties, HubAssumption
    DEF ReadPublish, MayPublish, BoundInv, HubTypeOK, hubVars
<1>4. ASSUME NEW c \in Clients, NEW r \in Routes, NEW b \in Buses, EnqueuePublish(c, r, b)
      PROVE  BoundInv'
  <2>1. Cardinality(Publishing') = Cardinality(Publishing) - 1
    BY <1>4, PublishingEnds DEF EnqueuePublish, ReaderStates
  <2>2. Len(log') = Len(log) + 1
    BY <1>4, EnqueueRoom, EnqueueType DEF EnqueuePublish
  <2>. QED
    BY <2>1, <2>2, PublishingCount, LenProperties, HubAssumption DEF BoundInv, HubTypeOK
<1>5. ASSUME NEW r \in Routes, NEW b \in Buses, PublishInternal(r, b) PROVE BoundInv'
  <2>1. Len(log') = Len(log) + 1
    BY <1>5, InternalRoom, EnqueueType DEF PublishInternal
  <2>2. Publishing' = Publishing
    BY <1>5 DEF PublishInternal, Publishing, readerVars
  <2>. QED
    BY <1>5, <2>1, <2>2, PublishingCount, LenProperties, HubAssumption
    DEF PublishInternal, MayPublish, BoundInv, HubTypeOK
<1>6. CASE UNCHANGED <<log, pc>>
  BY <1>6 DEF BoundInv, Publishing
<1>. QED
  BY <1>2, <1>3, <1>4, <1>5, <1>6
  DEF Next, ReaderStep, ReaderGoesOn, RunSelects, WriterStep, FanOut, SubscribeNilMap,
      TakePublish, Deliver, Evict, SendOnClosed, EndOfRange, MapFault, WriterSends,
      WriteFails, PingFails, WriterEnds, WriterStops, hubVars, readerVars

LEMMA QueueStep ==
  ASSUME TypeInv, Next
  PROVE  QueueInv'
<1>. USE DEF TypeInv, TypeOK
<1>1. ASSUME NEW c \in Clients, NEW r \in Routes, NEW b \in Buses, EnqueuePublish(c, r, b)
      PROVE  QueueInv'
  BY <1>1, EnqueueRoom, EnqueueType DEF EnqueuePublish
<1>2. ASSUME NEW r \in Routes, NEW b \in Buses, PublishInternal(r, b) PROVE QueueInv'
  BY <1>2, InternalRoom, EnqueueType DEF PublishInternal
<1>3. CASE TakePublish
  BY <1>3, TakeType
<1>4. CASE EndOfRange
  BY <1>4 DEF EndOfRange, QueueInv
<1>5. ASSUME UNCHANGED <<publish, log, phase, current>>, phase = "idle" => todo' = todo
      PROVE  QueueInv'
  BY <1>5 DEF QueueInv
<1>6. ASSUME NEW c \in Clients,
             \/ SubscribeExisting(c) \/ Deliver(c) \/ Evict(c)
             \/ \E t \in Topics : ReadUnsubscribe(c, t)
      PROVE  QueueInv'
  BY <1>5, <1>6 DEF SubscribeExisting, Deliver, Evict, ReadUnsubscribe, Fanning, QueueInv
<1>7. CASE UNCHANGED <<publish, log, phase, current, todo>>
  BY <1>5, <1>7
<1>. QED
  BY <1>1, <1>2, <1>3, <1>4, <1>6, <1>7
  DEF Next, ReaderStep, ReaderGoesOn, RunSelects, WriterStep, FanOut, Connect, Register,
      ReadSubscribe, ReadRejected, ReadPublish, ReadFails, SubscribeFresh, SubscribeNilMap,
      Unsubscribe, ReaderCloses, Unregister, SendOnClosed, MapFault, WriterSends,
      WriteFails, PingFails, WriterEnds, WriterStops, hubVars

LEMMA TypeInvInit == Init => TypeInv
<1>. SUFFICES ASSUME Init PROVE TypeInv
  OBVIOUS
<1>1. TypeOK
  BY SomeTopicType, HubAssumption, EmptySeq
  DEF Init, TypeOK, HubTypeOK, MapTypeOK, ReaderTypeOK, OutTypeOK, Payload, ReaderStates,
      CrashKinds
<1>2. BoundInv
  <2>1. Publishing = {}
    BY DEF Init, Publishing
  <2>. QED  BY <2>1, FS_EmptySet, HubAssumption DEF Init, BoundInv
<1>. QED  BY <1>1, <1>2 DEF Init, TypeInv, QueueInv

LEMMA TypeInvStep == TypeInv /\ [Next]_vars => TypeInv'
<1>1. ASSUME TypeInv, Next PROVE TypeInv'
  <2>1. crash' \in CrashKinds
    BY <1>1, ZenonT(30)
    DEF TypeInv, TypeOK, CrashKinds, Next, ReaderStep, ReaderGoesOn, RunSelects, WriterStep,
        FanOut, Connect, Register, ReadSubscribe, ReadUnsubscribe, ReadRejected, ReadPublish,
        ReadFails, SubscribeFresh, SubscribeExisting, SubscribeNilMap, Unsubscribe,
        EnqueuePublish, ReaderCloses, Unregister, PublishInternal, TakePublish, Deliver,
        Evict, SendOnClosed, EndOfRange, MapFault, WriterSends, WriteFails, PingFails,
        WriterEnds, WriterStops
  <2>. QED
    BY <1>1, <2>1, HubTypeStep, MapTypeStep, ReaderTypeStep, OutTypeStep, BoundStep, QueueStep
    DEF TypeInv, TypeOK
<1>2. ASSUME TypeInv, UNCHANGED vars PROVE TypeInv'
  BY <1>2
  DEF TypeInv, TypeOK, HubTypeOK, MapTypeOK, ReaderTypeOK, OutTypeOK, BoundInv, QueueInv,
      Publishing, vars, hubVars, mapVars, readerVars, outVars
<1>. QED  BY <1>1, <1>2

(* The channels never exceed their capacities, every number in a queue is  *)
(* a publication that was accepted, and every variable keeps its type, for *)
(* any number of connections, topics and publications (hub.go, client.go). *)
THEOREM TypeCorrect == Spec => []TypeOK
<1>1. TypeInv => TypeOK
  BY DEF TypeInv
<1>. QED  BY <1>1, TypeInvInit, TypeInvStep, PTL DEF Spec

-----------------------------------------------------------------------------
(* The life of a connection.                                               *)

(* While a client is not removed, closed or stopped, a reader that moves   *)
(* among the active states leaves its life as it was.                      *)
LEMMA LifeOfReader ==
  ASSUME TypeInv, LifeInv, NEW c \in Clients, NEW s \in Active, pc[c] \in Active,
         pc' = [pc EXCEPT ![c] = s],
         s # "unsubscribing", \A d \in Clients \ {c} : target'[d] = target[d],
         UNCHANGED <<clients, topics, todo, ctopics, closed, writer, evicted>>
  PROVE  LifeInv'
BY DEF TypeInv, TypeOK, ReaderTypeOK, LifeInv, Active

LEMMA LifeStep ==
  ASSUME TypeInv, LifeInv, Next
  PROVE  LifeInv'
<1>. USE DEF TypeInv, TypeOK
<1>1. ASSUME NEW c \in Clients, Connect(c) PROVE LifeInv'
  BY <1>1 DEF Connect, LifeInv, Active, ReaderTypeOK, hubVars, mapVars, outVars
<1>2. ASSUME NEW c \in Clients, Register(c) PROVE LifeInv'
  BY <1>2 DEF Register, LifeInv, Active, ReaderTypeOK, OutTypeOK, mapVars
<1>3. ASSUME NEW c \in Clients,
             \/ ReadRejected(c) \/ ReadPublish(c) \/ ReadFails(c)
             \/ \E t \in Topics : ReadSubscribe(c, t)
             \/ \E r \in Routes, b \in Buses : EnqueuePublish(c, r, b)
      PROVE  LifeInv'
  BY <1>3, LifeOfReader
  DEF ReadRejected, ReadPublish, ReadFails, ReadSubscribe, EnqueuePublish, Enqueue, ReadFrame,
      Active, ReaderTypeOK, hubVars, mapVars, outVars
<1>4. ASSUME NEW c \in Clients, NEW t \in Topics, ReadUnsubscribe(c, t) PROVE LifeInv'
  BY <1>4 DEF ReadUnsubscribe, ReadFrame, LifeInv, Active, ReaderTypeOK, MapTypeOK, outVars
<1>5. ASSUME NEW c \in Clients, SubscribeFresh(c) PROVE LifeInv'
  BY <1>5
  DEF SubscribeFresh, TopicOpEnds, LifeInv, Active, ReaderTypeOK, MapTypeOK, hubVars, outVars
<1>6. ASSUME NEW c \in Clients, SubscribeExisting(c) PROVE LifeInv'
  BY <1>6
  DEF SubscribeExisting, TopicOpEnds, LifeInv, Active, ReaderTypeOK, MapTypeOK, outVars
<1>7. ASSUME NEW c \in Clients, Unsubscribe(c) PROVE LifeInv'
  BY <1>7
  DEF Unsubscribe, TopicOpEnds, LifeInv, Active, ReaderTypeOK, MapTypeOK, hubVars, outVars
<1>8. ASSUME NEW c \in Clients, ReaderCloses(c) PROVE LifeInv'
  BY <1>8 DEF ReaderCloses, LifeInv, Active, ReaderTypeOK, hubVars, mapVars
<1>9. ASSUME NEW c \in Clients, Unregister(c) PROVE LifeInv'
  <2>1. CASE c \in clients
    <3>1. /\ pc' = [pc EXCEPT ![c] = "closing"]
          /\ clients' = clients \ {c}
          /\ closed' = [closed EXCEPT ![c] = TRUE]
          /\ todo' = {} /\ todo = {}
          /\ UNCHANGED <<ctopics, writer, evicted, target>>
          /\ pc[c] = "leaving"
      BY <1>9, <2>1 DEF Unregister, Forget, QueueInv
    <3>2. topics' = [t \in Topics |-> IF t \in ctopics[c] THEN topics[t] \ {c} ELSE topics[t]]
      BY <1>9, <2>1 DEF Unregister, RemoveFromTopics
    <3>3. c \notin evicted => \A t \in Topics : c \notin topics'[t]
      BY <3>2 DEF LifeInv
    <3>4. \A d \in Clients, t \in Topics : d \in topics'[t] => d \in topics[t]
      BY <3>2
    <3>5. \A d \in Clients \ {c} : pc'[d] = pc[d] /\ closed'[d] = closed[d]
      BY <3>1 DEF ReaderTypeOK, OutTypeOK
    <3>6. pc'[c] = "closing" /\ closed'[c]
      BY <3>1 DEF ReaderTypeOK, OutTypeOK
    <3>7. \A d \in clients' : pc'[d] \in Active /\ ~closed'[d]
      BY <3>1, <3>5 DEF LifeInv, HubTypeOK
    <3>8. \A d \in Clients :
            /\ writer'[d] = "none" <=> pc'[d] \in {"new", "registering"}
            /\ writer'[d] = "none" =>
                 ~closed'[d] /\ d \notin todo' /\ \A t \in Topics : d \notin topics'[t]
      BY <3>1, <3>4, <3>5, <3>6 DEF LifeInv
    <3>9. \A d \in Clients \ evicted' :
            /\ pc'[d] \in Active => d \in clients'
            /\ closed'[d] => pc'[d] \in {"closing", "done"}
            /\ pc'[d] \notin Active => d \notin todo'
            /\ \A t \in Topics : d \in topics'[t] => pc'[d] \in Active /\ t \in ctopics'[d]
            /\ pc'[d] = "unsubscribing" => d \notin topics'[target'[d]]
      BY <3>1, <3>3, <3>4, <3>5, <3>6 DEF LifeInv, Active, ReaderTypeOK
    <3>. QED  BY <3>7, <3>8, <3>9 DEF LifeInv
  <2>2. CASE c \notin clients
    BY <1>9, <2>2 DEF Unregister, LifeInv, QueueInv, Active, ReaderTypeOK, mapVars
  <2>. QED  BY <2>1, <2>2
<1>10. CASE TakePublish
  <2>1. todo' = topics[log[Head(publish)].route] /\ log[Head(publish)].route \in Topics
    <3>1. Head(publish) \in 1 .. Len(log)
      BY <1>10, LenProperties, HeadTailProperties DEF TakePublish, HubTypeOK, QueueInv
    <3>. QED  BY <1>10, <3>1, RouteAndBus DEF TakePublish
  <2>. QED  BY <1>10, <2>1 DEF TakePublish, LifeInv, mapVars, readerVars, outVars
<1>11. CASE EndOfRange
  <2>1. CASE phase = "route"
    <3>1. current \in 1 .. Len(log)
      BY <2>1, LenProperties DEF QueueInv, HubTypeOK, Payload
    <3>2. todo' = topics[log[current].bus] /\ log[current].bus \in Topics
      BY <1>11, <2>1, <3>1, RouteAndBus DEF EndOfRange
    <3>. QED  BY <1>11, <3>2 DEF EndOfRange, LifeInv, mapVars, readerVars, outVars
  <2>2. CASE phase = "bus"
    BY <1>11, <2>2 DEF EndOfRange, LifeInv, mapVars, readerVars, outVars
  <2>. QED  BY <1>11, <2>1, <2>2 DEF EndOfRange
<1>12. ASSUME NEW c \in Clients, Deliver(c) PROVE LifeInv'
  BY <1>12 DEF Deliver, LifeInv, mapVars, readerVars
<1>13. ASSUME NEW c \in Clients, Evict(c) PROVE LifeInv'
  <2>1. /\ clients' = clients \ {c}
        /\ closed' = [closed EXCEPT ![c] = TRUE]
        /\ evicted' = evicted \cup {c}
        /\ todo' = todo \ {c} /\ c \in todo
        /\ UNCHANGED <<pc, target, ctopics, writer>>
    BY <1>13 DEF Evict, Forget, readerVars
  <2>2. \A d \in Clients, t \in Topics : d \in topics'[t] => d \in topics[t]
    BY <1>13 DEF Evict, RemoveFromTopics
  <2>3. \A d \in Clients \ {c} : closed'[d] = closed[d]
    BY <2>1 DEF OutTypeOK
  <2>4. writer[c] # "none"
    BY <2>1 DEF LifeInv
  <2>5. \A d \in clients' : pc'[d] \in Active /\ ~closed'[d]
    BY <2>1, <2>3 DEF LifeInv, HubTypeOK
  <2>6. \A d \in Clients :
          /\ writer'[d] = "none" <=> pc'[d] \in {"new", "registering"}
          /\ writer'[d] = "none" =>
               ~closed'[d] /\ d \notin todo' /\ \A t \in Topics : d \notin topics'[t]
    BY <2>1, <2>2, <2>3, <2>4 DEF LifeInv
  <2>7. \A d \in Clients \ evicted' :
          /\ pc'[d] \in Active => d \in clients'
          /\ closed'[d] => pc'[d] \in {"closing", "done"}
          /\ pc'[d] \notin Active => d \notin todo'
          /\ \A t \in Topics : d \in topics'[t] => pc'[d] \in Active /\ t \in ctopics'[d]
          /\ pc'[d] = "unsubscribing" => d \notin topics'[target'[d]]
    BY <2>1, <2>2, <2>3 DEF LifeInv, ReaderTypeOK
  <2>. QED  BY <2>5, <2>6, <2>7 DEF LifeInv
<1>14. ASSUME NEW c \in Clients,
              WriterSends(c) \/ WriteFails(c) \/ PingFails(c) \/ WriterEnds(c)
       PROVE  LifeInv'
  BY <1>14
  DEF WriterSends, WriteFails, PingFails, WriterEnds, WriterStops, LifeInv, OutTypeOK,
      hubVars, mapVars, readerVars
<1>15. CASE UNCHANGED <<clients, topics, todo, pc, target, ctopics, closed, writer, evicted>>
  BY <1>15 DEF LifeInv
<1>. QED
  BY <1>1, <1>2, <1>3, <1>4, <1>5, <1>6, <1>7, <1>8, <1>9, <1>10, <1>11, <1>12, <1>13,
     <1>14, <1>15
  DEF Next, ReaderStep, ReaderGoesOn, RunSelects, WriterStep, FanOut, SubscribeNilMap,
      PublishInternal, Enqueue, SendOnClosed, MapFault, hubVars, mapVars, readerVars, outVars

(* A send on a closed channel, by the fan-out or by a reader's error reply,*)
(* needs a client that is visited, or reads, after its channel was closed. *)
LEMMA PanicStep ==
  ASSUME IInv, Next
  PROVE  PanicNeedsEviction'
<1>. USE DEF IInv, LifeInv, PanicNeedsEviction
<1>1. ASSUME NEW c \in Clients, ReadRejected(c) PROVE PanicNeedsEviction'
  BY <1>1 DEF ReadRejected, ReadFrame, Active
<1>2. ASSUME NEW c \in Clients, SendOnClosed(c) PROVE PanicNeedsEviction'
  BY <1>2 DEF SendOnClosed, Active, outVars
<1>3. CASE crash' # "closed_channel"
  BY <1>3
<1>. QED
  BY <1>1, <1>2, <1>3
  DEF Next, ReaderStep, ReaderGoesOn, RunSelects, WriterStep, FanOut, Connect, Register,
      ReadSubscribe, ReadUnsubscribe, ReadPublish, ReadFails, SubscribeFresh,
      SubscribeExisting, SubscribeNilMap, Unsubscribe, EnqueuePublish, ReaderCloses,
      Unregister, PublishInternal, TakePublish, Deliver, Evict, EndOfRange, MapFault,
      WriterSends, WriteFails, PingFails, WriterEnds, WriterStops

LEMMA InvInit == Init => IInv
BY TypeInvInit DEF Init, IInv, LifeInv, PanicNeedsEviction, Active

LEMMA InvStep == IInv /\ [Next]_vars => IInv'
<1>1. ASSUME IInv, Next PROVE IInv'
  BY <1>1, TypeInvStep, LifeStep, PanicStep DEF IInv
<1>2. ASSUME IInv, UNCHANGED vars PROVE IInv'
  BY <1>2, TypeInvStep
  DEF IInv, LifeInv, PanicNeedsEviction, vars, hubVars, mapVars, readerVars, outVars
<1>. QED  BY <1>1, <1>2

LEMMA Invariant == Spec => []IInv
BY InvInit, InvStep, PTL DEF Spec

(* Only a slow client can make the hub or a reader send on a closed        *)
(* channel: as long as broadcastToTopic has evicted nobody, the close done *)
(* by Unregister never meets a later send, in whatever order readers       *)
(* subscribe, unsubscribe, fail and leave.                                 *)
THEOREM NoPanicWithoutEviction == Spec => []PanicNeedsEviction
<1>1. IInv => PanicNeedsEviction
  BY DEF IInv
<1>. QED  BY <1>1, Invariant, PTL

(* A client that was never evicted is in a topic only while the hub holds  *)
(* it and its channel is open.                                             *)
THEOREM SubscribersAreLive == Spec => []NoStaleSubscriber
<1>1. IInv => NoStaleSubscriber
  BY DEF IInv, LifeInv, NoStaleSubscriber
<1>. QED  BY <1>1, Invariant, PTL

(* The hub holds no client whose reader is over: register and unregister   *)
(* are different channels, but a connection uses one after the other.      *)
THEOREM NobodyStaysRegistered == Spec => []NoDeadRegistration
<1>1. IInv => NoDeadRegistration
  BY DEF IInv, LifeInv, NoDeadRegistration, Active
<1>. QED  BY <1>1, Invariant, PTL

-----------------------------------------------------------------------------
(* Refinement: the hub implements Delivery.                                *)

LEMMA AbstractInit == Init => Abstract!Init
BY EmptySeq DEF Init, Abstract!Init, Lifecycle

(* A step that changes neither the lives of the links, nor the inboxes,    *)
(* nor the number of publications taken is a stutter of Delivery.          *)
LEMMA Stutter ==
  ASSUME UNCHANGED <<closed, writer, got>>,
         Len(log') - Len(publish') = Len(log) - Len(publish)
  PROVE  UNCHANGED Abstract!vars
BY DEF Abstract!vars, Lifecycle

LEMMA AbstractStep ==
  ASSUME IInv, Next
  PROVE  [Abstract!Next]_(Abstract!vars)
<1>. USE DEF IInv, TypeInv, TypeOK
<1>1. ASSUME NEW c \in Clients, Register(c) PROVE Abstract!Open(c)
  <2>1. writer[c] = "none" /\ ~closed[c]
    BY <1>1 DEF Register, LifeInv
  <2>2. [d \in Clients |-> Lifecycle(d)]' = [[d \in Clients |-> Lifecycle(d)] EXCEPT ![c] = "open"]
    BY <1>1, <2>1 DEF Register, Lifecycle, OutTypeOK
  <2>. QED  BY <1>1, <2>1, <2>2 DEF Register, Abstract!Open, Lifecycle
<1>2. ASSUME NEW c \in Clients, UNCHANGED <<writer, got, log, publish>>, Forget(c),
             ~closed[c], writer[c] # "none"
      PROVE  Abstract!Shut(c)
  <2>1. [d \in Clients |-> Lifecycle(d)]' = [[d \in Clients |-> Lifecycle(d)] EXCEPT ![c] = "shut"]
    BY <1>2 DEF Forget, Lifecycle, OutTypeOK
  <2>. QED  BY <1>2, <2>1 DEF Abstract!Shut, Lifecycle
<1>3. ASSUME NEW c \in Clients, Unregister(c), c \in clients PROVE Abstract!Shut(c)
  BY <1>2, <1>3 DEF Unregister, LifeInv, Active, HubTypeOK
<1>4. ASSUME NEW c \in Clients, Unregister(c), c \notin clients
      PROVE  UNCHANGED Abstract!vars
  BY <1>4, Stutter DEF Unregister
<1>5. ASSUME NEW c \in Clients, Evict(c) PROVE Abstract!Shut(c)
  BY <1>2, <1>5 DEF Evict, LifeInv
<1>6. ASSUME NEW c \in Clients, Deliver(c) PROVE Abstract!Send(c)
  <2>1. current = Len(log) - Len(publish) /\ current > 0
    BY <1>6 DEF Deliver, QueueInv
  <2>2. ~closed[c] /\ writer[c] # "none"
    BY <1>6 DEF Deliver, Put, LifeInv
  <2>3. UNCHANGED <<closed, writer, log, publish>> /\ got' = [got EXCEPT ![c] = Append(@, current)]
    BY <1>6 DEF Deliver
  <2>. QED  BY <2>1, <2>2, <2>3 DEF Abstract!Send, Lifecycle
<1>7. ASSUME TakePublish PROVE Abstract!Take
  <2>1. /\ publish \in Seq(1 .. MaxPublish) /\ publish # <<>>
        /\ Len(log) \in Nat /\ Len(publish) \in Nat /\ Len(publish) > 0
        /\ Len(log) <= MaxPublish
        /\ Len(publish') = Len(publish) - 1
        /\ log' = log
    BY <1>7, LenProperties, HeadTailProperties, PublishingCount, HubAssumption
    DEF TakePublish, HubTypeOK, BoundInv
  <2>2. UNCHANGED <<closed, writer, got>>
    BY <1>7 DEF TakePublish, outVars
  <2>. QED  BY <2>1, <2>2, HubAssumption DEF Abstract!Take, Lifecycle
<1>8. ASSUME NEW r \in Routes, NEW b \in Buses, Enqueue(r, b), UNCHANGED <<closed, writer, got>>,
             Len(log) + 1 <= MaxPublish
      PROVE  UNCHANGED Abstract!vars
  <2>1. Len(log') = Len(log) + 1 /\ Len(publish') = Len(publish) + 1
    BY <1>8 DEF Enqueue, HubTypeOK
  <2>. QED  BY <1>8, <2>1, Stutter, LenProperties DEF HubTypeOK
<1>9. ASSUME NEW c \in Clients, NEW r \in Routes, NEW b \in Buses, EnqueuePublish(c, r, b)
      PROVE  UNCHANGED Abstract!vars
  BY <1>8, <1>9, EnqueueRoom DEF EnqueuePublish, outVars
<1>10. ASSUME NEW r \in Routes, NEW b \in Buses, PublishInternal(r, b)
       PROVE  UNCHANGED Abstract!vars
  BY <1>8, <1>10, InternalRoom DEF PublishInternal, outVars
<1>11. CASE UNCHANGED <<closed, writer, got, log, publish>>
  BY <1>11, Stutter
<1>12. ASSUME NEW c \in Clients,
              WriterSends(c) \/ WriteFails(c) \/ PingFails(c) \/ WriterEnds(c)
       PROVE  UNCHANGED Abstract!vars
  <2>1. \A d \in Clients : writer'[d] = "none" <=> writer[d] = "none"
    BY <1>12
    DEF WriterSends, WriteFails, PingFails, WriterEnds, WriterStops, OutTypeOK
  <2>2. UNCHANGED <<closed, got, log, publish>>
    BY <1>12
    DEF WriterSends, WriteFails, PingFails, WriterEnds, WriterStops, hubVars
  <2>. QED  BY <2>1, <2>2 DEF Abstract!vars, Lifecycle
<1>. QED
  BY <1>1, <1>3, <1>4, <1>5, <1>6, <1>7, <1>9, <1>10, <1>11, <1>12
  DEF Next, ReaderStep, ReaderGoesOn, RunSelects, WriterStep, FanOut, Connect, ReadSubscribe,
      ReadUnsubscribe, ReadRejected, ReadPublish, ReadFails, SubscribeFresh,
      SubscribeExisting, SubscribeNilMap, Unsubscribe, ReaderCloses, SendOnClosed,
      EndOfRange, MapFault, Abstract!Next, hubVars, outVars

(* The hub's connections behave as Delivery says, whatever the number of   *)
(* connections, the buffers and the interleaving: nothing is put in the    *)
(* channel of a connection before it is registered or after it is closed,  *)
(* and what is put there is the publication taken last.                    *)
THEOREM HubImplementsDelivery == Spec => ImplementsDelivery
<1>1. Init => Abstract!Init
  BY AbstractInit
<1>2. IInv /\ [Next]_vars => [Abstract!Next]_(Abstract!vars)
  <2>1. ASSUME IInv, UNCHANGED vars PROVE UNCHANGED Abstract!vars
    BY <2>1, Stutter DEF vars, hubVars, outVars
  <2>. QED  BY <2>1, AbstractStep
<1>. QED  BY <1>1, <1>2, Invariant, PTL DEF Spec, ImplementsDelivery, Abstract!Spec

-----------------------------------------------------------------------------
(* What Delivery implies of the order of the broadcasts.                   *)

LEMMA AppendedTo ==
  ASSUME NEW S, NEW s \in Seq(S), NEW e \in S
  PROVE  /\ DOMAIN s = 1 .. Len(s) /\ Len(s) \in Nat
         /\ \A i \in 1 .. Len(s) : s[i] \in S
         /\ DOMAIN Append(s, e) = 1 .. Len(s) + 1
         /\ \A i \in 1 .. Len(s) : Append(s, e)[i] = s[i]
         /\ Append(s, e)[Len(s) + 1] = e
<1>1. Len(s) \in Nat /\ DOMAIN s = 1 .. Len(s)
  BY LenProperties
<1>2. /\ Append(s, e) \in Seq(S) /\ Len(Append(s, e)) = Len(s) + 1
      /\ \A i \in 1 .. Len(s) : Append(s, e)[i] = s[i]
      /\ Append(s, e)[Len(s) + 1] = e
  BY AppendProperties
<1>3. DOMAIN Append(s, e) = 1 .. Len(s) + 1
  BY <1>2, LenProperties
<1>4. \A i \in 1 .. Len(s) : s[i] \in S
  BY ElementOfSeq
<1>. QED  BY <1>1, <1>2, <1>3, <1>4

(* Publications that were sent and then one that none of them comes after. *)
LEMMA OrderAppended ==
  ASSUME NEW s \in Seq(1 .. MaxPublish), NEW e \in 1 .. MaxPublish,
         \A i \in DOMAIN s : s[i] <= e,
         \A i, j \in DOMAIN s : i < j => s[i] <= s[j]
  PROVE  /\ \A i \in DOMAIN Append(s, e) : Append(s, e)[i] <= e
         /\ \A i, j \in DOMAIN Append(s, e) : i < j => Append(s, e)[i] <= Append(s, e)[j]
<1>. DEFINE t == Append(s, e)
<1>1. DOMAIN s = 1 .. Len(s) /\ Len(s) \in Nat
  BY AppendedTo
<1>2. \A i \in 1 .. Len(s) : s[i] \in 1 .. MaxPublish
  BY AppendedTo
<1>3. DOMAIN t = 1 .. Len(s) + 1
  BY AppendedTo
<1>4. \A i \in 1 .. Len(s) : t[i] = s[i]
  BY AppendedTo
<1>5. t[Len(s) + 1] = e
  BY AppendedTo
<1>. HIDE DEF t
<1>6. \A i \in DOMAIN t : t[i] <= e
  BY <1>1, <1>2, <1>3, <1>4, <1>5, HubAssumption
<1>7. \A i, j \in DOMAIN t : i < j => t[i] <= t[j]
  BY <1>1, <1>2, <1>3, <1>4, <1>5, HubAssumption
<1>. QED  BY <1>6, <1>7 DEF t

LEMMA AbstractOrderStep ==
  ASSUME IInv, Abstract!InOrder, [Abstract!Next]_(Abstract!vars)
  PROVE  Abstract!InOrder'
<1>1. /\ got \in [Clients -> Seq(1 .. MaxPublish)]
      /\ Len(log) - Len(publish) \in 0 .. MaxPublish
  BY LenProperties, PublishingCount, HubAssumption
  DEF IInv, TypeInv, TypeOK, HubTypeOK, OutTypeOK, BoundInv, QueueInv
<1>2. CASE Abstract!Take
  <2>. DEFINE h == Len(log) - Len(publish)
  <2>1. got' = got /\ h' = h + 1 /\ h \in Nat
    BY <1>1, <1>2, HubAssumption DEF Abstract!Take
  <2>2. \A c \in Clients : \A i \in DOMAIN got[c] : got[c][i] \in 1 .. MaxPublish
    <3>. SUFFICES ASSUME NEW c \in Clients, NEW i \in DOMAIN got[c]
                  PROVE  got[c][i] \in 1 .. MaxPublish
      OBVIOUS
    <3>1. got[c] \in Seq(1 .. MaxPublish)
      BY <1>1
    <3>2. i \in 1 .. Len(got[c])
      BY <3>1, LenProperties
    <3>. QED  BY <3>1, <3>2, ElementOfSeq
  <2>3. \A c \in Clients : \A i \in DOMAIN got[c] : got[c][i] <= h
    BY DEF Abstract!InOrder
  <2>. HIDE DEF h
  <2>4. \A c \in Clients : \A i \in DOMAIN got[c] : got[c][i] <= h + 1
    BY <2>1, <2>2, <2>3, HubAssumption
  <2>. QED  BY <2>1, <2>4 DEF Abstract!InOrder, h
<1>3. ASSUME NEW c \in Clients, Abstract!Open(c) \/ Abstract!Shut(c)
      PROVE  Abstract!InOrder'
  BY <1>3 DEF Abstract!Open, Abstract!Shut, Abstract!InOrder
<1>4. ASSUME NEW c \in Clients, Abstract!Send(c) PROVE Abstract!InOrder'
  <2>. DEFINE h == Len(log) - Len(publish)
  <2>1. /\ h \in 1 .. MaxPublish /\ h' = h
        /\ got' = [got EXCEPT ![c] = Append(@, h)]
    BY <1>1, <1>4 DEF Abstract!Send
  <2>2. /\ \A i \in DOMAIN got[c] : got[c][i] <= h
        /\ \A i, j \in DOMAIN got[c] : i < j => got[c][i] <= got[c][j]
    BY DEF Abstract!InOrder
  <2>. HIDE DEF h
  <2>3. got'[c] = Append(got[c], h) /\ \A d \in Clients \ {c} : got'[d] = got[d]
    BY <1>1, <2>1
  <2>4. /\ \A i \in DOMAIN got'[c] : got'[c][i] <= h
        /\ \A i, j \in DOMAIN got'[c] : i < j => got'[c][i] <= got'[c][j]
    BY <1>1, <2>1, <2>2, <2>3, OrderAppended
  <2>. QED  BY <2>1, <2>3, <2>4, SMTT(30) DEF Abstract!InOrder, h
<1>5. CASE UNCHANGED Abstract!vars
  BY <1>5 DEF Abstract!vars, Abstract!InOrder
<1>. QED  BY <1>2, <1>3, <1>4, <1>5 DEF Abstract!Next

(* No connection is sent an earlier publication after a later one.         *)
THEOREM BroadcastsInOrder == Spec => []InOrder
<1>1. Abstract!Init => Abstract!InOrder
  <2>1. DOMAIN <<>> = {}
    OBVIOUS
  <2>. QED  BY <2>1, Zenon DEF Abstract!Init, Abstract!InOrder
<1>2. Abstract!InOrder => InOrder
  BY DEF Abstract!InOrder, InOrder
<1>. QED
  BY <1>1, <1>2, AbstractOrderStep, Invariant, HubImplementsDelivery, PTL
  DEF ImplementsDelivery, Abstract!Spec

=============================================================================
