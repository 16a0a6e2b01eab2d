-------------------------- MODULE ChatClient_proofs --------------------------
(***************************************************************************)
(* What the chat page promises, proved for any tasks, conversations,       *)
(* questions, page loads and visits to other tabs, and for queues of any   *)
(* length: whose messages are shown and saved, what a reload takes up,     *)
(* when the composer is locked, what Stop names.                           *)
(*                                                                         *)
(* The argument: OrderInv ties the events that wait to the streams and the *)
(* agent, whenever they are drained; QuestionInv and LockInv follow from   *)
(* it at once. Until two queries mixed the page is about one busy task   *)
(* (Alone) and every conversation that is named for it is its own (Homes), *)
(* and from these follow what is on record and what Stop names.            *)
(***************************************************************************)
EXTENDS ChatClient, TLAPS

\* The events waiting, and those that are the last of their task.
Evs == {queue[i] : i \in 1..Len(queue)}
Terminal == {"done", "gone", "neterror"}

\* A query is sent, by a call of the composer on show or by an earlier one.
Sends(t, from, gone, c) ==
    /\ Idle /\ stream[t] = "unused" /\ (gone \/ mounted)
    /\ OnSend(t, from, gone, c)

\* What a step is to the page itself, the calls that await their uploads apart.
PageStep ==
    \/ World \/ Drain \/ HandleEvent \/ Flush \/ User \/ Reload
    \/ \E t \in Tasks, from \in ConvIds \cup {None}, gone \in BOOLEAN, c \in ConvIds :
          Sends(t, from, gone, c)
    \/ UNCHANGED pageVars

-----------------------------------------------------------------------------
(* The queue.                                                              *)

\* An event that is pushed is there behind those there were.
LEMMA PushEvs ==
  ASSUME queue \in Seq(Events), NEW e \in Events, queue' = Append(queue, e)
  PROVE  /\ queue' \in Seq(Events) /\ Len(queue') = Len(queue) + 1 /\ queue' # queue
         /\ \A i \in 1..Len(queue) : queue'[i] = queue[i]
         /\ queue'[Len(queue')] = e
         /\ Evs' = Evs \cup {e}
         /\ \A t : Queued(t)' <=> Queued(t) \/ e.task = t
         /\ \A k, t : Waiting(k, t)' <=> Waiting(k, t) \/ (e.kind = k /\ e.task = t)
<1>1. /\ queue' \in Seq(Events) /\ Len(queue') = Len(queue) + 1
      /\ \A i \in 1..Len(queue) : queue'[i] = queue[i]
      /\ queue'[Len(queue')] = e
  OBVIOUS
<1>2. Len(queue) \in Nat /\ 1..Len(queue') = 1..Len(queue) \cup {Len(queue')}
  BY <1>1
<1>3. Evs' = Evs \cup {e}
  BY <1>1, <1>2 DEF Evs
<1>4. \A t : Queued(t)' <=> Queued(t) \/ e.task = t
  BY <1>1, <1>2 DEF Queued
<1>5. \A k, t : Waiting(k, t)' <=> Waiting(k, t) \/ (e.kind = k /\ e.task = t)
  BY <1>1, <1>2 DEF Waiting
<1> QED
  BY <1>1, <1>2, <1>3, <1>4, <1>5

\* An event that is handled is the first, and the others remain.
LEMMA PopEvs ==
  ASSUME queue \in Seq(Events), queue # <<>>, queue' = Tail(queue)
  PROVE  /\ queue' \in Seq(Events) /\ Len(queue') = Len(queue) - 1
         /\ Head(queue) = queue[1] /\ Head(queue) \in Events
         /\ \A i \in 1..Len(queue') : queue'[i] = queue[i + 1] /\ i + 1 \in 2..Len(queue)
         /\ Evs = Evs' \cup {Head(queue)}
         /\ \A t : Queued(t) <=> Queued(t)' \/ Head(queue).task = t
         /\ \A k, t : Waiting(k, t) <=> Waiting(k, t)' \/ (Head(queue).kind = k /\ Head(queue).task = t)
<1>1. /\ queue' \in Seq(Events) /\ Len(queue') = Len(queue) - 1 /\ Len(queue) \in Nat \ {0}
      /\ Head(queue) = queue[1] /\ Head(queue) \in Events
      /\ \A i \in 1..Len(queue') : queue'[i] = queue[i + 1] /\ i + 1 \in 2..Len(queue)
  OBVIOUS
<1>2. \A i \in 2..Len(queue) : i - 1 \in 1..Len(queue') /\ queue'[i - 1] = queue[i]
  BY <1>1
<1>3. \A i \in 1..Len(queue) : i = 1 \/ i \in 2..Len(queue)
  BY <1>1
<1>4. 1 \in 1..Len(queue)
  BY <1>1
<1>5. Evs = Evs' \cup {Head(queue)}
  <2>1. Evs' \subseteq Evs
    <3>1. \A i \in 1..Len(queue') : i + 1 \in 1..Len(queue)
      BY <1>1
    <3> QED
      BY <1>1, <3>1 DEF Evs
  <2>2. Head(queue) \in Evs
    BY <1>1, <1>4 DEF Evs
  <2>3. \A i \in 1..Len(queue) : queue[i] \in Evs' \cup {Head(queue)}
    BY <1>1, <1>2, <1>3 DEF Evs
  <2>4. Evs \subseteq Evs' \cup {Head(queue)}
    BY <2>3 DEF Evs
  <2> QED
    BY <2>1, <2>2, <2>4
<1>6. \A t : Queued(t) <=> Queued(t)' \/ Head(queue).task = t
  BY <1>1, <1>2, <1>3, <1>4 DEF Queued
<1>7. \A k, t : Waiting(k, t) <=> Waiting(k, t)' \/ (Head(queue).kind = k /\ Head(queue).task = t)
  <2>1. \A k, t : Waiting(k, t) <=> \E e \in Evs : e.kind = k /\ e.task = t
    BY DEF Waiting, Evs
  <2>2. \A k, t : Waiting(k, t)' <=> \E e \in Evs' : e.kind = k /\ e.task = t
    BY DEF Waiting, Evs
  <2> QED
    BY <1>5, <2>1, <2>2
<1> QED
  BY <1>1, <1>5, <1>6, <1>7

\* Who waits, in terms of the events.
LEMMA WaitingEvs ==
  ASSUME NEW k, NEW t
  PROVE  Waiting(k, t) <=> \E e \in Evs : e.kind = k /\ e.task = t
BY DEF Waiting, Evs

\* Whose events wait, in terms of the events.
LEMMA QueuedEvs ==
  ASSUME NEW t
  PROVE  Queued(t) <=> \E e \in Evs : e.task = t
BY DEF Queued, Evs

\* The events by kind.
LEMMA EventFields ==
  ASSUME NEW e \in Events
  PROVE  /\ e.kind \in {"created", "start", "text", "error", "neterror", "done", "gone",
                        "question", "reconnecting"} => e.task \in Tasks
         /\ e.kind = "question" => e.of \in Requests
         /\ e.kind = "reconnecting" => e.of \in ConvIds
         /\ e.kind = "selected" => e.task = None
         /\ e.kind \in {"created", "start", "text", "error", "neterror", "done", "gone",
                        "question", "reconnecting", "selected"}
BY DEF Events

\* The events there are.
LEMMA EventKinds ==
  /\ \A t \in Tasks : \A k \in {"created", "start", "text", "error", "neterror", "done", "gone"} :
        Event(k, t, None) \in Events
  /\ \A t \in Tasks, r \in Requests : Event("question", t, r) \in Events
  /\ \A t \in Tasks, c \in ConvIds : Event("reconnecting", t, c) \in Events
  /\ Event("selected", None, None) \in Events
  /\ \A k, t, x : Event(k, t, x).kind = k /\ Event(k, t, x).task = t /\ Event(k, t, x).of = x
BY DEF Event, Events

\* What a step does to the queue: an event more, the first one less, nothing;
\* a page load leaves at most the event it starts with.
Grown(e) ==
    /\ queue' \in Seq(Events) /\ Len(queue') = Len(queue) + 1 /\ queue' # queue
    /\ Evs' = Evs \cup {e}
    /\ \A t : Queued(t)' <=> Queued(t) \/ e.task = t
    /\ \A k, t : Waiting(k, t)' <=> Waiting(k, t) \/ (e.kind = k /\ e.task = t)

Shrunk ==
    /\ queue # <<>> /\ queue' \in Seq(Events) /\ Len(queue') = Len(queue) - 1
    /\ Evs = Evs' \cup {Head(queue)}
    /\ \A t : Queued(t) <=> Queued(t)' \/ Head(queue).task = t
    /\ \A k, t : Waiting(k, t) <=> Waiting(k, t)' \/ (Head(queue).kind = k /\ Head(queue).task = t)

Same ==
    /\ queue' = queue /\ Evs' = Evs
    /\ \A t : Queued(t)' <=> Queued(t)
    /\ \A k, t : Waiting(k, t)' <=> Waiting(k, t)

Emptied ==
    /\ record = None /\ queue' = <<>> /\ Len(queue') = 0 /\ queue' \in Seq(Events)
    /\ Evs' = {}
    /\ \A t : ~Queued(t)'
    /\ \A k, t : ~Waiting(k, t)'

First == Event("reconnecting", record.task, Home(record))

Restarted ==
    /\ record # None /\ queue' = <<First>> /\ Len(queue') = 1 /\ queue' \in Seq(Events)
    /\ First \in Events /\ Evs' = {First}
    /\ \A t : Queued(t)' <=> t = record.task
    /\ \A k, t : Waiting(k, t)' <=> k = "reconnecting" /\ t = record.task

\* An event appended is one more event that waits.
LEMMA Pushed ==
  ASSUME queue \in Seq(Events), NEW e \in Events, queue' = Append(queue, e)
  PROVE  Grown(e)
BY PushEvs DEF Grown

\* An event handled is one less.
LEMMA Handled ==
  ASSUME queue \in Seq(Events), batch \in 0..Len(queue), NEW kinds, Handle(kinds)
  PROVE  /\ Shrunk /\ queue' = Tail(queue)
         /\ Head(queue) \in Events /\ Head(queue) \in Evs /\ Head(queue).kind \in kinds
<1>1. queue # <<>> /\ queue' = Tail(queue) /\ Head(queue).kind \in kinds
  BY DEF Handle
<1> QED
  BY <1>1, PopEvs DEF Shrunk

\* A queue that is as it was has the same events waiting.
LEMMA Unmoved ==
  ASSUME queue' = queue
  PROVE  Same
BY DEF Same, Evs, Queued, Waiting

\* A page load leaves the event of the record, if there is one.
LEMMA Reloaded ==
  ASSUME record \in {None} \cup [task : Tasks, conv : ConvIds \cup {None}], Reload
  PROVE  Emptied \/ Restarted
<1>1. CASE record = None
  <2>1. queue' = <<>>
    BY <1>1 DEF Reload
  <2>2. Len(queue') = 0 /\ queue' \in Seq(Events)
    BY <2>1
  <2> QED
    BY <1>1, <2>1, <2>2 DEF Emptied, Evs, Queued, Waiting
<1>2. CASE record # None
  <2>1. queue' = <<First>> /\ record.task \in Tasks /\ Home(record) \in ConvIds
    BY <1>2 DEF Reload, First, Home, ConvIds
  <2>2. First \in Events /\ First.task = record.task /\ First.kind = "reconnecting"
    BY <2>1, EventKinds DEF First
  <2> HIDE DEF First
  <2>3. Len(queue') = 1 /\ queue' \in Seq(Events) /\ queue'[1] = First
    BY <2>1, <2>2
  <2>4. Evs' = {First}
    BY <2>3 DEF Evs
  <2>5. \A t : Queued(t)' <=> t = record.task
    BY <2>2, <2>3 DEF Queued
  <2>6. \A k, t : Waiting(k, t)' <=> k = "reconnecting" /\ t = record.task
    BY <2>2, <2>3 DEF Waiting
  <2> QED
    BY <1>2, <2>1, <2>2, <2>3, <2>4, <2>5, <2>6 DEF Restarted
<1> QED
  BY <1>1, <1>2

-----------------------------------------------------------------------------
(* Type correctness, with the room a batch has.                            *)

\* Between two batches the queue is within its bound, and no batch has a
\* running conversation of its own.
Sizes == Idle => Len(queue) <= MaxQueue /\ session = None

TypeInv == PageTypeOK /\ Sizes

\* The types and sizes of a page that starts.
LEMMA TypeInit ==
  ASSUME ChatAssumption, Init
  PROVE  TypeInv
<1>1. queue \in Seq(Events) /\ Len(queue) = 0 /\ batch = 0
  BY DEF Init
<1>2. saved \in [Tasks -> {None} \cup SUBSET Tasks] /\ row \in [Convs -> Rows]
      /\ messages \in [ConvIds -> SUBSET Tasks]
  BY DEF Init, Rows
<1>3. texts \in 0..MaxTexts /\ moves \in 0..MaxMoves /\ Len(queue) <= MaxQueue + 1
        /\ batch \in 0..Len(queue)
  BY <1>1 DEF ChatAssumption, Init
<1>4. Sizes
  BY <1>1 DEF ChatAssumption, Init, Sizes, Idle
<1>5. /\ record \in {None} \cup [task : Tasks, conv : ConvIds \cup {None}]
      /\ persist \in {None} \cup [task : Tasks, conv : ConvIds \cup {None}]
      /\ rejoining \in {None} \cup [conv : Convs, tail : SUBSET Tasks]
  BY DEF Init
<1>6. /\ stored \subseteq Requests /\ selected \in Convs \cup {None}
           /\ histories \subseteq Convs
      /\ mounted \in BOOLEAN /\ streaming \in BOOLEAN
      /\ view \in ConvIds \cup {None} /\ running \in ConvIds \cup {None}
      /\ current \in Tasks \cup {None} /\ loading \in Convs \cup {None}
      /\ session \in ConvIds \cup {None} /\ failed \subseteq Tasks
      /\ left \in BOOLEAN /\ mixed \in BOOLEAN
  BY DEF Init
<1>7. /\ taskOf \in [ConvIds -> Tasks \cup {None}] /\ panel \in [ConvIds -> Requests \cup {None}]
      /\ stream \in [Tasks -> {"unused", "posting", "live", "hello", "es", "closed", "silent", "over"}]
      /\ agent \in [Tasks -> {"none", "queued", "running", "over"}]
      /\ convOf \in [Tasks -> ConvIds \cup {None}]
      /\ asker \in [Requests -> Tasks \cup {None}] /\ asking \in [Tasks -> Requests \cup {None}]
  BY DEF Init
<1> QED
  BY <1>1, <1>2, <1>3, <1>4, <1>5, <1>6, <1>7 DEF TypeInv, PageTypeOK

\* Every step keeps the types and the sizes.
LEMMA TypeStep ==
  ASSUME ChatAssumption, TypeInv, PageStep
  PROVE  TypeInv'
<1> USE DEF TypeInv, Sizes, Idle
<1> USE DEF unheard, storageVars, sharedVars, batchVars, lockVars, chatVars, agentVars,
    worldVars, historyVars
<1>11. ASSUME NEW t \in Tasks, Respond(t)
      PROVE  TypeInv'
  <2>1. Event("created", t, None) \in Events
          /\ queue' = Append(queue, Event("created", t, None)) /\ Len(queue) < MaxQueue
    BY <1>11, EventKinds DEF Respond, Push
  <2>2. Grown(Event("created", t, None))
    BY <2>1, Pushed DEF PageTypeOK
  <2> QED
    BY <1>11, <2>1, <2>2 DEF Respond, Push, Event, ChatAssumption, PageTypeOK, ConvIds,
        Rows, Grown
<1>12. ASSUME NEW t \in Tasks, Break(t)
      PROVE  TypeInv'
  <2>1. Event("neterror", t, None) \in Events
          /\ queue' = Append(queue, Event("neterror", t, None)) /\ Len(queue) < MaxQueue
    BY <1>12, EventKinds DEF Break, Push
  <2>2. Grown(Event("neterror", t, None))
    BY <2>1, Pushed DEF PageTypeOK
  <2> QED
    BY <1>12, <2>1, <2>2 DEF Break, Push, Event, ChatAssumption, PageTypeOK, ConvIds,
        Rows, Grown
<1>13. ASSUME NEW t \in Tasks, EndSilently(t)
      PROVE  TypeInv'
  <2>1. Same
    BY <1>13, Unmoved DEF EndSilently
  <2> QED
    BY <1>13, <2>1 DEF EndSilently, ChatAssumption, PageTypeOK, ConvIds, Rows, Same
<1>14. ASSUME NEW t \in Tasks, Rejoin(t)
      PROVE  TypeInv'
  <2>1. \/ queue' = queue /\ record' = record /\ asking[t] = None
        \/ asking[t] # None /\ Event("question", t, asking[t]) \in Events
             /\ queue' = Append(queue, Event("question", t, asking[t]))
             /\ Len(queue) < MaxQueue /\ record' = record
    <3>1. CASE asking[t] = None
      BY <1>14, <3>1 DEF Rejoin
    <3>2. CASE asking[t] # None
      <4>1. Push(Event("question", t, asking[t])) /\ asking[t] \in Requests
        BY <1>14, <3>2 DEF Rejoin, PageTypeOK
      <4> QED
        BY <3>2, <4>1, EventKinds DEF Push
    <3> QED
      BY <3>1, <3>2
  <2>2. CASE queue' = queue /\ record' = record /\ asking[t] = None
    <3>1. Same
      BY <2>2, Unmoved
    <3> QED
      BY <1>14, <2>2, <3>1 DEF Rejoin, Event, ChatAssumption, PageTypeOK, ConvIds, Rows,
          Same
  <2>3. CASE asking[t] # None /\ Event("question", t, asking[t]) \in Events
          /\ queue' = Append(queue, Event("question", t, asking[t]))
          /\ Len(queue) < MaxQueue /\ record' = record
    <3>1. Grown(Event("question", t, asking[t]))
      BY <2>3, Pushed DEF PageTypeOK
    <3> QED
      BY <1>14, <2>3, <3>1 DEF Rejoin, Event, ChatAssumption, PageTypeOK, ConvIds, Rows,
          Grown
  <2> QED
    BY <2>1, <2>2, <2>3
<1>15. ASSUME NEW t \in Tasks, RejoinGone(t)
      PROVE  TypeInv'
  <2>1. Event("gone", t, None) \in Events /\ queue' = Append(queue, Event("gone", t, None))
          /\ Len(queue) < MaxQueue
    BY <1>15, EventKinds DEF RejoinGone, Push
  <2>2. Grown(Event("gone", t, None))
    BY <2>1, Pushed DEF PageTypeOK
  <2> QED
    BY <1>15, <2>1, <2>2 DEF RejoinGone, Push, Event, ChatAssumption, PageTypeOK,
        ConvIds, Rows, Grown
<1>16. ASSUME NEW t \in Tasks, Start(t)
      PROVE  TypeInv'
  <2>1. \/ queue' = queue /\ record' = record /\ stream[t] # "live"
        \/ Listening(t) /\ Event("start", t, None) \in Events
             /\ queue' = Append(queue, Event("start", t, None))
             /\ Len(queue) < MaxQueue /\ record' = record
    BY <1>16, EventKinds DEF Start, Emit, Push, Event
  <2>2. CASE queue' = queue /\ record' = record /\ stream[t] # "live"
    <3>1. Same
      BY <2>2, Unmoved
    <3> QED
      BY <1>16, <2>2, <3>1 DEF Start, Emit, Event, ChatAssumption, PageTypeOK, ConvIds,
          Rows, Same
  <2>3. CASE Listening(t) /\ Event("start", t, None) \in Events
          /\ queue' = Append(queue, Event("start", t, None))
          /\ Len(queue) < MaxQueue /\ record' = record
    <3>1. Grown(Event("start", t, None))
      BY <2>3, Pushed DEF PageTypeOK
    <3> QED
      BY <1>16, <2>3, <3>1 DEF Start, Emit, Event, ChatAssumption, PageTypeOK, ConvIds,
          Rows, Grown
  <2> QED
    BY <2>1, <2>2, <2>3
<1>17. ASSUME NEW t \in Tasks, Text(t)
      PROVE  TypeInv'
  <2>1. \/ queue' = queue /\ record' = record /\ stream[t] # "live"
        \/ Listening(t) /\ Event("text", t, None) \in Events
             /\ queue' = Append(queue, Event("text", t, None))
             /\ Len(queue) < MaxQueue /\ record' = record
    BY <1>17, EventKinds DEF Text, Emit, Push, Event
  <2>2. CASE queue' = queue /\ record' = record /\ stream[t] # "live"
    <3>1. Same
      BY <2>2, Unmoved
    <3> QED
      BY <1>17, <2>2, <3>1 DEF Text, Emit, Event, ChatAssumption, PageTypeOK, ConvIds,
          Rows, Same
  <2>3. CASE Listening(t) /\ Event("text", t, None) \in Events
          /\ queue' = Append(queue, Event("text", t, None))
          /\ Len(queue) < MaxQueue /\ record' = record
    <3>1. Grown(Event("text", t, None))
      BY <2>3, Pushed DEF PageTypeOK
    <3> QED
      BY <1>17, <2>3, <3>1 DEF Text, Emit, Event, ChatAssumption, PageTypeOK, ConvIds,
          Rows, Grown
  <2> QED
    BY <2>1, <2>2, <2>3
<1>18. ASSUME NEW t \in Tasks, Fail(t)
      PROVE  TypeInv'
  <2>1. \/ queue' = queue /\ record' = record /\ stream[t] # "live"
        \/ Listening(t) /\ Event("error", t, None) \in Events
             /\ queue' = Append(queue, Event("error", t, None))
             /\ Len(queue) < MaxQueue /\ record' = None
    BY <1>18, EventKinds DEF Fail, Emit, Push, Event
  <2>2. CASE queue' = queue /\ record' = record /\ stream[t] # "live"
    <3>1. Same
      BY <2>2, Unmoved
    <3> QED
      BY <1>18, <2>2, <3>1 DEF Fail, Emit, Event, ChatAssumption, PageTypeOK, ConvIds,
          Rows, Same
  <2>3. CASE Listening(t) /\ Event("error", t, None) \in Events
          /\ queue' = Append(queue, Event("error", t, None))
          /\ Len(queue) < MaxQueue /\ record' = None
    <3>1. Grown(Event("error", t, None))
      BY <2>3, Pushed DEF PageTypeOK
    <3> QED
      BY <1>18, <2>3, <3>1 DEF Fail, Emit, Event, ChatAssumption, PageTypeOK, ConvIds,
          Rows, Grown
  <2> QED
    BY <2>1, <2>2, <2>3
<1>19. ASSUME NEW t \in Tasks, Finish(t)
      PROVE  TypeInv'
  <2>1. \/ queue' = queue /\ record' = record /\ stream[t] # "live"
        \/ Listening(t) /\ Event("done", t, None) \in Events
             /\ queue' = Append(queue, Event("done", t, None))
             /\ Len(queue) < MaxQueue /\ record' = None
    BY <1>19, EventKinds DEF Finish, Emit, Push, Event
  <2>2. CASE queue' = queue /\ record' = record /\ stream[t] # "live"
    <3>1. Same
      BY <2>2, Unmoved
    <3> QED
      BY <1>19, <2>2, <3>1 DEF Finish, Emit, Event, ChatAssumption, PageTypeOK, ConvIds,
          Rows, Same
  <2>3. CASE Listening(t) /\ Event("done", t, None) \in Events
          /\ queue' = Append(queue, Event("done", t, None))
          /\ Len(queue) < MaxQueue /\ record' = None
    <3>1. Grown(Event("done", t, None))
      BY <2>3, Pushed DEF PageTypeOK
    <3> QED
      BY <1>19, <2>3, <3>1 DEF Finish, Emit, Event, ChatAssumption, PageTypeOK, ConvIds,
          Rows, Grown
  <2> QED
    BY <2>1, <2>2, <2>3
<1>20. ASSUME NEW t \in Tasks, NEW r \in Requests, Ask(t, r)
      PROVE  TypeInv'
  <2>1. \/ queue' = queue /\ record' = record /\ stream[t] # "live"
        \/ Listening(t) /\ Event("question", t, r) \in Events
             /\ queue' = Append(queue, Event("question", t, r))
             /\ Len(queue) < MaxQueue /\ record' = record
    BY <1>20, EventKinds DEF Ask, Emit, Push, Event
  <2>2. CASE queue' = queue /\ record' = record /\ stream[t] # "live"
    <3>1. Same
      BY <2>2, Unmoved
    <3> QED
      BY <1>20, <2>2, <3>1 DEF Ask, Emit, Event, ChatAssumption, PageTypeOK, ConvIds,
          Rows, Same
  <2>3. CASE Listening(t) /\ Event("question", t, r) \in Events
          /\ queue' = Append(queue, Event("question", t, r))
          /\ Len(queue) < MaxQueue /\ record' = record
    <3>1. Grown(Event("question", t, r))
      BY <2>3, Pushed DEF PageTypeOK
    <3> QED
      BY <1>20, <2>3, <3>1 DEF Ask, Emit, Event, ChatAssumption, PageTypeOK, ConvIds,
          Rows, Grown
  <2> QED
    BY <2>1, <2>2, <2>3
<1>21. ASSUME NEW c \in Convs, HistoryLoaded(c)
      PROVE  TypeInv'
  <2>1. Same
    BY <1>21, Unmoved DEF HistoryLoaded
  <2> QED
    BY <1>21, <2>1 DEF HistoryLoaded, ChatAssumption, PageTypeOK, ConvIds, Rows, Same
<1>22. CASE TranscriptLoaded
  <2>1. Transcript(loading) \in SUBSET Tasks
    BY <1>22 DEF TranscriptLoaded, Transcript, PageTypeOK
  <2>2. messages' \in [ConvIds -> SUBSET Tasks]
    BY <1>22, <2>1 DEF TranscriptLoaded, PageTypeOK
  <2>3. Same
    BY <1>22, Unmoved DEF TranscriptLoaded
  <2> QED
    BY <1>22, <2>2, <2>3 DEF TranscriptLoaded, Same, PageTypeOK
<1>23. CASE HistoricalLoaded
  <2>1. Transcript(rejoining.conv) \cup rejoining.tail \in SUBSET Tasks
    BY <1>23 DEF HistoricalLoaded, Transcript, PageTypeOK
  <2>2. messages' \in [ConvIds -> SUBSET Tasks]
    BY <1>23, <2>1 DEF HistoricalLoaded, PageTypeOK
  <2>3. Same
    BY <1>23, Unmoved DEF HistoricalLoaded
  <2> QED
    BY <1>23, <2>2, <2>3 DEF HistoricalLoaded, Same, PageTypeOK
<1>24. CASE Drain
  <2>1. Same
    BY <1>24, Unmoved DEF Drain
  <2> QED
    BY <1>24, <2>1 DEF Drain, ChatAssumption, PageTypeOK, ConvIds, Rows, Same
<1>25. CASE HandleCreated
  <2>1. Handle({"created"})
    BY <1>25 DEF HandleCreated
  <2>2. /\ Shrunk /\ Head(queue) \in Events /\ Head(queue) \in Evs
        /\ Head(queue).kind \in {"created"}
    BY <2>1, Handled DEF PageTypeOK
  <2> QED
    BY <1>25, <2>2, EventFields DEF HandleCreated, Handle, With, ChatAssumption,
        PageTypeOK, ConvIds, Rows, Shrunk
<1>26. CASE HandleStart
  <2>1. Handle({"start"})
    BY <1>26 DEF HandleStart
  <2>2. /\ Shrunk /\ Head(queue) \in Events /\ Head(queue) \in Evs
        /\ Head(queue).kind \in {"start"}
    BY <2>1, Handled DEF PageTypeOK
  <2> QED
    BY <1>26, <2>2, EventFields DEF HandleStart, Handle, With, Of, ChatAssumption,
        PageTypeOK, ConvIds, Rows, Shrunk
<1>27. CASE HandleText
  <2>1. Handle({"text"})
    BY <1>27 DEF HandleText
  <2>2. /\ Shrunk /\ Head(queue) \in Events /\ Head(queue) \in Evs
        /\ Head(queue).kind \in {"text"}
    BY <2>1, Handled DEF PageTypeOK
  <2> QED
    BY <1>27, <2>2, EventFields DEF HandleText, Handle, With, MessagesOf, Of,
        ChatAssumption, PageTypeOK, ConvIds, Rows, Shrunk
<1>28. CASE HandleQuestion
  <2>1. Handle({"question"})
    BY <1>28 DEF HandleQuestion
  <2>2. /\ Shrunk /\ Head(queue) \in Events /\ Head(queue).kind \in {"question"}
    BY <2>1, Handled DEF PageTypeOK
  <2>3. /\ queue' \in Seq(Events) /\ Len(queue') <= MaxQueue + 1 /\ batch' \in 0..Len(queue')
        /\ session' \in ConvIds \cup {None} /\ Sizes'
    BY <2>1, <2>2 DEF Handle, Shrunk, PageTypeOK, ChatAssumption
  <2>4. Head(queue).task \in Tasks
    BY <2>2, EventFields
  <2>5. panel' \in [ConvIds -> Requests \cup {None}] /\ stored' \subseteq Requests
    BY ZenonT(30), <1>28, <2>2, EventFields DEF HandleQuestion, PageTypeOK
  <2> QED
    BY SMTT(30), <1>28, <2>1, <2>3, <2>4, <2>5 DEF HandleQuestion, Handle, PageTypeOK
<1>29. CASE HandleDone
  <2>1. Handle({"done"})
    BY <1>29 DEF HandleDone
  <2>2. /\ Shrunk /\ Head(queue) \in Events /\ Head(queue).kind \in {"done"}
    BY <2>1, Handled DEF PageTypeOK
  <2>3. /\ queue' \in Seq(Events) /\ Len(queue') <= MaxQueue + 1 /\ batch' \in 0..Len(queue')
        /\ session' \in ConvIds \cup {None} /\ Sizes'
    BY <2>1, <2>2 DEF Handle, Shrunk, PageTypeOK, ChatAssumption
  <2>4. Head(queue).task \in Tasks
    BY <2>2, EventFields
  <2>5. saved' \in [Tasks -> {None} \cup SUBSET Tasks]
    BY <1>29, <2>4 DEF HandleDone, EndTask, PageTypeOK
  <2>6. panel' \in [ConvIds -> Requests \cup {None}]
    BY <1>29 DEF HandleDone, PageTypeOK
  <2>7. stored' \subseteq Requests
    BY SMTT(30), <1>29 DEF HandleDone, StoredOf, PageTypeOK
  <2>8. row' \in [Convs -> Rows] /\ histories' \subseteq Convs
    BY SMTT(30), <1>29 DEF HandleDone, Rows, PageTypeOK
  <2>9. /\ UNCHANGED <<record, selected, mounted, view, taskOf, messages, loading, rejoining>>
        /\ UNCHANGED <<stream, agent, convOf, asker, asking, texts, failed, moves, left, mixed>>
        /\ persist' = None /\ current' = None /\ running' = None /\ streaming' = FALSE
    BY <1>29, <2>1 DEF HandleDone, Handle, EndTask, Unlock
  <2> QED
    BY ZenonT(30), <2>3, <2>4, <2>5, <2>6, <2>7, <2>8, <2>9 DEF PageTypeOK
<1>30. CASE HandleGone
  <2>1. Handle({"gone"})
    BY <1>30 DEF HandleGone
  <2>2. /\ Shrunk /\ Head(queue) \in Events /\ Head(queue).kind \in {"gone"}
    BY <2>1, Handled DEF PageTypeOK
  <2>3. /\ queue' \in Seq(Events) /\ Len(queue') <= MaxQueue + 1 /\ batch' \in 0..Len(queue')
        /\ session' \in ConvIds \cup {None} /\ Sizes'
    BY <2>1, <2>2 DEF Handle, Shrunk, PageTypeOK, ChatAssumption
  <2>4. Head(queue).task \in Tasks
    BY <2>2, EventFields
  <2>5. saved' \in [Tasks -> {None} \cup SUBSET Tasks]
    BY <1>30, <2>4 DEF HandleGone, EndTask, PageTypeOK
  <2>6. /\ UNCHANGED <<record, selected, mounted, view, taskOf, messages, loading, rejoining>>
        /\ UNCHANGED <<stream, agent, convOf, asker, asking, texts, failed, moves, left, mixed>>
        /\ persist' = None /\ current' = None /\ running' = None /\ streaming' = FALSE
        /\ UNCHANGED <<stored, row, histories, panel>>
    BY <1>30, <2>1 DEF HandleGone, Handle, EndTask, Unlock
  <2> QED
    BY ZenonT(30), <2>3, <2>4, <2>5, <2>6 DEF PageTypeOK
<1>31. CASE HandleError
  <2>1. Handle({"error", "neterror"})
    BY <1>31 DEF HandleError
  <2>2. /\ Shrunk /\ Head(queue) \in Events /\ Head(queue).kind \in {"error", "neterror"}
    BY <2>1, Handled DEF PageTypeOK
  <2>3. /\ queue' \in Seq(Events) /\ Len(queue') <= MaxQueue + 1 /\ batch' \in 0..Len(queue')
        /\ session' \in ConvIds \cup {None} /\ Sizes'
    BY <2>1, <2>2 DEF Handle, Shrunk, PageTypeOK, ChatAssumption
  <2>4. Head(queue).task \in Tasks
    BY <2>2, EventFields
  <2>5. saved' \in [Tasks -> {None} \cup SUBSET Tasks]
    BY <1>31 DEF HandleError, PageTypeOK
  <2>6. panel' \in [ConvIds -> Requests \cup {None}]
    BY <1>31 DEF HandleError, With, PageTypeOK
  <2>7. messages' \in [ConvIds -> SUBSET Tasks]
    BY <1>31, <2>4 DEF HandleError, With, MessagesOf, PageTypeOK
  <2>8. persist' \in {None} \cup [task : Tasks, conv : ConvIds \cup {None}]
    BY <1>31 DEF HandleError, PageTypeOK
  <2>9. /\ UNCHANGED <<record, stored, row, selected, histories, mounted, view, taskOf, loading, rejoining>>
        /\ UNCHANGED <<stream, agent, convOf, asker, asking, texts, failed, moves, left, mixed>>
        /\ current' = None /\ running' = None /\ streaming' = FALSE
    BY <1>31, <2>1 DEF HandleError, Handle, Unlock
  <2> QED
    BY ZenonT(30), <2>3, <2>4, <2>5, <2>6, <2>7, <2>8, <2>9 DEF PageTypeOK
<1>32. CASE HandleReconnecting
  <2>1. Handle({"reconnecting"})
    BY <1>32 DEF HandleReconnecting
  <2>2. /\ Shrunk /\ Head(queue) \in Events /\ Head(queue).kind \in {"reconnecting"}
    BY <2>1, Handled DEF PageTypeOK
  <2>3. /\ queue' \in Seq(Events) /\ Len(queue') <= MaxQueue + 1 /\ batch' \in 0..Len(queue')
        /\ session' \in ConvIds \cup {None} /\ Sizes'
    BY <2>1, <2>2 DEF Handle, Shrunk, PageTypeOK, ChatAssumption
  <2>4. Head(queue).task \in Tasks /\ Head(queue).of \in ConvIds
    BY <2>2, EventFields
  <2>5. SavedOf(Head(queue).task) \in SUBSET Tasks
    BY <2>4 DEF SavedOf, PageTypeOK
  <2>6. messages' \in [ConvIds -> SUBSET Tasks]
    BY <1>32, <2>4, <2>5 DEF HandleReconnecting, Resume, PageTypeOK
  <2>7. /\ view' \in ConvIds \cup {None} /\ running' \in ConvIds \cup {None}
        /\ current' \in Tasks \cup {None} /\ streaming' \in BOOLEAN
    BY ZenonT(30), <1>32, <2>4 DEF HandleReconnecting, Resume, PageTypeOK
  <2>8. taskOf' \in [ConvIds -> Tasks \cup {None}]
    BY SMTT(30), <1>32, <2>4 DEF HandleReconnecting, Resume, PageTypeOK
  <2>9. rejoining' \in {None} \cup [conv : Convs, tail : SUBSET Tasks]
    BY <1>32, <2>4, <2>5 DEF HandleReconnecting, Resume, PageTypeOK
  <2> QED
    BY SMTT(30), <1>32, <2>1, <2>3, <2>4, <2>5, <2>6, <2>7, <2>8, <2>9 DEF HandleReconnecting,
        Handle, PageTypeOK
<1>33. CASE HandleSelected
  <2>1. Handle({"selected"})
    BY <1>33 DEF HandleSelected
  <2>2. /\ Shrunk /\ Head(queue) \in Events /\ Head(queue).kind \in {"selected"}
    BY <2>1, Handled DEF PageTypeOK
  <2>3. /\ queue' \in Seq(Events) /\ Len(queue') <= MaxQueue + 1 /\ batch' \in 0..Len(queue')
        /\ session' \in ConvIds \cup {None} /\ Sizes'
    BY <2>1, <2>2 DEF Handle, Shrunk, PageTypeOK, ChatAssumption
  <2>4. view' \in ConvIds \cup {None} /\ loading' \in Convs \cup {None}
    BY <1>33 DEF HandleSelected, ShowSelection, ConvIds, PageTypeOK
  <2>5. panel' \in [ConvIds -> Requests \cup {None}]
    BY <1>33 DEF HandleSelected, ShowSelection, StoredOf, PageTypeOK
  <2> QED
    BY SMTT(30), <1>33, <2>1, <2>3, <2>4, <2>5 DEF HandleSelected, Handle, PageTypeOK
<1>34. CASE Flush
  <2>1. Same
    BY <1>34, Unmoved DEF Flush
  <2> QED
    BY <1>34, <2>1 DEF Flush, MessagesOf, ChatAssumption, PageTypeOK, ConvIds, Rows,
        Same
<1>35. ASSUME NEW c \in Convs, Select(c)
      PROVE  TypeInv'
  <2>1. Same
    BY <1>35, Unmoved DEF Select
  <2> QED
    BY <1>35, <2>1 DEF Select, ShowSelection, StoredOf, ChatAssumption, PageTypeOK,
        ConvIds, Rows, Same
<1>36. ASSUME NEW t \in Tasks, NEW from \in ConvIds \cup {None}, NEW gone \in BOOLEAN,
            NEW c \in ConvIds, Sends(t, from, gone, c)
      PROVE  TypeInv'
  <2>1. Same
    BY <1>36, Unmoved DEF Sends, OnSend
  <2>2. messages' \in [ConvIds -> SUBSET Tasks]
    BY <1>36 DEF Sends, OnSend, PageTypeOK
  <2>3. running' \in ConvIds \cup {None} /\ streaming' \in BOOLEAN /\ mixed' \in BOOLEAN
    BY ZenonT(30), <1>36 DEF Sends, OnSend, PageTypeOK
  <2>4. /\ stream' \in [Tasks -> {"unused", "posting", "live", "hello", "es", "closed", "silent", "over"}]
        /\ convOf' \in [Tasks -> ConvIds \cup {None}]
    BY <1>36 DEF Sends, OnSend, PageTypeOK
  <2>5. /\ view' \in ConvIds \cup {None} /\ loading' \in Convs \cup {None}
        /\ panel' \in [ConvIds -> Requests \cup {None}]
        /\ row' \in [Convs -> Rows] /\ selected' \in Convs \cup {None}
    <3>1. CASE from # None
      BY <1>36, <3>1 DEF Sends, OnSend, PageTypeOK
    <3>2. CASE from = None
      <4>1. row' \in [Convs -> Rows] /\ selected' \in Convs \cup {None}
        <5>1. c \in Convs /\ row' = [row EXCEPT ![c] = "new"] /\ selected' = c
          BY <1>36, <3>2 DEF Sends, OnSend
        <5> QED
          BY <5>1 DEF Rows, PageTypeOK
      <4>2. CASE mounted
        <5>1. c \in Convs /\ ShowSelection(c)
          BY <1>36, <3>2, <4>2 DEF Sends, OnSend
        <5> QED
          BY SMTT(30), <4>1, <5>1 DEF ShowSelection, StoredOf, ConvIds, PageTypeOK
      <4>3. CASE ~mounted
        BY <1>36, <3>2, <4>1, <4>3 DEF Sends, OnSend, PageTypeOK
      <4> QED
        BY <4>2, <4>3
    <3> QED
      BY <3>1, <3>2
  <2>6. UNCHANGED <<record, saved, stored, queue, histories, batchVars, mounted, current,
                   taskOf, persist, rejoining, agentVars, moves, left>>
    BY <1>36, Zenon DEF Sends, OnSend
  <2> QED
    BY SMTT(30), <2>1, <2>2, <2>3, <2>4, <2>5, <2>6 DEF Same, PageTypeOK, batchVars, agentVars
<1>37. ASSUME NEW r \in Requests, Answer(r)
      PROVE  TypeInv'
  <2>1. Same
    BY <1>37, Unmoved DEF Answer
  <2> QED
    BY <1>37, <2>1 DEF Answer, ChatAssumption, PageTypeOK, ConvIds, Rows, Same
<1>38. CASE NewChat
  <2>1. Same
    BY <1>38, Unmoved DEF NewChat
  <2> QED
    BY <1>38, <2>1 DEF NewChat, ShowSelection, StoredOf, ChatAssumption, PageTypeOK,
        ConvIds, Rows, Same
<1>39. CASE Leave
  <2>1. Same
    BY <1>39, Unmoved DEF Leave
  <2>2. /\ view' \in ConvIds \cup {None} /\ running' \in ConvIds \cup {None}
        /\ streaming' \in BOOLEAN /\ current' \in Tasks \cup {None}
        /\ taskOf' \in [ConvIds -> Tasks \cup {None}]
        /\ panel' \in [ConvIds -> Requests \cup {None}]
        /\ persist' = None /\ loading' = None /\ rejoining' = None
    BY <1>39 DEF Leave, FreshChat
  <2>3. messages' \in [ConvIds -> SUBSET Tasks]
    BY <1>39 DEF Leave, FreshChat
  <2>4. left' \in BOOLEAN /\ mounted' \in BOOLEAN
    BY <1>39, Zenon DEF Leave
  <2>5. moves' \in 0..MaxMoves /\ batch' = 0
    BY <1>39 DEF Leave, PageTypeOK, ChatAssumption
  <2>6. UNCHANGED <<storageVars, sharedVars, batchVars, worldVars, mixed>>
    BY <1>39 DEF Leave
  <2> QED
    BY <2>1, <2>2, <2>3, <2>4, <2>5, <2>6 DEF Same, PageTypeOK
<1>40. CASE Return
  <2>1. Event("selected", None, None) \in Events
          /\ queue' = Append(queue, Event("selected", None, None))
    BY <1>40, EventKinds DEF Return
  <2>2. Grown(Event("selected", None, None))
    BY <2>1, Pushed DEF PageTypeOK
  <2> QED
    BY <1>40, <2>1, <2>2 DEF Return, Event, ChatAssumption, PageTypeOK, ConvIds, Rows,
        Grown
<1>41. CASE Reload
  <2>1. Emptied \/ Restarted
    BY <1>41, Reloaded DEF PageTypeOK
  <2>2. /\ view' \in ConvIds \cup {None} /\ running' \in ConvIds \cup {None}
        /\ streaming' \in BOOLEAN /\ current' \in Tasks \cup {None}
        /\ taskOf' \in [ConvIds -> Tasks \cup {None}]
        /\ panel' \in [ConvIds -> Requests \cup {None}]
        /\ persist' = None /\ loading' = None /\ rejoining' = None
    BY <1>41 DEF Reload, FreshChat
  <2>3. messages' \in [ConvIds -> SUBSET Tasks]
    BY <1>41 DEF Reload, FreshChat
  <2>4. stream' \in [Tasks -> {"unused", "posting", "live", "hello", "es", "closed", "silent", "over"}]
    <3>1. CASE record = None
      BY <1>41, <3>1 DEF Reload, PageTypeOK
    <3>2. CASE record # None
      <4> DEFINE closed == [t \in Tasks |-> IF Open(t) THEN "closed" ELSE stream[t]]
      <4>1. stream' = [closed EXCEPT ![record.task] = "hello"]
        BY <1>41, <3>2 DEF Reload
      <4>2. closed \in [Tasks -> {"unused", "posting", "live", "hello", "es", "closed", "silent", "over"}]
        BY DEF PageTypeOK
      <4> HIDE DEF closed
      <4> QED
        BY <4>1, <4>2
    <3> QED
      BY <3>1, <3>2
  <2>5. moves' \in 0..MaxMoves /\ mounted' \in BOOLEAN /\ batch' = 0 /\ session' = None
    BY <1>41 DEF Reload, PageTypeOK, ChatAssumption
  <2>6. queue' \in Seq(Events) /\ Len(queue') <= MaxQueue /\ 0 <= Len(queue')
    <3>1. queue' \in Seq(Events) /\ Len(queue') \in {0, 1}
      BY <2>1, Zenon DEF Emptied, Restarted
    <3>2. \A n \in {0, 1} : n <= MaxQueue /\ 0 <= n
      BY DEF ChatAssumption
    <3> QED
      BY <3>1, <3>2, Zenon
  <2> QED
    BY <1>41, <2>2, <2>3, <2>4, <2>5, <2>6 DEF Reload, PageTypeOK, ChatAssumption
<1>42. CASE UNCHANGED pageVars
  <2>1. Same
    BY <1>42, Unmoved DEF pageVars
  <2> QED
    BY <1>42, <2>1 DEF ChatAssumption, PageTypeOK, ConvIds, Rows, Same, pageVars
<1> QED
  BY <1>11, <1>12, <1>13, <1>14, <1>15, <1>16, <1>17, <1>18, <1>19, <1>20, <1>21, <1>22,
      <1>23, <1>24, <1>25, <1>26, <1>27, <1>28, <1>29, <1>30, <1>31, <1>32, <1>33,
      <1>34, <1>35, <1>36, <1>37, <1>38, <1>39, <1>40, <1>41, <1>42 DEF PageStep, World,
      HandleEvent, User

-----------------------------------------------------------------------------
(* The streams, the events waiting and their order.                        *)

\* What of two events of the queue the earlier one rules out of the later.
Before(d, e) ==
    /\ e.kind # "reconnecting"
    /\ d.task = e.task =>
          /\ d.kind \notin Terminal /\ e.kind # "created"
          /\ d.kind \in {"text", "reconnecting"} => e.kind # "start"

Ordered == \A i, j \in 1..Len(queue) : i < j => Before(queue[i], queue[j])

\* Where the stream and the agent of a task are, one by the other.
StreamOK(t) ==
    /\ stream[t] = "unused" <=> convOf[t] = None
    /\ stream[t] = "unused" => saved[t] = None /\ asking[t] = None
    /\ stream[t] \in {"unused", "posting"} => agent[t] = "none"
    /\ stream[t] = "live" => agent[t] \in {"queued", "running"}
    /\ stream[t] \in {"hello", "es"} => agent[t] \in {"running", "over"}
    /\ agent[t] = "none" => t \notin failed /\ stream[t] \in {"unused", "posting", "closed"}
    /\ asking[t] # None => asker[asking[t]] = t

\* What an event that waits says of its task.
EventOK(e) ==
    /\ e.kind # "selected" => stream[e.task] \notin {"unused", "posting"}
    /\ e.kind \in Terminal => ~Open(e.task)
    /\ e.kind = "created" => agent[e.task] # "none" /\ stream[e.task] \notin {"hello", "es"}
    /\ e.kind = "start" => agent[e.task] \in {"running", "over"}
         /\ stream[e.task] \notin {"hello", "es"}
    /\ e.kind = "text" => agent[e.task] \in {"running", "over"}
    /\ e.kind = "question" => asker[e.of] = e.task
    /\ e.kind = "error" => e.task \in failed
    /\ e.kind = "reconnecting" => agent[e.task] \in {"running", "over"}
         /\ stream[e.task] # "live"

\* The tasks the page names have been sent, the recorded one has started.
Named ==
    /\ record # None => agent[record.task] \in {"running", "over"}
    /\ persist # None => agent[persist.task] # "none"
    /\ current # None => agent[current] # "none"
    /\ \A r \in Requests : asker[r] # None => agent[asker[r]] # "none"

\* While another tab is shown there is no chat to speak of.
Away == ~mounted => batch = 0 /\ ~streaming /\ running = None /\ current = None
        /\ persist = None

StreamsOK == (\A t \in Tasks : StreamOK(t)) /\ Named /\ Away
EventsOK == \A e \in Evs : EventOK(e)
OrderInv == StreamsOK /\ EventsOK /\ Ordered

\* Appending an event that all others may come before keeps the order.
LEMMA OrderPush ==
  ASSUME queue \in Seq(Events), NEW e \in Events, queue' = Append(queue, e),
         Ordered, \A d \in Evs : Before(d, e)
  PROVE  Ordered'
<1>1. /\ Len(queue) \in Nat /\ Len(queue') = Len(queue) + 1
      /\ \A i \in 1..Len(queue) : queue'[i] = queue[i]
      /\ queue'[Len(queue')] = e
  BY PushEvs
<1> SUFFICES ASSUME NEW i \in 1..Len(queue'), NEW j \in 1..Len(queue'), i < j
             PROVE  Before(queue'[i], queue'[j])
  BY DEF Ordered, Before
<1>2. i \in 1..Len(queue) /\ queue'[i] = queue[i] /\ queue[i] \in Evs
  BY <1>1 DEF Evs
<1>3. CASE j \in 1..Len(queue)
  BY <1>1, <1>2, <1>3 DEF Ordered
<1>4. CASE j \notin 1..Len(queue)
  <2>1. j = Len(queue')
    BY <1>1, <1>4
  <2> QED
    BY <1>1, <1>2, <2>1
<1> QED
  BY <1>3, <1>4

\* The first event may come before all others.
LEMMA OrderPop ==
  ASSUME queue \in Seq(Events), queue # <<>>, queue' = Tail(queue), Ordered
  PROVE  Ordered' /\ \A e \in Evs' : Before(Head(queue), e)
<1>1. /\ Len(queue) \in Nat \ {0} /\ Len(queue') = Len(queue) - 1 /\ Head(queue) = queue[1]
      /\ \A i \in 1..Len(queue') : queue'[i] = queue[i + 1] /\ i + 1 \in 2..Len(queue)
  BY PopEvs
<1>2. Ordered'
  <2> SUFFICES ASSUME NEW i \in 1..Len(queue'), NEW j \in 1..Len(queue'), i < j
               PROVE  Before(queue'[i], queue'[j])
    BY DEF Ordered, Before
  <2>1. i + 1 \in 1..Len(queue) /\ j + 1 \in 1..Len(queue) /\ i + 1 < j + 1
    BY <1>1
  <2> QED
    BY <1>1, <2>1 DEF Ordered
<1>3. ASSUME NEW e \in Evs' PROVE Before(Head(queue), e)
  <2>1. PICK i \in 1..Len(queue') : e = queue'[i]
    BY DEF Evs
  <2>2. 1 \in 1..Len(queue) /\ i + 1 \in 1..Len(queue) /\ 1 < i + 1 /\ e = queue[i + 1]
    BY <1>1, <2>1
  <2> QED
    BY <1>1, <2>2 DEF Ordered
<1> QED
  BY <1>2, <1>3

\* A single event is in order.
LEMMA OrderSingle ==
  ASSUME queue' = <<>> \/ \E e : queue' = <<e>>
  PROVE  Ordered'
<1>1. CASE queue' = <<>>
  BY <1>1 DEF Ordered
<1>2. CASE \E e : queue' = <<e>>
  <2>1. 1..Len(queue') = {1}
    BY <1>2
  <2> QED
    BY <2>1 DEF Ordered
<1> QED
  BY <1>1, <1>2

\* The events are typed, and so are their tasks.
LEMMA EvsTyped ==
  ASSUME queue \in Seq(Events)
  PROVE  \A e \in Evs : e \in Events
BY DEF Evs

\* Nothing waits and no task is used to begin with.
LEMMA OrderInit ==
  ASSUME ChatAssumption, Init
  PROVE  OrderInv
<1>1. Len(queue) = 0 /\ Evs = {}
  <2>1. Len(queue) = 0
    BY DEF Init
  <2> QED
    BY <2>1 DEF Evs
<1>2. StreamsOK
  BY DEF Init, StreamsOK, StreamOK, Named, Away
<1> QED
  BY <1>1, <1>2 DEF OrderInv, EventsOK, Ordered

\* Every step keeps the streams in step with the agent.
LEMMA StreamStep ==
  ASSUME ChatAssumption, TypeInv, OrderInv, PageStep
  PROVE  StreamsOK'
<1> USE DEF TypeInv
<1> USE DEF unheard, storageVars, sharedVars, batchVars, lockVars, chatVars, agentVars,
    worldVars, historyVars
<1>11. ASSUME NEW t \in Tasks, Respond(t)
      PROVE  StreamsOK'
  <2>1. Event("created", t, None) \in Events
          /\ queue' = Append(queue, Event("created", t, None)) /\ Len(queue) < MaxQueue
    BY <1>11, EventKinds DEF Respond, Push
  <2>2. Grown(Event("created", t, None))
    BY <2>1, Pushed DEF PageTypeOK
  <2> QED
    BY SMTT(30), <1>11, <2>1, <2>2 DEF Respond, Push, Event, ChatAssumption, OrderInv, EventsOK,
        EventOK, StreamsOK, StreamOK, Named, Away, Open, PageTypeOK, Grown
<1>12. ASSUME NEW t \in Tasks, Break(t)
      PROVE  StreamsOK'
  <2>1. Event("neterror", t, None) \in Events
          /\ queue' = Append(queue, Event("neterror", t, None)) /\ Len(queue) < MaxQueue
    BY <1>12, EventKinds DEF Break, Push
  <2>2. Grown(Event("neterror", t, None))
    BY <2>1, Pushed DEF PageTypeOK
  <2> QED
    BY <1>12, <2>1, <2>2 DEF Break, Push, Event, ChatAssumption, OrderInv, EventsOK,
        EventOK, StreamsOK, StreamOK, Named, Away, Open, PageTypeOK, Grown
<1>13. ASSUME NEW t \in Tasks, EndSilently(t)
      PROVE  StreamsOK'
  <2>1. Same
    BY <1>13, Unmoved DEF EndSilently
  <2> QED
    BY <1>13, <2>1 DEF EndSilently, ChatAssumption, OrderInv, EventsOK, EventOK,
        StreamsOK, StreamOK, Named, Away, Open, PageTypeOK, Same
<1>14. ASSUME NEW t \in Tasks, Rejoin(t)
      PROVE  StreamsOK'
  <2>1. \/ queue' = queue /\ record' = record /\ asking[t] = None
        \/ asking[t] # None /\ Event("question", t, asking[t]) \in Events
             /\ queue' = Append(queue, Event("question", t, asking[t]))
             /\ Len(queue) < MaxQueue /\ record' = record
    <3>1. CASE asking[t] = None
      BY <1>14, <3>1 DEF Rejoin
    <3>2. CASE asking[t] # None
      <4>1. Push(Event("question", t, asking[t])) /\ asking[t] \in Requests
        BY <1>14, <3>2 DEF Rejoin, PageTypeOK
      <4> QED
        BY <3>2, <4>1, EventKinds DEF Push
    <3> QED
      BY <3>1, <3>2
  <2>2. CASE queue' = queue /\ record' = record /\ asking[t] = None
    <3>1. Same
      BY <2>2, Unmoved
    <3> QED
      BY <1>14, <2>2, <3>1 DEF Rejoin, Event, ChatAssumption, OrderInv, EventsOK,
          EventOK, StreamsOK, StreamOK, Named, Away, Open, PageTypeOK, Same
  <2>3. CASE asking[t] # None /\ Event("question", t, asking[t]) \in Events
          /\ queue' = Append(queue, Event("question", t, asking[t]))
          /\ Len(queue) < MaxQueue /\ record' = record
    <3>1. Grown(Event("question", t, asking[t]))
      BY <2>3, Pushed DEF PageTypeOK
    <3> QED
      BY <1>14, <2>3, <3>1 DEF Rejoin, Event, ChatAssumption, OrderInv, EventsOK,
          EventOK, StreamsOK, StreamOK, Named, Away, Open, PageTypeOK, Grown
  <2> QED
    BY <2>1, <2>2, <2>3
<1>15. ASSUME NEW t \in Tasks, RejoinGone(t)
      PROVE  StreamsOK'
  <2>1. Event("gone", t, None) \in Events /\ queue' = Append(queue, Event("gone", t, None))
          /\ Len(queue) < MaxQueue
    BY <1>15, EventKinds DEF RejoinGone, Push
  <2>2. Grown(Event("gone", t, None))
    BY <2>1, Pushed DEF PageTypeOK
  <2> QED
    BY <1>15, <2>1, <2>2 DEF RejoinGone, Push, Event, ChatAssumption, OrderInv,
        EventsOK, EventOK, StreamsOK, StreamOK, Named, Away, Open, PageTypeOK, Grown
<1>16. ASSUME NEW t \in Tasks, Start(t)
      PROVE  StreamsOK'
  <2>1. \/ queue' = queue /\ record' = record /\ stream[t] # "live"
        \/ Listening(t) /\ Event("start", t, None) \in Events
             /\ queue' = Append(queue, Event("start", t, None))
             /\ Len(queue) < MaxQueue /\ record' = record
    BY <1>16, EventKinds DEF Start, Emit, Push, Event
  <2>2. CASE queue' = queue /\ record' = record /\ stream[t] # "live"
    <3>1. Same
      BY <2>2, Unmoved
    <3> QED
      BY <1>16, <2>2, <3>1 DEF Start, Emit, Event, ChatAssumption, OrderInv, EventsOK,
          EventOK, StreamsOK, StreamOK, Named, Away, Listening, Open, PageTypeOK, Same
  <2>3. CASE Listening(t) /\ Event("start", t, None) \in Events
          /\ queue' = Append(queue, Event("start", t, None))
          /\ Len(queue) < MaxQueue /\ record' = record
    <3>1. Grown(Event("start", t, None))
      BY <2>3, Pushed DEF PageTypeOK
    <3> QED
      BY SMTT(30), <1>16, <2>3, <3>1 DEF Start, Emit, Event, ChatAssumption, OrderInv, EventsOK,
          EventOK, StreamsOK, StreamOK, Named, Away, Listening, Open, PageTypeOK, Grown
  <2> QED
    BY <2>1, <2>2, <2>3
<1>17. ASSUME NEW t \in Tasks, Text(t)
      PROVE  StreamsOK'
  <2>1. \/ queue' = queue /\ record' = record /\ stream[t] # "live"
        \/ Listening(t) /\ Event("text", t, None) \in Events
             /\ queue' = Append(queue, Event("text", t, None))
             /\ Len(queue) < MaxQueue /\ record' = record
    BY <1>17, EventKinds DEF Text, Emit, Push, Event
  <2>2. CASE queue' = queue /\ record' = record /\ stream[t] # "live"
    <3>1. Same
      BY <2>2, Unmoved
    <3> QED
      BY <1>17, <2>2, <3>1 DEF Text, Emit, Event, ChatAssumption, OrderInv, EventsOK,
          EventOK, StreamsOK, StreamOK, Named, Away, Listening, Open, PageTypeOK, Same
  <2>3. CASE Listening(t) /\ Event("text", t, None) \in Events
          /\ queue' = Append(queue, Event("text", t, None))
          /\ Len(queue) < MaxQueue /\ record' = record
    <3>1. Grown(Event("text", t, None))
      BY <2>3, Pushed DEF PageTypeOK
    <3> QED
      BY <1>17, <2>3, <3>1 DEF Text, Emit, Event, ChatAssumption, OrderInv, EventsOK,
          EventOK, StreamsOK, StreamOK, Named, Away, Listening, Open, PageTypeOK, Grown
  <2> QED
    BY <2>1, <2>2, <2>3
<1>18. ASSUME NEW t \in Tasks, Fail(t)
      PROVE  StreamsOK'
  <2>1. \/ queue' = queue /\ record' = record /\ stream[t] # "live"
        \/ Listening(t) /\ Event("error", t, None) \in Events
             /\ queue' = Append(queue, Event("error", t, None))
             /\ Len(queue) < MaxQueue /\ record' = None
    BY <1>18, EventKinds DEF Fail, Emit, Push, Event
  <2>2. CASE queue' = queue /\ record' = record /\ stream[t] # "live"
    <3>1. Same
      BY <2>2, Unmoved
    <3> QED
      BY SMTT(30), <1>18, <2>2, <3>1 DEF Fail, Emit, Event, ChatAssumption, OrderInv, EventsOK,
          EventOK, StreamsOK, StreamOK, Named, Away, Listening, Open, PageTypeOK, Same
  <2>3. CASE Listening(t) /\ Event("error", t, None) \in Events
          /\ queue' = Append(queue, Event("error", t, None))
          /\ Len(queue) < MaxQueue /\ record' = None
    <3>1. Grown(Event("error", t, None))
      BY <2>3, Pushed DEF PageTypeOK
    <3> QED
      BY <1>18, <2>3, <3>1 DEF Fail, Emit, Event, ChatAssumption, OrderInv, EventsOK,
          EventOK, StreamsOK, StreamOK, Named, Away, Listening, Open, PageTypeOK, Grown
  <2> QED
    BY <2>1, <2>2, <2>3
<1>19. ASSUME NEW t \in Tasks, Finish(t)
      PROVE  StreamsOK'
  <2>1. \/ queue' = queue /\ record' = record /\ stream[t] # "live"
        \/ Listening(t) /\ Event("done", t, None) \in Events
             /\ queue' = Append(queue, Event("done", t, None))
             /\ Len(queue) < MaxQueue /\ record' = None
    BY <1>19, EventKinds DEF Finish, Emit, Push, Event
  <2>2. CASE queue' = queue /\ record' = record /\ stream[t] # "live"
    <3>1. Same
      BY <2>2, Unmoved
    <3> QED
      BY <1>19, <2>2, <3>1 DEF Finish, Emit, Event, ChatAssumption, OrderInv, EventsOK,
          EventOK, StreamsOK, StreamOK, Named, Away, Listening, Open, PageTypeOK, Same
  <2>3. CASE Listening(t) /\ Event("done", t, None) \in Events
          /\ queue' = Append(queue, Event("done", t, None))
          /\ Len(queue) < MaxQueue /\ record' = None
    <3>1. Grown(Event("done", t, None))
      BY <2>3, Pushed DEF PageTypeOK
    <3> QED
      BY SMTT(30), <1>19, <2>3, <3>1 DEF Finish, Emit, Event, ChatAssumption, OrderInv, EventsOK,
          EventOK, StreamsOK, StreamOK, Named, Away, Listening, Open, PageTypeOK, Grown
  <2> QED
    BY <2>1, <2>2, <2>3
<1>20. ASSUME NEW t \in Tasks, NEW r \in Requests, Ask(t, r)
      PROVE  StreamsOK'
  <2>1. \/ queue' = queue /\ record' = record /\ stream[t] # "live"
        \/ Listening(t) /\ Event("question", t, r) \in Events
             /\ queue' = Append(queue, Event("question", t, r))
             /\ Len(queue) < MaxQueue /\ record' = record
    BY <1>20, EventKinds DEF Ask, Emit, Push, Event
  <2>2. CASE queue' = queue /\ record' = record /\ stream[t] # "live"
    <3>1. Same
      BY <2>2, Unmoved
    <3> QED
      BY SMTT(30), <1>20, <2>2, <3>1 DEF Ask, Emit, Event, ChatAssumption, OrderInv, EventsOK,
          EventOK, StreamsOK, StreamOK, Named, Away, Listening, Open, PageTypeOK, Same
  <2>3. CASE Listening(t) /\ Event("question", t, r) \in Events
          /\ queue' = Append(queue, Event("question", t, r))
          /\ Len(queue) < MaxQueue /\ record' = record
    <3>1. Grown(Event("question", t, r))
      BY <2>3, Pushed DEF PageTypeOK
    <3> QED
      BY SMTT(30), <1>20, <2>3, <3>1 DEF Ask, Emit, Event, ChatAssumption, OrderInv, EventsOK,
          EventOK, StreamsOK, StreamOK, Named, Away, Listening, Open, PageTypeOK, Grown
  <2> QED
    BY <2>1, <2>2, <2>3
<1>21. ASSUME NEW c \in Convs, HistoryLoaded(c)
      PROVE  StreamsOK'
  <2>1. Same
    BY <1>21, Unmoved DEF HistoryLoaded
  <2> QED
    BY <1>21, <2>1 DEF HistoryLoaded, ChatAssumption, OrderInv, EventsOK, EventOK,
        StreamsOK, StreamOK, Named, Away, Open, PageTypeOK, Same
<1>22. CASE TranscriptLoaded
  <2>1. Same
    BY <1>22, Unmoved DEF TranscriptLoaded
  <2> QED
    BY <1>22, <2>1 DEF TranscriptLoaded, ChatAssumption, OrderInv, EventsOK, EventOK,
        StreamsOK, StreamOK, Named, Away, Open, PageTypeOK, Same
<1>23. CASE HistoricalLoaded
  <2>1. Same
    BY <1>23, Unmoved DEF HistoricalLoaded
  <2> QED
    BY <1>23, <2>1 DEF HistoricalLoaded, ChatAssumption, OrderInv, EventsOK, EventOK,
        StreamsOK, StreamOK, Named, Away, Open, PageTypeOK, Same
<1>24. CASE Drain
  <2>1. Same
    BY <1>24, Unmoved DEF Drain
  <2> QED
    BY <1>24, <2>1 DEF Drain, ChatAssumption, OrderInv, EventsOK, EventOK, StreamsOK,
        StreamOK, Named, Away, Open, PageTypeOK, Same
<1>25. CASE HandleCreated
  <2>1. Handle({"created"})
    BY <1>25 DEF HandleCreated
  <2>2. Head(queue) \in Events /\ Head(queue) \in Evs /\ Head(queue).kind \in {"created"}
    BY <2>1, Handled DEF PageTypeOK
  <2>3. Head(queue).task \in Tasks /\ agent[Head(queue).task] # "none"
    BY <2>2, EventFields DEF OrderInv, EventsOK, EventOK
  <2>4. /\ UNCHANGED <<agent, stream, saved, convOf, asking, asker, failed, mounted, persist, record>>
        /\ current' = Head(queue).task
    BY <1>25 DEF HandleCreated, Handle
  <2>5. mounted /\ mounted'
    BY <2>1, <2>4 DEF Handle, OrderInv, StreamsOK, Away, PageTypeOK
  <2>6. \A t \in Tasks : StreamOK(t)'
    BY <2>4 DEF OrderInv, StreamsOK, StreamOK
  <2>7. Named'
    BY <2>3, <2>4 DEF OrderInv, StreamsOK, Named
  <2> QED
    BY <2>5, <2>6, <2>7 DEF StreamsOK, Away
<1>26. CASE HandleStart
  <2>1. Handle({"start"})
    BY <1>26 DEF HandleStart
  <2>2. Head(queue) \in Events /\ Head(queue) \in Evs /\ Head(queue).kind \in {"start"}
    BY <2>1, Handled DEF PageTypeOK
  <2>3. Head(queue).task \in Tasks /\ agent[Head(queue).task] \in {"running", "over"}
    BY <2>2, EventFields DEF OrderInv, EventsOK, EventOK
  <2>4. /\ UNCHANGED <<agent, stream, saved, convOf, asking, asker, failed, mounted, persist>>
        /\ current' = Head(queue).task /\ record'.task = Head(queue).task
    BY <1>26 DEF HandleStart, Handle, Of
  <2>5. mounted /\ mounted'
    BY <2>1, <2>4 DEF Handle, OrderInv, StreamsOK, Away, PageTypeOK
  <2>6. \A t \in Tasks : StreamOK(t)'
    BY <2>4 DEF OrderInv, StreamsOK, StreamOK
  <2>7. Named'
    BY <2>3, <2>4 DEF OrderInv, StreamsOK, Named
  <2> QED
    BY <2>5, <2>6, <2>7 DEF StreamsOK, Away
<1>27. CASE HandleText
  <2>1. Handle({"text"})
    BY <1>27 DEF HandleText
  <2>2. /\ Shrunk /\ Head(queue) \in Events /\ Head(queue) \in Evs
        /\ Head(queue).kind \in {"text"}
    BY <2>1, Handled DEF PageTypeOK
  <2> QED
    BY <1>27, <2>2, EventFields DEF HandleText, Handle, With, MessagesOf, Of,
        ChatAssumption, OrderInv, EventsOK, EventOK, StreamsOK, StreamOK, Named, Away,
        Open, PageTypeOK, Shrunk
<1>28. CASE HandleQuestion
  <2>1. Handle({"question"})
    BY <1>28 DEF HandleQuestion
  <2>2. /\ Shrunk /\ Head(queue) \in Events /\ Head(queue) \in Evs
        /\ Head(queue).kind \in {"question"}
    BY <2>1, Handled DEF PageTypeOK
  <2> QED
    BY SMTT(30), <1>28, <2>2, EventFields DEF HandleQuestion, Handle, ChatAssumption, OrderInv,
        EventsOK, EventOK, StreamsOK, StreamOK, Named, Away, Open, PageTypeOK, Shrunk
<1>29. CASE HandleDone
  <2>1. Handle({"done"})
    BY <1>29 DEF HandleDone
  <2>2. /\ Shrunk /\ Head(queue) \in Events /\ Head(queue) \in Evs
        /\ Head(queue).kind \in {"done"}
    BY <2>1, Handled DEF PageTypeOK
  <2> QED
    BY SMTT(30), <1>29, <2>2, EventFields DEF HandleDone, Handle, EndTask, Unlock, ChatAssumption,
        OrderInv, EventsOK, EventOK, StreamsOK, StreamOK, Named, Away, Open, PageTypeOK,
        Shrunk
<1>30. CASE HandleGone
  <2>1. Handle({"gone"})
    BY <1>30 DEF HandleGone
  <2>2. /\ Shrunk /\ Head(queue) \in Events /\ Head(queue) \in Evs
        /\ Head(queue).kind \in {"gone"}
    BY <2>1, Handled DEF PageTypeOK
  <2> QED
    BY SMTT(30), <1>30, <2>2, EventFields DEF HandleGone, Handle, EndTask, Unlock, ChatAssumption,
        OrderInv, EventsOK, EventOK, StreamsOK, StreamOK, Named, Away, Open, PageTypeOK,
        Shrunk
<1>31. CASE HandleError
  <2>1. Handle({"error", "neterror"})
    BY <1>31 DEF HandleError
  <2>2. /\ Shrunk /\ Head(queue) \in Events /\ Head(queue) \in Evs
        /\ Head(queue).kind \in {"error", "neterror"}
    BY <2>1, Handled DEF PageTypeOK
  <2> QED
    BY <1>31, <2>2, EventFields DEF HandleError, Handle, Unlock, With, MessagesOf,
        ChatAssumption, OrderInv, EventsOK, EventOK, StreamsOK, StreamOK, Named, Away,
        Open, PageTypeOK, Shrunk
<1>32. CASE HandleReconnecting
  <2>1. Handle({"reconnecting"})
    BY <1>32 DEF HandleReconnecting
  <2>2. Head(queue) \in Events /\ Head(queue) \in Evs /\ Head(queue).kind \in {"reconnecting"}
    BY <2>1, Handled DEF PageTypeOK
  <2>3. Head(queue).task \in Tasks /\ agent[Head(queue).task] \in {"running", "over"}
    BY <2>2, EventFields DEF OrderInv, EventsOK, EventOK
  <2>4. /\ UNCHANGED <<agent, stream, saved, convOf, asking, asker, failed, mounted, persist, record>>
        /\ current' = Head(queue).task
    BY <1>32 DEF HandleReconnecting, Handle, Resume
  <2>5. mounted /\ mounted'
    BY <2>1, <2>4 DEF Handle, OrderInv, StreamsOK, Away, PageTypeOK
  <2>6. \A t \in Tasks : StreamOK(t)'
    BY <2>4 DEF OrderInv, StreamsOK, StreamOK
  <2>7. Named'
    BY <2>3, <2>4 DEF OrderInv, StreamsOK, Named
  <2> QED
    BY <2>5, <2>6, <2>7 DEF StreamsOK, Away
<1>33. CASE HandleSelected
  <2>1. Handle({"selected"})
    BY <1>33 DEF HandleSelected
  <2>2. /\ Shrunk /\ Head(queue) \in Events /\ Head(queue) \in Evs
        /\ Head(queue).kind \in {"selected"}
    BY <2>1, Handled DEF PageTypeOK
  <2> QED
    BY SMTT(30), <1>33, <2>2, EventFields DEF HandleSelected, Handle, ShowSelection,
        ChatAssumption, OrderInv, EventsOK, EventOK, StreamsOK, StreamOK, Named, Away,
        Open, PageTypeOK, Shrunk
<1>34. CASE Flush
  <2>1. Same
    BY <1>34, Unmoved DEF Flush
  <2> QED
    BY <1>34, <2>1 DEF Flush, MessagesOf, ChatAssumption, OrderInv, EventsOK, EventOK,
        StreamsOK, StreamOK, Named, Away, Open, PageTypeOK, Same
<1>35. ASSUME NEW c \in Convs, Select(c)
      PROVE  StreamsOK'
  <2>1. Same
    BY <1>35, Unmoved DEF Select
  <2> QED
    BY <1>35, <2>1 DEF Select, ShowSelection, ChatAssumption, OrderInv, EventsOK,
        EventOK, StreamsOK, StreamOK, Named, Away, Open, PageTypeOK, Same
<1>36. ASSUME NEW t \in Tasks, NEW from \in ConvIds \cup {None}, NEW gone \in BOOLEAN,
            NEW c \in ConvIds, Sends(t, from, gone, c)
      PROVE  StreamsOK'
  <2>1. Same
    BY <1>36, Unmoved DEF Sends, OnSend
  <2> QED
    BY SMTT(30), <1>36, <2>1 DEF Sends, OnSend, CanSend, ShowSelection, ChatAssumption, OrderInv, EventsOK,
        EventOK, StreamsOK, StreamOK, Named, Away, Open, PageTypeOK, Same
<1>37. ASSUME NEW r \in Requests, Answer(r)
      PROVE  StreamsOK'
  <2>1. Same
    BY <1>37, Unmoved DEF Answer
  <2> QED
    BY <1>37, <2>1 DEF Answer, ChatAssumption, OrderInv, EventsOK, EventOK, StreamsOK,
        StreamOK, Named, Away, Open, PageTypeOK, Same
<1>38. CASE NewChat
  <2>1. Same
    BY <1>38, Unmoved DEF NewChat
  <2> QED
    BY <1>38, <2>1 DEF NewChat, ShowSelection, ChatAssumption, OrderInv, EventsOK,
        EventOK, StreamsOK, StreamOK, Named, Away, Open, PageTypeOK, Same
<1>39. CASE Leave
  <2>1. /\ UNCHANGED <<agent, stream, saved, convOf, asking, asker, failed, record>>
        /\ batch' = 0 /\ ~streaming' /\ persist' = None /\ current' = None /\ running' = None
    BY <1>39 DEF Leave, FreshChat, Idle
  <2> QED
    BY <2>1 DEF OrderInv, StreamsOK, StreamOK, Named, Away
<1>40. CASE Return
  <2>1. Event("selected", None, None) \in Events
          /\ queue' = Append(queue, Event("selected", None, None))
    BY <1>40, EventKinds DEF Return
  <2>2. Grown(Event("selected", None, None))
    BY <2>1, Pushed DEF PageTypeOK
  <2> QED
    BY <1>40, <2>1, <2>2 DEF Return, Event, ChatAssumption, OrderInv, EventsOK, EventOK,
        StreamsOK, StreamOK, Named, Away, Open, PageTypeOK, Grown
<1>41. CASE Reload
  <2>1. /\ UNCHANGED <<record, saved, agent, convOf, asking, asker, failed>>
        /\ mounted' = TRUE /\ persist' = None /\ current' = None
    BY <1>41 DEF Reload, FreshChat
  <2>2. ASSUME NEW t \in Tasks
        PROVE  \/ stream'[t] = stream[t] /\ ~Open(t)
               \/ stream'[t] = "closed" /\ Open(t)
               \/ stream'[t] = "hello" /\ record # None /\ t = record.task
    <3>1. CASE record = None
      BY <1>41, <3>1 DEF Reload, PageTypeOK
    <3>2. CASE record # None
      <4> DEFINE closed == [u \in Tasks |-> IF Open(u) THEN "closed" ELSE stream[u]]
      <4>1. stream' = [closed EXCEPT ![record.task] = "hello"]
        BY <1>41, <3>2 DEF Reload
      <4>2. closed \in [Tasks -> {"closed", stream[t]} \cup {stream[u] : u \in Tasks}]
        OBVIOUS
      <4>3. closed[t] = IF Open(t) THEN "closed" ELSE stream[t]
        OBVIOUS
      <4> HIDE DEF closed
      <4> QED
        BY <3>2, <4>1, <4>2, <4>3
    <3> QED
      BY <3>1, <3>2
  <2>3. ASSUME NEW t \in Tasks PROVE StreamOK(t)'
    BY <2>1, <2>2 DEF OrderInv, StreamsOK, StreamOK, Named, Open
  <2> QED
    BY <2>1, <2>3 DEF OrderInv, StreamsOK, Named, Away
<1>42. CASE UNCHANGED pageVars
  <2>1. Same
    BY <1>42, Unmoved DEF pageVars
  <2> QED
    BY <1>42, <2>1 DEF OrderInv, StreamsOK, StreamOK, Named, Away, PageTypeOK, Same,
        pageVars
<1> QED
  BY <1>11, <1>12, <1>13, <1>14, <1>15, <1>16, <1>17, <1>18, <1>19, <1>20, <1>21, <1>22,
      <1>23, <1>24, <1>25, <1>26, <1>27, <1>28, <1>29, <1>30, <1>31, <1>32, <1>33,
      <1>34, <1>35, <1>36, <1>37, <1>38, <1>39, <1>40, <1>41, <1>42 DEF PageStep, World,
      HandleEvent, User

\* Every step keeps what the events that wait say of their tasks.
LEMMA EventStep ==
  ASSUME ChatAssumption, TypeInv, OrderInv, PageStep
  PROVE  EventsOK'
<1> USE DEF TypeInv
<1>0. /\ \A e \in Evs : EventOK(e) /\ e \in Events
      /\ \A t \in Tasks : StreamOK(t)
  BY EvsTyped DEF OrderInv, StreamsOK, EventsOK, PageTypeOK
<1> USE DEF unheard, storageVars, sharedVars, batchVars, lockVars, chatVars, agentVars,
    worldVars, historyVars
<1>11. ASSUME NEW t \in Tasks, Respond(t)
      PROVE  EventsOK'
  <2>1. Event("created", t, None) \in Events
          /\ queue' = Append(queue, Event("created", t, None)) /\ Len(queue) < MaxQueue
    BY <1>11, EventKinds DEF Respond, Push
  <2>2. Grown(Event("created", t, None))
    BY <2>1, Pushed DEF PageTypeOK
  <2> QED
    BY SMTT(30), <1>11, <2>1, <2>2, <1>0, EventFields DEF Respond, Push, Event, EventsOK, EventOK,
        StreamOK, Open, PageTypeOK, Terminal, Grown
<1>12. ASSUME NEW t \in Tasks, Break(t)
      PROVE  EventsOK'
  <2>1. Event("neterror", t, None) \in Events
          /\ queue' = Append(queue, Event("neterror", t, None)) /\ Len(queue) < MaxQueue
    BY <1>12, EventKinds DEF Break, Push
  <2>2. Grown(Event("neterror", t, None))
    BY <2>1, Pushed DEF PageTypeOK
  <2> QED
    BY SMTT(30), <1>12, <2>1, <2>2, <1>0, EventFields DEF Break, Push, Event, EventsOK, EventOK,
        StreamOK, Open, PageTypeOK, Terminal, Grown
<1>13. ASSUME NEW t \in Tasks, EndSilently(t)
      PROVE  EventsOK'
  <2>1. Same
    BY <1>13, Unmoved DEF EndSilently
  <2> QED
    BY <1>13, <2>1, <1>0, EventFields DEF EndSilently, EventsOK, EventOK, StreamOK,
        Open, PageTypeOK, Terminal, Same
<1>14. ASSUME NEW t \in Tasks, Rejoin(t)
      PROVE  EventsOK'
  <2>1. \/ queue' = queue /\ record' = record /\ asking[t] = None
        \/ asking[t] # None /\ Event("question", t, asking[t]) \in Events
             /\ queue' = Append(queue, Event("question", t, asking[t]))
             /\ Len(queue) < MaxQueue /\ record' = record
    <3>1. CASE asking[t] = None
      BY <1>14, <3>1 DEF Rejoin
    <3>2. CASE asking[t] # None
      <4>1. Push(Event("question", t, asking[t])) /\ asking[t] \in Requests
        BY <1>14, <3>2 DEF Rejoin, PageTypeOK
      <4> QED
        BY <3>2, <4>1, EventKinds DEF Push
    <3> QED
      BY <3>1, <3>2
  <2>2. CASE queue' = queue /\ record' = record /\ asking[t] = None
    <3>1. Same
      BY <2>2, Unmoved
    <3> QED
      BY <1>14, <2>2, <3>1, <1>0, EventFields DEF Rejoin, Event, EventsOK, EventOK,
          StreamOK, Open, PageTypeOK, Terminal, Same
  <2>3. CASE asking[t] # None /\ Event("question", t, asking[t]) \in Events
          /\ queue' = Append(queue, Event("question", t, asking[t]))
          /\ Len(queue) < MaxQueue /\ record' = record
    <3>1. Grown(Event("question", t, asking[t]))
      BY <2>3, Pushed DEF PageTypeOK
    <3> QED
      BY <1>14, <2>3, <3>1, <1>0, EventFields DEF Rejoin, Event, EventsOK, EventOK,
          StreamOK, Open, PageTypeOK, Terminal, Grown
  <2> QED
    BY <2>1, <2>2, <2>3
<1>15. ASSUME NEW t \in Tasks, RejoinGone(t)
      PROVE  EventsOK'
  <2>1. Event("gone", t, None) \in Events /\ queue' = Append(queue, Event("gone", t, None))
          /\ Len(queue) < MaxQueue
    BY <1>15, EventKinds DEF RejoinGone, Push
  <2>2. Grown(Event("gone", t, None))
    BY <2>1, Pushed DEF PageTypeOK
  <2> QED
    BY SMTT(30), <1>15, <2>1, <2>2, <1>0, EventFields DEF RejoinGone, Push, Event, EventsOK,
        EventOK, StreamOK, Open, PageTypeOK, Terminal, Grown
<1>16. ASSUME NEW t \in Tasks, Start(t)
      PROVE  EventsOK'
  <2>1. \/ queue' = queue /\ record' = record /\ stream[t] # "live"
        \/ Listening(t) /\ Event("start", t, None) \in Events
             /\ queue' = Append(queue, Event("start", t, None))
             /\ Len(queue) < MaxQueue /\ record' = record
    BY <1>16, EventKinds DEF Start, Emit, Push, Event
  <2>2. CASE queue' = queue /\ record' = record /\ stream[t] # "live"
    <3>1. Same
      BY <2>2, Unmoved
    <3> QED
      BY <1>16, <2>2, <3>1, <1>0, EventFields DEF Start, Emit, Event, EventsOK, EventOK,
          StreamOK, Listening, Open, PageTypeOK, Terminal, Same
  <2>3. CASE Listening(t) /\ Event("start", t, None) \in Events
          /\ queue' = Append(queue, Event("start", t, None))
          /\ Len(queue) < MaxQueue /\ record' = record
    <3>1. Grown(Event("start", t, None))
      BY <2>3, Pushed DEF PageTypeOK
    <3> QED
      BY SMTT(30), <1>16, <2>3, <3>1, <1>0, EventFields DEF Start, Emit, Event, EventsOK, EventOK,
          StreamOK, Listening, Open, PageTypeOK, Terminal, Grown
  <2> QED
    BY <2>1, <2>2, <2>3
<1>17. ASSUME NEW t \in Tasks, Text(t)
      PROVE  EventsOK'
  <2>1. \/ queue' = queue /\ record' = record /\ stream[t] # "live"
        \/ Listening(t) /\ Event("text", t, None) \in Events
             /\ queue' = Append(queue, Event("text", t, None))
             /\ Len(queue) < MaxQueue /\ record' = record
    BY <1>17, EventKinds DEF Text, Emit, Push, Event
  <2>2. CASE queue' = queue /\ record' = record /\ stream[t] # "live"
    <3>1. Same
      BY <2>2, Unmoved
    <3> QED
      BY SMTT(30), <1>17, <2>2, <3>1, <1>0, EventFields DEF Text, Emit, Event, EventsOK, EventOK,
          StreamOK, Listening, Open, PageTypeOK, Terminal, Same
  <2>3. CASE Listening(t) /\ Event("text", t, None) \in Events
          /\ queue' = Append(queue, Event("text", t, None))
          /\ Len(queue) < MaxQueue /\ record' = record
    <3>1. Grown(Event("text", t, None))
      BY <2>3, Pushed DEF PageTypeOK
    <3> QED
      BY SMTT(30), <1>17, <2>3, <3>1, <1>0, EventFields DEF Text, Emit, Event, EventsOK, EventOK,
          StreamOK, Listening, Open, PageTypeOK, Terminal, Grown
  <2> QED
    BY <2>1, <2>2, <2>3
<1>18. ASSUME NEW t \in Tasks, Fail(t)
      PROVE  EventsOK'
  <2>1. \/ queue' = queue /\ record' = record /\ stream[t] # "live"
        \/ Listening(t) /\ Event("error", t, None) \in Events
             /\ queue' = Append(queue, Event("error", t, None))
             /\ Len(queue) < MaxQueue /\ record' = None
    BY <1>18, EventKinds DEF Fail, Emit, Push, Event
  <2>2. CASE queue' = queue /\ record' = record /\ stream[t] # "live"
    <3>1. Same
      BY <2>2, Unmoved
    <3> QED
      BY SMTT(30), <1>18, <2>2, <3>1, <1>0, EventFields DEF Fail, Emit, Event, EventsOK, EventOK,
          StreamOK, Listening, Open, PageTypeOK, Terminal, Same
  <2>3. CASE Listening(t) /\ Event("error", t, None) \in Events
          /\ queue' = Append(queue, Event("error", t, None))
          /\ Len(queue) < MaxQueue /\ record' = None
    <3>1. Grown(Event("error", t, None))
      BY <2>3, Pushed DEF PageTypeOK
    <3> QED
      BY SMTT(30), <1>18, <2>3, <3>1, <1>0, EventFields DEF Fail, Emit, Event, EventsOK, EventOK,
          StreamOK, Listening, Open, PageTypeOK, Terminal, Grown
  <2> QED
    BY <2>1, <2>2, <2>3
<1>19. ASSUME NEW t \in Tasks, Finish(t)
      PROVE  EventsOK'
  <2>1. \/ queue' = queue /\ record' = record /\ stream[t] # "live"
        \/ Listening(t) /\ Event("done", t, None) \in Events
             /\ queue' = Append(queue, Event("done", t, None))
             /\ Len(queue) < MaxQueue /\ record' = None
    BY <1>19, EventKinds DEF Finish, Emit, Push, Event
  <2>2. CASE queue' = queue /\ record' = record /\ stream[t] # "live"
    <3>1. Same
      BY <2>2, Unmoved
    <3> QED
      BY SMTT(30), <1>19, <2>2, <3>1, <1>0, EventFields DEF Finish, Emit, Event, EventsOK,
          EventOK, StreamOK, Listening, Open, PageTypeOK, Terminal, Same
  <2>3. CASE Listening(t) /\ Event("done", t, None) \in Events
          /\ queue' = Append(queue, Event("done", t, None))
          /\ Len(queue) < MaxQueue /\ record' = None
    <3>1. Grown(Event("done", t, None))
      BY <2>3, Pushed DEF PageTypeOK
    <3> QED
      BY SMTT(30), <1>19, <2>3, <3>1, <1>0, EventFields DEF Finish, Emit, Event, EventsOK,
          EventOK, StreamOK, Listening, Open, PageTypeOK, Terminal, Grown
  <2> QED
    BY <2>1, <2>2, <2>3
<1>20. ASSUME NEW t \in Tasks, NEW r \in Requests, Ask(t, r)
      PROVE  EventsOK'
  <2>1. \/ queue' = queue /\ record' = record /\ stream[t] # "live"
        \/ Listening(t) /\ Event("question", t, r) \in Events
             /\ queue' = Append(queue, Event("question", t, r))
             /\ Len(queue) < MaxQueue /\ record' = record
    BY <1>20, EventKinds DEF Ask, Emit, Push, Event
  <2>2. CASE queue' = queue /\ record' = record /\ stream[t] # "live"
    <3>1. Same
      BY <2>2, Unmoved
    <3> QED
      BY SMTT(30), <1>20, <2>2, <3>1, <1>0, EventFields DEF Ask, Emit, Event, EventsOK, EventOK,
          StreamOK, Listening, Open, PageTypeOK, Terminal, Same
  <2>3. CASE Listening(t) /\ Event("question", t, r) \in Events
          /\ queue' = Append(queue, Event("question", t, r))
          /\ Len(queue) < MaxQueue /\ record' = record
    <3>1. Grown(Event("question", t, r))
      BY <2>3, Pushed DEF PageTypeOK
    <3> QED
      BY SMTT(30), <1>20, <2>3, <3>1, <1>0, EventFields DEF Ask, Emit, Event, EventsOK, EventOK,
          StreamOK, Listening, Open, PageTypeOK, Terminal, Grown
  <2> QED
    BY <2>1, <2>2, <2>3
<1>21. ASSUME NEW c \in Convs, HistoryLoaded(c)
      PROVE  EventsOK'
  <2>1. Same
    BY <1>21, Unmoved DEF HistoryLoaded
  <2> QED
    BY <1>21, <2>1, <1>0, EventFields DEF HistoryLoaded, EventsOK, EventOK, StreamOK,
        Open, PageTypeOK, Terminal, Same
<1>22. CASE TranscriptLoaded
  <2>1. Same
    BY <1>22, Unmoved DEF TranscriptLoaded
  <2> QED
    BY <1>22, <2>1, <1>0, EventFields DEF TranscriptLoaded, EventsOK, EventOK, StreamOK,
        Open, PageTypeOK, Terminal, Same
<1>23. CASE HistoricalLoaded
  <2>1. Same
    BY <1>23, Unmoved DEF HistoricalLoaded
  <2> QED
    BY <1>23, <2>1, <1>0, EventFields DEF HistoricalLoaded, EventsOK, EventOK, StreamOK,
        Open, PageTypeOK, Terminal, Same
<1>24. CASE Drain
  <2>1. Same
    BY <1>24, Unmoved DEF Drain
  <2> QED
    BY <1>24, <2>1, <1>0, EventFields DEF Drain, EventsOK, EventOK, StreamOK, Open,
        PageTypeOK, Terminal, Same
<1>25. CASE HandleCreated
  <2>1. Handle({"created"})
    BY <1>25 DEF HandleCreated
  <2>2. /\ Shrunk /\ Head(queue) \in Events /\ Head(queue) \in Evs
        /\ Head(queue).kind \in {"created"}
    BY <2>1, Handled DEF PageTypeOK
  <2> QED
    BY <1>25, <2>2, EventFields, <1>0, EventFields DEF HandleCreated, Handle, EventsOK,
        EventOK, StreamOK, Open, PageTypeOK, Terminal, Shrunk
<1>26. CASE HandleStart
  <2>1. Handle({"start"})
    BY <1>26 DEF HandleStart
  <2>2. /\ Shrunk /\ Head(queue) \in Events /\ Head(queue) \in Evs
        /\ Head(queue).kind \in {"start"}
    BY <2>1, Handled DEF PageTypeOK
  <2> QED
    BY <1>26, <2>2, EventFields, <1>0, EventFields DEF HandleStart, Handle, EventsOK,
        EventOK, StreamOK, Open, PageTypeOK, Terminal, Shrunk
<1>27. CASE HandleText
  <2>1. Handle({"text"})
    BY <1>27 DEF HandleText
  <2>2. /\ Shrunk /\ Head(queue) \in Events /\ Head(queue) \in Evs
        /\ Head(queue).kind \in {"text"}
    BY <2>1, Handled DEF PageTypeOK
  <2> QED
    BY SMTT(30), <1>27, <2>2, EventFields, <1>0, EventFields DEF HandleText, Handle, EventsOK,
        EventOK, StreamOK, Open, PageTypeOK, Terminal, Shrunk
<1>28. CASE HandleQuestion
  <2>1. Handle({"question"})
    BY <1>28 DEF HandleQuestion
  <2>2. /\ Shrunk /\ Head(queue) \in Events /\ Head(queue) \in Evs
        /\ Head(queue).kind \in {"question"}
    BY <2>1, Handled DEF PageTypeOK
  <2> QED
    BY <1>28, <2>2, EventFields, <1>0, EventFields DEF HandleQuestion, Handle, EventsOK,
        EventOK, StreamOK, Open, PageTypeOK, Terminal, Shrunk
<1>29. CASE HandleDone
  <2>1. Handle({"done"})
    BY <1>29 DEF HandleDone
  <2>2. /\ Shrunk /\ Head(queue) \in Events /\ Head(queue) \in Evs
        /\ Head(queue).kind \in {"done"}
    BY <2>1, Handled DEF PageTypeOK
  <2> QED
    BY SMTT(30), <1>29, <2>2, EventFields, <1>0, EventFields DEF HandleDone, Handle, EndTask,
        Unlock, EventsOK, EventOK, StreamOK, Open, PageTypeOK, Terminal, Shrunk
<1>30. CASE HandleGone
  <2>1. Handle({"gone"})
    BY <1>30 DEF HandleGone
  <2>2. /\ Shrunk /\ Head(queue) \in Events /\ Head(queue) \in Evs
        /\ Head(queue).kind \in {"gone"}
    BY <2>1, Handled DEF PageTypeOK
  <2> QED
    BY <1>30, <2>2, EventFields, <1>0, EventFields DEF HandleGone, Handle, EndTask,
        Unlock, EventsOK, EventOK, StreamOK, Open, PageTypeOK, Terminal, Shrunk
<1>31. CASE HandleError
  <2>1. Handle({"error", "neterror"})
    BY <1>31 DEF HandleError
  <2>2. /\ Shrunk /\ Head(queue) \in Events /\ Head(queue) \in Evs
        /\ Head(queue).kind \in {"error", "neterror"}
    BY <2>1, Handled DEF PageTypeOK
  <2> QED
    BY <1>31, <2>2, EventFields, <1>0, EventFields DEF HandleError, Handle, Unlock,
        EventsOK, EventOK, StreamOK, Open, PageTypeOK, Terminal, Shrunk
<1>32. CASE HandleReconnecting
  <2>1. Handle({"reconnecting"})
    BY <1>32 DEF HandleReconnecting
  <2>2. /\ Shrunk /\ Head(queue) \in Events /\ Head(queue) \in Evs
        /\ Head(queue).kind \in {"reconnecting"}
    BY <2>1, Handled DEF PageTypeOK
  <2> QED
    BY <1>32, <2>2, EventFields, <1>0, EventFields DEF HandleReconnecting, Handle,
        Resume, EventsOK, EventOK, StreamOK, Open, PageTypeOK, Terminal, Shrunk
<1>33. CASE HandleSelected
  <2>1. Handle({"selected"})
    BY <1>33 DEF HandleSelected
  <2>2. /\ Shrunk /\ Head(queue) \in Events /\ Head(queue) \in Evs
        /\ Head(queue).kind \in {"selected"}
    BY <2>1, Handled DEF PageTypeOK
  <2> QED
    BY <1>33, <2>2, EventFields, <1>0, EventFields DEF HandleSelected, Handle,
        ShowSelection, EventsOK, EventOK, StreamOK, Open, PageTypeOK, Terminal, Shrunk
<1>34. CASE Flush
  <2>1. Same
    BY <1>34, Unmoved DEF Flush
  <2> QED
    BY <1>34, <2>1, <1>0, EventFields DEF Flush, EventsOK, EventOK, StreamOK, Open,
        PageTypeOK, Terminal, Same
<1>35. ASSUME NEW c \in Convs, Select(c)
      PROVE  EventsOK'
  <2>1. Same
    BY <1>35, Unmoved DEF Select
  <2> QED
    BY <1>35, <2>1, <1>0, EventFields DEF Select, ShowSelection, EventsOK, EventOK,
        StreamOK, Open, PageTypeOK, Terminal, Same
<1>36. ASSUME NEW t \in Tasks, NEW from \in ConvIds \cup {None}, NEW gone \in BOOLEAN,
            NEW c \in ConvIds, Sends(t, from, gone, c)
      PROVE  EventsOK'
  <2>1. Same
    BY <1>36, Unmoved DEF Sends, OnSend
  <2> QED
    BY SMTT(30), <1>36, <2>1, <1>0, EventFields DEF Sends, OnSend, CanSend, ShowSelection, EventsOK,
        EventOK, StreamOK, Open, PageTypeOK, Terminal, Same
<1>37. ASSUME NEW r \in Requests, Answer(r)
      PROVE  EventsOK'
  <2>1. Same
    BY <1>37, Unmoved DEF Answer
  <2> QED
    BY <1>37, <2>1, <1>0, EventFields DEF Answer, EventsOK, EventOK, StreamOK, Open,
        PageTypeOK, Terminal, Same
<1>38. CASE NewChat
  <2>1. Same
    BY <1>38, Unmoved DEF NewChat
  <2> QED
    BY <1>38, <2>1, <1>0, EventFields DEF NewChat, ShowSelection, EventsOK, EventOK,
        StreamOK, Open, PageTypeOK, Terminal, Same
<1>39. CASE Leave
  <2>1. Same
    BY <1>39, Unmoved DEF Leave
  <2> QED
    BY SMTT(30), <1>39, <2>1, <1>0, EventFields DEF Leave, FreshChat, EventsOK, EventOK, StreamOK,
        Open, PageTypeOK, Terminal, Same
<1>40. CASE Return
  <2>1. Event("selected", None, None) \in Events
          /\ queue' = Append(queue, Event("selected", None, None))
    BY <1>40, EventKinds DEF Return
  <2>2. Grown(Event("selected", None, None))
    BY <2>1, Pushed DEF PageTypeOK
  <2> QED
    BY SMTT(30), <1>40, <2>1, <2>2, <1>0, EventFields DEF Return, Event, EventsOK, EventOK,
        StreamOK, Open, PageTypeOK, Terminal, Grown
<1>41. CASE Reload
  <2>1. Emptied \/ Restarted
    BY <1>41, Reloaded DEF PageTypeOK
  <2> QED
    BY SMTT(30), <1>41, <2>1, <1>0, EventFields DEF Reload, FreshChat, Event, First, OrderInv,
        StreamsOK, Named, EventsOK, EventOK, StreamOK, Open, PageTypeOK, Terminal,
        Emptied, Restarted
<1>42. CASE UNCHANGED pageVars
  <2>1. Same
    BY <1>42, Unmoved DEF pageVars
  <2> QED
    BY SMTT(30), <1>42, <2>1, <1>0, EventFields DEF EventsOK, EventOK, StreamOK, Open, PageTypeOK,
        Terminal, Same, pageVars
<1> QED
  BY <1>11, <1>12, <1>13, <1>14, <1>15, <1>16, <1>17, <1>18, <1>19, <1>20, <1>21, <1>22,
      <1>23, <1>24, <1>25, <1>26, <1>27, <1>28, <1>29, <1>30, <1>31, <1>32, <1>33,
      <1>34, <1>35, <1>36, <1>37, <1>38, <1>39, <1>40, <1>41, <1>42 DEF PageStep, World,
      HandleEvent, User

\* Every step keeps the order the events are in.
LEMMA OrderedStep ==
  ASSUME ChatAssumption, TypeInv, OrderInv, PageStep
  PROVE  Ordered'
<1> USE DEF TypeInv
<1>0. /\ \A e \in Evs : EventOK(e) /\ e \in Events
      /\ \A t \in Tasks : StreamOK(t)
      /\ Ordered /\ queue \in Seq(Events)
  BY EvsTyped DEF OrderInv, StreamsOK, EventsOK, PageTypeOK
<1>1. ASSUME queue' = queue PROVE Ordered'
  BY <1>0, <1>1 DEF Ordered
<1>2. ASSUME NEW kinds, Handle(kinds) PROVE Ordered'
  <2>1. queue # <<>> /\ queue' = Tail(queue)
    BY <1>2, Handled DEF PageTypeOK, Shrunk
  <2> QED
    BY <1>0, <2>1, OrderPop
<1> USE DEF unheard, storageVars, sharedVars, batchVars, lockVars, chatVars, agentVars,
    worldVars, historyVars
<1>11. ASSUME NEW t \in Tasks, Respond(t)
      PROVE  Ordered'
  <2>1. Event("created", t, None) \in Events
          /\ queue' = Append(queue, Event("created", t, None))
    BY <1>11, EventKinds DEF Respond, Push
  <2>2. \A d \in Evs : Before(d, Event("created", t, None))
    BY <1>11, <1>0, EventFields DEF Respond, Event, EventOK, StreamOK, Before, Terminal,
        Open
  <2> QED
    BY <1>0, <2>1, <2>2, OrderPush
<1>12. ASSUME NEW t \in Tasks, Break(t)
      PROVE  Ordered'
  <2>1. Event("neterror", t, None) \in Events
          /\ queue' = Append(queue, Event("neterror", t, None))
    BY <1>12, EventKinds DEF Break, Push
  <2>2. \A d \in Evs : Before(d, Event("neterror", t, None))
    BY <1>12, <1>0, EventFields DEF Break, Event, EventOK, StreamOK, Before, Terminal,
        Open
  <2> QED
    BY <1>0, <2>1, <2>2, OrderPush
<1>13. ASSUME NEW t \in Tasks, EndSilently(t)
      PROVE  Ordered'
  BY <1>13, <1>1 DEF EndSilently
<1>14. ASSUME NEW t \in Tasks, Rejoin(t)
      PROVE  Ordered'
  <2>1. CASE queue' = queue
    BY <1>1, <2>1
  <2>2. CASE queue' # queue
    <3>1. stream[t] = "hello" /\ asking[t] # None /\ Push(Event("question", t, asking[t]))
      BY <1>14, <2>2 DEF Rejoin
    <3>2. Event("question", t, asking[t]) \in Events
            /\ queue' = Append(queue, Event("question", t, asking[t]))
      BY <3>1, EventKinds DEF Push, PageTypeOK
    <3>3. \A d \in Evs : Before(d, Event("question", t, asking[t]))
      BY <1>14, <1>0, <3>1 DEF Rejoin, Event, EventOK, StreamOK, Before, Terminal, Open
    <3> QED
      BY <1>0, <3>2, <3>3, OrderPush
  <2> QED
    BY <2>1, <2>2
<1>15. ASSUME NEW t \in Tasks, RejoinGone(t)
      PROVE  Ordered'
  <2>1. Event("gone", t, None) \in Events /\ queue' = Append(queue, Event("gone", t, None))
    BY <1>15, EventKinds DEF RejoinGone, Push
  <2>2. \A d \in Evs : Before(d, Event("gone", t, None))
    BY <1>15, <1>0, EventFields DEF RejoinGone, Event, EventOK, StreamOK, Before,
        Terminal, Open
  <2> QED
    BY <1>0, <2>1, <2>2, OrderPush
<1>16. ASSUME NEW t \in Tasks, Start(t)
      PROVE  Ordered'
  <2>1. CASE queue' = queue
    BY <1>1, <2>1
  <2>2. CASE queue' # queue
    <3>1. Listening(t) /\ Push(Event("start", t, None))
      BY <1>16, <2>2 DEF Start, Emit
    <3>2. Event("start", t, None) \in Events /\ queue' = Append(queue, Event("start", t, None))
      BY <3>1, EventKinds DEF Push
    <3>3. \A d \in Evs : Before(d, Event("start", t, None))
      BY <1>16, <1>0, <3>1 DEF Start, Listening, Event, EventOK, StreamOK, Before,
          Terminal, Open
    <3> QED
      BY <1>0, <3>2, <3>3, OrderPush
  <2> QED
    BY <2>1, <2>2
<1>17. ASSUME NEW t \in Tasks, Text(t)
      PROVE  Ordered'
  <2>1. CASE queue' = queue
    BY <1>1, <2>1
  <2>2. CASE queue' # queue
    <3>1. Listening(t) /\ Push(Event("text", t, None))
      BY <1>17, <2>2 DEF Text, Emit
    <3>2. Event("text", t, None) \in Events /\ queue' = Append(queue, Event("text", t, None))
      BY <3>1, EventKinds DEF Push
    <3>3. \A d \in Evs : Before(d, Event("text", t, None))
      BY <1>17, <1>0, <3>1 DEF Text, Listening, Event, EventOK, StreamOK, Before,
          Terminal, Open
    <3> QED
      BY <1>0, <3>2, <3>3, OrderPush
  <2> QED
    BY <2>1, <2>2
<1>18. ASSUME NEW t \in Tasks, Fail(t)
      PROVE  Ordered'
  <2>1. CASE queue' = queue
    BY <1>1, <2>1
  <2>2. CASE queue' # queue
    <3>1. Listening(t) /\ Push(Event("error", t, None))
      BY <1>18, <2>2 DEF Fail, Emit
    <3>2. Event("error", t, None) \in Events /\ queue' = Append(queue, Event("error", t, None))
      BY <3>1, EventKinds DEF Push
    <3>3. \A d \in Evs : Before(d, Event("error", t, None))
      BY <1>18, <1>0, <3>1 DEF Fail, Listening, Event, EventOK, StreamOK, Before,
          Terminal, Open
    <3> QED
      BY <1>0, <3>2, <3>3, OrderPush
  <2> QED
    BY <2>1, <2>2
<1>19. ASSUME NEW t \in Tasks, Finish(t)
      PROVE  Ordered'
  <2>1. CASE queue' = queue
    BY <1>1, <2>1
  <2>2. CASE queue' # queue
    <3>1. Listening(t) /\ Push(Event("done", t, None))
      BY <1>19, <2>2 DEF Finish, Emit
    <3>2. Event("done", t, None) \in Events /\ queue' = Append(queue, Event("done", t, None))
      BY <3>1, EventKinds DEF Push
    <3>3. \A d \in Evs : Before(d, Event("done", t, None))
      BY <1>19, <1>0, <3>1 DEF Finish, Listening, Event, EventOK, StreamOK, Before,
          Terminal, Open
    <3> QED
      BY <1>0, <3>2, <3>3, OrderPush
  <2> QED
    BY <2>1, <2>2
<1>20. ASSUME NEW t \in Tasks, NEW r \in Requests, Ask(t, r)
      PROVE  Ordered'
  <2>1. CASE queue' = queue
    BY <1>1, <2>1
  <2>2. CASE queue' # queue
    <3>1. Listening(t) /\ Push(Event("question", t, r))
      BY <1>20, <2>2 DEF Ask, Emit
    <3>2. Event("question", t, r) \in Events /\ queue' = Append(queue, Event("question", t, r))
      BY <3>1, EventKinds DEF Push
    <3>3. \A d \in Evs : Before(d, Event("question", t, r))
      BY <1>20, <1>0, <3>1 DEF Ask, Listening, Event, EventOK, StreamOK, Before,
          Terminal, Open
    <3> QED
      BY <1>0, <3>2, <3>3, OrderPush
  <2> QED
    BY <2>1, <2>2
<1>21. ASSUME NEW c \in Convs, HistoryLoaded(c)
      PROVE  Ordered'
  BY <1>21, <1>1 DEF HistoryLoaded
<1>22. CASE TranscriptLoaded
  BY <1>22, <1>1 DEF TranscriptLoaded
<1>23. CASE HistoricalLoaded
  BY <1>23, <1>1 DEF HistoricalLoaded
<1>24. CASE Drain
  BY <1>24, <1>1 DEF Drain
<1>25. CASE HandleCreated
  BY <1>25, <1>2 DEF HandleCreated
<1>26. CASE HandleStart
  BY <1>26, <1>2 DEF HandleStart
<1>27. CASE HandleText
  BY <1>27, <1>2 DEF HandleText
<1>28. CASE HandleQuestion
  BY <1>28, <1>2 DEF HandleQuestion
<1>29. CASE HandleDone
  BY <1>29, <1>2 DEF HandleDone
<1>30. CASE HandleGone
  BY <1>30, <1>2 DEF HandleGone
<1>31. CASE HandleError
  BY <1>31, <1>2 DEF HandleError
<1>32. CASE HandleReconnecting
  BY <1>32, <1>2 DEF HandleReconnecting
<1>33. CASE HandleSelected
  BY <1>33, <1>2 DEF HandleSelected
<1>34. CASE Flush
  BY <1>34, <1>1 DEF Flush
<1>35. ASSUME NEW c \in Convs, Select(c)
      PROVE  Ordered'
  BY <1>35, <1>1 DEF Select
<1>36. ASSUME NEW t \in Tasks, NEW from \in ConvIds \cup {None}, NEW gone \in BOOLEAN,
            NEW c \in ConvIds, Sends(t, from, gone, c)
      PROVE  Ordered'
  BY <1>36, <1>1 DEF Sends, OnSend
<1>37. ASSUME NEW r \in Requests, Answer(r)
      PROVE  Ordered'
  BY <1>37, <1>1 DEF Answer
<1>38. CASE NewChat
  BY <1>38, <1>1 DEF NewChat
<1>39. CASE Leave
  BY <1>39, <1>1 DEF Leave
<1>40. CASE Return
  <2>1. Event("selected", None, None) \in Events
          /\ queue' = Append(queue, Event("selected", None, None))
    BY <1>40, EventKinds DEF Return
  <2>2. \A d \in Evs : Before(d, Event("selected", None, None))
    <3>1. \A d \in Evs : d.task = None => d.kind = "selected"
      BY <1>0, EventFields DEF ChatAssumption
    <3>2. Event("selected", None, None).kind = "selected"
            /\ Event("selected", None, None).task = None
      BY EventKinds
    <3> QED
      BY <3>1, <3>2 DEF Before, Terminal
  <2> QED
    BY <1>0, <2>1, <2>2, OrderPush
<1>41. CASE Reload
  <2>1. queue' = <<>> \/ queue' = <<First>>
    BY <1>41, Reloaded DEF Emptied, Restarted, PageTypeOK
  <2> QED
    BY <2>1, OrderSingle
<1>42. CASE UNCHANGED pageVars
  BY <1>42, <1>1 DEF pageVars
<1> QED
  BY <1>11, <1>12, <1>13, <1>14, <1>15, <1>16, <1>17, <1>18, <1>19, <1>20, <1>21, <1>22,
      <1>23, <1>24, <1>25, <1>26, <1>27, <1>28, <1>29, <1>30, <1>31, <1>32, <1>33,
      <1>34, <1>35, <1>36, <1>37, <1>38, <1>39, <1>40, <1>41, <1>42 DEF PageStep, World,
      HandleEvent, User

\* Every step keeps streams, events and order.
LEMMA OrderStep ==
  ASSUME ChatAssumption, TypeInv, OrderInv, PageStep
  PROVE  OrderInv'
BY StreamStep, EventStep, OrderedStep DEF OrderInv

-----------------------------------------------------------------------------
(* The questions on the panels.                                            *)

\* A question on a panel is stored, and of the conversation of the panel.
QuestionInv ==
    /\ \A c \in ConvIds : panel[c] # None => panel[c] \in stored /\ convOf[asker[panel[c]]] = c
    /\ \A r \in stored : asker[r] # None

\* No panel has a question to begin with.
LEMMA QuestionInit ==
  ASSUME ChatAssumption, Init
  PROVE  QuestionInv
BY DEF ChatAssumption, Init, QuestionInv

\* Every step keeps the questions on the panels stored.
LEMMA QuestionStep ==
  ASSUME ChatAssumption, TypeInv, OrderInv, QuestionInv, PageStep
  PROVE  QuestionInv'
<1> USE DEF TypeInv
<1> USE DEF unheard, storageVars, sharedVars, batchVars, lockVars, chatVars, agentVars,
    worldVars, historyVars
<1>1. ASSUME UNCHANGED <<panel, stored, convOf, asker>>
      PROVE  QuestionInv'
  BY <1>1 DEF QuestionInv, PageTypeOK
<1>11. ASSUME NEW t \in Tasks, Respond(t)
      PROVE  QuestionInv'
  BY <1>11, <1>1 DEF Respond, Push, Event
<1>12. ASSUME NEW t \in Tasks, Break(t)
      PROVE  QuestionInv'
  BY <1>12, <1>1 DEF Break, Push, Event
<1>13. ASSUME NEW t \in Tasks, EndSilently(t)
      PROVE  QuestionInv'
  BY <1>13, <1>1 DEF EndSilently
<1>14. ASSUME NEW t \in Tasks, Rejoin(t)
      PROVE  QuestionInv'
  BY <1>14, <1>1 DEF Rejoin, Push, Event
<1>15. ASSUME NEW t \in Tasks, RejoinGone(t)
      PROVE  QuestionInv'
  BY <1>15, <1>1 DEF RejoinGone, Push, Event
<1>16. ASSUME NEW t \in Tasks, Start(t)
      PROVE  QuestionInv'
  BY <1>16, <1>1 DEF Start, Emit, Push, Event
<1>17. ASSUME NEW t \in Tasks, Text(t)
      PROVE  QuestionInv'
  BY <1>17, <1>1 DEF Text, Emit, Push, Event
<1>18. ASSUME NEW t \in Tasks, Fail(t)
      PROVE  QuestionInv'
  BY <1>18, <1>1 DEF Fail, Emit, Push, Event
<1>19. ASSUME NEW t \in Tasks, Finish(t)
      PROVE  QuestionInv'
  BY <1>19, <1>1 DEF Finish, Emit, Push, Event
<1>20. ASSUME NEW t \in Tasks, NEW r \in Requests, Ask(t, r)
      PROVE  QuestionInv'
  BY <1>20 DEF Ask, Emit, Push, Event, QuestionInv, PageTypeOK
<1>21. ASSUME NEW c \in Convs, HistoryLoaded(c)
      PROVE  QuestionInv'
  BY <1>21, <1>1 DEF HistoryLoaded
<1>22. CASE TranscriptLoaded
  BY <1>22, <1>1 DEF TranscriptLoaded
<1>23. CASE HistoricalLoaded
  BY <1>23, <1>1 DEF HistoricalLoaded
<1>24. CASE Drain
  BY <1>24, <1>1 DEF Drain
<1>25. CASE HandleCreated
  BY <1>25, <1>1 DEF HandleCreated, Handle
<1>26. CASE HandleStart
  BY <1>26, <1>1 DEF HandleStart, Handle
<1>27. CASE HandleText
  BY <1>27, <1>1 DEF HandleText, Handle
<1>28. CASE HandleQuestion
  <2>1. Handle({"question"})
    BY <1>28 DEF HandleQuestion
  <2>2. Head(queue) \in Events /\ Head(queue) \in Evs /\ Head(queue).kind \in {"question"}
    BY <2>1, Handled DEF PageTypeOK
  <2>3. /\ Head(queue).task \in Tasks /\ Head(queue).of \in Requests
        /\ asker[Head(queue).of] = Head(queue).task
    BY <2>2, EventFields DEF OrderInv, EventsOK, EventOK
  <2>4. UNCHANGED <<convOf, asker>>
    BY <2>1 DEF Handle
  <2> QED
    BY SMTT(30), <1>28, <2>3, <2>4 DEF HandleQuestion, QuestionInv, PageTypeOK, ChatAssumption
<1>29. CASE HandleDone
  <2>1. UNCHANGED <<convOf, asker>>
    BY <1>29 DEF HandleDone, Handle
  <2>2. /\ panel' = [panel EXCEPT ![convOf[Head(queue).task]] = None]
        /\ stored' \subseteq stored
        /\ \A r \in stored : convOf[asker[r]] # convOf[Head(queue).task] => r \in stored'
    BY <1>29 DEF HandleDone, StoredOf
  <2> QED
    BY SMTT(30), <2>1, <2>2 DEF QuestionInv, PageTypeOK
<1>30. CASE HandleGone
  BY <1>30, <1>1 DEF HandleGone, Handle, EndTask, Unlock
<1>31. CASE HandleError
  BY <1>31 DEF HandleError, Handle, Unlock, With, QuestionInv, PageTypeOK
<1>32. CASE HandleReconnecting
  BY <1>32, <1>1 DEF HandleReconnecting, Handle, Resume
<1>33. CASE HandleSelected
  BY <1>33 DEF HandleSelected, Handle, ShowSelection, StoredOf, QuestionInv, PageTypeOK
<1>34. CASE Flush
  BY <1>34, <1>1 DEF Flush
<1>35. ASSUME NEW c \in Convs, Select(c)
      PROVE  QuestionInv'
  BY <1>35 DEF Select, ShowSelection, StoredOf, QuestionInv, PageTypeOK
<1>36. ASSUME NEW t \in Tasks, NEW from \in ConvIds \cup {None}, NEW gone \in BOOLEAN,
            NEW c \in ConvIds, Sends(t, from, gone, c)
      PROVE  QuestionInv'
  <2>1. /\ stored' = stored /\ asker' = asker /\ convOf' = [convOf EXCEPT ![t] = c]
        /\ agent[t] = "none"
    BY <1>36 DEF Sends, OnSend, OrderInv, StreamsOK, StreamOK
  <2>2. \A s \in stored : asker[s] \in Tasks \ {t}
    BY <2>1 DEF QuestionInv, OrderInv, StreamsOK, Named, PageTypeOK
  <2>3. \A s \in stored : convOf'[asker[s]] = convOf[asker[s]]
    BY <2>1, <2>2 DEF PageTypeOK
  <2>4. \A d \in ConvIds : panel'[d] = panel[d] \/ (panel'[d] \in StoredOf(d))
    BY <1>36 DEF Sends, OnSend, ShowSelection, PageTypeOK
  <2> QED
    BY <2>1, <2>2, <2>3, <2>4 DEF QuestionInv, StoredOf, PageTypeOK
<1>37. ASSUME NEW r \in Requests, Answer(r)
      PROVE  QuestionInv'
  <2>1. UNCHANGED <<convOf, asker>>
    BY <1>37 DEF Answer
  <2>2. view \in ConvIds /\ panel[view] = r
    BY <1>37 DEF Answer, PageTypeOK
  <2>3. panel' = [panel EXCEPT ![view] = None] /\ stored' = stored \ {r}
    BY <1>37 DEF Answer
  <2> QED
    BY <2>1, <2>2, <2>3 DEF QuestionInv, PageTypeOK, ChatAssumption
<1>38. CASE NewChat
  BY <1>38 DEF NewChat, ShowSelection, StoredOf, QuestionInv, PageTypeOK
<1>39. CASE Leave
  BY <1>39 DEF Leave, FreshChat, QuestionInv
<1>40. CASE Return
  BY <1>40, <1>1 DEF Return, Event
<1>41. CASE Reload
  BY <1>41 DEF Reload, FreshChat, QuestionInv
<1>42. CASE UNCHANGED pageVars
  BY <1>42, <1>1 DEF pageVars
<1> QED
  BY <1>11, <1>12, <1>13, <1>14, <1>15, <1>16, <1>17, <1>18, <1>19, <1>20, <1>21, <1>22,
      <1>23, <1>24, <1>25, <1>26, <1>27, <1>28, <1>29, <1>30, <1>31, <1>32, <1>33,
      <1>34, <1>35, <1>36, <1>37, <1>38, <1>39, <1>40, <1>41, <1>42 DEF PageStep, World,
      HandleEvent, User

-----------------------------------------------------------------------------
(* What can unlock the composer.                                           *)

\* Something of the task is to come: its stream is not over, or the event that
\* ends it waits. (A stream that has ended silently counts here.)
Live(t) ==
    Open(t) \/ stream[t] = "silent" \/ Waiting("done", t) \/ Waiting("gone", t)
        \/ Waiting("neterror", t)

LockInv ==
    /\ streaming => \E t \in Tasks : Live(t)
    /\ \A t \in Tasks : Waiting("reconnecting", t) => Live(t)

\* What the event that is handled next says of those behind it.
LEMMA HeadFirst ==
  ASSUME TypeInv, OrderInv, NEW kinds, Handle(kinds)
  PROVE  /\ \A t : ~Waiting("reconnecting", t)'
         /\ EventOK(Head(queue))
         /\ Head(queue).kind # "selected" => Head(queue).task \in Tasks
         /\ \A t : t = Head(queue).task =>
               /\ Queued(t) /\ Waiting(Head(queue).kind, t) /\ ~Waiting("created", t)'
               /\ Head(queue).kind \in Terminal => ~Queued(t)'
               /\ Head(queue).kind \in {"text", "reconnecting"} => ~Waiting("start", t)'
<1>1. /\ queue \in Seq(Events) /\ queue # <<>> /\ queue' = Tail(queue) /\ Shrunk
      /\ Head(queue) \in Events /\ Head(queue) \in Evs
  BY Handled DEF TypeInv, PageTypeOK, Shrunk
<1>2. \A e \in Evs' : Before(Head(queue), e)
  BY <1>1, OrderPop DEF OrderInv
<1>3. \A k, t : Waiting(k, t)' <=> \E e \in Evs' : e.kind = k /\ e.task = t
  BY DEF Waiting, Evs
<1>4. \A t : Queued(t)' <=> \E e \in Evs' : e.task = t
  BY DEF Queued, Evs
<1>5. EventOK(Head(queue))
  BY <1>1 DEF OrderInv, EventsOK
<1>6. Head(queue).kind # "selected" => Head(queue).task \in Tasks
  BY <1>1, EventFields
<1>7. \A t : t = Head(queue).task => Queued(t) /\ Waiting(Head(queue).kind, t)
  BY <1>1 DEF Shrunk
<1>8. \A t : ~Waiting("reconnecting", t)'
  BY <1>2, <1>3 DEF Before
<1>9. ASSUME NEW t, t = Head(queue).task
      PROVE  /\ ~Waiting("created", t)'
             /\ Head(queue).kind \in Terminal => ~Queued(t)'
             /\ Head(queue).kind \in {"text", "reconnecting"} => ~Waiting("start", t)'
  BY <1>2, <1>3, <1>4, <1>9 DEF Before
<1> QED
  BY <1>5, <1>6, <1>7, <1>8, <1>9

\* The composer is not locked to begin with.
LEMMA LockInit ==
  ASSUME ChatAssumption, Init
  PROVE  LockInv
<1>1. Len(queue) = 0
  <2>1. queue = <<>>
    BY DEF Init
  <2> QED
    BY <2>1
<1>2. \A k, t : ~Waiting(k, t)
  BY <1>1 DEF Waiting
<1> QED
  BY <1>2 DEF Init, LockInv

\* Every step keeps it so.
LEMMA LockStep ==
  ASSUME ChatAssumption, TypeInv, OrderInv, LockInv, PageStep
  PROVE  LockInv'
<1> USE DEF TypeInv
<1> USE DEF unheard, storageVars, sharedVars, batchVars, lockVars, chatVars, agentVars,
    worldVars, historyVars
<1>11. ASSUME NEW t \in Tasks, Respond(t)
      PROVE  LockInv'
  <2>1. Event("created", t, None) \in Events
          /\ queue' = Append(queue, Event("created", t, None)) /\ Len(queue) < MaxQueue
    BY <1>11, EventKinds DEF Respond, Push
  <2>2. Grown(Event("created", t, None))
    BY <2>1, Pushed DEF PageTypeOK
  <2> QED
    BY <1>11, <2>1, <2>2 DEF Respond, Push, Event, LockInv, Live, Open, PageTypeOK,
        Grown
<1>12. ASSUME NEW t \in Tasks, Break(t)
      PROVE  LockInv'
  <2>1. Event("neterror", t, None) \in Events
          /\ queue' = Append(queue, Event("neterror", t, None)) /\ Len(queue) < MaxQueue
    BY <1>12, EventKinds DEF Break, Push
  <2>2. Grown(Event("neterror", t, None))
    BY <2>1, Pushed DEF PageTypeOK
  <2> QED
    BY <1>12, <2>1, <2>2 DEF Break, Push, Event, LockInv, Live, Open, PageTypeOK, Grown
<1>13. ASSUME NEW t \in Tasks, EndSilently(t)
      PROVE  LockInv'
  <2>1. Same
    BY <1>13, Unmoved DEF EndSilently
  <2> QED
    BY <1>13, <2>1 DEF EndSilently, LockInv, Live, Open, PageTypeOK, Same
<1>14. ASSUME NEW t \in Tasks, Rejoin(t)
      PROVE  LockInv'
  <2>1. \/ queue' = queue /\ record' = record /\ asking[t] = None
        \/ asking[t] # None /\ Event("question", t, asking[t]) \in Events
             /\ queue' = Append(queue, Event("question", t, asking[t]))
             /\ Len(queue) < MaxQueue /\ record' = record
    <3>1. CASE asking[t] = None
      BY <1>14, <3>1 DEF Rejoin
    <3>2. CASE asking[t] # None
      <4>1. Push(Event("question", t, asking[t])) /\ asking[t] \in Requests
        BY <1>14, <3>2 DEF Rejoin, PageTypeOK
      <4> QED
        BY <3>2, <4>1, EventKinds DEF Push
    <3> QED
      BY <3>1, <3>2
  <2>2. CASE queue' = queue /\ record' = record /\ asking[t] = None
    <3>1. Same
      BY <2>2, Unmoved
    <3> QED
      BY <1>14, <2>2, <3>1 DEF Rejoin, Event, LockInv, Live, Open, PageTypeOK, Same
  <2>3. CASE asking[t] # None /\ Event("question", t, asking[t]) \in Events
          /\ queue' = Append(queue, Event("question", t, asking[t]))
          /\ Len(queue) < MaxQueue /\ record' = record
    <3>1. Grown(Event("question", t, asking[t]))
      BY <2>3, Pushed DEF PageTypeOK
    <3> QED
      BY <1>14, <2>3, <3>1 DEF Rejoin, Event, LockInv, Live, Open, PageTypeOK, Grown
  <2> QED
    BY <2>1, <2>2, <2>3
<1>15. ASSUME NEW t \in Tasks, RejoinGone(t)
      PROVE  LockInv'
  <2>1. Event("gone", t, None) \in Events /\ queue' = Append(queue, Event("gone", t, None))
          /\ Len(queue) < MaxQueue
    BY <1>15, EventKinds DEF RejoinGone, Push
  <2>2. Grown(Event("gone", t, None))
    BY <2>1, Pushed DEF PageTypeOK
  <2> QED
    BY <1>15, <2>1, <2>2 DEF RejoinGone, Push, Event, LockInv, Live, Open, PageTypeOK,
        Grown
<1>16. ASSUME NEW t \in Tasks, Start(t)
      PROVE  LockInv'
  <2>1. \/ queue' = queue /\ record' = record /\ stream[t] # "live"
        \/ Listening(t) /\ Event("start", t, None) \in Events
             /\ queue' = Append(queue, Event("start", t, None))
             /\ Len(queue) < MaxQueue /\ record' = record
    BY <1>16, EventKinds DEF Start, Emit, Push, Event
  <2>2. CASE queue' = queue /\ record' = record /\ stream[t] # "live"
    <3>1. Same
      BY <2>2, Unmoved
    <3> QED
      BY <1>16, <2>2, <3>1 DEF Start, Emit, Event, Listening, LockInv, Live, Open,
          PageTypeOK, Same
  <2>3. CASE Listening(t) /\ Event("start", t, None) \in Events
          /\ queue' = Append(queue, Event("start", t, None))
          /\ Len(queue) < MaxQueue /\ record' = record
    <3>1. Grown(Event("start", t, None))
      BY <2>3, Pushed DEF PageTypeOK
    <3> QED
      BY <1>16, <2>3, <3>1 DEF Start, Emit, Event, Listening, LockInv, Live, Open,
          PageTypeOK, Grown
  <2> QED
    BY <2>1, <2>2, <2>3
<1>17. ASSUME NEW t \in Tasks, Text(t)
      PROVE  LockInv'
  <2>1. \/ queue' = queue /\ record' = record /\ stream[t] # "live"
        \/ Listening(t) /\ Event("text", t, None) \in Events
             /\ queue' = Append(queue, Event("text", t, None))
             /\ Len(queue) < MaxQueue /\ record' = record
    BY <1>17, EventKinds DEF Text, Emit, Push, Event
  <2>2. CASE queue' = queue /\ record' = record /\ stream[t] # "live"
    <3>1. Same
      BY <2>2, Unmoved
    <3> QED
      BY <1>17, <2>2, <3>1 DEF Text, Emit, Event, Listening, LockInv, Live, Open,
          PageTypeOK, Same
  <2>3. CASE Listening(t) /\ Event("text", t, None) \in Events
          /\ queue' = Append(queue, Event("text", t, None))
          /\ Len(queue) < MaxQueue /\ record' = record
    <3>1. Grown(Event("text", t, None))
      BY <2>3, Pushed DEF PageTypeOK
    <3> QED
      BY <1>17, <2>3, <3>1 DEF Text, Emit, Event, Listening, LockInv, Live, Open,
          PageTypeOK, Grown
  <2> QED
    BY <2>1, <2>2, <2>3
<1>18. ASSUME NEW t \in Tasks, Fail(t)
      PROVE  LockInv'
  <2>1. \/ queue' = queue /\ record' = record /\ stream[t] # "live"
        \/ Listening(t) /\ Event("error", t, None) \in Events
             /\ queue' = Append(queue, Event("error", t, None))
             /\ Len(queue) < MaxQueue /\ record' = None
    BY <1>18, EventKinds DEF Fail, Emit, Push, Event
  <2>2. CASE queue' = queue /\ record' = record /\ stream[t] # "live"
    <3>1. Same
      BY <2>2, Unmoved
    <3> QED
      BY <1>18, <2>2, <3>1 DEF Fail, Emit, Event, Listening, LockInv, Live, Open,
          PageTypeOK, Same
  <2>3. CASE Listening(t) /\ Event("error", t, None) \in Events
          /\ queue' = Append(queue, Event("error", t, None))
          /\ Len(queue) < MaxQueue /\ record' = None
    <3>1. Grown(Event("error", t, None))
      BY <2>3, Pushed DEF PageTypeOK
    <3> QED
      BY <1>18, <2>3, <3>1 DEF Fail, Emit, Event, Listening, LockInv, Live, Open,
          PageTypeOK, Grown
  <2> QED
    BY <2>1, <2>2, <2>3
<1>19. ASSUME NEW t \in Tasks, Finish(t)
      PROVE  LockInv'
  <2>1. \/ queue' = queue /\ record' = record /\ stream[t] # "live"
        \/ Listening(t) /\ Event("done", t, None) \in Events
             /\ queue' = Append(queue, Event("done", t, None))
             /\ Len(queue) < MaxQueue /\ record' = None
    BY <1>19, EventKinds DEF Finish, Emit, Push, Event
  <2>2. CASE queue' = queue /\ record' = record /\ stream[t] # "live"
    <3>1. Same
      BY <2>2, Unmoved
    <3> QED
      BY <1>19, <2>2, <3>1 DEF Finish, Emit, Event, Listening, LockInv, Live, Open,
          PageTypeOK, Same
  <2>3. CASE Listening(t) /\ Event("done", t, None) \in Events
          /\ queue' = Append(queue, Event("done", t, None))
          /\ Len(queue) < MaxQueue /\ record' = None
    <3>1. Grown(Event("done", t, None))
      BY <2>3, Pushed DEF PageTypeOK
    <3> QED
      BY <1>19, <2>3, <3>1 DEF Finish, Emit, Event, Listening, LockInv, Live, Open,
          PageTypeOK, Grown
  <2> QED
    BY <2>1, <2>2, <2>3
<1>20. ASSUME NEW t \in Tasks, NEW r \in Requests, Ask(t, r)
      PROVE  LockInv'
  <2>1. \/ queue' = queue /\ record' = record /\ stream[t] # "live"
        \/ Listening(t) /\ Event("question", t, r) \in Events
             /\ queue' = Append(queue, Event("question", t, r))
             /\ Len(queue) < MaxQueue /\ record' = record
    BY <1>20, EventKinds DEF Ask, Emit, Push, Event
  <2>2. CASE queue' = queue /\ record' = record /\ stream[t] # "live"
    <3>1. Same
      BY <2>2, Unmoved
    <3> QED
      BY <1>20, <2>2, <3>1 DEF Ask, Emit, Event, Listening, LockInv, Live, Open,
          PageTypeOK, Same
  <2>3. CASE Listening(t) /\ Event("question", t, r) \in Events
          /\ queue' = Append(queue, Event("question", t, r))
          /\ Len(queue) < MaxQueue /\ record' = record
    <3>1. Grown(Event("question", t, r))
      BY <2>3, Pushed DEF PageTypeOK
    <3> QED
      BY <1>20, <2>3, <3>1 DEF Ask, Emit, Event, Listening, LockInv, Live, Open,
          PageTypeOK, Grown
  <2> QED
    BY <2>1, <2>2, <2>3
<1>21. ASSUME NEW c \in Convs, HistoryLoaded(c)
      PROVE  LockInv'
  <2>1. Same
    BY <1>21, Unmoved DEF HistoryLoaded
  <2> QED
    BY <1>21, <2>1 DEF HistoryLoaded, LockInv, Live, Open, PageTypeOK, Same
<1>22. CASE TranscriptLoaded
  <2>1. Same
    BY <1>22, Unmoved DEF TranscriptLoaded
  <2> QED
    BY <1>22, <2>1 DEF TranscriptLoaded, LockInv, Live, Open, PageTypeOK, Same
<1>23. CASE HistoricalLoaded
  <2>1. Same
    BY <1>23, Unmoved DEF HistoricalLoaded
  <2> QED
    BY <1>23, <2>1 DEF HistoricalLoaded, LockInv, Live, Open, PageTypeOK, Same
<1>24. CASE Drain
  <2>1. Same
    BY <1>24, Unmoved DEF Drain
  <2> QED
    BY <1>24, <2>1 DEF Drain, LockInv, Live, Open, PageTypeOK, Same
<1>25. CASE HandleCreated
  <2>1. Handle({"created"})
    BY <1>25 DEF HandleCreated
  <2>2. /\ Shrunk /\ Head(queue) \in Events /\ Head(queue) \in Evs
        /\ Head(queue).kind \in {"created"}
    BY <2>1, Handled DEF PageTypeOK
  <2>3. /\ \A t : ~Waiting("reconnecting", t)'
        /\ Head(queue).kind # "selected" => Head(queue).task \in Tasks
    BY <2>1, HeadFirst
  <2> QED
    BY <1>25, <2>2, EventFields, <2>3 DEF HandleCreated, Handle, LockInv, Live, Open,
        PageTypeOK, Shrunk
<1>26. CASE HandleStart
  <2>1. Handle({"start"})
    BY <1>26 DEF HandleStart
  <2>2. /\ Shrunk /\ Head(queue) \in Events /\ Head(queue) \in Evs
        /\ Head(queue).kind \in {"start"}
    BY <2>1, Handled DEF PageTypeOK
  <2>3. /\ \A t : ~Waiting("reconnecting", t)'
        /\ Head(queue).kind # "selected" => Head(queue).task \in Tasks
    BY <2>1, HeadFirst
  <2> QED
    BY <1>26, <2>2, EventFields, <2>3 DEF HandleStart, Handle, LockInv, Live, Open,
        PageTypeOK, Shrunk
<1>27. CASE HandleText
  <2>1. Handle({"text"})
    BY <1>27 DEF HandleText
  <2>2. /\ Shrunk /\ Head(queue) \in Events /\ Head(queue) \in Evs
        /\ Head(queue).kind \in {"text"}
    BY <2>1, Handled DEF PageTypeOK
  <2>3. /\ \A t : ~Waiting("reconnecting", t)'
        /\ Head(queue).kind # "selected" => Head(queue).task \in Tasks
    BY <2>1, HeadFirst
  <2> QED
    BY <1>27, <2>2, EventFields, <2>3 DEF HandleText, Handle, LockInv, Live, Open,
        PageTypeOK, Shrunk
<1>28. CASE HandleQuestion
  <2>1. Handle({"question"})
    BY <1>28 DEF HandleQuestion
  <2>2. /\ Shrunk /\ Head(queue) \in Events /\ Head(queue) \in Evs
        /\ Head(queue).kind \in {"question"}
    BY <2>1, Handled DEF PageTypeOK
  <2>3. /\ \A t : ~Waiting("reconnecting", t)'
        /\ Head(queue).kind # "selected" => Head(queue).task \in Tasks
    BY <2>1, HeadFirst
  <2> QED
    BY <1>28, <2>2, EventFields, <2>3 DEF HandleQuestion, Handle, LockInv, Live, Open,
        PageTypeOK, Shrunk
<1>29. CASE HandleDone
  <2>1. Handle({"done"})
    BY <1>29 DEF HandleDone
  <2>2. /\ Shrunk /\ Head(queue) \in Events /\ Head(queue) \in Evs
        /\ Head(queue).kind \in {"done"}
    BY <2>1, Handled DEF PageTypeOK
  <2>3. /\ \A t : ~Waiting("reconnecting", t)'
        /\ Head(queue).kind # "selected" => Head(queue).task \in Tasks
    BY <2>1, HeadFirst
  <2> QED
    BY <1>29, <2>2, EventFields, <2>3 DEF HandleDone, Handle, EndTask, Unlock, LockInv,
        Live, Open, PageTypeOK, Shrunk
<1>30. CASE HandleGone
  <2>1. Handle({"gone"})
    BY <1>30 DEF HandleGone
  <2>2. /\ Shrunk /\ Head(queue) \in Events /\ Head(queue) \in Evs
        /\ Head(queue).kind \in {"gone"}
    BY <2>1, Handled DEF PageTypeOK
  <2>3. /\ \A t : ~Waiting("reconnecting", t)'
        /\ Head(queue).kind # "selected" => Head(queue).task \in Tasks
    BY <2>1, HeadFirst
  <2> QED
    BY <1>30, <2>2, EventFields, <2>3 DEF HandleGone, Handle, EndTask, Unlock, LockInv,
        Live, Open, PageTypeOK, Shrunk
<1>31. CASE HandleError
  <2>1. Handle({"error", "neterror"})
    BY <1>31 DEF HandleError
  <2>2. /\ Shrunk /\ Head(queue) \in Events /\ Head(queue) \in Evs
        /\ Head(queue).kind \in {"error", "neterror"}
    BY <2>1, Handled DEF PageTypeOK
  <2>3. /\ \A t : ~Waiting("reconnecting", t)'
        /\ Head(queue).kind # "selected" => Head(queue).task \in Tasks
    BY <2>1, HeadFirst
  <2> QED
    BY <1>31, <2>2, EventFields, <2>3 DEF HandleError, Handle, Unlock, LockInv, Live,
        Open, PageTypeOK, Shrunk
<1>32. CASE HandleReconnecting
  <2>1. Handle({"reconnecting"})
    BY <1>32 DEF HandleReconnecting
  <2>2. /\ Shrunk /\ Head(queue) \in Events /\ Head(queue) \in Evs
        /\ Head(queue).kind \in {"reconnecting"}
    BY <2>1, Handled DEF PageTypeOK
  <2>3. /\ \A t : ~Waiting("reconnecting", t)'
        /\ Head(queue).kind # "selected" => Head(queue).task \in Tasks
    BY <2>1, HeadFirst
  <2> QED
    BY <1>32, <2>2, EventFields, <2>3 DEF HandleReconnecting, Handle, Resume, LockInv,
        Live, Open, PageTypeOK, Shrunk
<1>33. CASE HandleSelected
  <2>1. Handle({"selected"})
    BY <1>33 DEF HandleSelected
  <2>2. /\ Shrunk /\ Head(queue) \in Events /\ Head(queue) \in Evs
        /\ Head(queue).kind \in {"selected"}
    BY <2>1, Handled DEF PageTypeOK
  <2>3. /\ \A t : ~Waiting("reconnecting", t)'
        /\ Head(queue).kind # "selected" => Head(queue).task \in Tasks
    BY <2>1, HeadFirst
  <2> QED
    BY <1>33, <2>2, EventFields, <2>3 DEF HandleSelected, Handle, ShowSelection,
        LockInv, Live, Open, PageTypeOK, Shrunk
<1>34. CASE Flush
  <2>1. Same
    BY <1>34, Unmoved DEF Flush
  <2> QED
    BY <1>34, <2>1 DEF Flush, LockInv, Live, Open, PageTypeOK, Same
<1>35. ASSUME NEW c \in Convs, Select(c)
      PROVE  LockInv'
  <2>1. Same
    BY <1>35, Unmoved DEF Select
  <2> QED
    BY <1>35, <2>1 DEF Select, ShowSelection, LockInv, Live, Open, PageTypeOK, Same
<1>36. ASSUME NEW t \in Tasks, NEW from \in ConvIds \cup {None}, NEW gone \in BOOLEAN,
            NEW c \in ConvIds, Sends(t, from, gone, c)
      PROVE  LockInv'
  <2>1. Same
    BY <1>36, Unmoved DEF Sends, OnSend
  <2> QED
    BY <1>36, <2>1 DEF Sends, OnSend, CanSend, ShowSelection, LockInv, Live, Open, PageTypeOK,
        Same
<1>37. ASSUME NEW r \in Requests, Answer(r)
      PROVE  LockInv'
  <2>1. Same
    BY <1>37, Unmoved DEF Answer
  <2> QED
    BY <1>37, <2>1 DEF Answer, LockInv, Live, Open, PageTypeOK, Same
<1>38. CASE NewChat
  <2>1. Same
    BY <1>38, Unmoved DEF NewChat
  <2> QED
    BY <1>38, <2>1 DEF NewChat, ShowSelection, LockInv, Live, Open, PageTypeOK, Same
<1>39. CASE Leave
  <2>1. Same
    BY <1>39, Unmoved DEF Leave
  <2> QED
    BY <1>39, <2>1 DEF Leave, FreshChat, LockInv, Live, Open, PageTypeOK, Same
<1>40. CASE Return
  <2>1. Event("selected", None, None) \in Events
          /\ queue' = Append(queue, Event("selected", None, None))
    BY <1>40, EventKinds DEF Return
  <2>2. Grown(Event("selected", None, None))
    BY <2>1, Pushed DEF PageTypeOK
  <2> QED
    BY <1>40, <2>1, <2>2 DEF Return, Event, LockInv, Live, Open, PageTypeOK, Grown
<1>41. CASE Reload
  <2>1. Emptied \/ Restarted
    BY <1>41, Reloaded DEF PageTypeOK
  <2> QED
    BY <1>41, <2>1 DEF Reload, FreshChat, Event, LockInv, Live, Open, PageTypeOK,
        Emptied, Restarted
<1>42. CASE UNCHANGED pageVars
  <2>1. Same
    BY <1>42, Unmoved DEF pageVars
  <2> QED
    BY <1>42, <2>1 DEF LockInv, Live, Open, PageTypeOK, Same, pageVars
<1> QED
  BY <1>11, <1>12, <1>13, <1>14, <1>15, <1>16, <1>17, <1>18, <1>19, <1>20, <1>21, <1>22,
      <1>23, <1>24, <1>25, <1>26, <1>27, <1>28, <1>29, <1>30, <1>31, <1>32, <1>33,
      <1>34, <1>35, <1>36, <1>37, <1>38, <1>39, <1>40, <1>41, <1>42 DEF PageStep, World,
      HandleEvent, User

-----------------------------------------------------------------------------
(* One query at a time: as long as queries are not mixed there is one busy  *)
(* task, and the chat's state is about it.                                  *)

\* No two tasks are busy.
OneBusy == \A t, u \in Tasks : Busy(t) /\ Busy(u) => t = u

\* The running conversation, also that of a batch, is the busy task's.
RunningOwn ==
    \A t \in Tasks : Busy(t) =>
        running \in {None, convOf[t], t} /\ session \in {None, convOf[t], t}

\* The current task is the busy one.
CurrentOwn ==
    \A t \in Tasks :
        Busy(t) /\ agent[t] # "none" /\ ~Waiting("created", t) => current \in {None, t}

\* The composer is locked for it, but for the cases ComposerLock names.
LockedBusy ==
    \A t \in Tasks :
        Busy(t) => streaming \/ left \/ t \in failed \/ Waiting("reconnecting", t)

\* Before its start is handled, the running conversation is the one the task
\* was sent in, and nothing is saved for it.
Early(t) == agent[t] \in {"none", "queued"} \/ Waiting("created", t) \/ Waiting("start", t)

EarlyRunning ==
    \A t \in Tasks :
        Busy(t) /\ Early(t) => running \in {None, convOf[t]} /\ session \in {None, convOf[t]}

EarlyUnsaved ==
    \A t \in Tasks :
        agent[t] \in {"none", "queued"} \/ Waiting("start", t) =>
            saved[t] = None /\ (persist # None => persist.task # t)

\* The conversation a start is recorded with is still running.
StartRunning ==
    \A t \in Tasks : batch > 0 /\ Waiting("start", t) => running \in {None, session}

\* A page that has just loaded has no chat state before its first event.
ReconnectFresh ==
    \A t \in Tasks :
        Waiting("reconnecting", t) =>
            /\ current = None /\ running = None /\ persist = None /\ session = None
            /\ ~streaming

Alone ==
    /\ OneBusy /\ RunningOwn /\ CurrentOwn /\ LockedBusy /\ EarlyRunning /\ EarlyUnsaved
    /\ StartRunning /\ ReconnectFresh

-----------------------------------------------------------------------------
(* Whose messages are whose.                                               *)

HomeOf == IF record = None THEN None ELSE Home(record)

\* The record, what is to be persisted and what is saved for the recorded task
\* are of one conversation, the task's own or the one named by it.
RecordHome ==
    record # None =>
        /\ record.conv \in {None, convOf[record.task], record.task}
        /\ Busy(record.task) => running \in {None, HomeOf} /\ session \in {None, HomeOf}
        /\ persist # None /\ persist.task = record.task => persist.conv \in {None, HomeOf}
        /\ saved[record.task] # None => \A u \in saved[record.task] : Belongs(u, HomeOf)

PersistHome ==
    persist # None => persist.conv \in {None, convOf[persist.task], persist.task}

\* The conversation a page load takes up is that of the record.
ReconnectHome ==
    \A e \in Evs : e.kind = "reconnecting" =>
        /\ e.of \in {convOf[e.task], e.task}
        /\ saved[e.task] # None => \A u \in saved[e.task] : Belongs(u, e.of)
        /\ record # None => record.task = e.task /\ HomeOf = e.of

\* What is shown, is saved and is to be appended to a transcript is its own.
Own ==
    /\ \A c \in ConvIds : \A t \in messages[c] : Belongs(t, c)
    /\ \A t \in Tasks : saved[t] # None =>
           \A u \in saved[t] : \E c \in {convOf[t], t} : Belongs(u, c)
    /\ rejoining # None => \A u \in rejoining.tail : Belongs(u, rejoining.conv)

Homes == RecordHome /\ PersistHome /\ ReconnectHome /\ Own

\* Queries that have overlapped have overlapped.
LEMMA MixedStays ==
  ASSUME PageStep, mixed
  PROVE  mixed'
<1>1. CASE World
  BY ZenonT(30), <1>1 DEF World, Respond, Push, Event, Break, EndSilently, Rejoin, RejoinGone,
      Start, Emit, Text, Fail, Finish, Ask, HistoryLoaded, TranscriptLoaded,
      HistoricalLoaded, unheard, historyVars
<1>2. CASE HandleEvent
  BY <1>2 DEF HandleEvent, HandleCreated, Handle, HandleStart, HandleText,
      HandleQuestion, HandleDone, EndTask, Unlock, HandleGone, HandleError,
      HandleReconnecting, Resume, HandleSelected, ShowSelection, historyVars
<1>3. CASE \E t \in Tasks, from \in ConvIds \cup {None}, gone \in BOOLEAN, c \in ConvIds :
             Sends(t, from, gone, c)
  BY <1>3 DEF Sends, OnSend
<1>4. CASE Drain \/ Flush \/ NewChat \/ Leave \/ Return \/ Reload \/ (\E c \in Convs : Select(c))
            \/ (\E r \in Requests : Answer(r))
  BY <1>4 DEF Drain, Flush, Select, Answer, NewChat, Leave, Return, Reload, historyVars
<1>5. CASE UNCHANGED pageVars
  BY <1>5 DEF pageVars, historyVars
<1> QED
  BY <1>1, <1>2, <1>3, <1>4, <1>5 DEF PageStep, User

\* Every step but one that makes queries mixed keeps the state about the one
\* busy task.
LEMMA AloneStep ==
  ASSUME ChatAssumption, TypeInv, OrderInv, Alone, Homes, PageStep, ~mixed'
  PROVE  Alone'
<1> USE DEF TypeInv
<1>0. /\ \A e \in Evs : EventOK(e) /\ e \in Events
      /\ \A t \in Tasks : StreamOK(t)
  BY EvsTyped DEF OrderInv, StreamsOK, EventsOK, PageTypeOK
<1> USE DEF unheard, storageVars, sharedVars, batchVars, lockVars, chatVars, agentVars,
    worldVars, historyVars
<1>11. ASSUME NEW t \in Tasks, Respond(t)
      PROVE  Alone'
  <2>1. Event("created", t, None) \in Events
          /\ queue' = Append(queue, Event("created", t, None)) /\ Len(queue) < MaxQueue
    BY <1>11, EventKinds DEF Respond, Push
  <2>2. Grown(Event("created", t, None))
    BY <2>1, Pushed DEF PageTypeOK
  <2> QED
    BY SMTT(30), <1>11, <2>1, <2>2, <1>0 DEF Respond, Push, Event, Idle, Sizes, Terminal, Alone,
        Busy, Open, StreamOK, EventOK, PageTypeOK, OneBusy, RunningOwn, CurrentOwn,
        LockedBusy, EarlyRunning, Early, EarlyUnsaved, StartRunning, ReconnectFresh,
        Grown
<1>12. ASSUME NEW t \in Tasks, Break(t)
      PROVE  Alone'
  <2>1. Event("neterror", t, None) \in Events
          /\ queue' = Append(queue, Event("neterror", t, None)) /\ Len(queue) < MaxQueue
    BY <1>12, EventKinds DEF Break, Push
  <2>2. Grown(Event("neterror", t, None))
    BY <2>1, Pushed DEF PageTypeOK
  <2> QED
    BY SMTT(30), <1>12, <2>1, <2>2, <1>0 DEF Break, Push, Event, Idle, Sizes, Terminal, Alone,
        Busy, Open, StreamOK, EventOK, PageTypeOK, OneBusy, RunningOwn, CurrentOwn,
        LockedBusy, EarlyRunning, Early, EarlyUnsaved, StartRunning, ReconnectFresh,
        Grown
<1>13. ASSUME NEW t \in Tasks, EndSilently(t)
      PROVE  Alone'
  <2>1. Same
    BY <1>13, Unmoved DEF EndSilently
  <2> QED
    BY SMTT(30), <1>13, <2>1, <1>0 DEF EndSilently, Idle, Sizes, Terminal, Alone, Busy, Open,
        StreamOK, EventOK, PageTypeOK, OneBusy, RunningOwn, CurrentOwn, LockedBusy,
        EarlyRunning, Early, EarlyUnsaved, StartRunning, ReconnectFresh, Same
<1>14. ASSUME NEW t \in Tasks, Rejoin(t)
      PROVE  Alone'
  <2>1. \/ queue' = queue /\ record' = record /\ asking[t] = None
        \/ asking[t] # None /\ Event("question", t, asking[t]) \in Events
             /\ queue' = Append(queue, Event("question", t, asking[t]))
             /\ Len(queue) < MaxQueue /\ record' = record
    <3>1. CASE asking[t] = None
      BY <1>14, <3>1 DEF Rejoin
    <3>2. CASE asking[t] # None
      <4>1. Push(Event("question", t, asking[t])) /\ asking[t] \in Requests
        BY <1>14, <3>2 DEF Rejoin, PageTypeOK
      <4> QED
        BY <3>2, <4>1, EventKinds DEF Push
    <3> QED
      BY <3>1, <3>2
  <2>2. CASE queue' = queue /\ record' = record /\ asking[t] = None
    <3>1. Same
      BY <2>2, Unmoved
    <3> QED
      BY SMTT(30), <1>14, <2>2, <3>1, <1>0 DEF Rejoin, Event, Idle, Sizes, Terminal, Alone, Busy,
          Open, StreamOK, EventOK, PageTypeOK, OneBusy, RunningOwn, CurrentOwn,
          LockedBusy, EarlyRunning, Early, EarlyUnsaved, StartRunning, ReconnectFresh,
          Same
  <2>3. CASE asking[t] # None /\ Event("question", t, asking[t]) \in Events
          /\ queue' = Append(queue, Event("question", t, asking[t]))
          /\ Len(queue) < MaxQueue /\ record' = record
    <3>1. Grown(Event("question", t, asking[t]))
      BY <2>3, Pushed DEF PageTypeOK
    <3> QED
      BY SMTT(30), <1>14, <2>3, <3>1, <1>0 DEF Rejoin, Event, Idle, Sizes, Terminal, Alone, Busy,
          Open, StreamOK, EventOK, PageTypeOK, OneBusy, RunningOwn, CurrentOwn,
          LockedBusy, EarlyRunning, Early, EarlyUnsaved, StartRunning, ReconnectFresh,
          Grown
  <2> QED
    BY <2>1, <2>2, <2>3
<1>15. ASSUME NEW t \in Tasks, RejoinGone(t)
      PROVE  Alone'
  <2>1. Event("gone", t, None) \in Events /\ queue' = Append(queue, Event("gone", t, None))
          /\ Len(queue) < MaxQueue
    BY <1>15, EventKinds DEF RejoinGone, Push
  <2>2. Grown(Event("gone", t, None))
    BY <2>1, Pushed DEF PageTypeOK
  <2> QED
    BY SMTT(30), <1>15, <2>1, <2>2, <1>0 DEF RejoinGone, Push, Event, Idle, Sizes, Terminal,
        Alone, Busy, Open, StreamOK, EventOK, PageTypeOK, OneBusy, RunningOwn,
        CurrentOwn, LockedBusy, EarlyRunning, Early, EarlyUnsaved, StartRunning,
        ReconnectFresh, Grown
<1>16. ASSUME NEW t \in Tasks, Start(t)
      PROVE  Alone'
  <2>1. \/ queue' = queue /\ record' = record /\ stream[t] # "live"
        \/ Listening(t) /\ Event("start", t, None) \in Events
             /\ queue' = Append(queue, Event("start", t, None))
             /\ Len(queue) < MaxQueue /\ record' = record
    BY <1>16, EventKinds DEF Start, Emit, Push, Event
  <2>2. CASE queue' = queue /\ record' = record /\ stream[t] # "live"
    <3>1. Same
      BY <2>2, Unmoved
    <3> QED
      BY <1>16, <2>2, <3>1, <1>0 DEF Start, Emit, Event, Listening, Idle, Sizes,
          Terminal, Alone, Busy, Open, StreamOK, EventOK, PageTypeOK, OneBusy,
          RunningOwn, CurrentOwn, LockedBusy, EarlyRunning, Early, EarlyUnsaved,
          StartRunning, ReconnectFresh, Same
  <2>3. CASE Listening(t) /\ Event("start", t, None) \in Events
          /\ queue' = Append(queue, Event("start", t, None))
          /\ Len(queue) < MaxQueue /\ record' = record
    <3>1. Grown(Event("start", t, None))
      BY <2>3, Pushed DEF PageTypeOK
    <3> QED
      BY SMTT(30), <1>16, <2>3, <3>1, <1>0 DEF Start, Emit, Event, Listening, Idle, Sizes,
          Terminal, Alone, Busy, Open, StreamOK, EventOK, PageTypeOK, OneBusy,
          RunningOwn, CurrentOwn, LockedBusy, EarlyRunning, Early, EarlyUnsaved,
          StartRunning, ReconnectFresh, Grown
  <2> QED
    BY <2>1, <2>2, <2>3
<1>17. ASSUME NEW t \in Tasks, Text(t)
      PROVE  Alone'
  <2>1. \/ queue' = queue /\ record' = record /\ stream[t] # "live"
        \/ Listening(t) /\ Event("text", t, None) \in Events
             /\ queue' = Append(queue, Event("text", t, None))
             /\ Len(queue) < MaxQueue /\ record' = record
    BY <1>17, EventKinds DEF Text, Emit, Push, Event
  <2>2. CASE queue' = queue /\ record' = record /\ stream[t] # "live"
    <3>1. Same
      BY <2>2, Unmoved
    <3> QED
      BY SMTT(30), <1>17, <2>2, <3>1, <1>0 DEF Text, Emit, Event, Listening, Idle, Sizes,
          Terminal, Alone, Busy, Open, StreamOK, EventOK, PageTypeOK, OneBusy,
          RunningOwn, CurrentOwn, LockedBusy, EarlyRunning, Early, EarlyUnsaved,
          StartRunning, ReconnectFresh, Same
  <2>3. CASE Listening(t) /\ Event("text", t, None) \in Events
          /\ queue' = Append(queue, Event("text", t, None))
          /\ Len(queue) < MaxQueue /\ record' = record
    <3>1. Grown(Event("text", t, None))
      BY <2>3, Pushed DEF PageTypeOK
    <3> QED
      BY SMTT(30), <1>17, <2>3, <3>1, <1>0 DEF Text, Emit, Event, Listening, Idle, Sizes,
          Terminal, Alone, Busy, Open, StreamOK, EventOK, PageTypeOK, OneBusy,
          RunningOwn, CurrentOwn, LockedBusy, EarlyRunning, Early, EarlyUnsaved,
          StartRunning, ReconnectFresh, Grown
  <2> QED
    BY <2>1, <2>2, <2>3
<1>18. ASSUME NEW t \in Tasks, Fail(t)
      PROVE  Alone'
  <2>1. \/ queue' = queue /\ record' = record /\ stream[t] # "live"
        \/ Listening(t) /\ Event("error", t, None) \in Events
             /\ queue' = Append(queue, Event("error", t, None))
             /\ Len(queue) < MaxQueue /\ record' = None
    BY <1>18, EventKinds DEF Fail, Emit, Push, Event
  <2>2. CASE queue' = queue /\ record' = record /\ stream[t] # "live"
    <3>1. Same
      BY <2>2, Unmoved
    <3> QED
      BY SMTT(30), <1>18, <2>2, <3>1, <1>0 DEF Fail, Emit, Event, Listening, Idle, Sizes,
          Terminal, Alone, Busy, Open, StreamOK, EventOK, PageTypeOK, OneBusy,
          RunningOwn, CurrentOwn, LockedBusy, EarlyRunning, Early, EarlyUnsaved,
          StartRunning, ReconnectFresh, Same
  <2>3. CASE Listening(t) /\ Event("error", t, None) \in Events
          /\ queue' = Append(queue, Event("error", t, None))
          /\ Len(queue) < MaxQueue /\ record' = None
    <3>1. Grown(Event("error", t, None))
      BY <2>3, Pushed DEF PageTypeOK
    <3> QED
      BY SMTT(30), <1>18, <2>3, <3>1, <1>0 DEF Fail, Emit, Event, Listening, Idle, Sizes,
          Terminal, Alone, Busy, Open, StreamOK, EventOK, PageTypeOK, OneBusy,
          RunningOwn, CurrentOwn, LockedBusy, EarlyRunning, Early, EarlyUnsaved,
          StartRunning, ReconnectFresh, Grown
  <2> QED
    BY <2>1, <2>2, <2>3
<1>19. ASSUME NEW t \in Tasks, Finish(t)
      PROVE  Alone'
  <2>1. \/ queue' = queue /\ record' = record /\ stream[t] # "live"
        \/ Listening(t) /\ Event("done", t, None) \in Events
             /\ queue' = Append(queue, Event("done", t, None))
             /\ Len(queue) < MaxQueue /\ record' = None
    BY <1>19, EventKinds DEF Finish, Emit, Push, Event
  <2>2. CASE queue' = queue /\ record' = record /\ stream[t] # "live"
    <3>1. Same
      BY <2>2, Unmoved
    <3> QED
      BY SMTT(30), <1>19, <2>2, <3>1, <1>0 DEF Finish, Emit, Event, Listening, Idle, Sizes,
          Terminal, Alone, Busy, Open, StreamOK, EventOK, PageTypeOK, OneBusy,
          RunningOwn, CurrentOwn, LockedBusy, EarlyRunning, Early, EarlyUnsaved,
          StartRunning, ReconnectFresh, Same
  <2>3. CASE Listening(t) /\ Event("done", t, None) \in Events
          /\ queue' = Append(queue, Event("done", t, None))
          /\ Len(queue) < MaxQueue /\ record' = None
    <3>1. Grown(Event("done", t, None))
      BY <2>3, Pushed DEF PageTypeOK
    <3> QED
      BY SMTT(30), <1>19, <2>3, <3>1, <1>0 DEF Finish, Emit, Event, Listening, Idle, Sizes,
          Terminal, Alone, Busy, Open, StreamOK, EventOK, PageTypeOK, OneBusy,
          RunningOwn, CurrentOwn, LockedBusy, EarlyRunning, Early, EarlyUnsaved,
          StartRunning, ReconnectFresh, Grown
  <2> QED
    BY <2>1, <2>2, <2>3
<1>20. ASSUME NEW t \in Tasks, NEW r \in Requests, Ask(t, r)
      PROVE  Alone'
  <2>1. \/ queue' = queue /\ record' = record /\ stream[t] # "live"
        \/ Listening(t) /\ Event("question", t, r) \in Events
             /\ queue' = Append(queue, Event("question", t, r))
             /\ Len(queue) < MaxQueue /\ record' = record
    BY <1>20, EventKinds DEF Ask, Emit, Push, Event
  <2>2. CASE queue' = queue /\ record' = record /\ stream[t] # "live"
    <3>1. Same
      BY <2>2, Unmoved
    <3> QED
      BY SMTT(30), <1>20, <2>2, <3>1, <1>0 DEF Ask, Emit, Event, Listening, Idle, Sizes, Terminal,
          Alone, Busy, Open, StreamOK, EventOK, PageTypeOK, OneBusy, RunningOwn,
          CurrentOwn, LockedBusy, EarlyRunning, Early, EarlyUnsaved, StartRunning,
          ReconnectFresh, Same
  <2>3. CASE Listening(t) /\ Event("question", t, r) \in Events
          /\ queue' = Append(queue, Event("question", t, r))
          /\ Len(queue) < MaxQueue /\ record' = record
    <3>1. Grown(Event("question", t, r))
      BY <2>3, Pushed DEF PageTypeOK
    <3> QED
      BY SMTT(30), <1>20, <2>3, <3>1, <1>0 DEF Ask, Emit, Event, Listening, Idle, Sizes, Terminal,
          Alone, Busy, Open, StreamOK, EventOK, PageTypeOK, OneBusy, RunningOwn,
          CurrentOwn, LockedBusy, EarlyRunning, Early, EarlyUnsaved, StartRunning,
          ReconnectFresh, Grown
  <2> QED
    BY <2>1, <2>2, <2>3
<1>21. ASSUME NEW c \in Convs, HistoryLoaded(c)
      PROVE  Alone'
  <2>1. Same
    BY <1>21, Unmoved DEF HistoryLoaded
  <2> QED
    BY SMTT(30), <1>21, <2>1, <1>0 DEF HistoryLoaded, Idle, Sizes, Terminal, Alone, Busy, Open,
        StreamOK, EventOK, PageTypeOK, OneBusy, RunningOwn, CurrentOwn, LockedBusy,
        EarlyRunning, Early, EarlyUnsaved, StartRunning, ReconnectFresh, Same
<1>22. CASE TranscriptLoaded
  <2>1. Same
    BY <1>22, Unmoved DEF TranscriptLoaded
  <2> QED
    BY SMTT(30), <1>22, <2>1, <1>0 DEF TranscriptLoaded, Idle, Sizes, Terminal, Alone, Busy, Open,
        StreamOK, EventOK, PageTypeOK, OneBusy, RunningOwn, CurrentOwn, LockedBusy,
        EarlyRunning, Early, EarlyUnsaved, StartRunning, ReconnectFresh, Same
<1>23. CASE HistoricalLoaded
  <2>1. Same
    BY <1>23, Unmoved DEF HistoricalLoaded
  <2> QED
    BY SMTT(30), <1>23, <2>1, <1>0 DEF HistoricalLoaded, Idle, Sizes, Terminal, Alone, Busy, Open,
        StreamOK, EventOK, PageTypeOK, OneBusy, RunningOwn, CurrentOwn, LockedBusy,
        EarlyRunning, Early, EarlyUnsaved, StartRunning, ReconnectFresh, Same
<1>24. CASE Drain
  <2>1. Same
    BY <1>24, Unmoved DEF Drain
  <2> QED
    BY SMTT(30), <1>24, <2>1, <1>0 DEF Drain, Idle, Sizes, Terminal, Alone, Busy, Open, StreamOK,
        EventOK, PageTypeOK, OneBusy, RunningOwn, CurrentOwn, LockedBusy, EarlyRunning,
        Early, EarlyUnsaved, StartRunning, ReconnectFresh, Same
<1>25. CASE HandleCreated
  <2>1. Handle({"created"})
    BY <1>25 DEF HandleCreated
  <2>2. /\ Shrunk /\ Head(queue) \in Events /\ Head(queue) \in Evs
        /\ Head(queue).kind \in {"created"}
    BY <2>1, Handled DEF PageTypeOK
  <2>3. /\ \A t : ~Waiting("reconnecting", t)'
        /\ EventOK(Head(queue))
        /\ Head(queue).kind # "selected" => Head(queue).task \in Tasks
        /\ \A t : t = Head(queue).task =>
               /\ Queued(t) /\ Waiting(Head(queue).kind, t) /\ ~Waiting("created", t)'
               /\ Head(queue).kind \in Terminal => ~Queued(t)'
               /\ Head(queue).kind \in {"text", "reconnecting"} => ~Waiting("start", t)'
    BY <2>1, HeadFirst
  <2> QED
    BY SMTT(30), <1>25, <2>2, EventFields, <2>3, <1>0 DEF HandleCreated, Handle, Idle, Sizes,
        With, Terminal, Alone, Busy, Open, StreamOK, EventOK, PageTypeOK, OneBusy,
        RunningOwn, CurrentOwn, LockedBusy, EarlyRunning, Early, EarlyUnsaved,
        StartRunning, ReconnectFresh, Shrunk
<1>26. CASE HandleStart
  <2>1. Handle({"start"})
    BY <1>26 DEF HandleStart
  <2>2. /\ Shrunk /\ Head(queue) \in Events /\ Head(queue) \in Evs
        /\ Head(queue).kind \in {"start"}
    BY <2>1, Handled DEF PageTypeOK
  <2>3. /\ \A t : ~Waiting("reconnecting", t)'
        /\ EventOK(Head(queue))
        /\ Head(queue).kind # "selected" => Head(queue).task \in Tasks
        /\ \A t : t = Head(queue).task =>
               /\ Queued(t) /\ Waiting(Head(queue).kind, t) /\ ~Waiting("created", t)'
               /\ Head(queue).kind \in Terminal => ~Queued(t)'
               /\ Head(queue).kind \in {"text", "reconnecting"} => ~Waiting("start", t)'
    BY <2>1, HeadFirst
  <2> QED
    BY SMTT(30), <1>26, <2>2, EventFields, <2>3, <1>0 DEF HandleStart, Handle, Idle, Sizes, With,
        Of, Terminal, Alone, Busy, Open, StreamOK, EventOK, PageTypeOK, OneBusy,
        RunningOwn, CurrentOwn, LockedBusy, EarlyRunning, Early, EarlyUnsaved,
        StartRunning, ReconnectFresh, Shrunk
<1>27. CASE HandleText
  <2>1. Handle({"text"})
    BY <1>27 DEF HandleText
  <2>2. /\ Shrunk /\ Head(queue) \in Events /\ Head(queue) \in Evs
        /\ Head(queue).kind \in {"text"}
    BY <2>1, Handled DEF PageTypeOK
  <2>3. /\ \A t : ~Waiting("reconnecting", t)'
        /\ EventOK(Head(queue))
        /\ Head(queue).kind # "selected" => Head(queue).task \in Tasks
        /\ \A t : t = Head(queue).task =>
               /\ Queued(t) /\ Waiting(Head(queue).kind, t) /\ ~Waiting("created", t)'
               /\ Head(queue).kind \in Terminal => ~Queued(t)'
               /\ Head(queue).kind \in {"text", "reconnecting"} => ~Waiting("start", t)'
    BY <2>1, HeadFirst
  <2> QED
    BY SMTT(30), <1>27, <2>2, EventFields, <2>3, <1>0 DEF HandleText, Handle, Idle, Sizes, With,
        Of, Terminal, Alone, Busy, Open, StreamOK, EventOK, PageTypeOK, OneBusy,
        RunningOwn, CurrentOwn, LockedBusy, EarlyRunning, Early, EarlyUnsaved,
        StartRunning, ReconnectFresh, Shrunk
<1>28. CASE HandleQuestion
  <2>1. Handle({"question"})
    BY <1>28 DEF HandleQuestion
  <2>2. /\ Shrunk /\ Head(queue) \in Events /\ Head(queue) \in Evs
        /\ Head(queue).kind \in {"question"}
    BY <2>1, Handled DEF PageTypeOK
  <2>3. /\ \A t : ~Waiting("reconnecting", t)'
        /\ EventOK(Head(queue))
        /\ Head(queue).kind # "selected" => Head(queue).task \in Tasks
        /\ \A t : t = Head(queue).task =>
               /\ Queued(t) /\ Waiting(Head(queue).kind, t) /\ ~Waiting("created", t)'
               /\ Head(queue).kind \in Terminal => ~Queued(t)'
               /\ Head(queue).kind \in {"text", "reconnecting"} => ~Waiting("start", t)'
    BY <2>1, HeadFirst
  <2> QED
    BY SMTT(30), <1>28, <2>2, EventFields, <2>3, <1>0 DEF HandleQuestion, Handle, Idle, Sizes,
        Terminal, Alone, Busy, Open, StreamOK, EventOK, PageTypeOK, OneBusy, RunningOwn,
        CurrentOwn, LockedBusy, EarlyRunning, Early, EarlyUnsaved, StartRunning,
        ReconnectFresh, Shrunk
<1>29. CASE HandleDone
  <2>1. Handle({"done"})
    BY <1>29 DEF HandleDone
  <2>2. /\ Shrunk /\ Head(queue) \in Events /\ Head(queue) \in Evs
        /\ Head(queue).kind \in {"done"}
    BY <2>1, Handled DEF PageTypeOK
  <2>3. /\ \A t : ~Waiting("reconnecting", t)'
        /\ EventOK(Head(queue))
        /\ Head(queue).kind # "selected" => Head(queue).task \in Tasks
        /\ \A t : t = Head(queue).task =>
               /\ Queued(t) /\ Waiting(Head(queue).kind, t) /\ ~Waiting("created", t)'
               /\ Head(queue).kind \in Terminal => ~Queued(t)'
               /\ Head(queue).kind \in {"text", "reconnecting"} => ~Waiting("start", t)'
    BY <2>1, HeadFirst
  <2> QED
    BY SMTT(60), <1>29, <2>2, EventFields, <2>3, <1>0 DEF HandleDone, Handle, EndTask, Unlock,
        Idle, Sizes, Terminal, Alone, Busy, Open, StreamOK, EventOK, PageTypeOK,
        OneBusy, RunningOwn, CurrentOwn, LockedBusy, EarlyRunning, Early, EarlyUnsaved,
        StartRunning, ReconnectFresh, Shrunk
<1>30. CASE HandleGone
  <2>1. Handle({"gone"})
    BY <1>30 DEF HandleGone
  <2>2. /\ Shrunk /\ Head(queue) \in Events /\ Head(queue) \in Evs
        /\ Head(queue).kind \in {"gone"}
    BY <2>1, Handled DEF PageTypeOK
  <2>3. /\ \A t : ~Waiting("reconnecting", t)'
        /\ EventOK(Head(queue))
        /\ Head(queue).kind # "selected" => Head(queue).task \in Tasks
        /\ \A t : t = Head(queue).task =>
               /\ Queued(t) /\ Waiting(Head(queue).kind, t) /\ ~Waiting("created", t)'
               /\ Head(queue).kind \in Terminal => ~Queued(t)'
               /\ Head(queue).kind \in {"text", "reconnecting"} => ~Waiting("start", t)'
    BY <2>1, HeadFirst
  <2> QED
    BY SMTT(30), <1>30, <2>2, EventFields, <2>3, <1>0 DEF HandleGone, Handle, EndTask, Unlock,
        Idle, Sizes, Terminal, Alone, Busy, Open, StreamOK, EventOK, PageTypeOK,
        OneBusy, RunningOwn, CurrentOwn, LockedBusy, EarlyRunning, Early, EarlyUnsaved,
        StartRunning, ReconnectFresh, Shrunk
<1>31. CASE HandleError
  <2>1. Handle({"error", "neterror"})
    BY <1>31 DEF HandleError
  <2>2. /\ Shrunk /\ Head(queue) \in Events /\ Head(queue) \in Evs
        /\ Head(queue).kind \in {"error", "neterror"}
    BY <2>1, Handled DEF PageTypeOK
  <2>3. /\ \A t : ~Waiting("reconnecting", t)'
        /\ EventOK(Head(queue))
        /\ Head(queue).kind # "selected" => Head(queue).task \in Tasks
        /\ \A t : t = Head(queue).task =>
               /\ Queued(t) /\ Waiting(Head(queue).kind, t) /\ ~Waiting("created", t)'
               /\ Head(queue).kind \in Terminal => ~Queued(t)'
               /\ Head(queue).kind \in {"text", "reconnecting"} => ~Waiting("start", t)'
    BY <2>1, HeadFirst
  <2> QED
    BY SMTT(30), <1>31, <2>2, EventFields, <2>3, <1>0 DEF HandleError, Handle, Unlock, Idle,
        Sizes, With, Terminal, Alone, Busy, Open, StreamOK, EventOK, PageTypeOK,
        OneBusy, RunningOwn, CurrentOwn, LockedBusy, EarlyRunning, Early, EarlyUnsaved,
        StartRunning, ReconnectFresh, Shrunk
<1>32. CASE HandleReconnecting
  <2>1. Handle({"reconnecting"})
    BY <1>32 DEF HandleReconnecting
  <2>2. /\ Shrunk /\ Head(queue) \in Events /\ Head(queue) \in Evs
        /\ Head(queue).kind \in {"reconnecting"}
    BY <2>1, Handled DEF PageTypeOK
  <2>3. /\ \A t : ~Waiting("reconnecting", t)'
        /\ EventOK(Head(queue))
        /\ Head(queue).kind # "selected" => Head(queue).task \in Tasks
        /\ \A t : t = Head(queue).task =>
               /\ Queued(t) /\ Waiting(Head(queue).kind, t) /\ ~Waiting("created", t)'
               /\ Head(queue).kind \in Terminal => ~Queued(t)'
               /\ Head(queue).kind \in {"text", "reconnecting"} => ~Waiting("start", t)'
    BY <2>1, HeadFirst
  <2>h. PICK h : h = Head(queue).task
    OBVIOUS
  <2>4. /\ h \in Tasks /\ Busy(h) /\ session = None /\ current = None /\ persist = None
        /\ Head(queue).of \in {convOf[h], h}
    BY <2>2, <2>3, <2>h DEF Homes, ReconnectHome, Alone, ReconnectFresh, Busy
  <2>5. /\ running' = Head(queue).of /\ current' = h /\ streaming' = TRUE /\ session' = None
        /\ UNCHANGED <<convOf, agent, stream, saved, persist, left, failed>>
    BY <1>32, <2>h, <2>4 DEF HandleReconnecting, Handle, Resume, PageTypeOK,
        ChatAssumption
  <2>6. /\ agent[h] \in {"running", "over"} /\ ~Waiting("created", h)' /\ ~Waiting("start", h)'
    BY <2>2, <2>3, <2>h DEF EventOK
  <2>7. \A t \in Tasks : Busy(t)' => Busy(t) /\ t = h
    BY <2>2, <2>4, <2>5, <2>h DEF Shrunk, Alone, OneBusy, Busy, Open
  <2>8. \A t : \A k : Waiting(k, t)' => Queued(t)'
    BY DEF Waiting, Queued
  <2>9. EarlyRunning' /\ StartRunning' /\ ReconnectFresh'
    BY <2>2, <2>3, <2>4, <2>5, <2>6, <2>7, <2>8 DEF EarlyRunning, Early, StartRunning,
        ReconnectFresh, Busy
  <2>10. OneBusy' /\ RunningOwn' /\ CurrentOwn' /\ LockedBusy'
    BY <2>4, <2>5, <2>7 DEF OneBusy, RunningOwn, CurrentOwn, LockedBusy
  <2>11. EarlyUnsaved'
    BY <2>2, <2>5 DEF Shrunk, Alone, EarlyUnsaved
  <2> QED
    BY <2>9, <2>10, <2>11 DEF Alone
<1>33. CASE HandleSelected
  <2>1. Handle({"selected"})
    BY <1>33 DEF HandleSelected
  <2>2. /\ Shrunk /\ Head(queue) \in Events /\ Head(queue) \in Evs
        /\ Head(queue).kind \in {"selected"}
    BY <2>1, Handled DEF PageTypeOK
  <2>3. /\ \A t : ~Waiting("reconnecting", t)'
        /\ EventOK(Head(queue))
        /\ Head(queue).kind # "selected" => Head(queue).task \in Tasks
        /\ \A t : t = Head(queue).task =>
               /\ Queued(t) /\ Waiting(Head(queue).kind, t) /\ ~Waiting("created", t)'
               /\ Head(queue).kind \in Terminal => ~Queued(t)'
               /\ Head(queue).kind \in {"text", "reconnecting"} => ~Waiting("start", t)'
    BY <2>1, HeadFirst
  <2> QED
    BY SMTT(30), <1>33, <2>2, EventFields, <2>3, <1>0 DEF HandleSelected, Handle, ShowSelection,
        Idle, Sizes, Terminal, Alone, Busy, Open, StreamOK, EventOK, PageTypeOK,
        OneBusy, RunningOwn, CurrentOwn, LockedBusy, EarlyRunning, Early, EarlyUnsaved,
        StartRunning, ReconnectFresh, Shrunk
<1>34. CASE Flush
  <2>1. Same
    BY <1>34, Unmoved DEF Flush
  <2> QED
    BY SMTT(30), <1>34, <2>1, <1>0 DEF Flush, Idle, Sizes, Terminal, Alone, Busy, Open, StreamOK,
        EventOK, PageTypeOK, OneBusy, RunningOwn, CurrentOwn, LockedBusy, EarlyRunning,
        Early, EarlyUnsaved, StartRunning, ReconnectFresh, Same
<1>35. ASSUME NEW c \in Convs, Select(c)
      PROVE  Alone'
  <2>1. Same
    BY <1>35, Unmoved DEF Select
  <2> QED
    BY <1>35, <2>1, <1>0 DEF Select, ShowSelection, Idle, Sizes, Terminal, Alone, Busy,
        Open, StreamOK, EventOK, PageTypeOK, OneBusy, RunningOwn, CurrentOwn,
        LockedBusy, EarlyRunning, Early, EarlyUnsaved, StartRunning, ReconnectFresh,
        Same
<1>36. ASSUME NEW t \in Tasks, NEW from \in ConvIds \cup {None}, NEW gone \in BOOLEAN,
            NEW c \in ConvIds, Sends(t, from, gone, c)
      PROVE  Alone'
  <2>1. Same /\ Idle /\ session = None
    BY <1>36, Unmoved DEF Sends, OnSend, Sizes
  <2>2. \A u \in Tasks \ {t} : ~Busy(u)
    BY <1>36, Zenon DEF Sends, OnSend
  <2>3. /\ stream[t] = "unused" /\ agent[t] = "none" /\ saved[t] = None /\ ~Queued(t)
        /\ \A k : ~Waiting(k, t)
    <3>1. stream[t] = "unused" /\ agent[t] = "none" /\ saved[t] = None
      BY <1>36, <1>0 DEF Sends, OnSend, StreamOK
    <3>2. \A e \in Evs : e.task # t
      BY <1>0, <3>1, EventFields DEF EventOK, ChatAssumption
    <3> QED
      BY <3>1, <3>2, QueuedEvs, WaitingEvs
  <2>4. /\ running' = c /\ streaming' = TRUE
        /\ stream' = [stream EXCEPT ![t] = "posting"] /\ convOf' = [convOf EXCEPT ![t] = c]
        /\ UNCHANGED <<batch, session, current, persist, saved, agent, left, failed>>
    BY <1>36 DEF Sends, OnSend
  <2>5. \A u \in Tasks \ {t} : ~Busy(u)'
    BY <2>1, <2>2, <2>4 DEF Busy, Open, Same, PageTypeOK
  <2>6. /\ convOf'[t] = c /\ \A k, u : Waiting(k, u)' <=> Waiting(k, u)
        /\ \A u \in Tasks \ {t} : \A k : ~Waiting(k, u)
    BY <2>1, <2>2, <2>4 DEF Same, PageTypeOK, Busy, Queued, Waiting
  <2>7. EarlyUnsaved'
    BY <2>4, <2>6 DEF Alone, EarlyUnsaved
  <2> QED
    BY <2>1, <2>3, <2>4, <2>5, <2>6, <2>7 DEF Alone, Idle, OneBusy, RunningOwn,
        CurrentOwn, LockedBusy, EarlyRunning, Early, EarlyUnsaved, StartRunning,
        ReconnectFresh
<1>37. ASSUME NEW r \in Requests, Answer(r)
      PROVE  Alone'
  <2>1. Same
    BY <1>37, Unmoved DEF Answer
  <2> QED
    BY SMTT(30), <1>37, <2>1, <1>0 DEF Answer, Idle, Sizes, Terminal, Alone, Busy, Open, StreamOK,
        EventOK, PageTypeOK, OneBusy, RunningOwn, CurrentOwn, LockedBusy, EarlyRunning,
        Early, EarlyUnsaved, StartRunning, ReconnectFresh, Same
<1>38. CASE NewChat
  <2>1. Same
    BY <1>38, Unmoved DEF NewChat
  <2> QED
    BY <1>38, <2>1, <1>0 DEF NewChat, ShowSelection, Idle, Sizes, Terminal, Alone, Busy,
        Open, StreamOK, EventOK, PageTypeOK, OneBusy, RunningOwn, CurrentOwn,
        LockedBusy, EarlyRunning, Early, EarlyUnsaved, StartRunning, ReconnectFresh,
        Same
<1>39. CASE Leave
  <2>1. Same
    BY <1>39, Unmoved DEF Leave
  <2> QED
    BY <1>39, <2>1, <1>0 DEF Leave, FreshChat, Idle, Sizes, Terminal, Alone, Busy, Open,
        StreamOK, EventOK, PageTypeOK, OneBusy, RunningOwn, CurrentOwn, LockedBusy,
        EarlyRunning, Early, EarlyUnsaved, StartRunning, ReconnectFresh, Same
<1>40. CASE Return
  <2>1. Event("selected", None, None) \in Events
          /\ queue' = Append(queue, Event("selected", None, None))
    BY <1>40, EventKinds DEF Return
  <2>2. Grown(Event("selected", None, None))
    BY <2>1, Pushed DEF PageTypeOK
  <2>3. \A t \in Tasks : (Queued(t)' <=> Queued(t)) /\ \A k : Waiting(k, t)' <=> Waiting(k, t)
    BY <2>2, EventKinds DEF Grown, ChatAssumption
  <2>4. /\ session = None /\ session' = None /\ running = None
        /\ UNCHANGED <<running, streaming, current, persist, saved, agent, stream, convOf, left, failed>>
    BY <1>40 DEF Return, Idle, Sizes, OrderInv, StreamsOK, Away, PageTypeOK
  <2> QED
    BY <2>3, <2>4 DEF Alone, Busy, Open, OneBusy, RunningOwn, CurrentOwn, LockedBusy,
        EarlyRunning, Early, EarlyUnsaved, StartRunning, ReconnectFresh
<1>41. CASE Reload
  <2>1. Emptied \/ Restarted
    BY <1>41, Reloaded DEF PageTypeOK
  <2>2. /\ running' = None /\ streaming' = FALSE /\ current' = None /\ persist' = None
        /\ session' = None /\ batch' = 0
        /\ UNCHANGED <<record, saved, agent, convOf, failed>>
    BY <1>41 DEF Reload, FreshChat, Idle, Sizes
  <2>3. \A t \in Tasks : Open(t)' => record # None /\ t = record.task
    <3>1. CASE record = None
      BY <1>41, <3>1 DEF Reload, Open, PageTypeOK
    <3>2. CASE record # None
      <4>1. \A t \in Tasks : t # record.task => stream'[t] = IF Open(t) THEN "closed" ELSE stream[t]
        BY ZenonT(30), <1>41, <3>2 DEF Reload, PageTypeOK
      <4> QED
        BY <3>2, <4>1 DEF Open
    <3> QED
      BY <3>1, <3>2
  <2>4. /\ \A t \in Tasks : Busy(t)' => record # None /\ t = record.task
             /\ Waiting("reconnecting", t)'
        /\ \A t : ~Waiting("start", t)' /\ ~Waiting("created", t)'
    BY <2>1, <2>3 DEF Emptied, Restarted, Busy
  <2>5. EarlyUnsaved'
    BY <2>2, <2>4 DEF Alone, EarlyUnsaved
  <2> QED
    BY <2>2, <2>4, <2>5 DEF Alone, OneBusy, RunningOwn, CurrentOwn, LockedBusy,
        EarlyRunning, Early, EarlyUnsaved, StartRunning, ReconnectFresh
<1>42. CASE UNCHANGED pageVars
  <2>1. Same
    BY <1>42, Unmoved DEF pageVars
  <2> QED
    BY SMTT(30), <1>42, <2>1, <1>0 DEF Alone, Busy, Open, StreamOK, EventOK, PageTypeOK, OneBusy,
        RunningOwn, CurrentOwn, LockedBusy, EarlyRunning, Early, EarlyUnsaved,
        StartRunning, ReconnectFresh, Same, pageVars
<1> QED
  BY <1>11, <1>12, <1>13, <1>14, <1>15, <1>16, <1>17, <1>18, <1>19, <1>20, <1>21, <1>22,
      <1>23, <1>24, <1>25, <1>26, <1>27, <1>28, <1>29, <1>30, <1>31, <1>32, <1>33,
      <1>34, <1>35, <1>36, <1>37, <1>38, <1>39, <1>40, <1>41, <1>42 DEF PageStep, World,
      HandleEvent, User

\* Every step but one that makes queries mixed keeps each conversation's
\* messages its own.
LEMMA HomesStep ==
  ASSUME ChatAssumption, TypeInv, OrderInv, Alone, Homes, PageStep, ~mixed'
  PROVE  Homes'
<1> USE DEF TypeInv
<1>0. /\ \A e \in Evs : EventOK(e) /\ e \in Events
      /\ \A t \in Tasks : StreamOK(t)
  BY EvsTyped DEF OrderInv, StreamsOK, EventsOK, PageTypeOK
<1> USE DEF unheard, storageVars, sharedVars, batchVars, lockVars, chatVars, agentVars,
    worldVars, historyVars
<1>11. ASSUME NEW t \in Tasks, Respond(t)
      PROVE  Homes'
  <2>1. Event("created", t, None) \in Events
          /\ queue' = Append(queue, Event("created", t, None)) /\ Len(queue) < MaxQueue
    BY <1>11, EventKinds DEF Respond, Push
  <2>2. Grown(Event("created", t, None))
    BY <2>1, Pushed DEF PageTypeOK
  <2> QED
    BY SMTT(30), <1>11, <2>1, <2>2, <1>0 DEF Respond, Push, Event, Idle, Sizes, Alone, OneBusy,
        RunningOwn, CurrentOwn, LockedBusy, EarlyRunning, Early, EarlyUnsaved,
        StartRunning, ReconnectFresh, OrderInv, StreamsOK, Named, Homes, HomeOf, Home,
        Belongs, Busy, Open, StreamOK, EventOK, PageTypeOK, RecordHome, PersistHome,
        ReconnectHome, Own, Grown
<1>12. ASSUME NEW t \in Tasks, Break(t)
      PROVE  Homes'
  <2>1. Event("neterror", t, None) \in Events
          /\ queue' = Append(queue, Event("neterror", t, None)) /\ Len(queue) < MaxQueue
    BY <1>12, EventKinds DEF Break, Push
  <2>2. Grown(Event("neterror", t, None))
    BY <2>1, Pushed DEF PageTypeOK
  <2> QED
    BY SMTT(30), <1>12, <2>1, <2>2, <1>0 DEF Break, Push, Event, Idle, Sizes, Alone, OneBusy,
        RunningOwn, CurrentOwn, LockedBusy, EarlyRunning, Early, EarlyUnsaved,
        StartRunning, ReconnectFresh, OrderInv, StreamsOK, Named, Homes, HomeOf, Home,
        Belongs, Busy, Open, StreamOK, EventOK, PageTypeOK, RecordHome, PersistHome,
        ReconnectHome, Own, Grown
<1>13. ASSUME NEW t \in Tasks, EndSilently(t)
      PROVE  Homes'
  <2>1. Same
    BY <1>13, Unmoved DEF EndSilently
  <2> QED
    BY SMTT(30), <1>13, <2>1, <1>0 DEF EndSilently, Idle, Sizes, Alone, OneBusy, RunningOwn,
        CurrentOwn, LockedBusy, EarlyRunning, Early, EarlyUnsaved, StartRunning,
        ReconnectFresh, OrderInv, StreamsOK, Named, Homes, HomeOf, Home, Belongs, Busy,
        Open, StreamOK, EventOK, PageTypeOK, RecordHome, PersistHome, ReconnectHome,
        Own, Same
<1>14. ASSUME NEW t \in Tasks, Rejoin(t)
      PROVE  Homes'
  <2>1. \/ queue' = queue /\ record' = record /\ asking[t] = None
        \/ asking[t] # None /\ Event("question", t, asking[t]) \in Events
             /\ queue' = Append(queue, Event("question", t, asking[t]))
             /\ Len(queue) < MaxQueue /\ record' = record
    <3>1. CASE asking[t] = None
      BY <1>14, <3>1 DEF Rejoin
    <3>2. CASE asking[t] # None
      <4>1. Push(Event("question", t, asking[t])) /\ asking[t] \in Requests
        BY <1>14, <3>2 DEF Rejoin, PageTypeOK
      <4> QED
        BY <3>2, <4>1, EventKinds DEF Push
    <3> QED
      BY <3>1, <3>2
  <2>2. CASE queue' = queue /\ record' = record /\ asking[t] = None
    <3>1. Same
      BY <2>2, Unmoved
    <3> QED
      BY SMTT(30), <1>14, <2>2, <3>1, <1>0 DEF Rejoin, Event, Idle, Sizes, Alone, OneBusy,
          RunningOwn, CurrentOwn, LockedBusy, EarlyRunning, Early, EarlyUnsaved,
          StartRunning, ReconnectFresh, OrderInv, StreamsOK, Named, Homes, HomeOf, Home,
          Belongs, Busy, Open, StreamOK, EventOK, PageTypeOK, RecordHome, PersistHome,
          ReconnectHome, Own, Same
  <2>3. CASE asking[t] # None /\ Event("question", t, asking[t]) \in Events
          /\ queue' = Append(queue, Event("question", t, asking[t]))
          /\ Len(queue) < MaxQueue /\ record' = record
    <3>1. Grown(Event("question", t, asking[t]))
      BY <2>3, Pushed DEF PageTypeOK
    <3> QED
      BY SMTT(30), <1>14, <2>3, <3>1, <1>0 DEF Rejoin, Event, Idle, Sizes, Alone, OneBusy,
          RunningOwn, CurrentOwn, LockedBusy, EarlyRunning, Early, EarlyUnsaved,
          StartRunning, ReconnectFresh, OrderInv, StreamsOK, Named, Homes, HomeOf, Home,
          Belongs, Busy, Open, StreamOK, EventOK, PageTypeOK, RecordHome, PersistHome,
          ReconnectHome, Own, Grown
  <2> QED
    BY <2>1, <2>2, <2>3
<1>15. ASSUME NEW t \in Tasks, RejoinGone(t)
      PROVE  Homes'
  <2>1. Event("gone", t, None) \in Events /\ queue' = Append(queue, Event("gone", t, None))
          /\ Len(queue) < MaxQueue
    BY <1>15, EventKinds DEF RejoinGone, Push
  <2>2. Grown(Event("gone", t, None))
    BY <2>1, Pushed DEF PageTypeOK
  <2> QED
    BY SMTT(30), <1>15, <2>1, <2>2, <1>0 DEF RejoinGone, Push, Event, Idle, Sizes, Alone, OneBusy,
        RunningOwn, CurrentOwn, LockedBusy, EarlyRunning, Early, EarlyUnsaved,
        StartRunning, ReconnectFresh, OrderInv, StreamsOK, Named, Homes, HomeOf, Home,
        Belongs, Busy, Open, StreamOK, EventOK, PageTypeOK, RecordHome, PersistHome,
        ReconnectHome, Own, Grown
<1>16. ASSUME NEW t \in Tasks, Start(t)
      PROVE  Homes'
  <2>1. \/ queue' = queue /\ record' = record /\ stream[t] # "live"
        \/ Listening(t) /\ Event("start", t, None) \in Events
             /\ queue' = Append(queue, Event("start", t, None))
             /\ Len(queue) < MaxQueue /\ record' = record
    BY <1>16, EventKinds DEF Start, Emit, Push, Event
  <2>2. CASE queue' = queue /\ record' = record /\ stream[t] # "live"
    <3>1. Same
      BY <2>2, Unmoved
    <3> QED
      BY <1>16, <2>2, <3>1, <1>0 DEF Start, Emit, Event, Listening, Idle, Sizes, Alone,
          OneBusy, RunningOwn, CurrentOwn, LockedBusy, EarlyRunning, Early,
          EarlyUnsaved, StartRunning, ReconnectFresh, OrderInv, StreamsOK, Named, Homes,
          HomeOf, Home, Belongs, Busy, Open, StreamOK, EventOK, PageTypeOK, RecordHome,
          PersistHome, ReconnectHome, Own, Same
  <2>3. CASE Listening(t) /\ Event("start", t, None) \in Events
          /\ queue' = Append(queue, Event("start", t, None))
          /\ Len(queue) < MaxQueue /\ record' = record
    <3>1. Grown(Event("start", t, None))
      BY <2>3, Pushed DEF PageTypeOK
    <3> QED
      BY SMTT(30), <1>16, <2>3, <3>1, <1>0 DEF Start, Emit, Event, Listening, Idle, Sizes, Alone,
          OneBusy, RunningOwn, CurrentOwn, LockedBusy, EarlyRunning, Early,
          EarlyUnsaved, StartRunning, ReconnectFresh, OrderInv, StreamsOK, Named, Homes,
          HomeOf, Home, Belongs, Busy, Open, StreamOK, EventOK, PageTypeOK, RecordHome,
          PersistHome, ReconnectHome, Own, Grown
  <2> QED
    BY <2>1, <2>2, <2>3
<1>17. ASSUME NEW t \in Tasks, Text(t)
      PROVE  Homes'
  <2>1. \/ queue' = queue /\ record' = record /\ stream[t] # "live"
        \/ Listening(t) /\ Event("text", t, None) \in Events
             /\ queue' = Append(queue, Event("text", t, None))
             /\ Len(queue) < MaxQueue /\ record' = record
    BY <1>17, EventKinds DEF Text, Emit, Push, Event
  <2>2. CASE queue' = queue /\ record' = record /\ stream[t] # "live"
    <3>1. Same
      BY <2>2, Unmoved
    <3> QED
      BY SMTT(30), <1>17, <2>2, <3>1, <1>0 DEF Text, Emit, Event, Listening, Idle, Sizes, Alone,
          OneBusy, RunningOwn, CurrentOwn, LockedBusy, EarlyRunning, Early,
          EarlyUnsaved, StartRunning, ReconnectFresh, OrderInv, StreamsOK, Named, Homes,
          HomeOf, Home, Belongs, Busy, Open, StreamOK, EventOK, PageTypeOK, RecordHome,
          PersistHome, ReconnectHome, Own, Same
  <2>3. CASE Listening(t) /\ Event("text", t, None) \in Events
          /\ queue' = Append(queue, Event("text", t, None))
          /\ Len(queue) < MaxQueue /\ record' = record
    <3>1. Grown(Event("text", t, None))
      BY <2>3, Pushed DEF PageTypeOK
    <3> QED
      BY SMTT(30), <1>17, <2>3, <3>1, <1>0 DEF Text, Emit, Event, Listening, Idle, Sizes, Alone,
          OneBusy, RunningOwn, CurrentOwn, LockedBusy, EarlyRunning, Early,
          EarlyUnsaved, StartRunning, ReconnectFresh, OrderInv, StreamsOK, Named, Homes,
          HomeOf, Home, Belongs, Busy, Open, StreamOK, EventOK, PageTypeOK, RecordHome,
          PersistHome, ReconnectHome, Own, Grown
  <2> QED
    BY <2>1, <2>2, <2>3
<1>18. ASSUME NEW t \in Tasks, Fail(t)
      PROVE  Homes'
  <2>1. \/ queue' = queue /\ record' = record /\ stream[t] # "live"
        \/ Listening(t) /\ Event("error", t, None) \in Events
             /\ queue' = Append(queue, Event("error", t, None))
             /\ Len(queue) < MaxQueue /\ record' = None
    BY <1>18, EventKinds DEF Fail, Emit, Push, Event
  <2>2. CASE queue' = queue /\ record' = record /\ stream[t] # "live"
    <3>1. Same
      BY <2>2, Unmoved
    <3> QED
      BY SMTT(30), <1>18, <2>2, <3>1, <1>0 DEF Fail, Emit, Event, Listening, Idle, Sizes, Alone,
          OneBusy, RunningOwn, CurrentOwn, LockedBusy, EarlyRunning, Early,
          EarlyUnsaved, StartRunning, ReconnectFresh, OrderInv, StreamsOK, Named, Homes,
          HomeOf, Home, Belongs, Busy, Open, StreamOK, EventOK, PageTypeOK, RecordHome,
          PersistHome, ReconnectHome, Own, Same
  <2>3. CASE Listening(t) /\ Event("error", t, None) \in Events
          /\ queue' = Append(queue, Event("error", t, None))
          /\ Len(queue) < MaxQueue /\ record' = None
    <3>1. Grown(Event("error", t, None))
      BY <2>3, Pushed DEF PageTypeOK
    <3> QED
      BY SMTT(30), <1>18, <2>3, <3>1, <1>0 DEF Fail, Emit, Event, Listening, Idle, Sizes, Alone,
          OneBusy, RunningOwn, CurrentOwn, LockedBusy, EarlyRunning, Early,
          EarlyUnsaved, StartRunning, ReconnectFresh, OrderInv, StreamsOK, Named, Homes,
          HomeOf, Home, Belongs, Busy, Open, StreamOK, EventOK, PageTypeOK, RecordHome,
          PersistHome, ReconnectHome, Own, Grown
  <2> QED
    BY <2>1, <2>2, <2>3
<1>19. ASSUME NEW t \in Tasks, Finish(t)
      PROVE  Homes'
  <2>1. \/ queue' = queue /\ record' = record /\ stream[t] # "live"
        \/ Listening(t) /\ Event("done", t, None) \in Events
             /\ queue' = Append(queue, Event("done", t, None))
             /\ Len(queue) < MaxQueue /\ record' = None
    BY <1>19, EventKinds DEF Finish, Emit, Push, Event
  <2>2. CASE queue' = queue /\ record' = record /\ stream[t] # "live"
    <3>1. Same
      BY <2>2, Unmoved
    <3> QED
      BY SMTT(30), <1>19, <2>2, <3>1, <1>0 DEF Finish, Emit, Event, Listening, Idle, Sizes, Alone,
          OneBusy, RunningOwn, CurrentOwn, LockedBusy, EarlyRunning, Early,
          EarlyUnsaved, StartRunning, ReconnectFresh, OrderInv, StreamsOK, Named, Homes,
          HomeOf, Home, Belongs, Busy, Open, StreamOK, EventOK, PageTypeOK, RecordHome,
          PersistHome, ReconnectHome, Own, Same
  <2>3. CASE Listening(t) /\ Event("done", t, None) \in Events
          /\ queue' = Append(queue, Event("done", t, None))
          /\ Len(queue) < MaxQueue /\ record' = None
    <3>1. Grown(Event("done", t, None))
      BY <2>3, Pushed DEF PageTypeOK
    <3> QED
      BY SMTT(30), <1>19, <2>3, <3>1, <1>0 DEF Finish, Emit, Event, Listening, Idle, Sizes, Alone,
          OneBusy, RunningOwn, CurrentOwn, LockedBusy, EarlyRunning, Early,
          EarlyUnsaved, StartRunning, ReconnectFresh, OrderInv, StreamsOK, Named, Homes,
          HomeOf, Home, Belongs, Busy, Open, StreamOK, EventOK, PageTypeOK, RecordHome,
          PersistHome, ReconnectHome, Own, Grown
  <2> QED
    BY <2>1, <2>2, <2>3
<1>20. ASSUME NEW t \in Tasks, NEW r \in Requests, Ask(t, r)
      PROVE  Homes'
  <2>1. \/ queue' = queue /\ record' = record /\ stream[t] # "live"
        \/ Listening(t) /\ Event("question", t, r) \in Events
             /\ queue' = Append(queue, Event("question", t, r))
             /\ Len(queue) < MaxQueue /\ record' = record
    BY <1>20, EventKinds DEF Ask, Emit, Push, Event
  <2>2. CASE queue' = queue /\ record' = record /\ stream[t] # "live"
    <3>1. Same
      BY <2>2, Unmoved
    <3> QED
      BY SMTT(30), <1>20, <2>2, <3>1, <1>0 DEF Ask, Emit, Event, Listening, Idle, Sizes, Alone,
          OneBusy, RunningOwn, CurrentOwn, LockedBusy, EarlyRunning, Early,
          EarlyUnsaved, StartRunning, ReconnectFresh, OrderInv, StreamsOK, Named, Homes,
          HomeOf, Home, Belongs, Busy, Open, StreamOK, EventOK, PageTypeOK, RecordHome,
          PersistHome, ReconnectHome, Own, Same
  <2>3. CASE Listening(t) /\ Event("question", t, r) \in Events
          /\ queue' = Append(queue, Event("question", t, r))
          /\ Len(queue) < MaxQueue /\ record' = record
    <3>1. Grown(Event("question", t, r))
      BY <2>3, Pushed DEF PageTypeOK
    <3> QED
      BY SMTT(30), <1>20, <2>3, <3>1, <1>0 DEF Ask, Emit, Event, Listening, Idle, Sizes, Alone,
          OneBusy, RunningOwn, CurrentOwn, LockedBusy, EarlyRunning, Early,
          EarlyUnsaved, StartRunning, ReconnectFresh, OrderInv, StreamsOK, Named, Homes,
          HomeOf, Home, Belongs, Busy, Open, StreamOK, EventOK, PageTypeOK, RecordHome,
          PersistHome, ReconnectHome, Own, Grown
  <2> QED
    BY <2>1, <2>2, <2>3
<1>21. ASSUME NEW c \in Convs, HistoryLoaded(c)
      PROVE  Homes'
  <2>1. Same
    BY <1>21, Unmoved DEF HistoryLoaded
  <2> QED
    BY SMTT(30), <1>21, <2>1, <1>0 DEF HistoryLoaded, Idle, Sizes, Alone, OneBusy, RunningOwn,
        CurrentOwn, LockedBusy, EarlyRunning, Early, EarlyUnsaved, StartRunning,
        ReconnectFresh, OrderInv, StreamsOK, Named, Homes, HomeOf, Home, Belongs, Busy,
        Open, StreamOK, EventOK, PageTypeOK, RecordHome, PersistHome, ReconnectHome,
        Own, Same
<1>22. CASE TranscriptLoaded
  <2>1. Same
    BY <1>22, Unmoved DEF TranscriptLoaded
  <2>2. /\ UNCHANGED <<record, saved, persist, running, session, convOf, stream>>
             /\ rejoining' = rejoining
        /\ loading \in ConvIds /\ messages' = [messages EXCEPT ![loading] = Transcript(loading)]
    BY <1>22 DEF TranscriptLoaded, PageTypeOK, ConvIds
  <2>3. \A t \in Transcript(loading) : Belongs(t, loading)
    BY <1>22 DEF TranscriptLoaded, Transcript, Belongs, Homes, Own
  <2>4. \A c \in ConvIds : \A t \in messages'[c] : Belongs(t, c)
    BY <2>2, <2>3 DEF Homes, Own, PageTypeOK
  <2>5. Own'
    BY <2>2, <2>4 DEF Homes, Own, Belongs
  <2>6. RecordHome' /\ PersistHome' /\ ReconnectHome'
    BY <2>1, <2>2 DEF Homes, RecordHome, PersistHome, ReconnectHome, HomeOf, Home,
        Belongs, Busy, Open, Same
  <2> QED
    BY <2>5, <2>6 DEF Homes
<1>23. CASE HistoricalLoaded
  <2>1. Same
    BY <1>23, Unmoved DEF HistoricalLoaded
  <2>2. /\ UNCHANGED <<record, saved, persist, running, session, convOf, stream>>
             /\ rejoining' = None
        /\ rejoining.conv \in ConvIds
             /\ messages' = [messages EXCEPT ![rejoining.conv] = Transcript(rejoining.conv) \cup rejoining.tail]
    BY <1>23 DEF HistoricalLoaded, PageTypeOK, ConvIds
  <2>3. \A t \in Transcript(rejoining.conv) \cup rejoining.tail : Belongs(t, rejoining.conv)
    BY <1>23 DEF HistoricalLoaded, Transcript, Belongs, Homes, Own
  <2>4. \A c \in ConvIds : \A t \in messages'[c] : Belongs(t, c)
    BY <2>2, <2>3 DEF Homes, Own, PageTypeOK
  <2>5. Own'
    BY <2>2, <2>4 DEF Homes, Own, Belongs
  <2>6. RecordHome' /\ PersistHome' /\ ReconnectHome'
    BY <2>1, <2>2 DEF Homes, RecordHome, PersistHome, ReconnectHome, HomeOf, Home,
        Belongs, Busy, Open, Same
  <2> QED
    BY <2>5, <2>6 DEF Homes
<1>24. CASE Drain
  <2>1. Same
    BY <1>24, Unmoved DEF Drain
  <2> QED
    BY SMTT(30), <1>24, <2>1, <1>0 DEF Drain, Idle, Sizes, Alone, OneBusy, RunningOwn, CurrentOwn,
        LockedBusy, EarlyRunning, Early, EarlyUnsaved, StartRunning, ReconnectFresh,
        OrderInv, StreamsOK, Named, Homes, HomeOf, Home, Belongs, Busy, Open, StreamOK,
        EventOK, PageTypeOK, RecordHome, PersistHome, ReconnectHome, Own, Same
<1>25. CASE HandleCreated
  <2>1. Handle({"created"})
    BY <1>25 DEF HandleCreated
  <2>2. /\ Shrunk /\ Head(queue) \in Events /\ Head(queue) \in Evs
        /\ Head(queue).kind \in {"created"}
    BY <2>1, Handled DEF PageTypeOK
  <2>3. /\ \A t : ~Waiting("reconnecting", t)'
        /\ EventOK(Head(queue))
        /\ Head(queue).kind # "selected" => Head(queue).task \in Tasks
        /\ \A t : t = Head(queue).task =>
               /\ Queued(t) /\ Waiting(Head(queue).kind, t) /\ ~Waiting("created", t)'
               /\ Head(queue).kind \in Terminal => ~Queued(t)'
               /\ Head(queue).kind \in {"text", "reconnecting"} => ~Waiting("start", t)'
    BY <2>1, HeadFirst
  <2> QED
    BY SMTT(30), <1>25, <2>2, EventFields, <2>3, <1>0 DEF HandleCreated, Handle, Idle, Sizes,
        With, Alone, OneBusy, RunningOwn, CurrentOwn, LockedBusy, EarlyRunning, Early,
        EarlyUnsaved, StartRunning, ReconnectFresh, OrderInv, StreamsOK, Named, Homes,
        HomeOf, Home, Belongs, Busy, Open, StreamOK, EventOK, PageTypeOK, RecordHome,
        PersistHome, ReconnectHome, Own, Shrunk
<1>26. CASE HandleStart
  <2>1. Handle({"start"})
    BY <1>26 DEF HandleStart
  <2>2. /\ Shrunk /\ Head(queue) \in Events /\ Head(queue).kind = "start"
    BY <2>1, Handled DEF PageTypeOK
  <2>3. /\ \A t : ~Waiting("reconnecting", t)'
        /\ EventOK(Head(queue))
        /\ Head(queue).kind # "selected" => Head(queue).task \in Tasks
        /\ \A t : t = Head(queue).task =>
               /\ Queued(t) /\ Waiting(Head(queue).kind, t) /\ ~Waiting("created", t)'
               /\ Head(queue).kind \in Terminal => ~Queued(t)'
               /\ Head(queue).kind \in {"text", "reconnecting"} => ~Waiting("start", t)'
    BY <2>1, HeadFirst
  <2>h. PICK h : h = Head(queue).task
    OBVIOUS
  <2>4. /\ h \in Tasks /\ Busy(h) /\ Waiting("start", h) /\ batch > 0
    BY <2>1, <2>2, <2>3, <2>h DEF Handle, Busy
  <2>5. /\ UNCHANGED <<saved, persist, running, convOf, stream, messages, rejoining>>
        /\ record'.task = h /\ record'.conv = session /\ session' \in {None, session}
    BY <1>26, <2>h DEF HandleStart, Handle, Of
  <2>6. /\ session \in {None, convOf[h], h} /\ running \in {None, session} /\ saved[h] = None
        /\ persist # None => persist.task # h
    BY <2>4 DEF Alone, RunningOwn, StartRunning, EarlyUnsaved
  <2>7. RecordHome'
    BY <2>5, <2>6 DEF RecordHome, HomeOf, Home
  <2>8. \A e \in Evs' : e.kind # "reconnecting"
    <3>1. \A t : Waiting("reconnecting", t)' <=> \E e \in Evs' : e.kind = "reconnecting"
            /\ e.task = t
      BY DEF Waiting, Evs
    <3> QED
      BY <2>3, <3>1
  <2>9. PersistHome' /\ ReconnectHome' /\ Own'
    BY <2>5, <2>8 DEF Homes, PersistHome, ReconnectHome, Own, Belongs
  <2> QED
    BY <2>7, <2>9 DEF Homes
<1>27. CASE HandleText
  <2>1. Handle({"text"})
    BY <1>27 DEF HandleText
  <2>2. /\ Shrunk /\ Head(queue) \in Events /\ Head(queue) \in Evs
        /\ Head(queue).kind \in {"text"}
    BY <2>1, Handled DEF PageTypeOK
  <2>3. /\ \A t : ~Waiting("reconnecting", t)'
        /\ EventOK(Head(queue))
        /\ Head(queue).kind # "selected" => Head(queue).task \in Tasks
        /\ \A t : t = Head(queue).task =>
               /\ Queued(t) /\ Waiting(Head(queue).kind, t) /\ ~Waiting("created", t)'
               /\ Head(queue).kind \in Terminal => ~Queued(t)'
               /\ Head(queue).kind \in {"text", "reconnecting"} => ~Waiting("start", t)'
    BY <2>1, HeadFirst
  <2> QED
    BY SMTT(30), <1>27, <2>2, EventFields, <2>3, <1>0 DEF HandleText, Handle, Idle, Sizes, With,
        Of, MessagesOf, Alone, OneBusy, RunningOwn, CurrentOwn, LockedBusy,
        EarlyRunning, Early, EarlyUnsaved, StartRunning, ReconnectFresh, OrderInv,
        StreamsOK, Named, Homes, HomeOf, Home, Belongs, Busy, Open, StreamOK, EventOK,
        PageTypeOK, RecordHome, PersistHome, ReconnectHome, Own, Shrunk
<1>28. CASE HandleQuestion
  <2>1. Handle({"question"})
    BY <1>28 DEF HandleQuestion
  <2>2. /\ Shrunk /\ Head(queue) \in Events /\ Head(queue) \in Evs
        /\ Head(queue).kind \in {"question"}
    BY <2>1, Handled DEF PageTypeOK
  <2>3. /\ \A t : ~Waiting("reconnecting", t)'
        /\ EventOK(Head(queue))
        /\ Head(queue).kind # "selected" => Head(queue).task \in Tasks
        /\ \A t : t = Head(queue).task =>
               /\ Queued(t) /\ Waiting(Head(queue).kind, t) /\ ~Waiting("created", t)'
               /\ Head(queue).kind \in Terminal => ~Queued(t)'
               /\ Head(queue).kind \in {"text", "reconnecting"} => ~Waiting("start", t)'
    BY <2>1, HeadFirst
  <2> QED
    BY SMTT(30), <1>28, <2>2, EventFields, <2>3, <1>0 DEF HandleQuestion, Handle, Idle, Sizes,
        Alone, OneBusy, RunningOwn, CurrentOwn, LockedBusy, EarlyRunning, Early,
        EarlyUnsaved, StartRunning, ReconnectFresh, OrderInv, StreamsOK, Named, Homes,
        HomeOf, Home, Belongs, Busy, Open, StreamOK, EventOK, PageTypeOK, RecordHome,
        PersistHome, ReconnectHome, Own, Shrunk
<1>29. CASE HandleDone
  <2>1. Handle({"done"})
    BY <1>29 DEF HandleDone
  <2>2. /\ Shrunk /\ Head(queue) \in Events /\ Head(queue) \in Evs
        /\ Head(queue).kind \in {"done"}
    BY <2>1, Handled DEF PageTypeOK
  <2>3. /\ \A t : ~Waiting("reconnecting", t)'
        /\ EventOK(Head(queue))
        /\ Head(queue).kind # "selected" => Head(queue).task \in Tasks
        /\ \A t : t = Head(queue).task =>
               /\ Queued(t) /\ Waiting(Head(queue).kind, t) /\ ~Waiting("created", t)'
               /\ Head(queue).kind \in Terminal => ~Queued(t)'
               /\ Head(queue).kind \in {"text", "reconnecting"} => ~Waiting("start", t)'
    BY <2>1, HeadFirst
  <2> QED
    BY SMTT(60), <1>29, <2>2, EventFields, <2>3, <1>0 DEF HandleDone, Handle, EndTask, Unlock,
        Idle, Sizes, Alone, OneBusy, RunningOwn, CurrentOwn, LockedBusy, EarlyRunning,
        Early, EarlyUnsaved, StartRunning, ReconnectFresh, OrderInv, StreamsOK, Named,
        Homes, HomeOf, Home, Belongs, Busy, Open, StreamOK, EventOK, PageTypeOK,
        RecordHome, PersistHome, ReconnectHome, Own, Shrunk
<1>30. CASE HandleGone
  <2>1. Handle({"gone"})
    BY <1>30 DEF HandleGone
  <2>2. /\ Shrunk /\ Head(queue) \in Events /\ Head(queue) \in Evs
        /\ Head(queue).kind \in {"gone"}
    BY <2>1, Handled DEF PageTypeOK
  <2>3. /\ \A t : ~Waiting("reconnecting", t)'
        /\ EventOK(Head(queue))
        /\ Head(queue).kind # "selected" => Head(queue).task \in Tasks
        /\ \A t : t = Head(queue).task =>
               /\ Queued(t) /\ Waiting(Head(queue).kind, t) /\ ~Waiting("created", t)'
               /\ Head(queue).kind \in Terminal => ~Queued(t)'
               /\ Head(queue).kind \in {"text", "reconnecting"} => ~Waiting("start", t)'
    BY <2>1, HeadFirst
  <2> QED
    BY SMTT(30), <1>30, <2>2, EventFields, <2>3, <1>0 DEF HandleGone, Handle, EndTask, Unlock,
        Idle, Sizes, Alone, OneBusy, RunningOwn, CurrentOwn, LockedBusy, EarlyRunning,
        Early, EarlyUnsaved, StartRunning, ReconnectFresh, OrderInv, StreamsOK, Named,
        Homes, HomeOf, Home, Belongs, Busy, Open, StreamOK, EventOK, PageTypeOK,
        RecordHome, PersistHome, ReconnectHome, Own, Shrunk
<1>31. CASE HandleError
  <2>1. Handle({"error", "neterror"})
    BY <1>31 DEF HandleError
  <2>2. /\ Shrunk /\ Head(queue) \in Events /\ Head(queue) \in Evs
        /\ Head(queue).kind \in {"error", "neterror"}
    BY <2>1, Handled DEF PageTypeOK
  <2>3. /\ \A t : ~Waiting("reconnecting", t)'
        /\ EventOK(Head(queue))
        /\ Head(queue).kind # "selected" => Head(queue).task \in Tasks
        /\ \A t : t = Head(queue).task =>
               /\ Queued(t) /\ Waiting(Head(queue).kind, t) /\ ~Waiting("created", t)'
               /\ Head(queue).kind \in Terminal => ~Queued(t)'
               /\ Head(queue).kind \in {"text", "reconnecting"} => ~Waiting("start", t)'
    BY <2>1, HeadFirst
  <2> QED
    BY SMTT(30), <1>31, <2>2, EventFields, <2>3, <1>0 DEF HandleError, Handle, Unlock, Idle,
        Sizes, With, MessagesOf, Alone, OneBusy, RunningOwn, CurrentOwn, LockedBusy,
        EarlyRunning, Early, EarlyUnsaved, StartRunning, ReconnectFresh, OrderInv,
        StreamsOK, Named, Homes, HomeOf, Home, Belongs, Busy, Open, StreamOK, EventOK,
        PageTypeOK, RecordHome, PersistHome, ReconnectHome, Own, Shrunk
<1>32. CASE HandleReconnecting
  <2>1. Handle({"reconnecting"})
    BY <1>32 DEF HandleReconnecting
  <2>2. /\ Shrunk /\ Head(queue) \in Events /\ Head(queue) \in Evs
        /\ Head(queue).kind \in {"reconnecting"}
    BY <2>1, Handled DEF PageTypeOK
  <2>3. /\ \A t : ~Waiting("reconnecting", t)'
        /\ EventOK(Head(queue))
        /\ Head(queue).kind # "selected" => Head(queue).task \in Tasks
        /\ \A t : t = Head(queue).task =>
               /\ Queued(t) /\ Waiting(Head(queue).kind, t) /\ ~Waiting("created", t)'
               /\ Head(queue).kind \in Terminal => ~Queued(t)'
               /\ Head(queue).kind \in {"text", "reconnecting"} => ~Waiting("start", t)'
    BY <2>1, HeadFirst
  <2>4. RecordHome'
    BY SMTT(30), <1>32, <2>2, EventFields, <2>3, <1>0 DEF HandleReconnecting, Handle, Resume,
        Idle, Sizes, SavedOf, Alone, OneBusy, RunningOwn, CurrentOwn, LockedBusy,
        EarlyRunning, Early, EarlyUnsaved, StartRunning, ReconnectFresh, OrderInv,
        StreamsOK, Named, Homes, HomeOf, Home, Belongs, Busy, Open, StreamOK, EventOK,
        PageTypeOK, RecordHome, PersistHome, ReconnectHome, Own, Shrunk
  <2>5. PersistHome'
    BY SMTT(30), <1>32, <2>2, EventFields, <2>3, <1>0 DEF HandleReconnecting, Handle, Resume,
        Idle, Sizes, SavedOf, Alone, OneBusy, RunningOwn, CurrentOwn, LockedBusy,
        EarlyRunning, Early, EarlyUnsaved, StartRunning, ReconnectFresh, OrderInv,
        StreamsOK, Named, Homes, HomeOf, Home, Belongs, Busy, Open, StreamOK, EventOK,
        PageTypeOK, RecordHome, PersistHome, ReconnectHome, Own, Shrunk
  <2>6. ReconnectHome'
    BY SMTT(30), <1>32, <2>2, EventFields, <2>3, <1>0 DEF HandleReconnecting, Handle, Resume,
        Idle, Sizes, SavedOf, Alone, OneBusy, RunningOwn, CurrentOwn, LockedBusy,
        EarlyRunning, Early, EarlyUnsaved, StartRunning, ReconnectFresh, OrderInv,
        StreamsOK, Named, Homes, HomeOf, Home, Belongs, Busy, Open, StreamOK, EventOK,
        PageTypeOK, RecordHome, PersistHome, ReconnectHome, Own, Shrunk
  <2>7. Own'
    BY SMTT(30), <1>32, <2>2, EventFields, <2>3, <1>0 DEF HandleReconnecting, Handle, Resume,
        Idle, Sizes, SavedOf, Alone, OneBusy, RunningOwn, CurrentOwn, LockedBusy,
        EarlyRunning, Early, EarlyUnsaved, StartRunning, ReconnectFresh, OrderInv,
        StreamsOK, Named, Homes, HomeOf, Home, Belongs, Busy, Open, StreamOK, EventOK,
        PageTypeOK, RecordHome, PersistHome, ReconnectHome, Own, Shrunk
  <2> QED
    BY <2>4, <2>5, <2>6, <2>7 DEF Homes
<1>33. CASE HandleSelected
  <2>1. Handle({"selected"})
    BY <1>33 DEF HandleSelected
  <2>2. /\ Shrunk /\ Head(queue) \in Events /\ Head(queue) \in Evs
        /\ Head(queue).kind \in {"selected"}
    BY <2>1, Handled DEF PageTypeOK
  <2>3. /\ \A t : ~Waiting("reconnecting", t)'
        /\ EventOK(Head(queue))
        /\ Head(queue).kind # "selected" => Head(queue).task \in Tasks
        /\ \A t : t = Head(queue).task =>
               /\ Queued(t) /\ Waiting(Head(queue).kind, t) /\ ~Waiting("created", t)'
               /\ Head(queue).kind \in Terminal => ~Queued(t)'
               /\ Head(queue).kind \in {"text", "reconnecting"} => ~Waiting("start", t)'
    BY <2>1, HeadFirst
  <2> QED
    BY SMTT(30), <1>33, <2>2, EventFields, <2>3, <1>0 DEF HandleSelected, Handle, ShowSelection,
        Idle, Sizes, Alone, OneBusy, RunningOwn, CurrentOwn, LockedBusy, EarlyRunning,
        Early, EarlyUnsaved, StartRunning, ReconnectFresh, OrderInv, StreamsOK, Named,
        Homes, HomeOf, Home, Belongs, Busy, Open, StreamOK, EventOK, PageTypeOK,
        RecordHome, PersistHome, ReconnectHome, Own, Shrunk
<1>34. CASE Flush
  <2>1. Same
    BY <1>34, Unmoved DEF Flush
  <2>2. /\ UNCHANGED <<record, messages, running, session, convOf, stream, rejoining>>
        /\ persist # None /\ persist' = None /\ persist.task \in Tasks
             /\ persist.conv \in ConvIds \cup {None}
        /\ saved' = [saved EXCEPT ![persist.task] = MessagesOf(persist.conv)]
    BY <1>34 DEF Flush, PageTypeOK
  <2>3. \A u \in MessagesOf(persist.conv) : persist.conv # None /\ Belongs(u, persist.conv)
    BY <2>2 DEF MessagesOf, Homes, Own
  <2>4. saved'[persist.task] = MessagesOf(persist.conv)
          /\ \A t \in Tasks \ {persist.task} : saved'[t] = saved[t]
    BY <2>2 DEF PageTypeOK
  <2>5. Own'
    <3>1. persist.conv \in {None, convOf[persist.task], persist.task}
      BY <2>2 DEF Homes, PersistHome
    <3> QED
      BY <2>2, <2>3, <2>4, <3>1 DEF Homes, Own, Belongs
  <2>6. RecordHome'
    BY <2>1, <2>2, <2>3, <2>4 DEF Homes, RecordHome, HomeOf, Home, Belongs, Busy, Open,
        Same, PageTypeOK
  <2>7. \A e \in Evs : e.kind # "reconnecting"
    BY <2>2, <1>0, EventFields, WaitingEvs DEF Alone, ReconnectFresh
  <2>8. PersistHome' /\ ReconnectHome'
    BY <2>1, <2>2, <2>7 DEF PersistHome, ReconnectHome, Same
  <2> QED
    BY <2>5, <2>6, <2>8 DEF Homes
<1>35. ASSUME NEW c \in Convs, Select(c)
      PROVE  Homes'
  <2>1. Same
    BY <1>35, Unmoved DEF Select
  <2> QED
    BY SMTT(30), <1>35, <2>1, <1>0 DEF Select, ShowSelection, Idle, Sizes, Alone, OneBusy,
        RunningOwn, CurrentOwn, LockedBusy, EarlyRunning, Early, EarlyUnsaved,
        StartRunning, ReconnectFresh, OrderInv, StreamsOK, Named, Homes, HomeOf, Home,
        Belongs, Busy, Open, StreamOK, EventOK, PageTypeOK, RecordHome, PersistHome,
        ReconnectHome, Own, Same
<1>36. ASSUME NEW t \in Tasks, NEW from \in ConvIds \cup {None}, NEW gone \in BOOLEAN,
            NEW c \in ConvIds, Sends(t, from, gone, c)
      PROVE  Homes'
  <2>1. Same /\ Idle /\ session = None
    BY <1>36, Unmoved DEF Sends, OnSend, Sizes
  <2>2. \A u \in Tasks \ {t} : ~Busy(u)
    BY <1>36, Zenon DEF Sends, OnSend
  <2>3. stream[t] = "unused" /\ agent[t] = "none" /\ saved[t] = None /\ convOf[t] = None
    BY <1>36, <1>0 DEF Sends, OnSend, StreamOK
  <2>4. /\ convOf' = [convOf EXCEPT ![t] = c] /\ messages' = [messages EXCEPT ![c] = @ \cup {t}]
        /\ stream' = [stream EXCEPT ![t] = "posting"]
        /\ UNCHANGED <<record, saved, session, persist, rejoining>>
    BY <1>36 DEF Sends, OnSend
  <2>5. \A u \in Tasks, d \in ConvIds : Belongs(u, d) => Belongs(u, d)'
    BY <2>3, <2>4 DEF Belongs, PageTypeOK, ConvIds, ChatAssumption
  <2>6. \A u \in Tasks \ {t} : convOf'[u] = convOf[u] /\ ~Busy(u)'
    BY <2>1, <2>2, <2>4 DEF Same, Busy, Open, PageTypeOK
  <2>7. /\ record # None => record.task \in Tasks \ {t} /\ HomeOf \in ConvIds
        /\ persist # None => persist.task \in Tasks \ {t}
    BY <2>3 DEF OrderInv, StreamsOK, Named, HomeOf, Home, PageTypeOK, ConvIds
  <2>8. \A e \in Evs : e.kind = "reconnecting" => e.task \in Tasks \ {t} /\ e.of \in ConvIds
    BY <1>0, <2>3, EventFields DEF EventOK
  <2>9. RecordHome'
    BY <2>4, <2>5, <2>6, <2>7 DEF Homes, RecordHome, HomeOf, Home, PageTypeOK
  <2>10. PersistHome' /\ ReconnectHome'
    BY <2>1, <2>4, <2>5, <2>6, <2>7, <2>8 DEF Homes, PersistHome, ReconnectHome, HomeOf,
        Home, Same, PageTypeOK
  <2>11. \A d \in ConvIds : \A u \in messages'[d] : Belongs(u, d)'
    BY <2>3, <2>4, <2>5 DEF Homes, Own, Belongs, PageTypeOK
  <2>12. \A u \in Tasks : saved'[u] # None => u # t
          /\ \A v \in saved'[u] : \E d \in {convOf'[u], u} : Belongs(v, d)'
    <3> SUFFICES ASSUME NEW u \in Tasks, saved'[u] # None, NEW v \in saved'[u]
                 PROVE  u # t /\ \E d \in {convOf'[u], u} : Belongs(v, d)'
      BY <2>3, <2>4
    <3>1. u # t /\ saved[u] # None /\ v \in saved[u] /\ convOf'[u] = convOf[u] /\ v \in Tasks
      BY <2>3, <2>4, <2>6 DEF PageTypeOK
    <3>2. PICK d \in {convOf[u], u} : Belongs(v, d)
      BY <3>1 DEF Homes, Own
    <3>3. d \in ConvIds
      BY <3>1, <3>2, <1>0 DEF StreamOK, OrderInv, StreamsOK, PageTypeOK, ConvIds
    <3> QED
      BY <2>5, <3>1, <3>2, <3>3
  <2>13. rejoining # None => \A u \in rejoining.tail : Belongs(u, rejoining.conv)'
    <3>1. rejoining # None => rejoining.conv \in ConvIds
            /\ \A u \in rejoining.tail : u \in Tasks
      BY DEF PageTypeOK, ConvIds
    <3> QED
      BY <2>4, <2>5, <3>1 DEF Homes, Own, Belongs
  <2>14. Own'
    BY <2>4, <2>11, <2>12, <2>13 DEF Own
  <2> QED
    BY <2>9, <2>10, <2>14 DEF Homes
<1>37. ASSUME NEW r \in Requests, Answer(r)
      PROVE  Homes'
  <2>1. Same
    BY <1>37, Unmoved DEF Answer
  <2> QED
    BY SMTT(30), <1>37, <2>1, <1>0 DEF Answer, Idle, Sizes, Alone, OneBusy, RunningOwn,
        CurrentOwn, LockedBusy, EarlyRunning, Early, EarlyUnsaved, StartRunning,
        ReconnectFresh, OrderInv, StreamsOK, Named, Homes, HomeOf, Home, Belongs, Busy,
        Open, StreamOK, EventOK, PageTypeOK, RecordHome, PersistHome, ReconnectHome,
        Own, Same
<1>38. CASE NewChat
  <2>1. Same
    BY <1>38, Unmoved DEF NewChat
  <2> QED
    BY SMTT(30), <1>38, <2>1, <1>0 DEF NewChat, ShowSelection, Idle, Sizes, Alone, OneBusy,
        RunningOwn, CurrentOwn, LockedBusy, EarlyRunning, Early, EarlyUnsaved,
        StartRunning, ReconnectFresh, OrderInv, StreamsOK, Named, Homes, HomeOf, Home,
        Belongs, Busy, Open, StreamOK, EventOK, PageTypeOK, RecordHome, PersistHome,
        ReconnectHome, Own, Same
<1>39. CASE Leave
  <2>1. Same
    BY <1>39, Unmoved DEF Leave
  <2> QED
    BY SMTT(30), <1>39, <2>1, <1>0 DEF Leave, FreshChat, Idle, Sizes, Alone, OneBusy, RunningOwn,
        CurrentOwn, LockedBusy, EarlyRunning, Early, EarlyUnsaved, StartRunning,
        ReconnectFresh, OrderInv, StreamsOK, Named, Homes, HomeOf, Home, Belongs, Busy,
        Open, StreamOK, EventOK, PageTypeOK, RecordHome, PersistHome, ReconnectHome,
        Own, Same
<1>40. CASE Return
  <2>1. Event("selected", None, None) \in Events
          /\ queue' = Append(queue, Event("selected", None, None))
    BY <1>40, EventKinds DEF Return
  <2>2. Grown(Event("selected", None, None))
    BY <2>1, Pushed DEF PageTypeOK
  <2> QED
    BY SMTT(30), <1>40, <2>1, <2>2, <1>0 DEF Return, Event, Idle, Sizes, Alone, OneBusy,
        RunningOwn, CurrentOwn, LockedBusy, EarlyRunning, Early, EarlyUnsaved,
        StartRunning, ReconnectFresh, OrderInv, StreamsOK, Named, Homes, HomeOf, Home,
        Belongs, Busy, Open, StreamOK, EventOK, PageTypeOK, RecordHome, PersistHome,
        ReconnectHome, Own, Grown
<1>41. CASE Reload
  <2>1. Emptied \/ Restarted
    BY <1>41, Reloaded DEF PageTypeOK
  <2> QED
    BY SMTT(30), <1>41, <2>1, <1>0 DEF Reload, FreshChat, Event, Idle, Sizes, Alone, OneBusy,
        RunningOwn, CurrentOwn, LockedBusy, EarlyRunning, Early, EarlyUnsaved,
        StartRunning, ReconnectFresh, OrderInv, StreamsOK, Named, Homes, HomeOf, Home,
        Belongs, Busy, Open, StreamOK, EventOK, PageTypeOK, RecordHome, PersistHome,
        ReconnectHome, Own, Emptied, Restarted
<1>42. CASE UNCHANGED pageVars
  <2>1. Same
    BY <1>42, Unmoved DEF pageVars
  <2> QED
    BY SMTT(30), <1>42, <2>1, <1>0 DEF Homes, HomeOf, Home, Belongs, Busy, Open, StreamOK,
        EventOK, PageTypeOK, RecordHome, PersistHome, ReconnectHome, Own, Same, pageVars
<1> QED
  BY <1>11, <1>12, <1>13, <1>14, <1>15, <1>16, <1>17, <1>18, <1>19, <1>20, <1>21, <1>22,
      <1>23, <1>24, <1>25, <1>26, <1>27, <1>28, <1>29, <1>30, <1>31, <1>32, <1>33,
      <1>34, <1>35, <1>36, <1>37, <1>38, <1>39, <1>40, <1>41, <1>42 DEF PageStep, World,
      HandleEvent, User

-----------------------------------------------------------------------------
(* The record and Stop.                                                    *)

\* A task that a page load would lose is on record.
RecordInv ==
    \A t \in Tasks :
        (/\ Open(t) /\ t \notin failed
         /\ stream[t] \in {"hello", "es"} \/ (agent[t] = "running" /\ ~Waiting("start", t)))
            => record # None /\ record.task = t

\* The running conversation names the task that runs.
StopInv ==
    \A t \in Tasks :
        (/\ stream[t] \in {"live", "hello", "es"} /\ running # None
         /\ ~Waiting("created", t) /\ ~Waiting("reconnecting", t))
            => taskOf[running] = t

\* Every step but one that makes queries mixed keeps the running task on
\* record.
LEMMA RecordStep ==
  ASSUME ChatAssumption, TypeInv, OrderInv, Alone, RecordInv, PageStep, ~mixed'
  PROVE  RecordInv'
<1> USE DEF TypeInv
<1>0. /\ \A e \in Evs : EventOK(e) /\ e \in Events
      /\ \A t \in Tasks : StreamOK(t)
  BY EvsTyped DEF OrderInv, StreamsOK, EventsOK, PageTypeOK
<1> USE DEF unheard, storageVars, sharedVars, batchVars, lockVars, chatVars, agentVars,
    worldVars, historyVars
<1>11. ASSUME NEW t \in Tasks, Respond(t)
      PROVE  RecordInv'
  <2>1. Event("created", t, None) \in Events
          /\ queue' = Append(queue, Event("created", t, None)) /\ Len(queue) < MaxQueue
    BY <1>11, EventKinds DEF Respond, Push
  <2>2. Grown(Event("created", t, None))
    BY <2>1, Pushed DEF PageTypeOK
  <2> QED
    BY <1>11, <2>1, <2>2, <1>0 DEF Respond, Push, Event, Idle, Sizes, ChatAssumption,
        RecordInv, Open, Alone, OneBusy, Busy, StreamOK, PageTypeOK, Grown
<1>12. ASSUME NEW t \in Tasks, Break(t)
      PROVE  RecordInv'
  <2>1. Event("neterror", t, None) \in Events
          /\ queue' = Append(queue, Event("neterror", t, None)) /\ Len(queue) < MaxQueue
    BY <1>12, EventKinds DEF Break, Push
  <2>2. Grown(Event("neterror", t, None))
    BY <2>1, Pushed DEF PageTypeOK
  <2> QED
    BY <1>12, <2>1, <2>2, <1>0 DEF Break, Push, Event, Idle, Sizes, ChatAssumption,
        RecordInv, Open, Alone, OneBusy, Busy, StreamOK, PageTypeOK, Grown
<1>13. ASSUME NEW t \in Tasks, EndSilently(t)
      PROVE  RecordInv'
  <2>1. Same
    BY <1>13, Unmoved DEF EndSilently
  <2> QED
    BY <1>13, <2>1, <1>0 DEF EndSilently, Idle, Sizes, ChatAssumption, RecordInv, Open,
        Alone, OneBusy, Busy, StreamOK, PageTypeOK, Same
<1>14. ASSUME NEW t \in Tasks, Rejoin(t)
      PROVE  RecordInv'
  <2>1. \/ queue' = queue /\ record' = record /\ asking[t] = None
        \/ asking[t] # None /\ Event("question", t, asking[t]) \in Events
             /\ queue' = Append(queue, Event("question", t, asking[t]))
             /\ Len(queue) < MaxQueue /\ record' = record
    <3>1. CASE asking[t] = None
      BY <1>14, <3>1 DEF Rejoin
    <3>2. CASE asking[t] # None
      <4>1. Push(Event("question", t, asking[t])) /\ asking[t] \in Requests
        BY <1>14, <3>2 DEF Rejoin, PageTypeOK
      <4> QED
        BY <3>2, <4>1, EventKinds DEF Push
    <3> QED
      BY <3>1, <3>2
  <2>2. CASE queue' = queue /\ record' = record /\ asking[t] = None
    <3>1. Same
      BY <2>2, Unmoved
    <3> QED
      BY <1>14, <2>2, <3>1, <1>0 DEF Rejoin, Event, Idle, Sizes, ChatAssumption,
          RecordInv, Open, Alone, OneBusy, Busy, StreamOK, PageTypeOK, Same
  <2>3. CASE asking[t] # None /\ Event("question", t, asking[t]) \in Events
          /\ queue' = Append(queue, Event("question", t, asking[t]))
          /\ Len(queue) < MaxQueue /\ record' = record
    <3>1. Grown(Event("question", t, asking[t]))
      BY <2>3, Pushed DEF PageTypeOK
    <3> QED
      BY <1>14, <2>3, <3>1, <1>0 DEF Rejoin, Event, Idle, Sizes, ChatAssumption,
          RecordInv, Open, Alone, OneBusy, Busy, StreamOK, PageTypeOK, Grown
  <2> QED
    BY <2>1, <2>2, <2>3
<1>15. ASSUME NEW t \in Tasks, RejoinGone(t)
      PROVE  RecordInv'
  <2>1. Event("gone", t, None) \in Events /\ queue' = Append(queue, Event("gone", t, None))
          /\ Len(queue) < MaxQueue
    BY <1>15, EventKinds DEF RejoinGone, Push
  <2>2. Grown(Event("gone", t, None))
    BY <2>1, Pushed DEF PageTypeOK
  <2> QED
    BY <1>15, <2>1, <2>2, <1>0 DEF RejoinGone, Push, Event, Idle, Sizes, ChatAssumption,
        RecordInv, Open, Alone, OneBusy, Busy, StreamOK, PageTypeOK, Grown
<1>16. ASSUME NEW t \in Tasks, Start(t)
      PROVE  RecordInv'
  <2>1. \/ queue' = queue /\ record' = record /\ stream[t] # "live"
        \/ Listening(t) /\ Event("start", t, None) \in Events
             /\ queue' = Append(queue, Event("start", t, None))
             /\ Len(queue) < MaxQueue /\ record' = record
    BY <1>16, EventKinds DEF Start, Emit, Push, Event
  <2>2. CASE queue' = queue /\ record' = record /\ stream[t] # "live"
    <3>1. Same
      BY <2>2, Unmoved
    <3> QED
      BY <1>16, <2>2, <3>1, <1>0 DEF Start, Emit, Event, Idle, Sizes, ChatAssumption,
          RecordInv, Open, Listening, Alone, OneBusy, Busy, StreamOK, PageTypeOK, Same
  <2>3. CASE Listening(t) /\ Event("start", t, None) \in Events
          /\ queue' = Append(queue, Event("start", t, None))
          /\ Len(queue) < MaxQueue /\ record' = record
    <3>1. Grown(Event("start", t, None))
      BY <2>3, Pushed DEF PageTypeOK
    <3> QED
      BY <1>16, <2>3, <3>1, <1>0 DEF Start, Emit, Event, Idle, Sizes, ChatAssumption,
          RecordInv, Open, Listening, Alone, OneBusy, Busy, StreamOK, PageTypeOK, Grown
  <2> QED
    BY <2>1, <2>2, <2>3
<1>17. ASSUME NEW t \in Tasks, Text(t)
      PROVE  RecordInv'
  <2>1. \/ queue' = queue /\ record' = record /\ stream[t] # "live"
        \/ Listening(t) /\ Event("text", t, None) \in Events
             /\ queue' = Append(queue, Event("text", t, None))
             /\ Len(queue) < MaxQueue /\ record' = record
    BY <1>17, EventKinds DEF Text, Emit, Push, Event
  <2>2. CASE queue' = queue /\ record' = record /\ stream[t] # "live"
    <3>1. Same
      BY <2>2, Unmoved
    <3> QED
      BY <1>17, <2>2, <3>1, <1>0 DEF Text, Emit, Event, Idle, Sizes, ChatAssumption,
          RecordInv, Open, Listening, Alone, OneBusy, Busy, StreamOK, PageTypeOK, Same
  <2>3. CASE Listening(t) /\ Event("text", t, None) \in Events
          /\ queue' = Append(queue, Event("text", t, None))
          /\ Len(queue) < MaxQueue /\ record' = record
    <3>1. Grown(Event("text", t, None))
      BY <2>3, Pushed DEF PageTypeOK
    <3> QED
      BY <1>17, <2>3, <3>1, <1>0 DEF Text, Emit, Event, Idle, Sizes, ChatAssumption,
          RecordInv, Open, Listening, Alone, OneBusy, Busy, StreamOK, PageTypeOK, Grown
  <2> QED
    BY <2>1, <2>2, <2>3
<1>18. ASSUME NEW t \in Tasks, Fail(t)
      PROVE  RecordInv'
  <2>1. \/ queue' = queue /\ record' = record /\ stream[t] # "live"
        \/ Listening(t) /\ Event("error", t, None) \in Events
             /\ queue' = Append(queue, Event("error", t, None))
             /\ Len(queue) < MaxQueue /\ record' = None
    BY <1>18, EventKinds DEF Fail, Emit, Push, Event
  <2>2. CASE queue' = queue /\ record' = record /\ stream[t] # "live"
    <3>1. Same
      BY <2>2, Unmoved
    <3> QED
      BY <1>18, <2>2, <3>1, <1>0 DEF Fail, Emit, Event, Idle, Sizes, ChatAssumption,
          RecordInv, Open, Listening, Alone, OneBusy, Busy, StreamOK, PageTypeOK, Same
  <2>3. CASE Listening(t) /\ Event("error", t, None) \in Events
          /\ queue' = Append(queue, Event("error", t, None))
          /\ Len(queue) < MaxQueue /\ record' = None
    <3>1. Grown(Event("error", t, None))
      BY <2>3, Pushed DEF PageTypeOK
    <3> QED
      BY <1>18, <2>3, <3>1, <1>0 DEF Fail, Emit, Event, Idle, Sizes, ChatAssumption,
          RecordInv, Open, Listening, Alone, OneBusy, Busy, StreamOK, PageTypeOK, Grown
  <2> QED
    BY <2>1, <2>2, <2>3
<1>19. ASSUME NEW t \in Tasks, Finish(t)
      PROVE  RecordInv'
  <2>1. \/ queue' = queue /\ record' = record /\ stream[t] # "live"
        \/ Listening(t) /\ Event("done", t, None) \in Events
             /\ queue' = Append(queue, Event("done", t, None))
             /\ Len(queue) < MaxQueue /\ record' = None
    BY <1>19, EventKinds DEF Finish, Emit, Push, Event
  <2>2. CASE queue' = queue /\ record' = record /\ stream[t] # "live"
    <3>1. Same
      BY <2>2, Unmoved
    <3> QED
      BY <1>19, <2>2, <3>1, <1>0 DEF Finish, Emit, Event, Idle, Sizes, ChatAssumption,
          RecordInv, Open, Listening, Alone, OneBusy, Busy, StreamOK, PageTypeOK, Same
  <2>3. CASE Listening(t) /\ Event("done", t, None) \in Events
          /\ queue' = Append(queue, Event("done", t, None))
          /\ Len(queue) < MaxQueue /\ record' = None
    <3>1. Grown(Event("done", t, None))
      BY <2>3, Pushed DEF PageTypeOK
    <3> QED
      BY <1>19, <2>3, <3>1, <1>0 DEF Finish, Emit, Event, Idle, Sizes, ChatAssumption,
          RecordInv, Open, Listening, Alone, OneBusy, Busy, StreamOK, PageTypeOK, Grown
  <2> QED
    BY <2>1, <2>2, <2>3
<1>20. ASSUME NEW t \in Tasks, NEW r \in Requests, Ask(t, r)
      PROVE  RecordInv'
  <2>1. \/ queue' = queue /\ record' = record /\ stream[t] # "live"
        \/ Listening(t) /\ Event("question", t, r) \in Events
             /\ queue' = Append(queue, Event("question", t, r))
             /\ Len(queue) < MaxQueue /\ record' = record
    BY <1>20, EventKinds DEF Ask, Emit, Push, Event
  <2>2. CASE queue' = queue /\ record' = record /\ stream[t] # "live"
    <3>1. Same
      BY <2>2, Unmoved
    <3> QED
      BY <1>20, <2>2, <3>1, <1>0 DEF Ask, Emit, Event, Idle, Sizes, ChatAssumption,
          RecordInv, Open, Listening, Alone, OneBusy, Busy, StreamOK, PageTypeOK, Same
  <2>3. CASE Listening(t) /\ Event("question", t, r) \in Events
          /\ queue' = Append(queue, Event("question", t, r))
          /\ Len(queue) < MaxQueue /\ record' = record
    <3>1. Grown(Event("question", t, r))
      BY <2>3, Pushed DEF PageTypeOK
    <3> QED
      BY <1>20, <2>3, <3>1, <1>0 DEF Ask, Emit, Event, Idle, Sizes, ChatAssumption,
          RecordInv, Open, Listening, Alone, OneBusy, Busy, StreamOK, PageTypeOK, Grown
  <2> QED
    BY <2>1, <2>2, <2>3
<1>21. ASSUME NEW c \in Convs, HistoryLoaded(c)
      PROVE  RecordInv'
  <2>1. Same
    BY <1>21, Unmoved DEF HistoryLoaded
  <2> QED
    BY <1>21, <2>1, <1>0 DEF HistoryLoaded, Idle, Sizes, ChatAssumption, RecordInv,
        Open, Alone, OneBusy, Busy, StreamOK, PageTypeOK, Same
<1>22. CASE TranscriptLoaded
  <2>1. Same
    BY <1>22, Unmoved DEF TranscriptLoaded
  <2> QED
    BY <1>22, <2>1, <1>0 DEF TranscriptLoaded, Idle, Sizes, ChatAssumption, RecordInv,
        Open, Alone, OneBusy, Busy, StreamOK, PageTypeOK, Same
<1>23. CASE HistoricalLoaded
  <2>1. Same
    BY <1>23, Unmoved DEF HistoricalLoaded
  <2> QED
    BY <1>23, <2>1, <1>0 DEF HistoricalLoaded, Idle, Sizes, ChatAssumption, RecordInv,
        Open, Alone, OneBusy, Busy, StreamOK, PageTypeOK, Same
<1>24. CASE Drain
  <2>1. Same
    BY <1>24, Unmoved DEF Drain
  <2> QED
    BY <1>24, <2>1, <1>0 DEF Drain, Idle, Sizes, ChatAssumption, RecordInv, Open, Alone,
        OneBusy, Busy, StreamOK, PageTypeOK, Same
<1>25. CASE HandleCreated
  <2>1. Handle({"created"})
    BY <1>25 DEF HandleCreated
  <2>2. /\ Shrunk /\ Head(queue) \in Events /\ Head(queue) \in Evs
        /\ Head(queue).kind \in {"created"}
    BY <2>1, Handled DEF PageTypeOK
  <2>3. /\ \A t : ~Waiting("reconnecting", t)'
        /\ EventOK(Head(queue))
        /\ Head(queue).kind # "selected" => Head(queue).task \in Tasks
        /\ \A t : t = Head(queue).task =>
               /\ Queued(t) /\ Waiting(Head(queue).kind, t) /\ ~Waiting("created", t)'
               /\ Head(queue).kind \in Terminal => ~Queued(t)'
               /\ Head(queue).kind \in {"text", "reconnecting"} => ~Waiting("start", t)'
    BY <2>1, HeadFirst
  <2> QED
    BY <1>25, <2>2, EventFields, <2>3, <1>0 DEF HandleCreated, Handle, Idle, Sizes,
        ChatAssumption, RecordInv, Open, Alone, OneBusy, Busy, StreamOK, PageTypeOK,
        Shrunk
<1>26. CASE HandleStart
  <2>1. Handle({"start"})
    BY <1>26 DEF HandleStart
  <2>2. /\ Shrunk /\ Head(queue) \in Events /\ Head(queue).kind = "start"
    BY <2>1, Handled DEF PageTypeOK
  <2>3. /\ \A t : ~Waiting("reconnecting", t)'
        /\ EventOK(Head(queue))
        /\ Head(queue).kind # "selected" => Head(queue).task \in Tasks
        /\ \A t : t = Head(queue).task =>
               /\ Queued(t) /\ Waiting(Head(queue).kind, t) /\ ~Waiting("created", t)'
               /\ Head(queue).kind \in Terminal => ~Queued(t)'
               /\ Head(queue).kind \in {"text", "reconnecting"} => ~Waiting("start", t)'
    BY <2>1, HeadFirst
  <2>h. PICK h : h = Head(queue).task
    OBVIOUS
  <2>4. h \in Tasks /\ Busy(h)
    BY <2>2, <2>3, <2>h DEF Busy
  <2>5. UNCHANGED <<stream, agent, failed>> /\ record' = Of(h, session)
    BY <1>26, <2>h DEF HandleStart, Handle
  <2>6. record' # None /\ record'.task = h
    <3>1. Of(h, session) \in [task : Tasks, conv : Tasks \cup Convs \cup {None}]
      BY <2>4 DEF Of, PageTypeOK, ConvIds
    <3> QED
      BY <2>5, <3>1 DEF ChatAssumption, Of
  <2>7. \A t \in Tasks : Open(t)' => t = h
    BY <2>4, <2>5 DEF Alone, OneBusy, Busy, Open
  <2> QED
    BY <2>6, <2>7 DEF RecordInv
<1>27. CASE HandleText
  <2>1. Handle({"text"})
    BY <1>27 DEF HandleText
  <2>2. /\ Shrunk /\ Head(queue) \in Events /\ Head(queue) \in Evs
        /\ Head(queue).kind \in {"text"}
    BY <2>1, Handled DEF PageTypeOK
  <2>3. /\ \A t : ~Waiting("reconnecting", t)'
        /\ EventOK(Head(queue))
        /\ Head(queue).kind # "selected" => Head(queue).task \in Tasks
        /\ \A t : t = Head(queue).task =>
               /\ Queued(t) /\ Waiting(Head(queue).kind, t) /\ ~Waiting("created", t)'
               /\ Head(queue).kind \in Terminal => ~Queued(t)'
               /\ Head(queue).kind \in {"text", "reconnecting"} => ~Waiting("start", t)'
    BY <2>1, HeadFirst
  <2> QED
    BY <1>27, <2>2, EventFields, <2>3, <1>0 DEF HandleText, Handle, Idle, Sizes, Of,
        ChatAssumption, RecordInv, Open, Alone, OneBusy, Busy, StreamOK, PageTypeOK,
        Shrunk
<1>28. CASE HandleQuestion
  <2>1. Handle({"question"})
    BY <1>28 DEF HandleQuestion
  <2>2. /\ Shrunk /\ Head(queue) \in Events /\ Head(queue) \in Evs
        /\ Head(queue).kind \in {"question"}
    BY <2>1, Handled DEF PageTypeOK
  <2>3. /\ \A t : ~Waiting("reconnecting", t)'
        /\ EventOK(Head(queue))
        /\ Head(queue).kind # "selected" => Head(queue).task \in Tasks
        /\ \A t : t = Head(queue).task =>
               /\ Queued(t) /\ Waiting(Head(queue).kind, t) /\ ~Waiting("created", t)'
               /\ Head(queue).kind \in Terminal => ~Queued(t)'
               /\ Head(queue).kind \in {"text", "reconnecting"} => ~Waiting("start", t)'
    BY <2>1, HeadFirst
  <2> QED
    BY <1>28, <2>2, EventFields, <2>3, <1>0 DEF HandleQuestion, Handle, Idle, Sizes,
        ChatAssumption, RecordInv, Open, Alone, OneBusy, Busy, StreamOK, PageTypeOK,
        Shrunk
<1>29. CASE HandleDone
  <2>1. Handle({"done"})
    BY <1>29 DEF HandleDone
  <2>2. /\ Shrunk /\ Head(queue) \in Events /\ Head(queue) \in Evs
        /\ Head(queue).kind \in {"done"}
    BY <2>1, Handled DEF PageTypeOK
  <2>3. /\ \A t : ~Waiting("reconnecting", t)'
        /\ EventOK(Head(queue))
        /\ Head(queue).kind # "selected" => Head(queue).task \in Tasks
        /\ \A t : t = Head(queue).task =>
               /\ Queued(t) /\ Waiting(Head(queue).kind, t) /\ ~Waiting("created", t)'
               /\ Head(queue).kind \in Terminal => ~Queued(t)'
               /\ Head(queue).kind \in {"text", "reconnecting"} => ~Waiting("start", t)'
    BY <2>1, HeadFirst
  <2> QED
    BY <1>29, <2>2, EventFields, <2>3, <1>0 DEF HandleDone, Handle, EndTask, Unlock,
        Idle, Sizes, ChatAssumption, RecordInv, Open, Alone, OneBusy, Busy, StreamOK,
        PageTypeOK, Shrunk
<1>30. CASE HandleGone
  <2>1. Handle({"gone"})
    BY <1>30 DEF HandleGone
  <2>2. /\ Shrunk /\ Head(queue) \in Events /\ Head(queue) \in Evs
        /\ Head(queue).kind \in {"gone"}
    BY <2>1, Handled DEF PageTypeOK
  <2>3. /\ \A t : ~Waiting("reconnecting", t)'
        /\ EventOK(Head(queue))
        /\ Head(queue).kind # "selected" => Head(queue).task \in Tasks
        /\ \A t : t = Head(queue).task =>
               /\ Queued(t) /\ Waiting(Head(queue).kind, t) /\ ~Waiting("created", t)'
               /\ Head(queue).kind \in Terminal => ~Queued(t)'
               /\ Head(queue).kind \in {"text", "reconnecting"} => ~Waiting("start", t)'
    BY <2>1, HeadFirst
  <2> QED
    BY <1>30, <2>2, EventFields, <2>3, <1>0 DEF HandleGone, Handle, EndTask, Unlock,
        Idle, Sizes, ChatAssumption, RecordInv, Open, Alone, OneBusy, Busy, StreamOK,
        PageTypeOK, Shrunk
<1>31. CASE HandleError
  <2>1. Handle({"error", "neterror"})
    BY <1>31 DEF HandleError
  <2>2. /\ Shrunk /\ Head(queue) \in Events /\ Head(queue) \in Evs
        /\ Head(queue).kind \in {"error", "neterror"}
    BY <2>1, Handled DEF PageTypeOK
  <2>3. /\ \A t : ~Waiting("reconnecting", t)'
        /\ EventOK(Head(queue))
        /\ Head(queue).kind # "selected" => Head(queue).task \in Tasks
        /\ \A t : t = Head(queue).task =>
               /\ Queued(t) /\ Waiting(Head(queue).kind, t) /\ ~Waiting("created", t)'
               /\ Head(queue).kind \in Terminal => ~Queued(t)'
               /\ Head(queue).kind \in {"text", "reconnecting"} => ~Waiting("start", t)'
    BY <2>1, HeadFirst
  <2> QED
    BY <1>31, <2>2, EventFields, <2>3, <1>0 DEF HandleError, Handle, Unlock, Idle,
        Sizes, ChatAssumption, RecordInv, Open, Alone, OneBusy, Busy, StreamOK,
        PageTypeOK, Shrunk
<1>32. CASE HandleReconnecting
  <2>1. Handle({"reconnecting"})
    BY <1>32 DEF HandleReconnecting
  <2>2. /\ Shrunk /\ Head(queue) \in Events /\ Head(queue) \in Evs
        /\ Head(queue).kind \in {"reconnecting"}
    BY <2>1, Handled DEF PageTypeOK
  <2>3. /\ \A t : ~Waiting("reconnecting", t)'
        /\ EventOK(Head(queue))
        /\ Head(queue).kind # "selected" => Head(queue).task \in Tasks
        /\ \A t : t = Head(queue).task =>
               /\ Queued(t) /\ Waiting(Head(queue).kind, t) /\ ~Waiting("created", t)'
               /\ Head(queue).kind \in Terminal => ~Queued(t)'
               /\ Head(queue).kind \in {"text", "reconnecting"} => ~Waiting("start", t)'
    BY <2>1, HeadFirst
  <2> QED
    BY SMTT(30), <1>32, <2>2, EventFields, <2>3, <1>0 DEF HandleReconnecting, Handle, Resume,
        Idle, Sizes, ChatAssumption, RecordInv, Open, Alone, OneBusy, Busy, StreamOK,
        PageTypeOK, Shrunk
<1>33. CASE HandleSelected
  <2>1. Handle({"selected"})
    BY <1>33 DEF HandleSelected
  <2>2. /\ Shrunk /\ Head(queue) \in Events /\ Head(queue) \in Evs
        /\ Head(queue).kind \in {"selected"}
    BY <2>1, Handled DEF PageTypeOK
  <2>3. /\ \A t : ~Waiting("reconnecting", t)'
        /\ EventOK(Head(queue))
        /\ Head(queue).kind # "selected" => Head(queue).task \in Tasks
        /\ \A t : t = Head(queue).task =>
               /\ Queued(t) /\ Waiting(Head(queue).kind, t) /\ ~Waiting("created", t)'
               /\ Head(queue).kind \in Terminal => ~Queued(t)'
               /\ Head(queue).kind \in {"text", "reconnecting"} => ~Waiting("start", t)'
    BY <2>1, HeadFirst
  <2> QED
    BY <1>33, <2>2, EventFields, <2>3, <1>0 DEF HandleSelected, Handle, ShowSelection,
        Idle, Sizes, ChatAssumption, RecordInv, Open, Alone, OneBusy, Busy, StreamOK,
        PageTypeOK, Shrunk
<1>34. CASE Flush
  <2>1. Same
    BY <1>34, Unmoved DEF Flush
  <2> QED
    BY <1>34, <2>1, <1>0 DEF Flush, Idle, Sizes, ChatAssumption, RecordInv, Open, Alone,
        OneBusy, Busy, StreamOK, PageTypeOK, Same
<1>35. ASSUME NEW c \in Convs, Select(c)
      PROVE  RecordInv'
  <2>1. Same
    BY <1>35, Unmoved DEF Select
  <2> QED
    BY <1>35, <2>1, <1>0 DEF Select, ShowSelection, Idle, Sizes, ChatAssumption,
        RecordInv, Open, Alone, OneBusy, Busy, StreamOK, PageTypeOK, Same
<1>36. ASSUME NEW t \in Tasks, NEW from \in ConvIds \cup {None}, NEW gone \in BOOLEAN,
            NEW c \in ConvIds, Sends(t, from, gone, c)
      PROVE  RecordInv'
  <2>1. Same
    BY <1>36, Unmoved DEF Sends, OnSend
  <2> QED
    BY <1>36, <2>1, <1>0 DEF Sends, OnSend, CanSend, ShowSelection, Idle, Sizes, ChatAssumption,
        RecordInv, Open, Alone, OneBusy, Busy, StreamOK, PageTypeOK, Same
<1>37. ASSUME NEW r \in Requests, Answer(r)
      PROVE  RecordInv'
  <2>1. Same
    BY <1>37, Unmoved DEF Answer
  <2> QED
    BY <1>37, <2>1, <1>0 DEF Answer, Idle, Sizes, ChatAssumption, RecordInv, Open,
        Alone, OneBusy, Busy, StreamOK, PageTypeOK, Same
<1>38. CASE NewChat
  <2>1. Same
    BY <1>38, Unmoved DEF NewChat
  <2> QED
    BY <1>38, <2>1, <1>0 DEF NewChat, ShowSelection, Idle, Sizes, ChatAssumption,
        RecordInv, Open, Alone, OneBusy, Busy, StreamOK, PageTypeOK, Same
<1>39. CASE Leave
  <2>1. Same
    BY <1>39, Unmoved DEF Leave
  <2> QED
    BY <1>39, <2>1, <1>0 DEF Leave, FreshChat, Idle, Sizes, ChatAssumption, RecordInv,
        Open, Alone, OneBusy, Busy, StreamOK, PageTypeOK, Same
<1>40. CASE Return
  <2>1. Event("selected", None, None) \in Events
          /\ queue' = Append(queue, Event("selected", None, None))
    BY <1>40, EventKinds DEF Return
  <2>2. Grown(Event("selected", None, None))
    BY <2>1, Pushed DEF PageTypeOK
  <2> QED
    BY <1>40, <2>1, <2>2, <1>0 DEF Return, Event, Idle, Sizes, ChatAssumption,
        RecordInv, Open, Alone, OneBusy, Busy, StreamOK, PageTypeOK, Grown
<1>41. CASE Reload
  <2>1. record' = record
    BY <1>41 DEF Reload
  <2>2. \A t \in Tasks : Open(t)' => record # None /\ t = record.task
    <3>1. CASE record = None
      BY <1>41, <3>1 DEF Reload, Open, PageTypeOK
    <3>2. CASE record # None
      <4>1. \A t \in Tasks : t # record.task => stream'[t] = IF Open(t) THEN "closed" ELSE stream[t]
        BY ZenonT(30), <1>41, <3>2 DEF Reload, PageTypeOK
      <4> QED
        BY <3>2, <4>1 DEF Open
    <3> QED
      BY <3>1, <3>2
  <2> QED
    BY <2>1, <2>2 DEF RecordInv
<1>42. CASE UNCHANGED pageVars
  <2>1. Same
    BY <1>42, Unmoved DEF pageVars
  <2> QED
    BY <1>42, <2>1, <1>0 DEF RecordInv, Open, Alone, OneBusy, Busy, StreamOK,
        PageTypeOK, Same, pageVars
<1> QED
  BY <1>11, <1>12, <1>13, <1>14, <1>15, <1>16, <1>17, <1>18, <1>19, <1>20, <1>21, <1>22,
      <1>23, <1>24, <1>25, <1>26, <1>27, <1>28, <1>29, <1>30, <1>31, <1>32, <1>33,
      <1>34, <1>35, <1>36, <1>37, <1>38, <1>39, <1>40, <1>41, <1>42 DEF PageStep, World,
      HandleEvent, User

\* Every step but one that makes queries mixed keeps Stop naming it.
LEMMA StopStep ==
  ASSUME ChatAssumption, TypeInv, OrderInv, Alone, Homes, StopInv, PageStep, ~mixed'
  PROVE  StopInv'
<1> USE DEF TypeInv
<1>0. /\ \A e \in Evs : EventOK(e) /\ e \in Events
      /\ \A t \in Tasks : StreamOK(t)
  BY EvsTyped DEF OrderInv, StreamsOK, EventsOK, PageTypeOK
<1> USE DEF unheard, storageVars, sharedVars, batchVars, lockVars, chatVars, agentVars,
    worldVars, historyVars
<1>11. ASSUME NEW t \in Tasks, Respond(t)
      PROVE  StopInv'
  <2>1. Event("created", t, None) \in Events
          /\ queue' = Append(queue, Event("created", t, None)) /\ Len(queue) < MaxQueue
    BY <1>11, EventKinds DEF Respond, Push
  <2>2. Grown(Event("created", t, None))
    BY <2>1, Pushed DEF PageTypeOK
  <2> QED
    BY SMTT(30), <1>11, <2>1, <2>2, <1>0 DEF Respond, Push, Event, Idle, Sizes, ChatAssumption,
        StopInv, Open, Alone, OneBusy, EarlyRunning, Early, RunningOwn, Busy, StreamOK,
        EventOK, PageTypeOK, Grown
<1>12. ASSUME NEW t \in Tasks, Break(t)
      PROVE  StopInv'
  <2>1. Event("neterror", t, None) \in Events
          /\ queue' = Append(queue, Event("neterror", t, None)) /\ Len(queue) < MaxQueue
    BY <1>12, EventKinds DEF Break, Push
  <2>2. Grown(Event("neterror", t, None))
    BY <2>1, Pushed DEF PageTypeOK
  <2> QED
    BY SMTT(30), <1>12, <2>1, <2>2, <1>0 DEF Break, Push, Event, Idle, Sizes, ChatAssumption,
        StopInv, Open, Alone, OneBusy, EarlyRunning, Early, RunningOwn, Busy, StreamOK,
        EventOK, PageTypeOK, Grown
<1>13. ASSUME NEW t \in Tasks, EndSilently(t)
      PROVE  StopInv'
  <2>1. Same
    BY <1>13, Unmoved DEF EndSilently
  <2> QED
    BY <1>13, <2>1, <1>0 DEF EndSilently, Idle, Sizes, ChatAssumption, StopInv, Open,
        Alone, OneBusy, EarlyRunning, Early, RunningOwn, Busy, StreamOK, EventOK,
        PageTypeOK, Same
<1>14. ASSUME NEW t \in Tasks, Rejoin(t)
      PROVE  StopInv'
  <2>1. \/ queue' = queue /\ record' = record /\ asking[t] = None
        \/ asking[t] # None /\ Event("question", t, asking[t]) \in Events
             /\ queue' = Append(queue, Event("question", t, asking[t]))
             /\ Len(queue) < MaxQueue /\ record' = record
    <3>1. CASE asking[t] = None
      BY <1>14, <3>1 DEF Rejoin
    <3>2. CASE asking[t] # None
      <4>1. Push(Event("question", t, asking[t])) /\ asking[t] \in Requests
        BY <1>14, <3>2 DEF Rejoin, PageTypeOK
      <4> QED
        BY <3>2, <4>1, EventKinds DEF Push
    <3> QED
      BY <3>1, <3>2
  <2>2. CASE queue' = queue /\ record' = record /\ asking[t] = None
    <3>1. Same
      BY <2>2, Unmoved
    <3> QED
      BY SMTT(30), <1>14, <2>2, <3>1, <1>0 DEF Rejoin, Event, Idle, Sizes, ChatAssumption,
          StopInv, Open, Alone, OneBusy, EarlyRunning, Early, RunningOwn, Busy,
          StreamOK, EventOK, PageTypeOK, Same
  <2>3. CASE asking[t] # None /\ Event("question", t, asking[t]) \in Events
          /\ queue' = Append(queue, Event("question", t, asking[t]))
          /\ Len(queue) < MaxQueue /\ record' = record
    <3>1. Grown(Event("question", t, asking[t]))
      BY <2>3, Pushed DEF PageTypeOK
    <3> QED
      BY SMTT(30), <1>14, <2>3, <3>1, <1>0 DEF Rejoin, Event, Idle, Sizes, ChatAssumption,
          StopInv, Open, Alone, OneBusy, EarlyRunning, Early, RunningOwn, Busy,
          StreamOK, EventOK, PageTypeOK, Grown
  <2> QED
    BY <2>1, <2>2, <2>3
<1>15. ASSUME NEW t \in Tasks, RejoinGone(t)
      PROVE  StopInv'
  <2>1. Event("gone", t, None) \in Events /\ queue' = Append(queue, Event("gone", t, None))
          /\ Len(queue) < MaxQueue
    BY <1>15, EventKinds DEF RejoinGone, Push
  <2>2. Grown(Event("gone", t, None))
    BY <2>1, Pushed DEF PageTypeOK
  <2> QED
    BY SMTT(30), <1>15, <2>1, <2>2, <1>0 DEF RejoinGone, Push, Event, Idle, Sizes, ChatAssumption,
        StopInv, Open, Alone, OneBusy, EarlyRunning, Early, RunningOwn, Busy, StreamOK,
        EventOK, PageTypeOK, Grown
<1>16. ASSUME NEW t \in Tasks, Start(t)
      PROVE  StopInv'
  <2>1. \/ queue' = queue /\ record' = record /\ stream[t] # "live"
        \/ Listening(t) /\ Event("start", t, None) \in Events
             /\ queue' = Append(queue, Event("start", t, None))
             /\ Len(queue) < MaxQueue /\ record' = record
    BY <1>16, EventKinds DEF Start, Emit, Push, Event
  <2>2. CASE queue' = queue /\ record' = record /\ stream[t] # "live"
    <3>1. Same
      BY <2>2, Unmoved
    <3> QED
      BY <1>16, <2>2, <3>1, <1>0 DEF Start, Emit, Event, Idle, Sizes, ChatAssumption,
          StopInv, Open, Listening, Alone, OneBusy, EarlyRunning, Early, RunningOwn,
          Busy, StreamOK, EventOK, PageTypeOK, Same
  <2>3. CASE Listening(t) /\ Event("start", t, None) \in Events
          /\ queue' = Append(queue, Event("start", t, None))
          /\ Len(queue) < MaxQueue /\ record' = record
    <3>1. Grown(Event("start", t, None))
      BY <2>3, Pushed DEF PageTypeOK
    <3> QED
      BY <1>16, <2>3, <3>1, <1>0 DEF Start, Emit, Event, Idle, Sizes, ChatAssumption,
          StopInv, Open, Listening, Alone, OneBusy, EarlyRunning, Early, RunningOwn,
          Busy, StreamOK, EventOK, PageTypeOK, Grown
  <2> QED
    BY <2>1, <2>2, <2>3
<1>17. ASSUME NEW t \in Tasks, Text(t)
      PROVE  StopInv'
  <2>1. \/ queue' = queue /\ record' = record /\ stream[t] # "live"
        \/ Listening(t) /\ Event("text", t, None) \in Events
             /\ queue' = Append(queue, Event("text", t, None))
             /\ Len(queue) < MaxQueue /\ record' = record
    BY <1>17, EventKinds DEF Text, Emit, Push, Event
  <2>2. CASE queue' = queue /\ record' = record /\ stream[t] # "live"
    <3>1. Same
      BY <2>2, Unmoved
    <3> QED
      BY <1>17, <2>2, <3>1, <1>0 DEF Text, Emit, Event, Idle, Sizes, ChatAssumption,
          StopInv, Open, Listening, Alone, OneBusy, EarlyRunning, Early, RunningOwn,
          Busy, StreamOK, EventOK, PageTypeOK, Same
  <2>3. CASE Listening(t) /\ Event("text", t, None) \in Events
          /\ queue' = Append(queue, Event("text", t, None))
          /\ Len(queue) < MaxQueue /\ record' = record
    <3>1. Grown(Event("text", t, None))
      BY <2>3, Pushed DEF PageTypeOK
    <3> QED
      BY <1>17, <2>3, <3>1, <1>0 DEF Text, Emit, Event, Idle, Sizes, ChatAssumption,
          StopInv, Open, Listening, Alone, OneBusy, EarlyRunning, Early, RunningOwn,
          Busy, StreamOK, EventOK, PageTypeOK, Grown
  <2> QED
    BY <2>1, <2>2, <2>3
<1>18. ASSUME NEW t \in Tasks, Fail(t)
      PROVE  StopInv'
  <2>1. \/ queue' = queue /\ record' = record /\ stream[t] # "live"
        \/ Listening(t) /\ Event("error", t, None) \in Events
             /\ queue' = Append(queue, Event("error", t, None))
             /\ Len(queue) < MaxQueue /\ record' = None
    BY <1>18, EventKinds DEF Fail, Emit, Push, Event
  <2>2. CASE queue' = queue /\ record' = record /\ stream[t] # "live"
    <3>1. Same
      BY <2>2, Unmoved
    <3> QED
      BY <1>18, <2>2, <3>1, <1>0 DEF Fail, Emit, Event, Idle, Sizes, ChatAssumption,
          StopInv, Open, Listening, Alone, OneBusy, EarlyRunning, Early, RunningOwn,
          Busy, StreamOK, EventOK, PageTypeOK, Same
  <2>3. CASE Listening(t) /\ Event("error", t, None) \in Events
          /\ queue' = Append(queue, Event("error", t, None))
          /\ Len(queue) < MaxQueue /\ record' = None
    <3>1. Grown(Event("error", t, None))
      BY <2>3, Pushed DEF PageTypeOK
    <3> QED
      BY <1>18, <2>3, <3>1, <1>0 DEF Fail, Emit, Event, Idle, Sizes, ChatAssumption,
          StopInv, Open, Listening, Alone, OneBusy, EarlyRunning, Early, RunningOwn,
          Busy, StreamOK, EventOK, PageTypeOK, Grown
  <2> QED
    BY <2>1, <2>2, <2>3
<1>19. ASSUME NEW t \in Tasks, Finish(t)
      PROVE  StopInv'
  <2>1. \/ queue' = queue /\ record' = record /\ stream[t] # "live"
        \/ Listening(t) /\ Event("done", t, None) \in Events
             /\ queue' = Append(queue, Event("done", t, None))
             /\ Len(queue) < MaxQueue /\ record' = None
    BY <1>19, EventKinds DEF Finish, Emit, Push, Event
  <2>2. CASE queue' = queue /\ record' = record /\ stream[t] # "live"
    <3>1. Same
      BY <2>2, Unmoved
    <3> QED
      BY <1>19, <2>2, <3>1, <1>0 DEF Finish, Emit, Event, Idle, Sizes, ChatAssumption,
          StopInv, Open, Listening, Alone, OneBusy, EarlyRunning, Early, RunningOwn,
          Busy, StreamOK, EventOK, PageTypeOK, Same
  <2>3. CASE Listening(t) /\ Event("done", t, None) \in Events
          /\ queue' = Append(queue, Event("done", t, None))
          /\ Len(queue) < MaxQueue /\ record' = None
    <3>1. Grown(Event("done", t, None))
      BY <2>3, Pushed DEF PageTypeOK
    <3> QED
      BY SMTT(30), <1>19, <2>3, <3>1, <1>0 DEF Finish, Emit, Event, Idle, Sizes, ChatAssumption,
          StopInv, Open, Listening, Alone, OneBusy, EarlyRunning, Early, RunningOwn,
          Busy, StreamOK, EventOK, PageTypeOK, Grown
  <2> QED
    BY <2>1, <2>2, <2>3
<1>20. ASSUME NEW t \in Tasks, NEW r \in Requests, Ask(t, r)
      PROVE  StopInv'
  <2>1. \/ queue' = queue /\ record' = record /\ stream[t] # "live"
        \/ Listening(t) /\ Event("question", t, r) \in Events
             /\ queue' = Append(queue, Event("question", t, r))
             /\ Len(queue) < MaxQueue /\ record' = record
    BY <1>20, EventKinds DEF Ask, Emit, Push, Event
  <2>2. CASE queue' = queue /\ record' = record /\ stream[t] # "live"
    <3>1. Same
      BY <2>2, Unmoved
    <3> QED
      BY <1>20, <2>2, <3>1, <1>0 DEF Ask, Emit, Event, Idle, Sizes, ChatAssumption,
          StopInv, Open, Listening, Alone, OneBusy, EarlyRunning, Early, RunningOwn,
          Busy, StreamOK, EventOK, PageTypeOK, Same
  <2>3. CASE Listening(t) /\ Event("question", t, r) \in Events
          /\ queue' = Append(queue, Event("question", t, r))
          /\ Len(queue) < MaxQueue /\ record' = record
    <3>1. Grown(Event("question", t, r))
      BY <2>3, Pushed DEF PageTypeOK
    <3> QED
      BY <1>20, <2>3, <3>1, <1>0 DEF Ask, Emit, Event, Idle, Sizes, ChatAssumption,
          StopInv, Open, Listening, Alone, OneBusy, EarlyRunning, Early, RunningOwn,
          Busy, StreamOK, EventOK, PageTypeOK, Grown
  <2> QED
    BY <2>1, <2>2, <2>3
<1>21. ASSUME NEW c \in Convs, HistoryLoaded(c)
      PROVE  StopInv'
  <2>1. Same
    BY <1>21, Unmoved DEF HistoryLoaded
  <2> QED
    BY <1>21, <2>1, <1>0 DEF HistoryLoaded, Idle, Sizes, ChatAssumption, StopInv, Open,
        Alone, OneBusy, EarlyRunning, Early, RunningOwn, Busy, StreamOK, EventOK,
        PageTypeOK, Same
<1>22. CASE TranscriptLoaded
  <2>1. Same
    BY <1>22, Unmoved DEF TranscriptLoaded
  <2> QED
    BY <1>22, <2>1, <1>0 DEF TranscriptLoaded, Idle, Sizes, ChatAssumption, StopInv,
        Open, Alone, OneBusy, EarlyRunning, Early, RunningOwn, Busy, StreamOK, EventOK,
        PageTypeOK, Same
<1>23. CASE HistoricalLoaded
  <2>1. Same
    BY <1>23, Unmoved DEF HistoricalLoaded
  <2> QED
    BY <1>23, <2>1, <1>0 DEF HistoricalLoaded, Idle, Sizes, ChatAssumption, StopInv,
        Open, Alone, OneBusy, EarlyRunning, Early, RunningOwn, Busy, StreamOK, EventOK,
        PageTypeOK, Same
<1>24. CASE Drain
  <2>1. Same
    BY <1>24, Unmoved DEF Drain
  <2> QED
    BY <1>24, <2>1, <1>0 DEF Drain, Idle, Sizes, ChatAssumption, StopInv, Open, Alone,
        OneBusy, EarlyRunning, Early, RunningOwn, Busy, StreamOK, EventOK, PageTypeOK,
        Same
<1>25. CASE HandleCreated
  <2>1. Handle({"created"})
    BY <1>25 DEF HandleCreated
  <2>2. /\ Shrunk /\ Head(queue) \in Events /\ Head(queue) \in Evs
        /\ Head(queue).kind \in {"created"}
    BY <2>1, Handled DEF PageTypeOK
  <2>3. /\ \A t : ~Waiting("reconnecting", t)'
        /\ EventOK(Head(queue))
        /\ Head(queue).kind # "selected" => Head(queue).task \in Tasks
        /\ \A t : t = Head(queue).task =>
               /\ Queued(t) /\ Waiting(Head(queue).kind, t) /\ ~Waiting("created", t)'
               /\ Head(queue).kind \in Terminal => ~Queued(t)'
               /\ Head(queue).kind \in {"text", "reconnecting"} => ~Waiting("start", t)'
    BY <2>1, HeadFirst
  <2> QED
    BY SMTT(30), <1>25, <2>2, EventFields, <2>3, <1>0 DEF HandleCreated, Handle, Idle, Sizes,
        With, ChatAssumption, StopInv, Open, Alone, OneBusy, EarlyRunning, Early,
        RunningOwn, Busy, StreamOK, EventOK, PageTypeOK, Shrunk
<1>26. CASE HandleStart
  <2>1. Handle({"start"})
    BY <1>26 DEF HandleStart
  <2>2. /\ Shrunk /\ Head(queue) \in Events /\ Head(queue) \in Evs
        /\ Head(queue).kind \in {"start"}
    BY <2>1, Handled DEF PageTypeOK
  <2>3. /\ \A t : ~Waiting("reconnecting", t)'
        /\ EventOK(Head(queue))
        /\ Head(queue).kind # "selected" => Head(queue).task \in Tasks
        /\ \A t : t = Head(queue).task =>
               /\ Queued(t) /\ Waiting(Head(queue).kind, t) /\ ~Waiting("created", t)'
               /\ Head(queue).kind \in Terminal => ~Queued(t)'
               /\ Head(queue).kind \in {"text", "reconnecting"} => ~Waiting("start", t)'
    BY <2>1, HeadFirst
  <2> QED
    BY SMTT(30), <1>26, <2>2, EventFields, <2>3, <1>0 DEF HandleStart, Handle, Idle, Sizes, Of,
        With, ChatAssumption, StopInv, Open, Alone, OneBusy, EarlyRunning, Early,
        RunningOwn, Busy, StreamOK, EventOK, PageTypeOK, Shrunk
<1>27. CASE HandleText
  <2>1. Handle({"text"})
    BY <1>27 DEF HandleText
  <2>2. /\ Shrunk /\ Head(queue) \in Events /\ Head(queue) \in Evs
        /\ Head(queue).kind \in {"text"}
    BY <2>1, Handled DEF PageTypeOK
  <2>3. /\ \A t : ~Waiting("reconnecting", t)'
        /\ EventOK(Head(queue))
        /\ Head(queue).kind # "selected" => Head(queue).task \in Tasks
        /\ \A t : t = Head(queue).task =>
               /\ Queued(t) /\ Waiting(Head(queue).kind, t) /\ ~Waiting("created", t)'
               /\ Head(queue).kind \in Terminal => ~Queued(t)'
               /\ Head(queue).kind \in {"text", "reconnecting"} => ~Waiting("start", t)'
    BY <2>1, HeadFirst
  <2> QED
    BY <1>27, <2>2, EventFields, <2>3, <1>0 DEF HandleText, Handle, Idle, Sizes, Of,
        With, ChatAssumption, StopInv, Open, Alone, OneBusy, EarlyRunning, Early,
        RunningOwn, Busy, StreamOK, EventOK, PageTypeOK, Shrunk
<1>28. CASE HandleQuestion
  <2>1. Handle({"question"})
    BY <1>28 DEF HandleQuestion
  <2>2. /\ Shrunk /\ Head(queue) \in Events /\ Head(queue) \in Evs
        /\ Head(queue).kind \in {"question"}
    BY <2>1, Handled DEF PageTypeOK
  <2>3. /\ \A t : ~Waiting("reconnecting", t)'
        /\ EventOK(Head(queue))
        /\ Head(queue).kind # "selected" => Head(queue).task \in Tasks
        /\ \A t : t = Head(queue).task =>
               /\ Queued(t) /\ Waiting(Head(queue).kind, t) /\ ~Waiting("created", t)'
               /\ Head(queue).kind \in Terminal => ~Queued(t)'
               /\ Head(queue).kind \in {"text", "reconnecting"} => ~Waiting("start", t)'
    BY <2>1, HeadFirst
  <2> QED
    BY <1>28, <2>2, EventFields, <2>3, <1>0 DEF HandleQuestion, Handle, Idle, Sizes,
        ChatAssumption, StopInv, Open, Alone, OneBusy, EarlyRunning, Early, RunningOwn,
        Busy, StreamOK, EventOK, PageTypeOK, Shrunk
<1>29. CASE HandleDone
  <2>1. Handle({"done"})
    BY <1>29 DEF HandleDone
  <2>2. /\ Shrunk /\ Head(queue) \in Events /\ Head(queue) \in Evs
        /\ Head(queue).kind \in {"done"}
    BY <2>1, Handled DEF PageTypeOK
  <2>3. /\ \A t : ~Waiting("reconnecting", t)'
        /\ EventOK(Head(queue))
        /\ Head(queue).kind # "selected" => Head(queue).task \in Tasks
        /\ \A t : t = Head(queue).task =>
               /\ Queued(t) /\ Waiting(Head(queue).kind, t) /\ ~Waiting("created", t)'
               /\ Head(queue).kind \in Terminal => ~Queued(t)'
               /\ Head(queue).kind \in {"text", "reconnecting"} => ~Waiting("start", t)'
    BY <2>1, HeadFirst
  <2> QED
    BY <1>29, <2>2, EventFields, <2>3, <1>0 DEF HandleDone, Handle, EndTask, Unlock,
        Idle, Sizes, ChatAssumption, StopInv, Open, Alone, OneBusy, EarlyRunning, Early,
        RunningOwn, Busy, StreamOK, EventOK, PageTypeOK, Shrunk
<1>30. CASE HandleGone
  <2>1. Handle({"gone"})
    BY <1>30 DEF HandleGone
  <2>2. /\ Shrunk /\ Head(queue) \in Events /\ Head(queue) \in Evs
        /\ Head(queue).kind \in {"gone"}
    BY <2>1, Handled DEF PageTypeOK
  <2>3. /\ \A t : ~Waiting("reconnecting", t)'
        /\ EventOK(Head(queue))
        /\ Head(queue).kind # "selected" => Head(queue).task \in Tasks
        /\ \A t : t = Head(queue).task =>
               /\ Queued(t) /\ Waiting(Head(queue).kind, t) /\ ~Waiting("created", t)'
               /\ Head(queue).kind \in Terminal => ~Queued(t)'
               /\ Head(queue).kind \in {"text", "reconnecting"} => ~Waiting("start", t)'
    BY <2>1, HeadFirst
  <2> QED
    BY <1>30, <2>2, EventFields, <2>3, <1>0 DEF HandleGone, Handle, EndTask, Unlock,
        Idle, Sizes, ChatAssumption, StopInv, Open, Alone, OneBusy, EarlyRunning, Early,
        RunningOwn, Busy, StreamOK, EventOK, PageTypeOK, Shrunk
<1>31. CASE HandleError
  <2>1. Handle({"error", "neterror"})
    BY <1>31 DEF HandleError
  <2>2. /\ Shrunk /\ Head(queue) \in Events /\ Head(queue) \in Evs
        /\ Head(queue).kind \in {"error", "neterror"}
    BY <2>1, Handled DEF PageTypeOK
  <2>3. /\ \A t : ~Waiting("reconnecting", t)'
        /\ EventOK(Head(queue))
        /\ Head(queue).kind # "selected" => Head(queue).task \in Tasks
        /\ \A t : t = Head(queue).task =>
               /\ Queued(t) /\ Waiting(Head(queue).kind, t) /\ ~Waiting("created", t)'
               /\ Head(queue).kind \in Terminal => ~Queued(t)'
               /\ Head(queue).kind \in {"text", "reconnecting"} => ~Waiting("start", t)'
    BY <2>1, HeadFirst
  <2> QED
    BY <1>31, <2>2, EventFields, <2>3, <1>0 DEF HandleError, Handle, Unlock, Idle,
        Sizes, With, ChatAssumption, StopInv, Open, Alone, OneBusy, EarlyRunning, Early,
        RunningOwn, Busy, StreamOK, EventOK, PageTypeOK, Shrunk
<1>32. CASE HandleReconnecting
  <2>1. Handle({"reconnecting"})
    BY <1>32 DEF HandleReconnecting
  <2>2. /\ Shrunk /\ Head(queue) \in Events /\ Head(queue) \in Evs
        /\ Head(queue).kind = "reconnecting"
    BY <2>1, Handled DEF PageTypeOK
  <2>3. /\ \A t : ~Waiting("reconnecting", t)'
        /\ EventOK(Head(queue))
        /\ Head(queue).kind # "selected" => Head(queue).task \in Tasks
        /\ \A t : t = Head(queue).task =>
               /\ Queued(t) /\ Waiting(Head(queue).kind, t) /\ ~Waiting("created", t)'
               /\ Head(queue).kind \in Terminal => ~Queued(t)'
               /\ Head(queue).kind \in {"text", "reconnecting"} => ~Waiting("start", t)'
    BY <2>1, HeadFirst
  <2>h. PICK h : h = Head(queue).task
    OBVIOUS
  <2>4. h \in Tasks /\ Busy(h) /\ current = None /\ Head(queue).of \in ConvIds
    BY <2>2, <2>3, <2>h, EventFields DEF Alone, ReconnectFresh, Busy
  <2>5. /\ running' = Head(queue).of /\ taskOf' = [taskOf EXCEPT ![Head(queue).of] = h]
        /\ stream' = stream
    BY <1>32, <2>h, <2>4 DEF HandleReconnecting, Handle, Resume, PageTypeOK,
        ChatAssumption
  <2>6. \A t \in Tasks : stream'[t] \in {"live", "hello", "es"} => t = h
    BY <2>4, <2>5 DEF Alone, OneBusy, Busy, Open
  <2> QED
    BY <2>4, <2>5, <2>6 DEF StopInv, PageTypeOK
<1>33. CASE HandleSelected
  <2>1. Handle({"selected"})
    BY <1>33 DEF HandleSelected
  <2>2. /\ Shrunk /\ Head(queue) \in Events /\ Head(queue) \in Evs
        /\ Head(queue).kind \in {"selected"}
    BY <2>1, Handled DEF PageTypeOK
  <2>3. /\ \A t : ~Waiting("reconnecting", t)'
        /\ EventOK(Head(queue))
        /\ Head(queue).kind # "selected" => Head(queue).task \in Tasks
        /\ \A t : t = Head(queue).task =>
               /\ Queued(t) /\ Waiting(Head(queue).kind, t) /\ ~Waiting("created", t)'
               /\ Head(queue).kind \in Terminal => ~Queued(t)'
               /\ Head(queue).kind \in {"text", "reconnecting"} => ~Waiting("start", t)'
    BY <2>1, HeadFirst
  <2> QED
    BY <1>33, <2>2, EventFields, <2>3, <1>0 DEF HandleSelected, Handle, ShowSelection,
        Idle, Sizes, ChatAssumption, StopInv, Open, Alone, OneBusy, EarlyRunning, Early,
        RunningOwn, Busy, StreamOK, EventOK, PageTypeOK, Shrunk
<1>34. CASE Flush
  <2>1. Same
    BY <1>34, Unmoved DEF Flush
  <2> QED
    BY <1>34, <2>1, <1>0 DEF Flush, Idle, Sizes, ChatAssumption, StopInv, Open, Alone,
        OneBusy, EarlyRunning, Early, RunningOwn, Busy, StreamOK, EventOK, PageTypeOK,
        Same
<1>35. ASSUME NEW c \in Convs, Select(c)
      PROVE  StopInv'
  <2>1. Same
    BY <1>35, Unmoved DEF Select
  <2> QED
    BY <1>35, <2>1, <1>0 DEF Select, ShowSelection, Idle, Sizes, ChatAssumption,
        StopInv, Open, Alone, OneBusy, EarlyRunning, Early, RunningOwn, Busy, StreamOK,
        EventOK, PageTypeOK, Same
<1>36. ASSUME NEW t \in Tasks, NEW from \in ConvIds \cup {None}, NEW gone \in BOOLEAN,
            NEW c \in ConvIds, Sends(t, from, gone, c)
      PROVE  StopInv'
  <2>1. \A u \in Tasks \ {t} : ~Busy(u)
    BY <1>36, Zenon DEF Sends, OnSend
  <2>2. stream' = [stream EXCEPT ![t] = "posting"]
    BY <1>36 DEF Sends, OnSend
  <2>3. \A u \in Tasks : stream'[u] \notin {"live", "hello", "es"}
    BY <2>1, <2>2 DEF Busy, Open, PageTypeOK
  <2> QED
    BY <2>3 DEF StopInv
<1>37. ASSUME NEW r \in Requests, Answer(r)
      PROVE  StopInv'
  <2>1. Same
    BY <1>37, Unmoved DEF Answer
  <2> QED
    BY <1>37, <2>1, <1>0 DEF Answer, Idle, Sizes, ChatAssumption, StopInv, Open, Alone,
        OneBusy, EarlyRunning, Early, RunningOwn, Busy, StreamOK, EventOK, PageTypeOK,
        Same
<1>38. CASE NewChat
  <2>1. Same
    BY <1>38, Unmoved DEF NewChat
  <2> QED
    BY <1>38, <2>1, <1>0 DEF NewChat, ShowSelection, Idle, Sizes, ChatAssumption,
        StopInv, Open, Alone, OneBusy, EarlyRunning, Early, RunningOwn, Busy, StreamOK,
        EventOK, PageTypeOK, Same
<1>39. CASE Leave
  <2>1. Same
    BY <1>39, Unmoved DEF Leave
  <2> QED
    BY <1>39, <2>1, <1>0 DEF Leave, FreshChat, Idle, Sizes, ChatAssumption, StopInv,
        Open, Alone, OneBusy, EarlyRunning, Early, RunningOwn, Busy, StreamOK, EventOK,
        PageTypeOK, Same
<1>40. CASE Return
  <2>1. Event("selected", None, None) \in Events
          /\ queue' = Append(queue, Event("selected", None, None))
    BY <1>40, EventKinds DEF Return
  <2>2. Grown(Event("selected", None, None))
    BY <2>1, Pushed DEF PageTypeOK
  <2> QED
    BY <1>40, <2>1, <2>2, <1>0 DEF Return, Event, Idle, Sizes, ChatAssumption, StopInv,
        Open, Alone, OneBusy, EarlyRunning, Early, RunningOwn, Busy, StreamOK, EventOK,
        PageTypeOK, Grown
<1>41. CASE Reload
  <2>1. Emptied \/ Restarted
    BY <1>41, Reloaded DEF PageTypeOK
  <2> QED
    BY <1>41, <2>1, <1>0 DEF Reload, FreshChat, Event, Idle, Sizes, ChatAssumption,
        StopInv, Open, Alone, OneBusy, EarlyRunning, Early, RunningOwn, Busy, StreamOK,
        EventOK, PageTypeOK, Emptied, Restarted
<1>42. CASE UNCHANGED pageVars
  <2>1. Same
    BY <1>42, Unmoved DEF pageVars
  <2> QED
    BY <1>42, <2>1, <1>0 DEF StopInv, Open, Alone, OneBusy, EarlyRunning, Early,
        RunningOwn, Busy, StreamOK, EventOK, PageTypeOK, Same, pageVars
<1> QED
  BY <1>11, <1>12, <1>13, <1>14, <1>15, <1>16, <1>17, <1>18, <1>19, <1>20, <1>21, <1>22,
      <1>23, <1>24, <1>25, <1>26, <1>27, <1>28, <1>29, <1>30, <1>31, <1>32, <1>33,
      <1>34, <1>35, <1>36, <1>37, <1>38, <1>39, <1>40, <1>41, <1>42 DEF PageStep, World,
      HandleEvent, User

-----------------------------------------------------------------------------
(* The calls that await the uploads of their files.                        *)

\* A step that neither sends nor loads the page.
Quiet == World \/ Drain \/ HandleEvent \/ Flush \/ User

\* Each is of a query of its own that is not sent yet, and at most one is in
\* the composer on show.
CallInv ==
    /\ calls \subseteq Calls /\ orphans \subseteq Tasks
    /\ \A k \in calls : stream[k.task] = "unused" /\ (k.at # "unmounted" => mounted)
    /\ \A j, k \in calls : (j.task = k.task \/ (j.at = "here" /\ k.at = "here")) => j = k

\* While it is in the composer on show, no query is sent but by the others.
CallLock ==
    \A k \in calls, u \in Tasks :
        k.at = "here" /\ Busy(u) => left \/ u \in failed \/ u \in k.behind \/ u \in orphans

\* A render moves the calls that lose their composer, and nothing else of them.
LEMMA RenderedCalls ==
  ASSUME NEW ks \in SUBSET Calls
  PROVE  \A m \in Rerendered(ks) :
            /\ m \in Calls
            /\ m.at # "unmounted" => mounted'
            /\ \E k \in ks : /\ m.task = k.task /\ m.from = k.from /\ m.behind = k.behind
                             /\ m.at = "here" => k.at = "here"
                             /\ m = [k EXCEPT !.at = m.at]
<1> DEFINE at(k) == CASE ~mounted' -> "unmounted"
                      [] mounted' /\ k.at = "here" /\ batch' = 0 /\ view' # None
                           /\ panel'[view'] # None -> "replaced"
                      [] OTHER -> k.at
<1>1. \A k \in ks : /\ at(k) \in {"here", "replaced", "unmounted"}
                    /\ at(k) # "unmounted" => mounted'
                    /\ at(k) = "here" => k.at = "here"
  BY DEF Calls
<1>2. Rerendered(ks) = {[k EXCEPT !.at = at(k)] : k \in ks}
  BY Zenon DEF Rerendered
<1> HIDE DEF at
<1> QED
  BY <1>1, <1>2 DEF Calls

\* Calls that were apart stay apart.
LEMMA RenderedApart ==
  ASSUME NEW ks \in SUBSET Calls,
         \A j, k \in ks : (j.task = k.task \/ (j.at = "here" /\ k.at = "here")) => j = k
  PROVE  \A m, n \in Rerendered(ks) :
            (m.task = n.task \/ (m.at = "here" /\ n.at = "here")) => m = n
<1> DEFINE at(k) == CASE ~mounted' -> "unmounted"
                      [] mounted' /\ k.at = "here" /\ batch' = 0 /\ view' # None
                           /\ panel'[view'] # None -> "replaced"
                      [] OTHER -> k.at
<1>1. \A k \in ks : at(k) = "here" => k.at = "here"
  BY DEF Calls
<1>2. Rerendered(ks) = {[k EXCEPT !.at = at(k)] : k \in ks}
  BY Zenon DEF Rerendered
<1> HIDE DEF at
<1>3. \A k \in ks : [k EXCEPT !.at = at(k)].task = k.task /\ [k EXCEPT !.at = at(k)].at = at(k)
  BY DEF Calls
<1>4. ASSUME NEW m \in Rerendered(ks), NEW n \in Rerendered(ks),
             m.task = n.task \/ (m.at = "here" /\ n.at = "here")
      PROVE  m = n
  <2>1. PICK j \in ks : m = [j EXCEPT !.at = at(j)]
    BY <1>2
  <2>2. PICK k \in ks : n = [k EXCEPT !.at = at(k)]
    BY <1>2
  <2>3. j.task = k.task \/ (j.at = "here" /\ k.at = "here")
    BY <1>1, <1>3, <1>4, <2>1, <2>2
  <2>4. j = k
    BY <2>3
  <2> QED
    BY <2>1, <2>2, <2>4
<1> QED
  BY <1>4

\* What a step does, the calls apart.
LEMMA StepOfPage ==
  ASSUME PageTypeOK, CallInv, [Next]_vars
  PROVE  PageStep
<1>1. CASE Quiet \/ Reload
  BY <1>1 DEF Quiet, PageStep
<1>2. ASSUME NEW t \in Tasks, NEW c \in ConvIds, Send(t, c)
      PROVE  PageStep
  <2>1. Sends(t, view, FALSE, c)
    BY <1>2 DEF Send, Sends, CanSend
  <2> QED
    BY <2>1, Zenon DEF PageStep, PageTypeOK
<1>3. ASSUME NEW k \in calls, NEW c \in ConvIds, UploadsEnd(k, c)
      PROVE  PageStep
  <2>1. /\ k.task \in Tasks /\ k.from \in ConvIds \cup {None}
        /\ (k.at = "unmounted") \in BOOLEAN
    BY DEF CallInv, Calls
  <2>2. Sends(k.task, k.from, k.at = "unmounted", c)
    BY <1>3 DEF UploadsEnd, Sends, CallInv
  <2> QED
    BY <2>1, <2>2, Zenon DEF PageStep
<1>4. ASSUME (\E t \in Tasks : BeginUploads(t)) \/ (\E k \in calls : UploadsFail(k)) \/ UNCHANGED vars
      PROVE  PageStep
  BY <1>4 DEF BeginUploads, UploadsFail, vars, PageStep
<1> QED
  BY <1>1, <1>2, <1>3, <1>4 DEF Next, Compose, Quiet

\* A quiet step opens no stream.
LEMMA UnusedStays ==
  ASSUME PageTypeOK, Quiet, NEW t \in Tasks, stream[t] = "unused"
  PROVE  stream'[t] = "unused"
<1>1. CASE World
  <2>1. ASSUME NEW u \in Tasks, Respond(u) \/ Break(u) \/ EndSilently(u) \/ Rejoin(u) \/ RejoinGone(u)
        PROVE  stream[u] # "unused" /\
               \E v \in {"live", "closed", "silent", "es", "over"} : stream' = [stream EXCEPT ![u] = v]
    BY <2>1 DEF Respond, Break, EndSilently, Rejoin, RejoinGone
  <2>2. ASSUME NEW u \in Tasks, Finish(u)
        PROVE  stream' = stream \/ (stream[u] # "unused" /\ stream' = [stream EXCEPT ![u] = "over"])
    BY <2>2 DEF Finish, Emit, Listening
  <2>3. ASSUME NEW u \in Tasks, Start(u) \/ Text(u) \/ Fail(u) \/ \E r \in Requests : Ask(u, r)
        PROVE  stream' = stream
    BY <2>3 DEF Start, Text, Fail, Ask
  <2>4. ASSUME (\E c \in Convs : HistoryLoaded(c)) \/ TranscriptLoaded \/ HistoricalLoaded
        PROVE  stream' = stream
    BY <2>4 DEF HistoryLoaded, TranscriptLoaded, HistoricalLoaded, worldVars
  <2> QED
    BY <1>1, <2>1, <2>2, <2>3, <2>4 DEF World, PageTypeOK
<1>2. CASE HandleEvent
  BY <1>2 DEF HandleEvent, HandleCreated, Handle, HandleStart, HandleText,
      HandleQuestion, HandleDone, EndTask, Unlock, HandleGone, HandleError,
      HandleReconnecting, Resume, HandleSelected, ShowSelection, worldVars
<1>3. CASE Drain \/ Flush \/ User
  BY <1>3 DEF Drain, Flush, User, NewChat, Leave, Return, Select, Answer, worldVars
<1> QED
  BY <1>1, <1>2, <1>3 DEF Quiet

\* A quiet step makes no task busy, and forgets neither a failure nor a visit.
LEMMA BusyStays ==
  ASSUME ChatAssumption, TypeInv, Quiet, NEW u \in Tasks
  PROVE  /\ Busy(u)' => Busy(u)
         /\ u \in failed => u \in failed'
         /\ left => left'
<1> USE DEF TypeInv
<1>1. CASE World
  <2>1. ASSUME NEW t \in Tasks, NEW e \in Events, Push(e), e.task = t, Open(t)
        PROVE  Queued(u)' => Queued(u) \/ Open(u)
    BY <2>1, PushEvs DEF Push, PageTypeOK
  <2>2. ASSUME UNCHANGED queue
        PROVE  Queued(u)' <=> Queued(u)
    BY <2>2 DEF Queued
  <2>3. ASSUME NEW t \in Tasks, Respond(t) \/ Break(t) \/ EndSilently(t) \/ Rejoin(t) \/ RejoinGone(t)
        PROVE  (Queued(u)' => Queued(u) \/ Open(u)) /\ (Open(u)' => Open(u))
    <3>1. Queued(u)' => Queued(u) \/ Open(u)
      BY <2>1, <2>2, <2>3, EventKinds DEF Respond, Break, EndSilently, Rejoin, RejoinGone, Open,
          StreamOK, PageTypeOK
    <3>2. Open(u)' => Open(u)
      BY <2>3 DEF Respond, Break, EndSilently, Rejoin, RejoinGone, Open, PageTypeOK
    <3> QED
      BY <3>1, <3>2
  <2>4. ASSUME NEW t \in Tasks, Start(t) \/ Text(t) \/ Fail(t) \/ Finish(t) \/ \E r \in Requests : Ask(t, r)
        PROVE  (Queued(u)' => Queued(u) \/ Open(u)) /\ (Open(u)' => Open(u))
    <3>1. PICK e \in Events : e.task = t /\ ((Push(e) /\ Open(t)) \/ UNCHANGED queue)
      BY <2>4, EventKinds DEF Start, Text, Fail, Finish, Ask, Emit, Listening, Open
    <3>2. Open(u)' => Open(u)
      BY <2>4 DEF Start, Text, Fail, Finish, Ask, Open, PageTypeOK
    <3> QED
      BY <3>1, <3>2, <2>1, <2>2
  <2>5. ASSUME (\E c \in Convs : HistoryLoaded(c)) \/ TranscriptLoaded \/ HistoricalLoaded
        PROVE  UNCHANGED <<queue, stream>>
    BY <2>5 DEF HistoryLoaded, TranscriptLoaded, HistoricalLoaded, worldVars, sharedVars
  <2>6. Busy(u)' => Busy(u)
    BY <1>1, <2>2, <2>3, <2>4, <2>5 DEF World, Busy, Open
  <2>7. failed \subseteq failed' /\ left' = left
    BY ZenonT(30), <1>1 DEF World, Respond, Break, EndSilently, Rejoin, RejoinGone, Start, Text, Fail,
        Finish, Ask, HistoryLoaded, TranscriptLoaded, HistoricalLoaded, unheard, agentVars,
        worldVars, historyVars
  <2> QED
    BY <2>6, <2>7
<1>2. CASE HandleEvent
  <2>1. PICK kinds : Handle(kinds)
    BY <1>2 DEF HandleEvent, HandleCreated, HandleStart, HandleText, HandleQuestion, HandleDone,
        HandleGone, HandleError, HandleReconnecting, HandleSelected
  <2>2. Shrunk
    BY <2>1, Handled DEF PageTypeOK
  <2> QED
    BY <2>1, <2>2 DEF Handle, Shrunk, Busy, Open, worldVars, agentVars, historyVars
<1>3. CASE Drain \/ Flush \/ NewChat \/ Leave \/ (\E c \in Convs : Select(c))
            \/ (\E r \in Requests : Answer(r))
  <2>1. UNCHANGED <<queue, stream, failed>>
    BY <1>3 DEF Drain, Flush, NewChat, Leave, Select, Answer, sharedVars, worldVars, agentVars
  <2>2. left => left'
    BY <1>3, Zenon DEF Drain, Flush, NewChat, Leave, Select, Answer, historyVars
  <2> QED
    BY <2>1, <2>2 DEF Busy, Queued, Open
<1>4. CASE Return
  <2>1. /\ queue' = Append(queue, Event("selected", None, None))
        /\ UNCHANGED <<stream, failed, left>>
    BY <1>4 DEF Return, worldVars, agentVars, historyVars
  <2>2. /\ Event("selected", None, None) \in Events /\ Event("selected", None, None).task = None
        /\ None \notin Tasks
    BY EventKinds DEF ChatAssumption
  <2>3. Queued(u)' <=> Queued(u) \/ Event("selected", None, None).task = u
    BY <2>1, <2>2, PushEvs DEF PageTypeOK
  <2>4. Queued(u)' => Queued(u)
    BY <2>2, <2>3
  <2> QED
    BY <2>1, <2>4 DEF Busy, Open
<1> QED
  BY <1>1, <1>2, <1>3, <1>4 DEF Quiet, User

\* Every step keeps the calls so.
LEMMA CallStep ==
  ASSUME ChatAssumption, PageTypeOK, CallInv, [Next]_vars
  PROVE  CallInv'
<1>1. ASSUME NEW ks \in SUBSET calls, calls' = Rerendered(ks), orphans' \subseteq Tasks,
             \A k \in ks : stream'[k.task] = "unused"
      PROVE  CallInv'
  <2>1. ks \in SUBSET Calls
    BY <1>1 DEF CallInv
  <2>2. \A j, k \in ks : (j.task = k.task \/ (j.at = "here" /\ k.at = "here")) => j = k
    BY <1>1 DEF CallInv
  <2>3. calls' \subseteq Calls
        /\ \A m \in calls' : stream'[m.task] = "unused" /\ (m.at # "unmounted" => mounted')
    BY <1>1, <2>1, RenderedCalls
  <2>4. \A m, n \in calls' : (m.task = n.task \/ (m.at = "here" /\ n.at = "here")) => m = n
    BY <1>1, <2>1, <2>2, RenderedApart
  <2> QED
    BY <1>1, <2>3, <2>4 DEF CallInv
<1>2. CASE Quiet /\ Rerender
  <2>1. \A k \in calls : k.task \in Tasks
    BY DEF CallInv, Calls
  <2> QED
    BY <1>1, <1>2, <2>1, UnusedStays DEF CallInv, Rerender
<1>3. ASSUME NEW t \in Tasks, NEW c \in ConvIds, Send(t, c)
      PROVE  CallInv'
  <2>1. \A k \in calls : k.task \in Tasks /\ k.task # t
    BY <1>3 DEF Send, Uploading, CallInv, Calls
  <2>2. \A k \in calls : stream'[k.task] = "unused"
    BY <1>3, <2>1 DEF Send, OnSend, CallInv, PageTypeOK
  <2> QED
    BY <1>1, <1>3, <2>2 DEF Send, Rerender, CallInv
<1>4. ASSUME NEW t \in Tasks, BeginUploads(t)
      PROVE  CallInv'
  <2> DEFINE k == [task |-> t, from |-> view, at |-> "here", behind |-> Behind]
  <2>1. calls' = calls \cup {k} /\ UNCHANGED <<orphans, stream, mounted>>
    BY <1>4 DEF BeginUploads, pageVars, worldVars, chatVars
  <2>2. /\ k \in Calls /\ k.task = t /\ k.at = "here" /\ mounted /\ stream[t] = "unused"
        /\ \A j \in calls : j.task # t /\ j.at # "here"
    BY <1>4 DEF BeginUploads, CanSend, Uploading, Calls, Behind, PageTypeOK
  <2> HIDE DEF k
  <2> QED
    BY <2>1, <2>2 DEF CallInv
<1>5. ASSUME NEW k \in calls, UploadsFail(k)
      PROVE  CallInv'
  BY <1>5 DEF UploadsFail, CallInv, pageVars, worldVars, chatVars
<1>6. ASSUME NEW k \in calls, NEW c \in ConvIds, UploadsEnd(k, c)
      PROVE  CallInv'
  <2>1. /\ k.task \in Tasks
        /\ \A j \in calls \ {k} : j.task \in Tasks /\ j.task # k.task
    BY DEF CallInv, Calls
  <2>2. \A j \in calls \ {k} : stream'[j.task] = "unused"
    BY <1>6, <2>1 DEF UploadsEnd, OnSend, CallInv, PageTypeOK
  <2>3. orphans' \subseteq Tasks
    BY <1>6, <2>1 DEF UploadsEnd, CallInv
  <2> QED
    BY <1>1, <1>6, <2>2, <2>3 DEF UploadsEnd
<1>7. CASE Reload
  BY <1>7 DEF Reload, CallInv
<1>8. CASE UNCHANGED vars
  BY <1>8 DEF vars, callVars, pageVars, worldVars, chatVars, CallInv
<1> QED
  BY <1>2, <1>3, <1>4, <1>5, <1>6, <1>7, <1>8 DEF Next, Compose, Quiet

\* Every step but one that mixes queries keeps the lock that a call stands for.
LEMMA CallLockStep ==
  ASSUME ChatAssumption, TypeInv, CallInv, Alone, CallLock, [Next]_vars
  PROVE  CallLock'
<1> USE DEF TypeInv
<1>1. ASSUME NEW ks \in SUBSET calls, calls' = Rerendered(ks), NEW u \in Tasks, NEW m \in calls',
             m.at = "here"
      PROVE  \E k \in ks : k.at = "here" /\ m.behind = k.behind
  <2>1. ks \in SUBSET Calls
    BY <1>1 DEF CallInv
  <2> QED
    BY <1>1, <2>1, RenderedCalls
<1>2. CASE Quiet /\ Rerender
  BY <1>1, <1>2, BusyStays DEF Rerender, CallLock
<1>3. ASSUME NEW t \in Tasks, NEW c \in ConvIds, Send(t, c)
      PROVE  CallLock'
  <2>1. \A k \in calls : k.at # "here"
    BY <1>3 DEF Send, CanSend
  <2> QED
    BY <1>1, <1>3, <2>1 DEF Send, Rerender, CallLock
<1>4. ASSUME NEW t \in Tasks, BeginUploads(t)
      PROVE  CallLock'
  <2> DEFINE k == [task |-> t, from |-> view, at |-> "here", behind |-> Behind]
  <2>1. /\ calls' = calls \cup {k} /\ ~streaming /\ UNCHANGED <<orphans, stream, queue, left, failed>>
    BY <1>4 DEF BeginUploads, CanSend, pageVars, worldVars, agentVars, sharedVars, historyVars
  <2>2. \A u \in Tasks : Busy(u)' = Busy(u)
    BY <2>1 DEF Busy, Queued, Open
  <2>3. \A u \in Tasks : Busy(u) => left \/ u \in failed \/ u \in k.behind
    BY <2>1 DEF Alone, LockedBusy, Behind, Waiting
  <2> HIDE DEF k
  <2> QED
    BY <2>1, <2>2, <2>3 DEF CallLock
<1>5. ASSUME NEW k \in calls, UploadsFail(k)
      PROVE  CallLock'
  <2>1. calls' \subseteq calls /\ UNCHANGED <<orphans, stream, queue, left, failed>>
    BY <1>5 DEF UploadsFail, pageVars, worldVars, agentVars, sharedVars, historyVars
  <2> QED
    BY <2>1 DEF CallLock, Busy, Queued, Open
<1>6. ASSUME NEW k \in calls, NEW c \in ConvIds, UploadsEnd(k, c)
      PROVE  CallLock'
  <2>1. /\ calls' = Rerendered(calls \ {k})
        /\ orphans' = IF k.at = "here" THEN orphans ELSE orphans \cup {k.task}
        /\ stream' = [stream EXCEPT ![k.task] = "posting"]
        /\ UNCHANGED <<queue, left, failed>>
    BY <1>6 DEF UploadsEnd, OnSend, agentVars
  <2>2. \A u \in Tasks : Busy(u)' => Busy(u) \/ u = k.task
    BY <2>1 DEF Busy, Queued, Open, PageTypeOK
  <2>3. ASSUME NEW m \in calls', m.at = "here"
        PROVE  k.at # "here" /\ \E j \in calls : j.at = "here" /\ m.behind = j.behind
    <3>1. PICK j \in calls \ {k} : j.at = "here" /\ m.behind = j.behind
      <4>1. calls \ {k} \in SUBSET Calls
        BY DEF CallInv
      <4> QED
        BY <2>1, <2>3, <4>1, RenderedCalls
    <3> QED
      BY <3>1 DEF CallInv
  <2> QED
    BY <2>1, <2>2, <2>3 DEF CallLock
<1>7. CASE Reload
  BY <1>7 DEF Reload, CallLock
<1>8. CASE UNCHANGED vars
  <2>1. UNCHANGED <<calls, orphans, stream, queue, left, failed>>
    BY <1>8 DEF vars, callVars, pageVars, worldVars, agentVars, sharedVars, historyVars
  <2> QED
    BY <2>1 DEF CallLock, Busy, Queued, Open
<1> QED
  BY <1>2, <1>3, <1>4, <1>5, <1>6, <1>7, <1>8 DEF Next, Compose, Quiet

-----------------------------------------------------------------------------
(* The theorems.                                                           *)

\* What holds of every reachable state.
ChatInv ==
    /\ TypeInv /\ OrderInv /\ QuestionInv /\ LockInv /\ CallInv
    /\ ~mixed => Alone /\ Homes /\ RecordInv /\ StopInv /\ CallLock

\* The invariant holds to begin with.
LEMMA ChatInit ==
  ASSUME ChatAssumption, Init
  PROVE  ChatInv
<1>1. \A t : ~Queued(t) /\ \A k : ~Waiting(k, t)
  <2>1. Len(queue) = 0
    <3>1. queue = <<>>
      BY DEF Init
    <3> QED
      BY <3>1
  <2> QED
    BY <2>1 DEF Queued, Waiting
<1>2. Evs = {}
  BY <1>1, QueuedEvs
<1>3. Alone
  BY <1>1 DEF Init, Alone, Busy, Open, OneBusy, RunningOwn, CurrentOwn, LockedBusy,
      EarlyRunning, Early, EarlyUnsaved, StartRunning, ReconnectFresh
<1>4. Homes
  BY <1>2 DEF Init, Homes, RecordHome, PersistHome, ReconnectHome, Own
<1>5. RecordInv /\ StopInv
  BY DEF Init, RecordInv, StopInv, Open
<1>6. CallInv /\ CallLock
  BY DEF Init, CallInv, CallLock
<1> QED
  BY <1>3, <1>4, <1>5, <1>6, TypeInit, OrderInit, QuestionInit, LockInit DEF ChatInv

\* Every step keeps the invariant.
LEMMA ChatStep ==
  ASSUME ChatAssumption, ChatInv, [Next]_vars
  PROVE  ChatInv'
<1>1. PageStep
  BY StepOfPage DEF ChatInv, TypeInv
<1>2. TypeInv' /\ OrderInv' /\ QuestionInv' /\ LockInv'
  BY <1>1, TypeStep, OrderStep, QuestionStep, LockStep DEF ChatInv
<1>3. CallInv'
  BY CallStep DEF ChatInv, TypeInv
<1>4. ASSUME ~mixed' PROVE Alone' /\ Homes' /\ RecordInv' /\ StopInv' /\ CallLock'
  <2>1. ~mixed
    BY <1>1, <1>4, MixedStays
  <2>2. Alone' /\ Homes' /\ RecordInv' /\ StopInv'
    BY <1>1, <1>4, <2>1, AloneStep, HomesStep, RecordStep, StopStep DEF ChatInv
  <2>3. CallLock'
    BY <2>1, CallLockStep DEF ChatInv
  <2> QED
    BY <2>2, <2>3
<1> QED
  BY <1>2, <1>3, <1>4 DEF ChatInv

\* Every reachable state of the page satisfies the invariant.
LEMMA ChatInvHolds == Spec => []ChatInv
<1>1. Init => ChatInv
  BY ChatAssumption, ChatInit
<1>2. ChatInv /\ [Next]_vars => ChatInv'
  BY ChatAssumption, ChatStep
<1> QED
  BY <1>1, <1>2, PTL DEF Spec

\* The variables hold values of their types in every reachable state.
THEOREM ChatTypeCorrect == Spec => []ChatTypeOK
<1>1. ChatInv => ChatTypeOK
  BY DEF ChatInv, TypeInv, CallInv, ChatTypeOK
<1> QED
  BY <1>1, ChatInvHolds, PTL

\* A question on a panel is one localStorage has, whatever the page does.
THEOREM QuestionsSurviveReloadHolds == Spec => []QuestionsSurviveReload
<1>1. ChatInv => QuestionsSurviveReload
  BY DEF ChatInv, QuestionInv, QuestionsSurviveReload
<1> QED
  BY <1>1, ChatInvHolds, PTL

\* A locked composer has something to come that can unlock it.
THEOREM LockedByStreamHolds == Spec => []LockedByStream
<1>1. ASSUME ChatInv, streaming, queue = <<>>
      PROVE  \E t \in Tasks : Open(t) \/ stream[t] = "silent"
  <2>1. Len(queue) = 0
    BY <1>1
  <2>2. \A k, t : ~Waiting(k, t)
    BY <2>1 DEF Waiting
  <2> QED
    BY <1>1, <2>2 DEF ChatInv, LockInv, Live
<1>2. ChatInv => LockedByStream
  BY <1>1 DEF LockedByStream
<1> QED
  BY <1>2, ChatInvHolds, PTL

\* As long as queries are not mixed, messages, what is saved and the record
\* stay with their conversation.
THEOREM OwnConversationHolds == Spec => []OwnConversation
<1>1. ChatInv => OwnConversation
  BY DEF ChatInv, Homes, Own, RecordHome, OwnConversation
<1> QED
  BY <1>1, ChatInvHolds, PTL

\* As long as queries are not mixed, a running task with an open stream is on
\* record.
THEOREM RunningTaskRecordedHolds == Spec => []RunningTaskRecorded
<1>1. ChatInv => RunningTaskRecorded
  BY DEF ChatInv, RecordInv, RunningTaskRecorded
<1> QED
  BY <1>1, ChatInvHolds, PTL

\* As long as queries are not mixed, Stop posts the task that runs.
THEOREM StopNamesRunningHolds == Spec => []StopNamesRunning
<1>1. ChatInv => StopNamesRunning
  BY DEF ChatInv, StopInv, StopNamesRunning
<1> QED
  BY <1>1, ChatInvHolds, PTL

\* Only the composer's onSend opens a stream for an unused task.
LEMMA OnlySends ==
  ASSUME PageTypeOK, CallInv, [Next]_vars, NEW t \in Tasks,
         stream[t] = "unused", stream'[t] = "posting"
  PROVE  \/ \E c \in ConvIds : Send(t, c)
         \/ \E k \in calls, c \in ConvIds : k.task = t /\ UploadsEnd(k, c)
<1>1. CASE Quiet
  BY <1>1, UnusedStays
<1>2. ASSUME NEW u \in Tasks, NEW c \in ConvIds, Send(u, c)
      PROVE  u = t
  BY <1>2 DEF Send, OnSend, PageTypeOK
<1>3. ASSUME NEW k \in calls, NEW c \in ConvIds, UploadsEnd(k, c)
      PROVE  k.task = t
  BY <1>3 DEF UploadsEnd, OnSend, PageTypeOK
<1>4. CASE Reload
  <2>1. stream'[t] \in {"unused", "closed", "hello"}
    <3>1. CASE record = None
      BY <1>4, <3>1 DEF Reload, PageTypeOK
    <3>2. CASE record # None
      BY <1>4, <3>2 DEF Reload, PageTypeOK
    <3> QED
      BY <3>1, <3>2
  <2> QED
    BY <2>1
<1>5. ASSUME (\E u \in Tasks : BeginUploads(u)) \/ (\E k \in calls : UploadsFail(k)) \/ UNCHANGED vars
      PROVE  stream' = stream
  BY <1>5 DEF BeginUploads, UploadsFail, vars, pageVars, worldVars
<1> QED
  BY <1>1, <1>2, <1>3, <1>4, <1>5 DEF Next, Compose, Quiet

\* While a stream is busy no other query is sent, but where ComposerLock says.
THEOREM ComposerLockHolds == Spec => ComposerLock
<1>1. ASSUME ChatInv, [Next]_vars, NEW t \in Tasks, NEW u \in Tasks,
             ~mixed, t # u, stream[t] = "unused", stream'[t] = "posting", Busy(u)
      PROVE  left \/ u \in failed \/ u \in Untold(t) \/ {t, u} \cap orphans' # {}
  <2>1. CASE \E c \in ConvIds : Send(t, c)
    <3>1. ~streaming /\ ~Uploading(t)
      BY <2>1 DEF Send, CanSend
    <3>2. left \/ u \in failed \/ Waiting("reconnecting", u)
      BY <1>1, <3>1 DEF ChatInv, Alone, LockedBusy
    <3> QED
      BY <3>1, <3>2 DEF Untold, Behind, Waiting
  <2>2. ASSUME NEW k \in calls, NEW c \in ConvIds, k.task = t, UploadsEnd(k, c)
        PROVE  left \/ u \in failed \/ u \in Untold(t) \/ {t, u} \cap orphans' # {}
    <3>1. orphans' = IF k.at = "here" THEN orphans ELSE orphans \cup {t}
      BY <2>2 DEF UploadsEnd
    <3>2. CASE k.at # "here"
      BY <3>1, <3>2
    <3>3. CASE k.at = "here"
      <4>1. left \/ u \in failed \/ u \in k.behind \/ u \in orphans
        BY <1>1, <3>3 DEF ChatInv, CallLock
      <4>2. u \in k.behind => u \in Untold(t)
        BY <2>2 DEF Untold, Uploading
      <4> QED
        BY <3>1, <3>3, <4>1, <4>2
    <3> QED
      BY <3>2, <3>3
  <2> QED
    BY <1>1, <2>1, <2>2, OnlySends DEF ChatInv, TypeInv
<1>2. ChatInv /\ [Next]_vars =>
        [\A t, u \in Tasks :
            (~mixed /\ t # u /\ stream[t] = "unused" /\ stream'[t] = "posting" /\ Busy(u))
                => left \/ u \in failed \/ u \in Untold(t) \/ {t, u} \cap orphans' # {}]_vars
  BY <1>1
<1> QED
  BY <1>2, ChatInvHolds, PTL DEF Spec, ComposerLock
=============================================================================
