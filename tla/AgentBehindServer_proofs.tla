---------------------- MODULE AgentBehindServer_proofs ----------------------
(***************************************************************************)
(* Proofs about the agent daemon behind the server, for all queries,       *)
(* connections and questions: what the daemon writes reaches a stream of   *)
(* its task and ends with its done, no Stop cancels anything, sessions     *)
(* leave the table, and who rejoins is shown the question.                 *)
(***************************************************************************)
EXTENDS AgentBehindServer, SequenceTheorems, TLAPS

(* Writing events.                                                         *)

\* Only connections of the daemon are written to.
LEMMA EmitTargetType ==
    ASSUME TypeOK, NEW t \in Tasks
    PROVE  EmitTarget(t) \in Conns \cup {None}
BY DEF EmitTarget, TypeOK

\* What emit_sse does to one connection: nothing, or the events at its end.
LEMMA EmitWrites ==
    ASSUME TypeOK, NEW t \in Tasks, NEW events, Emit(t, events), NEW c \in Conns
    PROVE  \/ c # EmitTarget(t) /\ out'[c] = out[c]
           \/ c = EmitTarget(t) /\ out'[c] = out[c] \o events
BY AgentAssumption DEF Emit, TypeOK

\* Writing events keeps the type of the connections.
LEMMA EmitType ==
    ASSUME TypeOK, NEW t \in Tasks, NEW events \in Seq(Events), Emit(t, events)
    PROVE  out' \in [Conns -> Seq(Events)]
<1>1. CASE EmitTarget(t) = None
  BY <1>1 DEF Emit, TypeOK
<1>2. CASE EmitTarget(t) # None
  <2>1. EmitTarget(t) \in Conns
    BY <1>2, EmitTargetType
  <2>2. out[EmitTarget(t)] \o events \in Seq(Events)
    BY <2>1, ConcatProperties DEF TypeOK
  <2> QED
    BY <1>2, <2>1, <2>2 DEF Emit, TypeOK
<1> QED
  BY <1>1, <1>2

\* A single event is a sequence of events.
LEMMA OneEvent ==
    ASSUME NEW e \in Events
    PROVE  <<e>> \in Seq(Events) /\ Len(<<e>>) = 1 /\ <<e>>[1] = e
OBVIOUS

\* The records that name events are events.
LEMMA EventType ==
    ASSUME NEW t \in Tasks, NEW r \in Requests \cup {None},
           NEW kind \in {"session_start", "text", "question", "error", "done", "gone"}
    PROVE  /\ Event(kind, t, r) \in Events
           /\ Event(kind, t, r).kind = kind
           /\ Event(kind, t, r).task = t
BY DEF Event, Events

\* A query ends with done, after an error if there was one.
LEMMA LastEventsAre ==
    ASSUME NEW t \in Tasks, NEW events \in Seq(Events),
           events = <<>> \/ events = <<Event("error", t, None)>>
    PROVE  LET last == LastEvents(t, events)
           IN  /\ last \in Seq(Events)
               /\ \A i \in 1..Len(last) :
                    /\ last[i].task = t
                    /\ last[i].kind = IF i = Len(last) THEN "done" ELSE "error"
<1> DEFINE done == <<Event("done", t, None)>>
           last == events \o done
<1>1. done \in Seq(Events) /\ Len(done) = 1 /\ done[1] = Event("done", t, None)
  BY OneEvent, EventType
<1>2. \A i \in 1..Len(events) : events[i].task = t /\ events[i].kind = "error"
  BY OneEvent, EventType
<1>3. /\ last \in Seq(Events)
      /\ Len(last) = Len(events) + 1
      /\ \A i \in 1..Len(events) + 1 :
            last[i] = IF i <= Len(events) THEN events[i] ELSE done[i - Len(events)]
  BY <1>1, ConcatProperties
<1>4. Len(events) \in Nat
  BY LenProperties
<1>5. Event("done", t, None).task = t /\ Event("done", t, None).kind = "done"
  BY EventType
<1> HIDE DEF done, last
<1>6. \A i \in 1..Len(last) :
        /\ last[i].task = t
        /\ last[i].kind = IF i = Len(last) THEN "done" ELSE "error"
  <2> SUFFICES ASSUME NEW i \in 1..Len(last)
               PROVE  /\ last[i].task = t
                      /\ last[i].kind = IF i = Len(last) THEN "done" ELSE "error"
    OBVIOUS
  <2>1. CASE i = Len(last)
    BY <2>1, <1>1, <1>3, <1>4, <1>5
  <2>2. CASE i # Len(last)
    BY <2>2, <1>2, <1>3, <1>4
  <2> QED
    BY <2>1, <2>2
<1> QED
  BY <1>3, <1>6 DEF LastEvents, last, done

(* Types.                                                                  *)

\* The two ways a query ends.
LEMMA EndIsFinally ==
    ASSUME NEW t \in Tasks, Finish(t) \/ Fail(t)
    PROVE  \E events \in Seq(Events) :
              /\ events = <<>> \/ events = <<Event("error", t, None)>>
              /\ Finally(t, events)
<1>1. CASE Finish(t)
  BY <1>1, EmptySeq DEF Finish
<1>2. CASE Fail(t)
  BY <1>2, OneEvent, EventType DEF Fail
<1> QED
  BY <1>1, <1>2

\* Every step keeps the types.
LEMMA TypeStep == ServerTypeOK /\ [ServerNext]_allVars => ServerTypeOK'
<1> SUFFICES ASSUME TypeOK, use \in [Conns -> Uses \cup {Unused}], [ServerNext]_allVars
             PROVE  ServerTypeOK'
  BY DEF ServerTypeOK
<1> USE AgentAssumption DEF connVars, sessionVars, queryVars, hookVars, historyVars, vars,
        Uses, Unused, Use, Accept
<1>1. ASSUME NEW c \in Conns, NEW t \in Tasks, PostChat(c, t)
      PROVE  ServerTypeOK'
  BY <1>1 DEF PostChat, ServerTypeOK, TypeOK
<1>2. ASSUME NEW c \in Conns, NEW t \in Tasks, SendQuery(c, t)
      PROVE  ServerTypeOK'
  BY <1>2 DEF SendQuery, HandleQuery, ServerTypeOK, TypeOK, QueryStates
<1>3. ASSUME NEW c \in Conns, NEW t \in Tasks, GetChatStream(c, t), HelloKnown(c, t)
      PROVE  ServerTypeOK'
  <2>1. pending[t] # None => Append(out[c], Event("question", t, pending[t])) \in Seq(Events)
    BY EventType, AppendProperties DEF TypeOK
  <2>2. out' \in [Conns -> Seq(Events)]
    BY <1>3, <2>1 DEF HelloKnown, TypeOK
  <2> QED
    BY <1>3, <2>2 DEF GetChatStream, HelloKnown, ServerTypeOK, TypeOK
<1>4. ASSUME NEW c \in Conns, NEW t \in Tasks, GetChatStream(c, t), HelloUnknown(c, t)
      PROVE  ServerTypeOK'
  <2>1. Append(out[c], Event("gone", t, None)) \in Seq(Events)
    BY EventType, AppendProperties DEF TypeOK
  <2>2. out' \in [Conns -> Seq(Events)]
    BY <1>4, <2>1 DEF HelloUnknown, TypeOK
  <2> QED
    BY <1>4, <2>2 DEF GetChatStream, HelloUnknown, ServerTypeOK, TypeOK
<1>5. ASSUME NEW c \in Conns, NEW t \in Tasks, Stop(c, t)
      PROVE  ServerTypeOK'
  BY <1>5 DEF Stop, HandleInterrupt, ServerTypeOK, TypeOK
<1>6. ASSUME NEW c \in Conns, NEW r \in Requests, Answer(c, r)
      PROVE  ServerTypeOK'
  BY <1>6 DEF Answer, HandleAnswer, ServerTypeOK, TypeOK, HookStates
<1>7. ASSUME NEW c \in Conns, Drop(c)
      PROVE  ServerTypeOK'
  BY <1>7 DEF Drop, ServerTypeOK, TypeOK
<1>8. ASSUME NEW c \in Conns, Eof(c), UNCHANGED use
      PROVE  ServerTypeOK'
  BY <1>8 DEF Eof, ServerTypeOK, TypeOK
<1>9. ASSUME NEW t \in Tasks, Begin(t), UNCHANGED use
      PROVE  ServerTypeOK'
  <2>1. out' \in [Conns -> Seq(Events)]
    BY <1>9, EmitType, OneEvent, EventType DEF Begin
  <2> QED
    BY <1>9, <2>1 DEF Begin, ServerTypeOK, TypeOK, QueryStates
<1>10. ASSUME NEW t \in Tasks, Stream(t), UNCHANGED use
       PROVE  ServerTypeOK'
  <2>1. out' \in [Conns -> Seq(Events)]
    BY <1>10, EmitType, OneEvent, EventType DEF Stream
  <2> QED
    BY <1>10, <2>1 DEF Stream, ServerTypeOK, TypeOK
<1>11. ASSUME NEW t \in Tasks, NEW events \in Seq(Events), UNCHANGED use,
              events = <<>> \/ events = <<Event("error", t, None)>>, Finally(t, events)
       PROVE  ServerTypeOK'
  <2>1. out' \in [Conns -> Seq(Events)]
    BY <1>11, EmitType, LastEventsAre DEF Finally
  <2> QED
    BY <1>11, <2>1 DEF Finally, ServerTypeOK, TypeOK, QueryStates, HookStates
<1>12. ASSUME NEW t \in Tasks, NEW r \in Requests, Ask(t, r), UNCHANGED use
       PROVE  ServerTypeOK'
  <2> DEFINE asked == <<Event("question", t, r)>>
  <2>a. asked \in Seq(Events)
    BY OneEvent, EventType
  <2>b. Emit(t, asked)
    BY <1>12 DEF Ask
  <2> HIDE DEF asked
  <2>1. out' \in [Conns -> Seq(Events)]
    BY <2>a, <2>b, EmitType
  <2> QED
    BY <1>12, <2>1 DEF Ask, ServerTypeOK, TypeOK, HookStates
<1>13. ASSUME NEW r \in Requests, HookResumes(r), UNCHANGED use
       PROVE  ServerTypeOK'
  BY <1>13 DEF HookResumes, ServerTypeOK, TypeOK, HookStates
<1>14. ASSUME NEW r \in Requests, HookTimesOut(r), UNCHANGED use
       PROVE  ServerTypeOK'
  BY <1>14 DEF HookTimesOut, ServerTypeOK, TypeOK, HookStates
<1>15. ASSUME Restart, UNCHANGED use
       PROVE  ServerTypeOK'
  BY <1>15 DEF Restart, ServerTypeOK, TypeOK, QueryStates, HookStates
<1>16. CASE UNCHANGED allVars
  BY <1>16 DEF allVars, ServerTypeOK, TypeOK
<1> QED
  BY <1>1, <1>2, <1>3, <1>4, <1>5, <1>6, <1>7, <1>8, <1>9, <1>10, <1>11, <1>12, <1>13,
     <1>14, <1>15, <1>16, EndIsFinally
     DEF ServerNext, AgentStep, Request, RunHook, GetChatStream

(* Events reach streams of their task, and no Stop cancels.                *)

\* The connections an event of a query may be written to were opened for it.
StreamInv ==
    /\ \A t \in Tasks : captured[t] # None => use[captured[t]] = [kind |-> "query", task |-> t]
    /\ \A t \in Tasks : writer[t] # None =>
            use[writer[t]] \in [kind : {"query", "hello"}, task : {t}]
    /\ EventsReachStreams
    /\ NoQueryIsCancelled

\* Events about their query leave EventsReachStreams as it was.
LEMMA EmitReachesStream ==
    ASSUME ServerTypeOK, StreamInv, UNCHANGED use,
           NEW t \in Tasks, NEW events \in Seq(Events), Emit(t, events),
           \A i \in 1..Len(events) : events[i].task = t
    PROVE  EventsReachStreams'
<1> SUFFICES ASSUME NEW c \in Conns, NEW i \in 1..Len(out'[c])
             PROVE  use[c] \in [kind : {"query", "hello"}, task : {out'[c][i].task}]
  BY DEF EventsReachStreams
<1>1. TypeOK /\ out[c] \in Seq(Events)
  BY DEF ServerTypeOK, TypeOK
<1>2. CASE out'[c] = out[c]
  BY <1>2 DEF StreamInv, EventsReachStreams
<1>3. CASE c = EmitTarget(t) /\ out'[c] = out[c] \o events
  <2>1. use[c] \in [kind : {"query", "hello"}, task : {t}]
    <3>1. c # None /\ (c = captured[t] \/ c = writer[t])
      BY <1>3, AgentAssumption DEF EmitTarget
    <3>2. [kind |-> "query", task |-> t] \in [kind : {"query", "hello"}, task : {t}]
      OBVIOUS
    <3>3. CASE c = captured[t]
      BY <3>1, <3>2, <3>3 DEF StreamInv
    <3>4. CASE c = writer[t]
      BY <3>1, <3>4 DEF StreamInv
    <3> QED
      BY <3>1, <3>3, <3>4
  <2>2. CASE i <= Len(out[c])
    <3>1. out'[c][i] = out[c][i] /\ i \in 1..Len(out[c])
      BY <2>2, <1>1, <1>3, ConcatProperties, LenProperties
    <3> QED
      BY <3>1 DEF StreamInv, EventsReachStreams
  <2>3. CASE i > Len(out[c])
    <3>1. /\ out'[c][i] = events[i - Len(out[c])]
          /\ i - Len(out[c]) \in 1..Len(events)
      BY <2>3, <1>1, <1>3, ConcatProperties, LenProperties
    <3> QED
      BY <2>1, <3>1
  <2>4. i \in Nat /\ Len(out[c]) \in Nat
    BY <1>1, <1>3, ConcatProperties, LenProperties
  <2> QED
    BY <2>2, <2>3, <2>4
<1> QED
  BY <1>1, <1>2, <1>3, EmitWrites

\* The answer to a hello is written to a connection that is opened for it.
LEMMA HelloReachesStream ==
    ASSUME ServerTypeOK, StreamInv, NEW c \in Conns, NEW t \in Tasks, Use(c, "hello", t),
           NEW e \in Events, e.task = t,
           out' = out \/ out' = [out EXCEPT ![c] = Append(@, e)]
    PROVE  EventsReachStreams'
<1> SUFFICES ASSUME NEW d \in Conns, NEW i \in 1..Len(out'[d])
             PROVE  use'[d] \in [kind : {"query", "hello"}, task : {out'[d][i].task}]
  BY DEF EventsReachStreams
<1>1. use[c] = Unused /\ use' = [use EXCEPT ![c] = [kind |-> "hello", task |-> t]]
  BY DEF Use
<1>2. out[c] \in Seq(Events) /\ out[d] \in Seq(Events)
  BY DEF ServerTypeOK, TypeOK
<1>3. Len(out[c]) = 0
  BY <1>1, <1>2, LenProperties DEF StreamInv, EventsReachStreams, Unused
<1>4. CASE d # c
  <2>1. out'[d] = out[d] /\ use'[d] = use[d]
    BY <1>1, <1>4 DEF ServerTypeOK, TypeOK
  <2> QED
    BY <2>1 DEF StreamInv, EventsReachStreams
<1>5. CASE d = c
  <2>1. use'[d] = [kind |-> "hello", task |-> t]
    BY <1>1, <1>5 DEF ServerTypeOK
  <2>2. out'[d] = Append(out[c], e)
    BY <1>3, <1>5, <1>2, LenProperties DEF ServerTypeOK, TypeOK
  <2>3. out'[d][i] = e
    BY <2>2, <1>2, <1>3, AppendProperties
  <2> QED
    BY <2>1, <2>3
<1> QED
  BY <1>4, <1>5

\* Every step keeps connections and the tasks they were opened for together.
LEMMA StreamStep == ServerTypeOK /\ StreamInv /\ [ServerNext]_allVars => StreamInv'
<1> SUFFICES ASSUME ServerTypeOK, TypeOK, use \in [Conns -> Uses \cup {Unused}],
                    StreamInv, [ServerNext]_allVars
             PROVE  StreamInv'
  BY DEF ServerTypeOK
<1> USE AgentAssumption DEF connVars, sessionVars, queryVars, hookVars, historyVars, vars,
        Unused
<1>1. ASSUME NEW c \in Conns, NEW t \in Tasks, PostChat(c, t)
      PROVE  StreamInv'
  BY <1>1 DEF PostChat, Use, StreamInv, EventsReachStreams, NoQueryIsCancelled, TypeOK
<1>2. ASSUME NEW c \in Conns, NEW t \in Tasks, SendQuery(c, t)
      PROVE  StreamInv'
  BY <1>2 DEF SendQuery, HandleQuery, StreamInv, EventsReachStreams, NoQueryIsCancelled,
              TypeOK
<1>3. ASSUME NEW c \in Conns, NEW t \in Tasks, GetChatStream(c, t), HelloKnown(c, t)
      PROVE  StreamInv'
  <2>1. EventsReachStreams'
    <3>1. Use(c, "hello", t)
      BY <1>3 DEF GetChatStream
    <3>2. CASE pending[t] = None
      <4>1. out' = out /\ Event("gone", t, None) \in Events /\ Event("gone", t, None).task = t
        BY <1>3, <3>2, EventType DEF HelloKnown
      <4> QED
        BY <3>1, <4>1, HelloReachesStream
    <3>3. CASE pending[t] # None
      <4>1. /\ out' = [out EXCEPT ![c] = Append(@, Event("question", t, pending[t]))]
            /\ Event("question", t, pending[t]) \in Events
            /\ Event("question", t, pending[t]).task = t
        BY <1>3, <3>3, EventType DEF HelloKnown, TypeOK
      <4> QED
        BY <3>1, <4>1, HelloReachesStream
    <3> QED
      BY <3>2, <3>3
  <2>2. /\ writer' = [writer EXCEPT ![t] = c]
        /\ use[c] = Unused
        /\ use' = [use EXCEPT ![c] = [kind |-> "hello", task |-> t]]
        /\ UNCHANGED <<captured, cancelling>>
    BY <1>3 DEF GetChatStream, HelloKnown, Use
  <2> QED
    BY <2>1, <2>2 DEF StreamInv, NoQueryIsCancelled, TypeOK
<1>4. ASSUME NEW c \in Conns, NEW t \in Tasks, GetChatStream(c, t), HelloUnknown(c, t)
      PROVE  StreamInv'
  <2>1. EventsReachStreams'
    <3>1. /\ Use(c, "hello", t)
          /\ out' = [out EXCEPT ![c] = Append(@, Event("gone", t, None))]
          /\ Event("gone", t, None) \in Events /\ Event("gone", t, None).task = t
      BY <1>4, EventType DEF GetChatStream, HelloUnknown
    <3> QED
      BY <3>1, HelloReachesStream
  <2>2. /\ use[c] = Unused
        /\ use' = [use EXCEPT ![c] = [kind |-> "hello", task |-> t]]
        /\ UNCHANGED <<writer, captured, cancelling>>
    BY <1>4 DEF GetChatStream, HelloUnknown, Use
  <2> QED
    BY <2>1, <2>2 DEF StreamInv, NoQueryIsCancelled, TypeOK
<1>5. ASSUME NEW c \in Conns, NEW t \in Tasks, Stop(c, t)
      PROVE  StreamInv'
  <2>1. writer[t] # c
    BY <1>5 DEF Stop, Use, StreamInv
  <2> QED
    BY <1>5, <2>1 DEF Stop, Use, HandleInterrupt, Interruptible, StreamInv,
        EventsReachStreams, NoQueryIsCancelled, TypeOK
<1>6. ASSUME NEW c \in Conns, NEW r \in Requests, Answer(c, r)
      PROVE  StreamInv'
  BY <1>6 DEF Answer, Use, HandleAnswer, StreamInv, EventsReachStreams, NoQueryIsCancelled,
              TypeOK
<1>7. ASSUME NEW c \in Conns, Drop(c)
      PROVE  StreamInv'
  BY <1>7 DEF Drop, StreamInv, EventsReachStreams, NoQueryIsCancelled
<1>8. ASSUME NEW c \in Conns, Eof(c), UNCHANGED use
      PROVE  StreamInv'
  BY <1>8 DEF Eof, StreamInv, EventsReachStreams, NoQueryIsCancelled
<1>9. ASSUME NEW t \in Tasks, Begin(t), UNCHANGED use
      PROVE  StreamInv'
  <2>1. EventsReachStreams'
    <3> DEFINE e == Event("session_start", t, None)
               events == <<e>>
    <3>1. events \in Seq(Events) /\ \A i \in 1..Len(events) : events[i].task = t
      <4>1. e \in Events /\ e.task = t
        BY EventType
      <4> HIDE DEF e
      <4> QED
        BY <4>1, OneEvent
    <3>2. Emit(t, events)
      BY <1>9 DEF Begin
    <3> HIDE DEF events
    <3> QED
      BY <1>9, <3>1, <3>2, EmitReachesStream
  <2> QED
    BY <1>9, <2>1 DEF Begin, StreamInv, NoQueryIsCancelled
<1>10. ASSUME NEW t \in Tasks, Stream(t), UNCHANGED use
       PROVE  StreamInv'
  <2>1. EventsReachStreams'
    <3> DEFINE e == Event("text", t, None)
               events == <<e>>
    <3>1. events \in Seq(Events) /\ \A i \in 1..Len(events) : events[i].task = t
      <4>1. e \in Events /\ e.task = t
        BY EventType
      <4> HIDE DEF e
      <4> QED
        BY <4>1, OneEvent
    <3>2. Emit(t, events)
      BY <1>10 DEF Stream
    <3> HIDE DEF events
    <3> QED
      BY <1>10, <3>1, <3>2, EmitReachesStream
  <2> QED
    BY <1>10, <2>1 DEF Stream, StreamInv, NoQueryIsCancelled
<1>11. ASSUME NEW t \in Tasks, NEW events \in Seq(Events), UNCHANGED use,
              events = <<>> \/ events = <<Event("error", t, None)>>, Finally(t, events)
       PROVE  StreamInv'
  <2>1. EventsReachStreams'
    BY <1>11, EmitReachesStream, LastEventsAre DEF Finally
  <2> QED
    BY <1>11, <2>1 DEF Finally, StreamInv, NoQueryIsCancelled
<1>12. ASSUME NEW t \in Tasks, NEW r \in Requests, Ask(t, r), UNCHANGED use
       PROVE  StreamInv'
  <2>1. EventsReachStreams'
    <3> DEFINE e == Event("question", t, r)
               events == <<e>>
    <3>1. events \in Seq(Events) /\ \A i \in 1..Len(events) : events[i].task = t
      <4>1. e \in Events /\ e.task = t
        BY EventType
      <4> HIDE DEF e
      <4> QED
        BY <4>1, OneEvent
    <3>2. Emit(t, events)
      BY <1>12 DEF Ask
    <3> HIDE DEF events
    <3> QED
      BY <1>12, <3>1, <3>2, EmitReachesStream
  <2> QED
    BY <1>12, <2>1 DEF Ask, StreamInv, NoQueryIsCancelled
<1>13. ASSUME NEW r \in Requests, HookResumes(r), UNCHANGED use
       PROVE  StreamInv'
  BY <1>13 DEF HookResumes, StreamInv, EventsReachStreams, NoQueryIsCancelled
<1>14. ASSUME NEW r \in Requests, HookTimesOut(r), UNCHANGED use
       PROVE  StreamInv'
  BY <1>14 DEF HookTimesOut, StreamInv, EventsReachStreams, NoQueryIsCancelled
<1>15. ASSUME Restart, UNCHANGED use
       PROVE  StreamInv'
  BY <1>15 DEF Restart, StreamInv, EventsReachStreams, NoQueryIsCancelled
<1>16. CASE UNCHANGED allVars
  BY <1>16 DEF allVars, StreamInv, EventsReachStreams, NoQueryIsCancelled
<1> QED
  BY <1>1, <1>2, <1>3, <1>4, <1>5, <1>6, <1>7, <1>8, <1>9, <1>10, <1>11, <1>12, <1>13,
     <1>14, <1>15, <1>16, EndIsFinally
     DEF ServerNext, AgentStep, Request, RunHook, GetChatStream

(* Sessions end, and nothing follows done.                                 *)

\* Whoever is in the table has a query that can still end, and a done is the
\* last thing that a query does.
LifeInv ==
    /\ \A t \in sessions : query[t] \in {"created", "running"}
    /\ \A c \in Conns : \A i \in 1..Len(out[c]) :
            out[c][i].kind = "done" => query[out[c][i].task] = "over"
    /\ NothingAfterDone

\* A query that is not over yet may write events that end with its done.
LEMMA EmitBeforeDone ==
    ASSUME TypeOK, LifeInv, NEW t \in Tasks, query[t] # "over",
           NEW events \in Seq(Events), Emit(t, events),
           \A i \in 1..Len(events) :
                /\ events[i].task = t
                /\ events[i].kind = "done" => i = Len(events) /\ query'[t] = "over",
           \A u \in Tasks : query[u] = "over" => query'[u] = "over"
    PROVE  /\ \A c \in Conns : \A i \in 1..Len(out'[c]) :
                out'[c][i].kind = "done" => query'[out'[c][i].task] = "over"
           /\ NothingAfterDone'
<1>1. ASSUME NEW c \in Conns
      PROVE  /\ \A i \in 1..Len(out'[c]) :
                    out'[c][i].kind = "done" => query'[out'[c][i].task] = "over"
             /\ \A i, j \in 1..Len(out'[c]) :
                    (i < j /\ out'[c][i].kind = "done"
                        /\ out'[c][j].task = out'[c][i].task) => out'[c][j].kind = "gone"
  <2> DEFINE old == out[c]
             new == out'[c]
  <2>1. /\ old \in Seq(Events) /\ Len(old) \in Nat /\ Len(events) \in Nat
        /\ \A i \in 1..Len(old) : old[i] \in Events
    BY LenProperties, ElementOfSeq DEF TypeOK
  <2>2. \A i \in 1..Len(old) :
            old[i].task \in Tasks /\ (old[i].kind = "done" => query[old[i].task] = "over")
    BY <2>1 DEF LifeInv, Events
  <2>3. \A i, j \in 1..Len(old) :
            (i < j /\ old[i].kind = "done" /\ old[j].task = old[i].task)
                => old[j].kind = "gone"
    BY DEF LifeInv, NothingAfterDone
  <2>4. CASE new = old
    BY <2>2, <2>3, <2>4
  <2>5. CASE new = old \o events
    <3>1. /\ Len(new) = Len(old) + Len(events)
          /\ \A i \in 1..Len(new) :
                new[i] = IF i <= Len(old) THEN old[i] ELSE events[i - Len(old)]
      BY <2>1, <2>5, ConcatProperties
    <3> HIDE DEF old, new
    <3>2. \A i \in 1..Len(new) :
             \/ i \in 1..Len(old) /\ new[i] = old[i]
             \/ /\ i - Len(old) \in 1..Len(events)
                /\ new[i] = events[i - Len(old)]
                /\ new[i].task = t
                /\ new[i].kind = "done" => i = Len(new) /\ query'[t] = "over"
      <4> SUFFICES ASSUME NEW i \in 1..Len(new), i > Len(old)
                   PROVE  /\ i - Len(old) \in 1..Len(events)
                          /\ new[i] = events[i - Len(old)]
                          /\ new[i].task = t
                          /\ new[i].kind = "done" => i = Len(new) /\ query'[t] = "over"
        BY <2>1, <3>1
      <4>a. Len(old) \in Nat /\ Len(events) \in Nat /\ Len(new) = Len(old) + Len(events)
        BY <2>1, <3>1
      <4>b. i - Len(old) \in 1..Len(events) /\ ~(i <= Len(old))
        BY <4>a
      <4>1. i - Len(old) \in 1..Len(events) /\ new[i] = events[i - Len(old)]
        BY <4>b, <3>1
      <4>2. events[i - Len(old)].kind = "done"
                => i - Len(old) = Len(events) /\ query'[t] = "over"
        BY <4>1
      <4> QED
        BY <2>1, <3>1, <4>1, <4>2
    <3>3. \A i \in 1..Len(new) : new[i].kind = "done" => query'[new[i].task] = "over"
      BY <2>2, <3>2
    <3>4. ASSUME NEW i \in 1..Len(new), NEW j \in 1..Len(new), i < j,
                 new[i].kind = "done", new[j].task = new[i].task
          PROVE  new[j].kind = "gone"
      <4>1. i \in 1..Len(old) /\ new[i] = old[i]
        BY <2>1, <3>1, <3>2, <3>4
      <4>2. query[new[i].task] = "over"
        BY <2>2, <3>4, <4>1
      <4>3. j \in 1..Len(old) /\ new[j] = old[j]
        BY <3>2, <3>4, <4>2
      <4> QED
        BY <2>3, <3>4, <4>1, <4>3
    <3> QED
      BY <3>3, <3>4 DEF new
  <2> QED
    BY <2>4, <2>5, EmitWrites
<1> QED
  BY <1>1 DEF NothingAfterDone

\* So may a hello be answered, with a question or with the done of a task that
\* the daemon does not know.
LEMMA HelloAfterDone ==
    ASSUME TypeOK, LifeInv, NEW c \in Conns, NEW e \in Events, UNCHANGED query,
           out' = [out EXCEPT ![c] = Append(@, e)],
           e.kind # "done", e.kind # "gone" => query[e.task] # "over"
    PROVE  /\ \A d \in Conns : \A i \in 1..Len(out'[d]) :
                out'[d][i].kind = "done" => query'[out'[d][i].task] = "over"
           /\ NothingAfterDone'
<1>1. out[c] \in Seq(Events) /\ Len(out[c]) \in Nat
  BY LenProperties DEF TypeOK
<1>2. /\ Len(out'[c]) = Len(out[c]) + 1
      /\ \A i \in 1..Len(out[c]) : out'[c][i] = out[c][i]
      /\ out'[c][Len(out[c]) + 1] = e
  BY <1>1, AppendProperties DEF TypeOK
<1>3. \A d \in Conns : d # c => out'[d] = out[d]
  BY DEF TypeOK
<1>4. \A i \in 1..Len(out'[c]) : i \in 1..Len(out[c]) \/ i = Len(out[c]) + 1
  BY <1>1, <1>2
<1>5. \A i \in 1..Len(out'[c]) :
            out'[c][i].kind = "done" => query'[out'[c][i].task] = "over"
  BY <1>2, <1>4 DEF LifeInv
<1>6. ASSUME NEW i \in 1..Len(out'[c]), NEW j \in 1..Len(out'[c]), i < j,
             out'[c][i].kind = "done", out'[c][j].task = out'[c][i].task
      PROVE  out'[c][j].kind = "gone"
  <2>1. i \in 1..Len(out[c]) /\ out'[c][i] = out[c][i]
    BY <1>1, <1>2, <1>4, <1>6
  <2>2. CASE j \in 1..Len(out[c])
    BY <1>2, <1>6, <2>1, <2>2 DEF LifeInv, NothingAfterDone
  <2>3. CASE j = Len(out[c]) + 1
    BY <1>2, <1>6, <2>1, <2>3 DEF LifeInv
  <2> QED
    BY <1>4, <2>2, <2>3
<1>7. \A d \in Conns : \A i \in 1..Len(out'[d]) :
            out'[d][i].kind = "done" => query'[out'[d][i].task] = "over"
  BY <1>3, <1>5 DEF LifeInv
<1>8. NothingAfterDone'
  <2> SUFFICES ASSUME NEW d \in Conns, NEW i \in 1..Len(out'[d]), NEW j \in 1..Len(out'[d]),
                      i < j, out'[d][i].kind = "done", out'[d][j].task = out'[d][i].task
               PROVE  out'[d][j].kind = "gone"
    BY DEF NothingAfterDone
  <2>1. CASE d = c
    BY <1>6, <2>1
  <2>2. CASE d # c
    BY <1>3, <2>2 DEF LifeInv, NothingAfterDone
  <2> QED
    BY <2>1, <2>2
<1> QED
  BY <1>7, <1>8

\* Every step keeps done the last event of its query.
LEMMA LifeStep == ServerTypeOK /\ LifeInv /\ [ServerNext]_allVars => LifeInv'
<1> SUFFICES ASSUME TypeOK, LifeInv, [ServerNext]_allVars PROVE LifeInv'
  BY DEF ServerTypeOK
<1> USE AgentAssumption DEF connVars, sessionVars, queryVars, hookVars, historyVars, vars
<1> DEFINE Dones == \A c \in Conns : \A i \in 1..Len(out[c]) :
                        out[c][i].kind = "done" => query[out[c][i].task] = "over"
<1>0. \A c \in Conns : \A i \in 1..Len(out[c]) : out[c][i].task \in Tasks
  <2> SUFFICES ASSUME NEW c \in Conns, NEW i \in 1..Len(out[c])
               PROVE  out[c][i].task \in Tasks
    OBVIOUS
  <2>1. out[c][i] \in Events
    BY ElementOfSeq DEF TypeOK
  <2> QED
    BY <2>1 DEF Events
<1>1. ASSUME NEW c \in Conns, NEW t \in Tasks, PostChat(c, t)
      PROVE  LifeInv'
  BY <1>1 DEF PostChat, LifeInv, NothingAfterDone
<1>2. ASSUME NEW c \in Conns, NEW t \in Tasks, SendQuery(c, t)
      PROVE  LifeInv'
  BY <1>0, <1>2 DEF SendQuery, HandleQuery, LifeInv, NothingAfterDone, TypeOK
<1>3. ASSUME NEW c \in Conns, NEW t \in Tasks, GetChatStream(c, t), HelloKnown(c, t)
      PROVE  LifeInv'
  <2>1. CASE pending[t] = None
    BY <1>3, <2>1 DEF HelloKnown, LifeInv, NothingAfterDone
  <2>2. CASE pending[t] # None
    <3> DEFINE e == Event("question", t, pending[t])
    <3>1. e \in Events /\ e.kind = "question" /\ e.task = t
      BY <2>2, EventType DEF TypeOK
    <3>2. out' = [out EXCEPT ![c] = Append(@, e)] /\ UNCHANGED <<sessions, query>>
      BY <1>3, <2>2 DEF HelloKnown
    <3>3. query[t] # "over"
      BY <1>3 DEF HelloKnown, LifeInv
    <3> HIDE DEF e
    <3> QED
      BY <3>1, <3>2, <3>3, HelloAfterDone DEF LifeInv
  <2> QED
    BY <2>1, <2>2
<1>4. ASSUME NEW c \in Conns, NEW t \in Tasks, GetChatStream(c, t), HelloUnknown(c, t)
      PROVE  LifeInv'
  <2> DEFINE e == Event("gone", t, None)
  <2>1. e \in Events /\ e.kind = "gone" /\ e.kind # "done"
    BY EventType
  <2>2. out' = [out EXCEPT ![c] = Append(@, e)] /\ UNCHANGED <<sessions, query>>
    BY <1>4 DEF HelloUnknown
  <2> HIDE DEF e
  <2>3. Dones' /\ NothingAfterDone'
    BY <2>1, <2>2, HelloAfterDone
  <2> QED
    BY <2>2, <2>3 DEF LifeInv
<1>5. ASSUME NEW c \in Conns, NEW t \in Tasks, Stop(c, t)
      PROVE  LifeInv'
  BY <1>5 DEF Stop, HandleInterrupt, LifeInv, NothingAfterDone
<1>6. ASSUME NEW c \in Conns, NEW r \in Requests, Answer(c, r)
      PROVE  LifeInv'
  BY <1>6 DEF Answer, HandleAnswer, LifeInv, NothingAfterDone
<1>7. ASSUME NEW c \in Conns, Drop(c)
      PROVE  LifeInv'
  BY <1>7 DEF Drop, LifeInv, NothingAfterDone
<1>8. ASSUME NEW c \in Conns, Eof(c)
      PROVE  LifeInv'
  BY <1>8 DEF Eof, LifeInv, NothingAfterDone
<1>9. ASSUME NEW t \in Tasks, Begin(t)
      PROVE  LifeInv'
  <2> DEFINE e == Event("session_start", t, None)
             events == <<e>>
  <2>1. /\ events \in Seq(Events)
        /\ \A i \in 1..Len(events) : events[i].task = t /\ events[i].kind # "done"
    <3>1. e \in Events /\ e.task = t /\ e.kind # "done"
      BY EventType
    <3> HIDE DEF e
    <3> QED
      BY <3>1, OneEvent
  <2>2. /\ Emit(t, events)
        /\ query[t] = "created" /\ query' = [query EXCEPT ![t] = "running"]
        /\ UNCHANGED sessions
    BY <1>9 DEF Begin
  <2>3. \A u \in Tasks : query[u] = "over" => query'[u] = "over"
    BY <2>2 DEF TypeOK
  <2> HIDE DEF events
  <2>4. Dones' /\ NothingAfterDone'
    BY <2>1, <2>2, <2>3, EmitBeforeDone
  <2> QED
    BY <2>2, <2>4 DEF LifeInv, TypeOK
<1>10. ASSUME NEW t \in Tasks, Stream(t)
       PROVE  LifeInv'
  <2> DEFINE e == Event("text", t, None)
             events == <<e>>
  <2>1. /\ events \in Seq(Events)
        /\ \A i \in 1..Len(events) : events[i].task = t /\ events[i].kind # "done"
    <3>1. e \in Events /\ e.task = t /\ e.kind # "done"
      BY EventType
    <3> HIDE DEF e
    <3> QED
      BY <3>1, OneEvent
  <2>2. Emit(t, events) /\ query[t] = "running" /\ UNCHANGED <<query, sessions>>
    BY <1>10 DEF Stream
  <2> HIDE DEF events
  <2>3. Dones' /\ NothingAfterDone'
    BY <2>1, <2>2, EmitBeforeDone
  <2> QED
    BY <2>2, <2>3 DEF LifeInv
<1>11. ASSUME NEW t \in Tasks, NEW events \in Seq(Events),
              events = <<>> \/ events = <<Event("error", t, None)>>, Finally(t, events)
       PROVE  LifeInv'
  <2> DEFINE last == LastEvents(t, events)
  <2>1. /\ last \in Seq(Events)
        /\ \A i \in 1..Len(last) :
              last[i].task = t /\ (last[i].kind = "done" => i = Len(last))
    BY <1>11, LastEventsAre
  <2>2. /\ Emit(t, last)
        /\ query[t] = "running" /\ query' = [query EXCEPT ![t] = "over"]
        /\ sessions' = sessions \ {t}
    BY <1>11 DEF Finally
  <2>3. query'[t] = "over" /\ \A u \in Tasks : query[u] = "over" => query'[u] = "over"
    BY <2>2 DEF TypeOK
  <2> HIDE DEF last
  <2>4. Dones' /\ NothingAfterDone'
    BY <2>1, <2>2, <2>3, EmitBeforeDone
  <2> QED
    BY <2>2, <2>4 DEF LifeInv, TypeOK
<1>12. ASSUME NEW t \in Tasks, NEW r \in Requests, Ask(t, r)
       PROVE  LifeInv'
  <2> DEFINE e == Event("question", t, r)
             events == <<e>>
  <2>1. /\ events \in Seq(Events)
        /\ \A i \in 1..Len(events) : events[i].task = t /\ events[i].kind # "done"
    <3>1. e \in Events /\ e.task = t /\ e.kind # "done"
      BY EventType
    <3> HIDE DEF e
    <3> QED
      BY <3>1, OneEvent
  <2>2. Emit(t, events) /\ query[t] = "running" /\ UNCHANGED <<query, sessions>>
    BY <1>12 DEF Ask
  <2> HIDE DEF events
  <2>3. Dones' /\ NothingAfterDone'
    BY <2>1, <2>2, EmitBeforeDone
  <2> QED
    BY <2>2, <2>3 DEF LifeInv
<1>13. ASSUME NEW r \in Requests, HookResumes(r)
       PROVE  LifeInv'
  BY <1>13 DEF HookResumes, LifeInv, NothingAfterDone
<1>14. ASSUME NEW r \in Requests, HookTimesOut(r)
       PROVE  LifeInv'
  BY <1>14 DEF HookTimesOut, LifeInv, NothingAfterDone
<1>15. ASSUME Restart
       PROVE  LifeInv'
  BY <1>0, <1>15 DEF Restart, LifeInv, NothingAfterDone
<1>16. CASE UNCHANGED allVars
  BY <1>16 DEF allVars, LifeInv, NothingAfterDone
<1> QED
  BY <1>1, <1>2, <1>3, <1>4, <1>5, <1>6, <1>7, <1>8, <1>9, <1>10, <1>11, <1>12, <1>13,
     <1>14, <1>15, <1>16, EndIsFinally
     DEF ServerNext, AgentStep, Request, RunHook, GetChatStream

(* Who rejoins is shown the question.                                      *)

\* Connections named by queries and sessions have been accepted, the submitter's
\* is closed once another has rejoined, and what is pending was asked.
QuestionInv ==
    /\ \A t \in Tasks : rejoined[t] # {} => query[t] # "none" /\ ~Open(captured[t])
    /\ \A t \in Tasks : captured[t] # None => conn[captured[t]] # "new"
    /\ \A t \in Tasks : writer[t] # None => conn[writer[t]] # "new"
    /\ \A t \in Tasks : pending[t] # None => hook[pending[t]] # "none"
    /\ QuestionReachesRejoined

\* What is written stays, and what is added is written.
LEMMA WrittenStays ==
    ASSUME TypeOK, NEW c \in Conns, NEW s \in Seq(Events), out'[c] = out[c] \o s
    PROVE  /\ \A e : Written(c, e) => Written(c, e)'
           /\ \A i \in 1..Len(s) : Written(c, s[i])'
<1>1. out[c] \in Seq(Events) /\ Len(out[c]) \in Nat /\ Len(s) \in Nat
  BY LenProperties DEF TypeOK
<1>2. /\ Len(out'[c]) = Len(out[c]) + Len(s)
      /\ \A i \in 1..Len(out[c]) + Len(s) :
            out'[c][i] = IF i <= Len(out[c]) THEN out[c][i] ELSE s[i - Len(out[c])]
  BY <1>1, ConcatProperties
<1>3. ASSUME NEW e, Written(c, e)
      PROVE  Written(c, e)'
  <2>1. PICK i \in 1..Len(out[c]) : out[c][i] = e
    BY <1>3 DEF Written
  <2>2. i \in 1..Len(out'[c]) /\ out'[c][i] = e
    BY <1>1, <1>2, <2>1
  <2> QED
    BY <2>2 DEF Written
<1>4. ASSUME NEW i \in 1..Len(s)
      PROVE  Written(c, s[i])'
  <2>1. Len(out[c]) + i \in 1..Len(out'[c]) /\ out'[c][Len(out[c]) + i] = s[i]
    BY <1>1, <1>2
  <2> QED
    BY <2>1 DEF Written
<1> QED
  BY <1>3, <1>4

\* So it is with emit_sse.
LEMMA EmitKeepsWritten ==
    ASSUME TypeOK, NEW t \in Tasks, NEW events \in Seq(Events), Emit(t, events)
    PROVE  /\ \A c \in Conns : \A e : Written(c, e) => Written(c, e)'
           /\ \A c \in Conns : c = EmitTarget(t)
                => \A i \in 1..Len(events) : Written(c, events[i])'
<1>1. ASSUME NEW c \in Conns, out'[c] = out[c], NEW e, Written(c, e)
      PROVE  Written(c, e)'
  BY <1>1 DEF Written
<1>2. ASSUME NEW c \in Conns, c # EmitTarget(t)
      PROVE  \A e : Written(c, e) => Written(c, e)'
  BY <1>1, <1>2, EmitWrites
<1>3. ASSUME NEW c \in Conns, c = EmitTarget(t)
      PROVE  /\ \A e : Written(c, e) => Written(c, e)'
             /\ \A i \in 1..Len(events) : Written(c, events[i])'
  <2>1. out'[c] = out[c] \o events
    BY <1>3, EmitWrites
  <2> QED
    BY <2>1, WrittenStays
<1> QED
  BY <1>2, <1>3

\* And with the answer to a hello.
LEMMA HelloKeepsWritten ==
    ASSUME TypeOK, NEW c \in Conns, NEW e \in Events,
           out' = [out EXCEPT ![c] = Append(@, e)]
    PROVE  /\ \A d \in Conns : \A f : Written(d, f) => Written(d, f)'
           /\ Written(c, e)'
<1>1. out'[c] = out[c] \o <<e>> /\ \A d \in Conns : d # c => out'[d] = out[d]
  BY AppendIsConcat DEF TypeOK
<1>2. <<e>> \in Seq(Events) /\ 1 \in 1..Len(<<e>>) /\ <<e>>[1] = e
  BY OneEvent
<1>3. (\A f : Written(c, f) => Written(c, f)') /\ Written(c, <<e>>[1])'
  BY <1>1, <1>2, WrittenStays
<1>4. ASSUME NEW d \in Conns, d # c, NEW f, Written(d, f)
      PROVE  Written(d, f)'
  BY <1>1, <1>4 DEF Written
<1> QED
  BY <1>2, <1>3, <1>4

\* QuestionReachesRejoined of one task.
Shown(t) ==
    (/\ t \in sessions
     /\ Open(writer[t])
     /\ writer[t] \in rejoined[t]
     /\ pending[t] # None
     /\ hook[pending[t]] = "waiting")
        => Written(writer[t], Event("question", t, pending[t]))

\* It is the same of all tasks, before a step and after it.
LEMMA ShownToAll ==
    ASSUME TypeOK, sessions' \subseteq Tasks
    PROVE  /\ QuestionReachesRejoined => \A t \in Tasks : Shown(t)
           /\ (\A t \in Tasks : Shown(t)') => QuestionReachesRejoined'
<1>1. QuestionReachesRejoined => \A t \in Tasks : Shown(t)
  BY DEF QuestionReachesRejoined, Shown
<1>2. ASSUME \A t \in Tasks : Shown(t)' PROVE QuestionReachesRejoined'
  <2>1. \A t \in sessions' : t \in Tasks
    OBVIOUS
  <2> QED
    BY <1>2, <2>1 DEF QuestionReachesRejoined, Shown
<1> QED
  BY <1>1, <1>2

\* Where nothing is asked, no hook begins to wait and nobody is rebound, the
\* question stays shown.
LEMMA ShownStays ==
    ASSUME QuestionInv, TypeOK, NEW t \in Tasks,
           t \in sessions' => t \in sessions,
           writer'[t] = writer[t], rejoined'[t] = rejoined[t],
           pending'[t] \in {None, pending[t]},
           Open(writer[t])' => Open(writer[t]),
           \A r \in Requests : hook'[r] = "waiting" => hook[r] = "waiting",
           \A c \in Conns : \A e : Written(c, e) => Written(c, e)',
           sessions' \subseteq Tasks
    PROVE  Shown(t)'
<1> SUFFICES ASSUME t \in sessions', Open(writer[t])', writer'[t] \in rejoined'[t],
                    pending'[t] # None, hook'[pending'[t]] = "waiting"
             PROVE  Written(writer[t], Event("question", t, pending[t]))'
  BY DEF Shown
<1>1. writer[t] \in Conns /\ pending[t] \in Requests /\ pending'[t] = pending[t]
  BY DEF TypeOK, Open
<1>2. Written(writer[t], Event("question", t, pending[t]))
  BY <1>1, ShownToAll DEF QuestionInv, Shown
<1>3. Event("question", t, pending[t])' = Event("question", t, pending[t])
  BY <1>1 DEF Event
<1> QED
  BY <1>1, <1>2, <1>3

\* The same of all tasks.
LEMMA AllShownStays ==
    ASSUME QuestionInv, TypeOK, sessions' \subseteq sessions, UNCHANGED <<writer, rejoined>>,
           \A t \in Tasks : pending'[t] \in {None, pending[t]},
           \A t \in Tasks : Open(writer[t])' => Open(writer[t]),
           \A r \in Requests : hook'[r] = "waiting" => hook[r] = "waiting",
           \A c \in Conns : \A e : Written(c, e) => Written(c, e)'
    PROVE  QuestionReachesRejoined'
<1>1. sessions' \subseteq Tasks
  BY DEF TypeOK
<1>2. ASSUME NEW t \in Tasks PROVE Shown(t)'
  BY <1>1, ShownStays
<1> QED
  BY <1>1, <1>2, ShownToAll

\* Every step keeps the pending question shown to who rejoined.
LEMMA QuestionStep ==
    ServerTypeOK /\ LifeInv /\ QuestionInv /\ [ServerNext]_allVars => QuestionInv'
<1> SUFFICES ASSUME TypeOK, LifeInv, QuestionInv, [ServerNext]_allVars PROVE QuestionInv'
  BY DEF ServerTypeOK
<1> USE AgentAssumption DEF connVars, sessionVars, queryVars, hookVars, historyVars, vars
\* A connection that is accepted is nobody's yet, or was open before.
<1>a. ASSUME NEW c \in Conns, Accept(c), NEW t \in Tasks
      PROVE  /\ captured[t] # None => conn'[captured[t]] = conn[captured[t]]
             /\ writer[t] # None => conn'[writer[t]] = conn[writer[t]]
             /\ \A d \in Conns : conn[d] # "new" => conn'[d] # "new"
  BY <1>a DEF Accept, Open, QuestionInv, TypeOK
<1>1. ASSUME NEW c \in Conns, NEW t \in Tasks, PostChat(c, t)
      PROVE  QuestionInv'
  BY <1>1 DEF PostChat, QuestionInv, QuestionReachesRejoined, Open, Written
<1>2. ASSUME NEW c \in Conns, NEW t \in Tasks, SendQuery(c, t)
      PROVE  QuestionInv'
  <2>1. /\ Accept(c)
        /\ query[t] = "none"
        /\ query' = [query EXCEPT ![t] = "created"]
        /\ captured' = [captured EXCEPT ![t] = c]
        /\ sessions' = sessions \cup {t}
        /\ writer' = [writer EXCEPT ![t] = c]
        /\ pending' = [pending EXCEPT ![t] = None]
        /\ UNCHANGED <<out, hook, rejoined>>
    BY <1>2 DEF SendQuery, HandleQuery
  <2>2. rejoined[t] = {}
    BY <2>1 DEF QuestionInv, TypeOK
  <2>3. \A u \in Tasks : rejoined'[u] # {} => query'[u] # "none" /\ ~Open(captured[u])'
    BY <2>1, <2>2, <1>a DEF QuestionInv, TypeOK, Open
  <2>4. /\ \A u \in Tasks : captured'[u] # None => conn'[captured'[u]] # "new"
        /\ \A u \in Tasks : writer'[u] # None => conn'[writer'[u]] # "new"
    BY <2>1, <1>a DEF Accept, QuestionInv, TypeOK
  <2>5. \A u \in Tasks : pending'[u] # None => hook'[pending'[u]] # "none"
    BY <2>1 DEF QuestionInv, TypeOK
  <2>6. QuestionReachesRejoined'
    <3>0. sessions' \subseteq Tasks
      BY <2>1 DEF TypeOK
    <3> SUFFICES ASSUME NEW u \in Tasks PROVE Shown(u)'
      BY <3>0, ShownToAll
    <3>1. CASE u = t
      BY <2>1, <2>2, <3>1 DEF Shown
    <3>2. CASE u # t
      <4>1. /\ u \in sessions' => u \in sessions
            /\ pending'[u] = pending[u]
            /\ writer'[u] = writer[u] /\ rejoined'[u] = rejoined[u]
        BY <2>1, <3>2 DEF TypeOK
      <4>2. Open(writer[u])' => Open(writer[u])
        BY <2>1, <4>1, <1>a DEF Open
      <4>3. \A d \in Conns : \A e : Written(d, e) => Written(d, e)'
        BY <2>1 DEF Written
      <4> QED
        BY <2>1, <3>0, <4>1, <4>2, <4>3, ShownStays
    <3> QED
      BY <3>1, <3>2
  <2> QED
    BY <2>3, <2>4, <2>5, <2>6 DEF QuestionInv
<1>3. ASSUME NEW c \in Conns, NEW t \in Tasks, GetChatStream(c, t), HelloKnown(c, t)
      PROVE  QuestionInv'
  <2>1. /\ Accept(c)
        /\ t \in sessions
        /\ writer' = [writer EXCEPT ![t] = c]
        /\ out' = IF pending[t] = None THEN out
                  ELSE [out EXCEPT ![c] = Append(@, Event("question", t, pending[t]))]
        /\ rejoined' = IF Open(captured[t]) THEN rejoined
                       ELSE [rejoined EXCEPT ![t] = @ \cup {c}]
        /\ UNCHANGED <<sessions, pending, query, captured, hook>>
    BY <1>3 DEF HelloKnown
  <2>2. query[t] # "none"
    BY <2>1 DEF LifeInv
  <2>3. \A u \in Tasks : rejoined'[u] # {} => query'[u] # "none" /\ ~Open(captured[u])'
    BY <2>1, <2>2, <1>a DEF QuestionInv, TypeOK, Open
  <2>4. /\ \A u \in Tasks : captured'[u] # None => conn'[captured'[u]] # "new"
        /\ \A u \in Tasks : writer'[u] # None => conn'[writer'[u]] # "new"
    BY <2>1, <1>a DEF Accept, QuestionInv, TypeOK
  <2>5. \A d \in Conns : \A f : Written(d, f) => Written(d, f)'
    <3>1. CASE pending[t] = None
      BY <2>1, <3>1 DEF Written
    <3>2. ASSUME NEW r \in Requests, pending[t] = r
          PROVE  \A d \in Conns : \A f : Written(d, f) => Written(d, f)'
      BY <2>1, <3>2, EventType, HelloKeepsWritten
    <3> QED
      BY <3>1, <3>2 DEF TypeOK
  <2>6. ASSUME NEW r \in Requests, pending[t] = r
        PROVE  Written(c, Event("question", t, r))'
    BY <2>1, <2>6, EventType, HelloKeepsWritten
  <2>7. QuestionReachesRejoined'
    <3>0. sessions' \subseteq Tasks
      BY <2>1 DEF TypeOK
    <3> SUFFICES ASSUME NEW u \in Tasks PROVE Shown(u)'
      BY <3>0, ShownToAll
    <3>1. CASE u = t
      <4>1. writer'[t] = c /\ pending'[t] = pending[t] /\ pending[t] \in Requests \cup {None}
        BY <2>1 DEF TypeOK
      <4> QED
        BY <2>6, <3>1, <4>1 DEF Shown, Written, Event
    <3>2. CASE u # t
      <4>1. /\ u \in sessions' => u \in sessions
            /\ pending'[u] = pending[u]
            /\ writer'[u] = writer[u] /\ rejoined'[u] = rejoined[u]
        BY <2>1, <3>2 DEF TypeOK
      <4>2. Open(writer[u])' => Open(writer[u])
        BY <2>1, <4>1, <1>a DEF Open
      <4> QED
        BY <2>1, <2>5, <3>0, <4>1, <4>2, ShownStays
    <3> QED
      BY <3>1, <3>2
  <2> QED
    BY <2>1, <2>3, <2>4, <2>7 DEF QuestionInv
<1>4. ASSUME NEW c \in Conns, NEW t \in Tasks, GetChatStream(c, t), HelloUnknown(c, t)
      PROVE  QuestionInv'
  <2> DEFINE e == Event("gone", t, None)
  <2>1. /\ Accept(c)
        /\ out' = [out EXCEPT ![c] = Append(@, e)]
        /\ UNCHANGED <<sessions, writer, pending, query, captured, hook, rejoined>>
    BY <1>4 DEF HelloUnknown
  <2>2. \A d \in Conns : \A f : Written(d, f) => Written(d, f)'
    <3>1. e \in Events
      BY EventType
    <3> HIDE DEF e
    <3> QED
      BY <2>1, <3>1, HelloKeepsWritten
  <2>3. \A u \in Tasks : Open(writer[u])' => Open(writer[u])
    BY <2>1, <1>a DEF Open
  <2>4. QuestionReachesRejoined'
    BY <2>1, <2>2, <2>3, AllShownStays
  <2> QED
    BY <2>1, <2>4, <1>a DEF QuestionInv, TypeOK, Open
<1>5. ASSUME NEW c \in Conns, Accept(c),
             UNCHANGED <<out, sessions, writer, pending, query, captured, rejoined>>,
             \A r \in Requests : \/ hook'[r] = hook[r]
                                 \/ hook[r] = "waiting" /\ hook'[r] = "answered"
      PROVE  QuestionInv'
  <2>1. \A u \in Tasks : Open(writer[u])' => Open(writer[u])
    BY <1>5, <1>a DEF Open
  <2>2. \A d \in Conns : \A f : Written(d, f) => Written(d, f)'
    BY <1>5 DEF Written
  <2>3. QuestionReachesRejoined'
    BY <1>5, <2>1, <2>2, AllShownStays
  <2> QED
    BY <1>5, <2>3, <1>a DEF QuestionInv, TypeOK, Open
<1>6. ASSUME NEW c \in Conns, conn[c] # "closed", conn' = [conn EXCEPT ![c] = "closed"],
             UNCHANGED <<out, sessions, writer, pending, query, captured, hook, rejoined>>
      PROVE  QuestionInv'
  <2>1. \A u \in Tasks : Open(writer[u])' => Open(writer[u])
    BY <1>6 DEF Open, TypeOK
  <2>2. \A d \in Conns : \A f : Written(d, f) => Written(d, f)'
    BY <1>6 DEF Written
  <2>3. QuestionReachesRejoined'
    BY <1>6, <2>1, <2>2, AllShownStays
  <2> QED
    BY <1>6, <2>3 DEF QuestionInv, TypeOK, Open
\* Steps that emit, without a question, and may end the query.
<1>7. ASSUME NEW t \in Tasks, NEW events \in Seq(Events), Emit(t, events),
             UNCHANGED <<conn, writer, captured, rejoined>>, sessions' \subseteq sessions,
             \A u \in Tasks : query[u] # "none" => query'[u] # "none",
             \A u \in Tasks : pending'[u] \in {None, pending[u]},
             \A r \in Requests : hook'[r] = hook[r] \/ hook'[r] = "stopped"
      PROVE  QuestionInv'
  <2>1. \A d \in Conns : \A f : Written(d, f) => Written(d, f)'
    BY <1>7, EmitKeepsWritten
  <2>2. QuestionReachesRejoined'
    BY <1>7, <2>1, AllShownStays DEF Open
  <2> QED
    BY <1>7, <2>2 DEF QuestionInv, TypeOK, Open
<1>8. ASSUME NEW t \in Tasks, Begin(t)
      PROVE  QuestionInv'
  <2> DEFINE e == Event("session_start", t, None)
             events == <<e>>
  <2>1. events \in Seq(Events)
    BY EventType, OneEvent
  <2>2. /\ Emit(t, events)
        /\ query' = [query EXCEPT ![t] = "running"]
        /\ UNCHANGED <<conn, sessions, writer, pending, captured, hook, rejoined>>
    BY <1>8 DEF Begin
  <2>3. \A u \in Tasks : query[u] # "none" => query'[u] # "none"
    BY <2>2 DEF TypeOK
  <2> HIDE DEF events
  <2> QED
    BY <1>7, <2>1, <2>2, <2>3
<1>9. ASSUME NEW t \in Tasks, Stream(t)
      PROVE  QuestionInv'
  <2> DEFINE e == Event("text", t, None)
             events == <<e>>
  <2>1. events \in Seq(Events)
    BY EventType, OneEvent
  <2>2. /\ Emit(t, events)
        /\ UNCHANGED <<query, conn, sessions, writer, pending, captured, hook, rejoined>>
    BY <1>9 DEF Stream
  <2> HIDE DEF events
  <2> QED
    BY <1>7, <2>1, <2>2
<1>10. ASSUME NEW t \in Tasks, NEW events \in Seq(Events),
              events = <<>> \/ events = <<Event("error", t, None)>>, Finally(t, events)
       PROVE  QuestionInv'
  <2> DEFINE last == LastEvents(t, events)
  <2>1. last \in Seq(Events)
    BY <1>10, LastEventsAre
  <2>2. /\ Emit(t, last)
        /\ query' = [query EXCEPT ![t] = "over"]
        /\ sessions' = sessions \ {t}
        /\ pending' = [pending EXCEPT ![t] = None]
        /\ hook' = [r \in Requests |-> IF asker[r] = t /\ hook[r] \in {"waiting", "answered"}
                                       THEN "stopped" ELSE hook[r]]
        /\ UNCHANGED <<conn, writer, captured, rejoined>>
    BY <1>10 DEF Finally
  <2> HIDE DEF last
  <2>3. \A u \in Tasks : query[u] # "none" => query'[u] # "none"
    BY <2>2 DEF TypeOK
  <2>4. \A u \in Tasks : pending'[u] \in {None, pending[u]}
    BY <2>2 DEF TypeOK
  <2> QED
    BY <1>7, <2>1, <2>2, <2>3, <2>4
<1>11. ASSUME NEW t \in Tasks, NEW r \in Requests, Ask(t, r)
       PROVE  QuestionInv'
  <2> DEFINE e == Event("question", t, r)
             events == <<e>>
  <2>1. events \in Seq(Events) /\ 1 \in 1..Len(events) /\ events[1] = e
    BY EventType, OneEvent
  <2>2. /\ Emit(t, events)
        /\ t \in sessions
        /\ hook[r] = "none"
        /\ hook' = [hook EXCEPT ![r] = "waiting"]
        /\ pending' = [pending EXCEPT ![t] = r]
        /\ UNCHANGED <<query, conn, sessions, writer, captured, rejoined>>
    BY <1>11 DEF Ask
  <2> HIDE DEF events
  <2>3. \A d \in Conns : \A f : Written(d, f) => Written(d, f)'
    BY <2>1, <2>2, EmitKeepsWritten
  <2>4. QuestionReachesRejoined'
    <3>0. sessions' \subseteq Tasks
      BY <2>2 DEF TypeOK
    <3> SUFFICES ASSUME NEW u \in Tasks PROVE Shown(u)'
      BY <3>0, ShownToAll
    <3>1. CASE u = t
      <4> SUFFICES ASSUME Open(writer[t])', writer'[t] \in rejoined'[t]
                   PROVE  Written(writer[t], Event("question", t, pending[t]))'
        BY <3>1 DEF Shown
      <4>1. /\ Open(writer[t]) /\ writer[t] \in rejoined[t]
            /\ writer'[t] = writer[t] /\ pending'[t] = r
        BY <2>2 DEF Open, TypeOK
      <4>2. ~Open(captured[t])
        BY <4>1 DEF QuestionInv
      <4>3. writer[t] = EmitTarget(t) /\ writer[t] \in Conns
        BY <2>2, <4>1, <4>2 DEF EmitTarget, Open, TypeOK
      <4>4. \A c \in Conns : c = EmitTarget(t) => Written(c, events[1])'
        BY <2>1, <2>2, EmitKeepsWritten
      <4>5. \A c \in Conns : c = writer[t] => Written(c, e)'
        BY <2>1, <4>3, <4>4
      <4> QED
        BY <4>1, <4>3, <4>5 DEF Written, Event
    <3>2. CASE u # t
      <4> SUFFICES ASSUME u \in sessions, Open(writer[u])', writer'[u] \in rejoined'[u],
                          pending'[u] # None, hook'[pending'[u]] = "waiting"
                   PROVE  Written(writer[u], Event("question", u, pending[u]))'
        BY <2>2 DEF Shown
      <4>1. pending'[u] = pending[u] /\ pending[u] \in Requests /\ hook[pending[u]] # "none"
        BY <2>2, <3>2 DEF QuestionInv, TypeOK
      <4>2. hook[pending[u]] = "waiting"
        BY <2>2, <4>1 DEF TypeOK
      <4>3. Open(writer[u]) /\ writer[u] \in rejoined[u] /\ writer[u] \in Conns
        BY <2>2 DEF Open, TypeOK
      <4>4. Written(writer[u], Event("question", u, pending[u]))
        BY <3>0, <4>1, <4>2, <4>3, ShownToAll DEF QuestionInv, Shown
      <4>5. writer'[u] = writer[u]
        BY <2>2
      <4>6. Event("question", u, pending[u])' = Event("question", u, pending[u])
        BY <4>1 DEF Event
      <4> QED
        BY <2>3, <4>3, <4>4, <4>5, <4>6
    <3> QED
      BY <3>1, <3>2
  <2> QED
    BY <2>2, <2>4 DEF QuestionInv, TypeOK, Open
<1>12. ASSUME NEW r \in Requests, HookResumes(r)
       PROVE  QuestionInv'
  <2>1. /\ hook' = [hook EXCEPT ![r] = "over"]
        /\ \A u \in Tasks : pending'[u] \in {None, pending[u]}
        /\ UNCHANGED <<query, conn, out, sessions, writer, captured, rejoined>>
    BY <1>12 DEF HookResumes, TypeOK
  <2>2. \A q \in Requests : hook'[q] = "waiting" => hook[q] = "waiting"
    BY <2>1 DEF TypeOK
  <2>3. QuestionReachesRejoined'
    BY <2>1, <2>2, AllShownStays DEF Open, Written
  <2> QED
    BY <2>1, <2>3 DEF QuestionInv, TypeOK, Open
<1>13. ASSUME NEW r \in Requests, HookTimesOut(r)
       PROVE  QuestionInv'
  <2>1. /\ hook' = [hook EXCEPT ![r] = "stopped"]
        /\ UNCHANGED <<query, conn, out, sessions, writer, pending, captured, rejoined>>
    BY <1>13 DEF HookTimesOut
  <2>2. \A q \in Requests : hook'[q] = "waiting" => hook[q] = "waiting"
    BY <2>1 DEF TypeOK
  <2>3. QuestionReachesRejoined'
    BY <2>1, <2>2, AllShownStays DEF Open, Written
  <2> QED
    BY <2>1, <2>3 DEF QuestionInv, TypeOK, Open
<1>14. ASSUME Restart
       PROVE  QuestionInv'
  <2>1. QuestionReachesRejoined'
    BY <1>14 DEF Restart, QuestionReachesRejoined
  <2> QED
    BY <1>14, <2>1 DEF Restart, QuestionInv, TypeOK, Open
<1>15. CASE UNCHANGED allVars
  BY <1>15 DEF allVars, QuestionInv, QuestionReachesRejoined, Open, Written
<1>16. ASSUME NEW c \in Conns, NEW t \in Tasks, Stop(c, t)
       PROVE  QuestionInv'
  BY <1>5, <1>16 DEF Stop, HandleInterrupt
<1>17. ASSUME NEW c \in Conns, NEW r \in Requests, Answer(c, r)
       PROVE  QuestionInv'
  BY <1>5, <1>17 DEF Answer, HandleAnswer, Awaiting, TypeOK
<1>18. ASSUME NEW c \in Conns, Drop(c) \/ Eof(c)
       PROVE  QuestionInv'
  BY <1>6, <1>18 DEF Drop, Eof
<1> QED
  BY <1>1, <1>2, <1>3, <1>4, <1>8, <1>9, <1>10, <1>11, <1>12, <1>13, <1>14, <1>15, <1>16,
     <1>17, <1>18, EndIsFinally
     DEF ServerNext, AgentStep, Request, RunHook, GetChatStream

-----------------------------------------------------------------------------
(* The theorems.                                                           *)

\* The daemon behind the server keeps all of them.
LEMMA StateInvariants ==
    ServerSpec => [](ServerTypeOK /\ StreamInv /\ LifeInv /\ QuestionInv)
<1>1. ServerInit => ServerTypeOK /\ StreamInv /\ LifeInv /\ QuestionInv
  <2> SUFFICES ASSUME ServerInit PROVE ServerTypeOK /\ StreamInv /\ LifeInv /\ QuestionInv
    OBVIOUS
  <2>1. \A c \in Conns : out[c] = <<>> /\ Len(out[c]) = 0
    BY EmptySeq DEF ServerInit, Init
  <2>2. ServerTypeOK
    BY EmptySeq, AgentAssumption DEF ServerInit, Init, ServerTypeOK, TypeOK, QueryStates,
        HookStates, Unused
  <2>3. StreamInv
    BY <2>1 DEF ServerInit, Init, StreamInv, EventsReachStreams, NoQueryIsCancelled
  <2>4. LifeInv
    BY <2>1 DEF ServerInit, Init, LifeInv, NothingAfterDone
  <2>5. QuestionInv
    BY DEF ServerInit, Init, QuestionInv, QuestionReachesRejoined
  <2> QED
    BY <2>2, <2>3, <2>4, <2>5
<1> QED
  BY <1>1, TypeStep, StreamStep, LifeStep, QuestionStep, PTL DEF ServerSpec

\* The variables of the daemon and of its connections keep their types.
THEOREM ServerTypeCorrect == ServerSpec => []ServerTypeOK
BY StateInvariants, PTL

\* Whatever emit_sse writes, however tabs come and go, it writes to a connection
\* that a browser streams from for that very task.
THEOREM EventsReachStreamsHolds == ServerSpec => []EventsReachStreams
<1>1. StreamInv => EventsReachStreams
  BY DEF StreamInv
<1> QED
  BY StateInvariants, <1>1, PTL

\* No interrupt that the server sends cancels a query: handle_interrupt looks for
\* the connection of the interrupt in the session, where it never is.
THEOREM NoQueryIsCancelledHolds == ServerSpec => []NoQueryIsCancelled
<1>1. StreamInv => NoQueryIsCancelled
  BY DEF StreamInv
<1> QED
  BY StateInvariants, <1>1, PTL

\* The done of a task is the last that a connection hears of it, but for the
\* answer to a later hello.
THEOREM NothingAfterDoneHolds == ServerSpec => []NothingAfterDone
<1>1. LifeInv => NothingAfterDone
  BY DEF LifeInv
<1> QED
  BY StateInvariants, <1>1, PTL

\* Who rejoins after the submitter has left is shown the question that is pending.
THEOREM QuestionReachesRejoinedHolds == ServerSpec => []QuestionReachesRejoined
<1>1. QuestionInv => QuestionReachesRejoined
  BY DEF QuestionInv
<1> QED
  BY StateInvariants, <1>1, PTL
=============================================================================
