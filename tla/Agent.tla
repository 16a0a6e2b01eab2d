------------------------------- MODULE Agent -------------------------------
(***************************************************************************)
(* rootfs/agent.py: the daemon in the VM that runs Claude queries and      *)
(* writes their events to the connections of its Unix socket.              *)
(*                                                                         *)
(* asyncio runs one coroutine at a time: a message handler is one step, a  *)
(* coroutine runs from await to await. A task is the query task_id names;  *)
(* a request is one AskUserQuestion call, whose hook waits on a future     *)
(* while its query goes on. The future and the data of a pending question  *)
(* are always written together, so `pending` is both.                      *)
(***************************************************************************)
EXTENDS Naturals, Sequences

CONSTANTS
    Tasks,      \* task ids
    Conns,      \* connections, each used by one client
    Requests,   \* tool_use_ids of AskUserQuestion calls
    None,
    MaxTexts    \* events that are neither a query's first nor its last, of all queries

ASSUME AgentAssumption ==
    /\ MaxTexts \in Nat
    /\ None \notin Conns
    /\ None \notin Tasks
    /\ None \notin Requests

VARIABLES
    conn,       \* each connection: "new", "open", or "closed" (is_closing())
    out,        \* events written to each connection
    sessions,   \* _sessions: the task ids it has
    writer,     \* Session.writer
    pending,    \* Session.pending_question and pending_question_data
    captured,   \* _emit_writer in the context of each query
    query,      \* the asyncio task of each query
    cancelling, \* queries with task.cancel() called and not yet delivered
    hook,       \* each AskUserQuestion hook, with its future
    asker,      \* the query of each request
    texts,      \* such events written (bounded by MaxTexts)
    bound,      \* history: connections that submitted a query or said hello for it
    rejoined    \* history: those that said hello once the submitter's had closed

connVars == <<conn, out>>
sessionVars == <<sessions, writer, pending>>
queryVars == <<captured, query, cancelling, texts>>
hookVars == <<hook, asker>>
historyVars == <<bound, rejoined>>
vars == <<conn, out, sessions, writer, pending, captured, query, cancelling, hook,
          asker, texts, bound, rejoined>>

\* A query cancelled before its first step is "unstarted": its asyncio task is
\* done(), as that of a query that is "over".
QueryStates == {"none", "created", "running", "over", "unstarted"}
Done(t) == query[t] \in {"over", "unstarted"}
HookStates == {"none", "waiting", "answered", "stopped", "over"}

\* Events as clients tell them apart. "gone" is the done that handle_hello
\* sends for a task it does not know: it carries no conversation id.
Event(kind, t, r) == [kind |-> kind, task |-> t, request |-> r]
Events == [kind : {"session_start", "text", "question", "error", "done", "gone"},
           task : Tasks, request : Requests \cup {None}]

TypeOK ==
    /\ conn \in [Conns -> {"new", "open", "closed"}]
    /\ out \in [Conns -> Seq(Events)]
    /\ sessions \subseteq Tasks
    /\ writer \in [Tasks -> Conns \cup {None}]
    /\ pending \in [Tasks -> Requests \cup {None}]
    /\ captured \in [Tasks -> Conns \cup {None}]
    /\ query \in [Tasks -> QueryStates]
    /\ cancelling \subseteq Tasks
    /\ hook \in [Requests -> HookStates]
    /\ asker \in [Requests -> Tasks \cup {None}]
    /\ texts \in 0..MaxTexts
    /\ bound \in [Tasks -> SUBSET Conns]
    /\ rejoined \in [Tasks -> SUBSET Conns]

Init ==
    /\ conn = [c \in Conns |-> "new"]
    /\ out = [c \in Conns |-> <<>>]
    /\ sessions = {}
    /\ writer = [t \in Tasks |-> None]
    /\ pending = [t \in Tasks |-> None]
    /\ captured = [t \in Tasks |-> None]
    /\ query = [t \in Tasks |-> "none"]
    /\ cancelling = {}
    /\ hook = [r \in Requests |-> "none"]
    /\ asker = [r \in Requests |-> None]
    /\ texts = 0
    /\ bound = [t \in Tasks |-> {}]
    /\ rejoined = [t \in Tasks |-> {}]

-----------------------------------------------------------------------------
(* Writing events.                                                         *)

Open(c) == c # None /\ conn[c] = "open"

\* Bug: a closed connection's events go to any session's.
EmitTarget_AnySession(t) ==
    IF Open(captured[t]) THEN captured[t]
    ELSE LET open == {s \in sessions : Open(writer[s])}
         IN  IF open = {} THEN None ELSE writer[CHOOSE s \in open : TRUE]

\* Bug: the session's writer comes first.
EmitTarget_SessionFirst(t) ==
    CASE t \in sessions /\ Open(writer[t]) -> writer[t]
      [] t \notin sessions /\ Open(captured[t]) -> captured[t]
      [] OTHER -> None

\* Bug: the events of a query whose submitter has left are dropped.
EmitTarget_SubmitterOnly(t) == IF Open(captured[t]) THEN captured[t] ELSE None

\* emit_sse: the writer of the query's context, or the session's if that one
\* has closed; None when the event is lost.
EmitTarget(t) ==
    CASE Open(captured[t])                    -> captured[t]
      [] t \in sessions /\ Open(writer[t])
            /\ ~Open(captured[t])             -> writer[t]
      [] OTHER                                -> None

\* The events, in order, go to wherever the first of them goes: nothing
\* closes a connection between two emit_sse calls without an await.
Emit(t, events) ==
    LET c == EmitTarget(t)
    IN  out' = IF c = None THEN out ELSE [out EXCEPT ![c] = @ \o events]

\* A message arrives on a connection that is open, or just accepted. (Bound: a
\* connection names a task in one query or hello, not in more.)
Accept(c) ==
    /\ conn[c] # "closed"
    /\ conn' = [conn EXCEPT ![c] = "open"]

-----------------------------------------------------------------------------
(* Messages: route_connection and its handlers.                            *)

HandleQuery(c, t) ==
    /\ Accept(c)
    /\ query[t] = "none"
    /\ query' = [query EXCEPT ![t] = "created"]
    /\ captured' = [captured EXCEPT ![t] = c]
    /\ sessions' = sessions \cup {t}
    /\ writer' = [writer EXCEPT ![t] = c]
    /\ pending' = [pending EXCEPT ![t] = None]
    /\ bound' = [bound EXCEPT ![t] = @ \cup {c}]
    /\ UNCHANGED <<out, cancelling, hookVars, texts, rejoined>>

\* An unknown session is reported as done.
HelloUnknown(c, t) ==
    /\ Accept(c)
    /\ c \notin bound[t]
    /\ t \notin sessions
    /\ out' = [out EXCEPT ![c] = Append(@, Event("gone", t, None))]
    /\ bound' = [bound EXCEPT ![t] = @ \cup {c}]
    /\ UNCHANGED <<sessionVars, queryVars, hookVars, rejoined>>

\* Bug: the session is rebound and its question not sent again.
HelloKnown_Silent(c, t) ==
    /\ Accept(c)
    /\ c \notin bound[t]
    /\ t \in sessions
    /\ writer' = [writer EXCEPT ![t] = c]
    /\ bound' = [bound EXCEPT ![t] = @ \cup {c}]
    /\ rejoined' = IF Open(captured[t]) THEN rejoined
                   ELSE [rejoined EXCEPT ![t] = @ \cup {c}]
    /\ UNCHANGED <<out, sessions, pending, queryVars, hookVars>>

\* A known one is rebound, and its pending question sent again.
HelloKnown(c, t) ==
    /\ Accept(c)
    /\ c \notin bound[t]
    /\ t \in sessions
    /\ writer' = [writer EXCEPT ![t] = c]
    /\ out' = IF pending[t] = None THEN out
              ELSE [out EXCEPT ![c] = Append(@, Event("question", t, pending[t]))]
    /\ bound' = [bound EXCEPT ![t] = @ \cup {c}]
    /\ rejoined' = IF Open(captured[t]) THEN rejoined
                   ELSE [rejoined EXCEPT ![t] = @ \cup {c}]
    /\ UNCHANGED <<sessions, pending, queryVars, hookVars>>

\* handle_answer_question: the session, if any, whose pending future is not
\* done and is of this request.
Awaiting(t, r) == t \in sessions /\ pending[t] = r /\ hook[r] = "waiting"

HandleAnswer(c, r) ==
    /\ Accept(c)
    /\ hook' = [hook EXCEPT ![r] = IF \E t \in Tasks : Awaiting(t, r)
                                   THEN "answered" ELSE @]
    /\ UNCHANGED <<out, sessionVars, queryVars, asker, historyVars>>

\* Bug: any connection interrupts a session.
Interruptible_ByAnyone(c, t) == t \in sessions /\ ~Done(t)

\* handle_interrupt compares the session's writer with the connection's.
Interruptible(c, t) ==
    /\ t \in sessions
    /\ ~Done(t)
    /\ writer[t] = c

HandleInterrupt(c, t) ==
    /\ Accept(c)
    /\ cancelling' = IF Interruptible(c, t) THEN cancelling \cup {t} ELSE cancelling
    /\ UNCHANGED <<out, sessionVars, captured, query, texts, hookVars, historyVars>>

\* readline() returns nothing: the client is gone, handle_connection closes.
Eof(c) ==
    /\ conn[c] = "open"
    /\ conn' = [conn EXCEPT ![c] = "closed"]
    /\ UNCHANGED <<out, sessionVars, queryVars, hookVars, historyVars>>

-----------------------------------------------------------------------------
(* run_query.                                                              *)

Begin(t) ==
    /\ query[t] = "created"
    /\ t \notin cancelling
    /\ query' = [query EXCEPT ![t] = "running"]
    /\ Emit(t, <<Event("session_start", t, None)>>)
    /\ UNCHANGED <<conn, sessionVars, captured, cancelling, texts, hookVars, historyVars>>

\* asyncio throws the cancellation into a coroutine that has not started: its
\* body, and so its finally, never runs.
CancelUnstarted(t) ==
    /\ query[t] = "created"
    /\ t \in cancelling
    /\ query' = [query EXCEPT ![t] = "unstarted"]
    /\ cancelling' = cancelling \ {t}
    /\ UNCHANGED <<connVars, sessionVars, captured, texts, hookVars, historyVars>>

\* The SDK yields an event; process_stream_event or process_agent_event.
Stream(t) ==
    /\ query[t] = "running"
    /\ t \notin cancelling
    /\ texts < MaxTexts
    /\ texts' = texts + 1
    /\ Emit(t, <<Event("text", t, None)>>)
    /\ UNCHANGED <<conn, sessionVars, captured, query, cancelling, hookVars, historyVars>>

\* ask_user_question_hook up to its await.
Ask(t, r) ==
    /\ query[t] = "running"
    /\ t \in sessions
    /\ hook[r] = "none"
    /\ hook' = [hook EXCEPT ![r] = "waiting"]
    /\ asker' = [asker EXCEPT ![r] = t]
    /\ pending' = [pending EXCEPT ![t] = r]
    /\ Emit(t, <<Event("question", t, r)>>)
    /\ UNCHANGED <<conn, sessions, writer, queryVars, historyVars>>

\* The hook resumes with the answers and clears what is pending.
HookResumes(r) ==
    /\ hook[r] = "answered"
    /\ hook' = [hook EXCEPT ![r] = "over"]
    /\ pending' = [pending EXCEPT ![asker[r]] = None]
    /\ UNCHANGED <<connVars, sessions, writer, queryVars, asker, historyVars>>

\* Bug: the hook is registered without a timeout.
HookTimesOut_Never(r) == FALSE

\* QUESTION_TIMEOUT_SECS pass: the SDK gives the hook up, at its await.
HookTimesOut(r) ==
    /\ hook[r] = "waiting"
    /\ hook' = [hook EXCEPT ![r] = "stopped"]
    /\ UNCHANGED <<connVars, sessionVars, queryVars, asker, historyVars>>

\* Bug: done is sent before the error it follows.
LastEvents_DoneFirst(t, events) == <<Event("done", t, None)>> \o events

\* What a query writes as it ends.
LastEvents(t, events) == events \o <<Event("done", t, None)>>

\* The finally of run_query; leaving query() stops the hooks still running.
Finally(t, events) ==
    /\ query[t] = "running"
    /\ query' = [query EXCEPT ![t] = "over"]
    /\ cancelling' = cancelling \ {t}
    /\ Emit(t, LastEvents(t, events))
    /\ sessions' = sessions \ {t}
    /\ pending' = [pending EXCEPT ![t] = None]
    /\ hook' = [r \in Requests |-> IF asker[r] = t /\ hook[r] \in {"waiting", "answered"}
                                   THEN "stopped" ELSE hook[r]]
    /\ UNCHANGED <<conn, writer, captured, texts, asker, historyVars>>

\* The SDK's stream ends, or the cancellation is delivered.
Finish(t) == Finally(t, <<>>)

\* The SDK raises: error_event, then the finally.
Fail(t) == t \notin cancelling /\ Finally(t, <<Event("error", t, None)>>)

\* The daemon dies and systemd starts it again: nothing of it survives.
Restart ==
    /\ conn' = [c \in Conns |-> IF conn[c] = "open" THEN "closed" ELSE conn[c]]
    /\ sessions' = {}
    /\ pending' = [t \in Tasks |-> None]
    /\ query' = [t \in Tasks |-> IF query[t] = "none" THEN "none" ELSE "over"]
    /\ cancelling' = {}
    /\ hook' = [r \in Requests |-> IF hook[r] = "none" THEN "none" ELSE "stopped"]
    /\ UNCHANGED <<out, writer, captured, texts, asker, historyVars>>

-----------------------------------------------------------------------------
\* The event loop runs what is ready.
RunQuery(t) == Begin(t) \/ CancelUnstarted(t) \/ Stream(t) \/ Finish(t) \/ Fail(t)
               \/ \E r \in Requests : Ask(t, r)

RunHook(r) == HookResumes(r) \/ HookTimesOut(r)

Receive(c) ==
    \/ \E t \in Tasks : \/ HandleQuery(c, t) \/ HelloUnknown(c, t) \/ HelloKnown(c, t)
                        \/ HandleInterrupt(c, t)
    \/ \E r \in Requests : HandleAnswer(c, r)

Next ==
    \/ \E c \in Conns : Receive(c) \/ Eof(c)
    \/ \E t \in Tasks : RunQuery(t)
    \/ \E r \in Requests : RunHook(r)
    \/ Restart

Spec == Init /\ [][Next]_vars

-----------------------------------------------------------------------------
(* Safety.                                                                 *)

Written(c, e) == \E i \in 1..Len(out[c]) : out[c][i] = e

\* On a connection nothing but the answer to another hello follows the done of
\* a task: no late event, no question of a hook that outlived its query.
NothingAfterDone ==
    \A c \in Conns : \A i, j \in 1..Len(out[c]) :
        (i < j /\ out[c][i].kind = "done" /\ out[c][j].task = out[c][i].task)
            => out[c][j].kind = "gone"

\* The session's connection, if it rejoined after the submitter's had closed,
\* has been shown the question that is pending, whether it was asked before
\* or after: the user can answer it.
QuestionReachesRejoined ==
    \A t \in sessions :
        LET c == writer[t]
            r == pending[t]
        IN  Open(c) /\ c \in rejoined[t] /\ r # None /\ hook[r] = "waiting"
                => Written(c, Event("question", t, r))
=============================================================================
