------------------------- MODULE AgentBehindServer -------------------------
(***************************************************************************)
(* The agent daemon as server/src/chat.rs uses it. Every HTTP request of a *)
(* browser opens a connection of its own to the daemon and sends one       *)
(* message on it: a query or a hello, whose events then stream back over   *)
(* it, or an answer or an interrupt, after which it is closed.             *)
(*                                                                         *)
(* A browser learns a task id from task_created, which the server puts     *)
(* before anything the agent says; it says hello (a page load, in any tab) *)
(* only for a task whose session_start it has seen and stored.             *)
(***************************************************************************)
EXTENDS Agent

CONSTANT Uuids  \* the requests whose id parses as a UUID

ASSUME UuidsAssumption == Uuids \subseteq Requests

VARIABLE use    \* what each connection was opened for

allVars == <<vars, use>>

Uses == [kind : {"query", "hello", "message"}, task : Tasks \cup {None}]
Unused == [kind |-> "unused", task |-> None]

\* Types of the agent and of the server's connections.
ServerTypeOK ==
    /\ TypeOK
    /\ use \in [Conns -> Uses \cup {Unused}]

ServerInit ==
    /\ Init
    /\ use = [c \in Conns |-> Unused]

Posted(t) == \E c \in Conns : use[c] = [kind |-> "query", task |-> t]

Use(c, kind, t) ==
    /\ use[c] = Unused
    /\ use' = [use EXCEPT ![c] = [kind |-> kind, task |-> t]]

Seen(kind, t, r) == \E c \in Conns : Written(c, Event(kind, t, r))

-----------------------------------------------------------------------------
\* handle_chat_query returns a body that begins with task_created; the
\* connection is opened, and the query sent, as the body is read.
PostChat(c, t) ==
    /\ ~Posted(t)
    /\ Use(c, "query", t)
    /\ UNCHANGED vars

SendQuery(c, t) ==
    /\ use[c] = [kind |-> "query", task |-> t]
    /\ conn[c] = "new"
    /\ HandleQuery(c, t)
    /\ UNCHANGED use

\* The browser drops the response before its connection was opened, or the VM
\* does not answer.
Drop(c) ==
    /\ use[c].kind = "query"
    /\ conn[c] = "new"
    /\ conn' = [conn EXCEPT ![c] = "closed"]
    /\ UNCHANGED <<out, sessionVars, queryVars, hookVars, historyVars, use>>

\* handle_chat_reconnect.
GetChatStream(c, t) ==
    /\ Seen("session_start", t, None)
    /\ Use(c, "hello", t)
    /\ HelloKnown(c, t) \/ HelloUnknown(c, t)

\* handle_chat_question_answer. It refuses a request id that is not a UUID, and
\* nothing changes.
Answer(c, r) ==
    /\ \E t \in Tasks : Seen("question", t, r)
    /\ r \in Uuids
    /\ Use(c, "message", None)
    /\ HandleAnswer(c, r)

\* handle_chat_stop: the interrupt goes by dispatch_agent_message, on a
\* connection of its own.
Stop(c, t) ==
    /\ Posted(t)
    /\ Use(c, "message", None)
    /\ HandleInterrupt(c, t)

Request(c) ==
    \/ \E t \in Tasks : \/ PostChat(c, t) \/ SendQuery(c, t)
                        \/ GetChatStream(c, t) \/ Stop(c, t)
    \/ \E r \in Requests : Answer(c, r)
    \/ Drop(c)

AgentStep ==
    /\ \/ \E c \in Conns : Eof(c)
       \/ \E t \in Tasks : Begin(t) \/ Stream(t) \/ Finish(t) \/ Fail(t)
                           \/ \E r \in Requests : Ask(t, r)
       \/ \E r \in Requests : RunHook(r)
       \/ Restart
    /\ UNCHANGED use

\* CancelUnstarted is left to Agent: no interrupt of the server's cancels.
ServerNext == AgentStep \/ \E c \in Conns : Request(c)

ServerSpec == ServerInit /\ [][ServerNext]_allVars

-----------------------------------------------------------------------------
(* Fairness. The event loop runs what is ready. The SDK ends a query that  *)
(* waits for no answer of the user, and gives up a hook after its timeout. *)

NoHookWaits(t) == \A r \in Requests : asker[r] = t => hook[r] \notin {"waiting", "answered"}

End(t) == NoHookWaits(t) /\ (Finish(t) \/ Fail(t))

Fairness ==
    /\ \A t \in Tasks : WF_allVars(Begin(t) /\ UNCHANGED use)
    /\ \A t \in Tasks : WF_allVars(End(t) /\ UNCHANGED use)
    /\ \A r \in Requests : WF_allVars(RunHook(r) /\ UNCHANGED use)

FairServerSpec == ServerSpec /\ Fairness

-----------------------------------------------------------------------------
(* Safety and liveness.                                                    *)

\* chat.rs:23: "The agent's response is streamed back over the existing SSE
\* connection": whatever the agent writes about a task, even as tabs come and
\* go, goes to a stream opened for that task, never to the connection of a
\* message, where it would be lost.
EventsReachStreams ==
    \A c \in Conns : \A i \in 1..Len(out[c]) :
        use[c] \in [kind : {"query", "hello"}, task : {out[c][i].task}]

\* Behind the server no query is ever cancelled: NoQueryIsCancelled is what
\* allows AgentStep to leave CancelUnstarted out.
NoQueryIsCancelled == cancelling = {}

\* A session does not stay for ever, whatever its user does: leaves a question
\* unanswered, closes every tab, posts the query and stops it at once.
SessionsAreFreed == \A t \in Tasks : t \in sessions ~> t \notin sessions

HearsDone(c, t) ==
    c \in Conns /\ (Written(c, Event("done", t, None)) \/ conn[c] = "closed")

\* The submitter's stream, as long as it is open, ends with a done, also when
\* other tabs have rebound the session: the browser clears its running state.
SubmitterHearsDone ==
    \A t \in Tasks : query[t] = "created" ~> HearsDone(captured[t], t)

\* So does a stream that rejoined once the submitter's had closed or, if a later
\* hello takes the session over, the last one that did.
RejoinedHearsDone ==
    \A t \in Tasks :
        (t \in sessions /\ writer[t] \in rejoined[t]) ~> HearsDone(writer[t], t)

(* What the documentation says and this code does not do.                  *)

\* docs/chat-architecture.md, 6: Stop -> server -> agent: interrupt ->
\* session.task.cancel(). The interrupt of a query that runs cancels it.
StopCancels ==
    [][\A c \in Conns, t \in Tasks :
            Stop(c, t) /\ t \in sessions /\ ~Done(t) => t \in cancelling']_allVars
=============================================================================
