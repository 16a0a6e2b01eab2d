----------------------------- MODULE ChatClient -----------------------------
(***************************************************************************)
(* One browser page of the chat: SseContext.tsx, which owns the streams,   *)
(* the event queue and the running-task record in localStorage, and        *)
(* ChatInterface with its hooks, which drain the queue into the chat's     *)
(* state and lose that state whenever another tab of the page is shown     *)
(* (App.tsx mounts ChatInterface only while activeTab is "chat").          *)
(*                                                                         *)
(* JavaScript runs one task at a time. The effect that drains the queue    *)
(* handles all of it with the running conversation of the last render, so  *)
(* a batch is handled with `session` fixed and nothing happens in between. *)
(*                                                                         *)
(* A task is one query; of the messages of a conversation the model keeps  *)
(* which tasks they belong to, and "text" stands for the events that add   *)
(* or change messages (init, text, thinking, tool_start, tool_result). A   *)
(* task id used for want of a conversation id is a conversation too.       *)
(*                                                                         *)
(* ChatComposer.handleSend tests that it may send, awaits the uploads of   *)
(* its files and then calls the onSend it captured before them: a call at  *)
(* its await survives its composer, when a question's panel takes that     *)
(* one's place, and its ChatInterface, when another tab is shown.          *)
(***************************************************************************)
EXTENDS Naturals, Sequences

CONSTANTS
    Tasks, Convs, Requests,
    Known,      \* the conversations of earlier visits
    None,
    MaxTexts,   \* text events, of all tasks together
    MaxQueue,   \* events waiting in the queue
    MaxMoves    \* page loads, and visits to another tab, together

ASSUME ChatAssumption ==
    /\ MaxTexts \in Nat /\ MaxQueue \in Nat \ {0} /\ MaxMoves \in Nat
    /\ Known \subseteq Convs /\ Tasks \cap Convs = {}
    /\ None \notin Tasks \cup Convs \cup Requests
    /\ None \notin [task : Tasks, conv : Tasks \cup Convs \cup {None}]

VARIABLES
    \* localStorage
    record,     \* chat_running_task_<vm>: the task and its conversation
    saved,      \* chat_messages_task_<task>
    stored,     \* the requests with a question_<request>
    row,        \* conversations_<vm>: what each entry knows of its session
    \* SseProvider and App
    queue,      \* eventQueueRef
    selected,   \* selectedConversation
    histories,  \* conversations with a loadHistory of a done under way
    \* ChatInterface and its hooks
    mounted, view, running, streaming,
    current,    \* currentTaskIdRef
    taskOf,     \* taskIdBySession
    panel,      \* pendingQuestionsBySession
    messages,   \* messagesBySession
    persist,    \* what the scheduler is to write: a task and a conversation
    loading,    \* the conversation whose transcript the selection loads
    rejoining,  \* the transcript a reconnect loads, with the messages to append
    batch,      \* events left of the batch being drained
    session,    \* runningRef.current as this batch sees it
    \* the streams and what the agent does
    stream, agent, convOf, asker, asking, texts,
    failed,     \* tasks whose query has raised an error
    \* ChatComposer
    calls,      \* the calls of handleSend that await the uploads of their files
    \* history
    moves,      \* page loads and visits to another tab (bounded by MaxMoves)
    left,       \* the chat tab was left while a stream was busy
    orphans,    \* the queries sent by a call whose composer was gone
    mixed       \* a query was sent while another stream was busy, or by a call
                \* whose ChatInterface was gone

storageVars == <<record, saved, stored, row>>
sharedVars == <<queue, selected, histories>>
batchVars == <<batch, session>>
lockVars == <<running, streaming, current>>
chatVars == <<mounted, view, lockVars, taskOf, panel, messages, persist, loading, rejoining>>
agentVars == <<agent, asker, asking, texts, failed>>
worldVars == <<stream, convOf, agentVars>>
historyVars == <<moves, left, mixed>>
callVars == <<calls, orphans>>
pageVars == <<storageVars, sharedVars, batchVars, chatVars, worldVars, historyVars>>
vars == <<pageVars, callVars>>

ConvIds == Convs \cup Tasks

\* What a conversation's entry has: nothing, a sessionId, or both it and the
\* projectDir; "none" is not created yet.
Rows == {"none", "new", "session", "project"}

Event(kind, t, x) == [kind |-> kind, task |-> t, of |-> x]

\* A reconnecting event is of a conversation, a question of a request. "gone"
\* is a done without a conversation id, "neterror" the error_event sendQuery
\* raises itself, "selected" the effect on selectedConversation that follows
\* the drain when ChatInterface mounts.
Events ==
    [kind : {"created", "start", "text", "error", "neterror", "done", "gone"},
     task : Tasks, of : {None}]
        \cup [kind : {"question"}, task : Tasks, of : Requests]
        \cup [kind : {"reconnecting"}, task : Tasks, of : ConvIds]
        \cup [kind : {"selected"}, task : {None}, of : {None}]

Of(t, c) == [task |-> t, conv |-> c]

PageTypeOK ==
    /\ record \in {None} \cup [task : Tasks, conv : ConvIds \cup {None}]
    /\ saved \in [Tasks -> {None} \cup SUBSET Tasks]
    /\ stored \subseteq Requests
    /\ row \in [Convs -> Rows]
    /\ queue \in Seq(Events) /\ Len(queue) <= MaxQueue + 1
    /\ selected \in Convs \cup {None}
    /\ histories \subseteq Convs
    /\ mounted \in BOOLEAN /\ streaming \in BOOLEAN
    /\ view \in ConvIds \cup {None} /\ running \in ConvIds \cup {None}
    /\ current \in Tasks \cup {None}
    /\ taskOf \in [ConvIds -> Tasks \cup {None}]
    /\ panel \in [ConvIds -> Requests \cup {None}]
    /\ messages \in [ConvIds -> SUBSET Tasks]
    /\ persist \in {None} \cup [task : Tasks, conv : ConvIds \cup {None}]
    /\ loading \in Convs \cup {None}
    /\ rejoining \in {None} \cup [conv : Convs, tail : SUBSET Tasks]
    /\ batch \in 0..Len(queue)
    /\ session \in ConvIds \cup {None}
    /\ stream \in [Tasks -> {"unused", "posting", "live", "hello", "es", "closed", "silent", "over"}]
    /\ agent \in [Tasks -> {"none", "queued", "running", "over"}]
    /\ failed \subseteq Tasks
    /\ convOf \in [Tasks -> ConvIds \cup {None}]
    /\ asker \in [Requests -> Tasks \cup {None}]
    /\ asking \in [Tasks -> Requests \cup {None}]
    /\ texts \in 0..MaxTexts
    /\ moves \in 0..MaxMoves /\ left \in BOOLEAN /\ mixed \in BOOLEAN

\* What a call at its await holds: the view of the render it captured, where it
\* is - in the composer on show, in one that a panel has replaced, in one that
\* went with its ChatInterface - and, as history, the tasks whose reconnecting
\* event was still to be drained as it tested.
Calls == [task : Tasks, from : ConvIds \cup {None},
          at : {"here", "replaced", "unmounted"}, behind : SUBSET Tasks]

ChatTypeOK == PageTypeOK /\ calls \subseteq Calls /\ orphans \subseteq Tasks

\* The page of a first visit, or of a later one.
Init ==
    /\ record = None
    /\ saved = [t \in Tasks |-> None]
    /\ stored = {}
    /\ row = [c \in Convs |-> IF c \in Known THEN "project" ELSE "none"]
    /\ queue = <<>> /\ selected = None /\ histories = {}
    /\ mounted = TRUE /\ streaming = FALSE
    /\ view = None /\ running = None /\ current = None
    /\ taskOf = [c \in ConvIds |-> None]
    /\ panel = [c \in ConvIds |-> None]
    /\ messages = [c \in ConvIds |-> {}]
    /\ persist = None /\ loading = None /\ rejoining = None
    /\ batch = 0 /\ session = None
    /\ stream = [t \in Tasks |-> "unused"]
    /\ agent = [t \in Tasks |-> "none"]
    /\ convOf = [t \in Tasks |-> None]
    /\ asker = [r \in Requests |-> None]
    /\ asking = [t \in Tasks |-> None]
    /\ texts = 0
    /\ failed = {}
    /\ calls = {} /\ orphans = {}
    /\ moves = 0 /\ left = FALSE /\ mixed = FALSE

\* No batch is being drained: another task of the event loop may run.
Idle == batch = 0

Listening(t) == stream[t] \in {"live", "es"}
Open(t) == stream[t] \in {"posting", "live", "hello", "es"}
Queued(t) == \E i \in 1..Len(queue) : queue[i].task = t
Busy(t) == Open(t) \/ Queued(t)

\* The record is removed as a terminal event arrives, not as it is handled.
Push(e) ==
    /\ Len(queue) < MaxQueue
    /\ queue' = Append(queue, e)
    /\ record' = IF e.kind \in {"done", "gone", "error"} THEN None ELSE record

With(f, c, x) == IF c = None THEN f ELSE [f EXCEPT ![c] = x]
MessagesOf(c) == IF c = None THEN {} ELSE messages[c]
StoredOf(c) == {r \in stored : convOf[asker[r]] = c}

-----------------------------------------------------------------------------
(* The streams and the agent: sendQuery, readFetchSseStream, the           *)
(* EventSource of a reconnect, and what the server sends on them.          *)

\* Where the agent is after an event of this task, and whether the stream hears
\* it: a reconnected one may not, while the agent still holds the connection
\* the query came from.
Emit(t, e, pending) ==
    /\ Idle
    /\ asking' = [asking EXCEPT ![t] = pending]
    /\ \/ Listening(t) /\ Push(e)
       \/ stream[t] # "live" /\ UNCHANGED <<queue, record>>

unheard == <<saved, stored, row, selected, histories, batchVars, chatVars,
             convOf, historyVars>>

\* The response arrives, and with it task_created.
Respond(t) ==
    /\ Idle /\ stream[t] = "posting"
    /\ stream' = [stream EXCEPT ![t] = "live"]
    /\ agent' = [agent EXCEPT ![t] = "queued"]
    /\ Push(Event("created", t, None))
    /\ UNCHANGED <<unheard, asker, asking, texts, failed>>

\* An error answer, or the connection breaks: sendQuery raises an error event.
Break(t) ==
    /\ Idle /\ stream[t] \in {"posting", "live"}
    /\ stream' = [stream EXCEPT ![t] = "closed"]
    /\ Push(Event("neterror", t, None))
    /\ UNCHANGED <<unheard, agentVars>>

\* The stream ends without a done: reader.read() is done, or es.onerror closes.
EndSilently(t) ==
    /\ Idle /\ stream[t] \in {"live", "hello", "es"}
    /\ stream' = [stream EXCEPT ![t] = "silent"]
    /\ UNCHANGED <<unheard, queue, record, agentVars>>

\* (A start that no stream hears makes no difference to the page.)
Start(t) ==
    /\ agent[t] = "queued" /\ Listening(t)
    /\ agent' = [agent EXCEPT ![t] = "running"]
    /\ Emit(t, Event("start", t, None), None)
    /\ UNCHANGED <<unheard, stream, asker, texts, failed>>

Text(t) ==
    /\ agent[t] = "running" /\ t \notin failed
    /\ Listening(t) /\ texts < MaxTexts
    /\ texts' = texts + 1
    /\ Emit(t, Event("text", t, None), asking[t])
    /\ UNCHANGED <<unheard, stream, agent, asker, failed>>

Ask(t, r) ==
    /\ agent[t] = "running" /\ t \notin failed
    /\ asker[r] = None
    /\ asker' = [asker EXCEPT ![r] = t]
    /\ Emit(t, Event("question", t, r), r)
    /\ UNCHANGED <<unheard, stream, agent, texts, failed>>

\* (A failure that no stream hears is the end of the query.)
Fail(t) ==
    /\ agent[t] = "running" /\ t \notin failed
    /\ Listening(t)
    /\ failed' = failed \cup {t}
    /\ Emit(t, Event("error", t, None), asking[t])
    /\ UNCHANGED <<unheard, stream, agent, asker, texts>>

\* The agent's done ends the stream; a daemon that dies sends none.
Finish(t) ==
    /\ agent[t] = "running" \/ (agent[t] = "queued" /\ ~Listening(t))
    /\ agent' = [agent EXCEPT ![t] = "over"]
    /\ Emit(t, Event("done", t, None), None)
    /\ stream' = IF queue' = queue THEN stream ELSE [stream EXCEPT ![t] = "over"]
    /\ UNCHANGED <<unheard, asker, texts, failed>>

\* The hello of a reconnect: an open question is sent again, a task that is
\* over is reported as done.
Rejoin(t) ==
    /\ Idle /\ stream[t] = "hello" /\ agent[t] # "over"
    /\ stream' = [stream EXCEPT ![t] = "es"]
    /\ IF asking[t] = None THEN UNCHANGED <<queue, record>>
                           ELSE Push(Event("question", t, asking[t]))
    /\ UNCHANGED <<unheard, agentVars>>

RejoinGone(t) ==
    /\ Idle /\ stream[t] = "hello" /\ agent[t] = "over"
    /\ stream' = [stream EXCEPT ![t] = "over"]
    /\ Push(Event("gone", t, None))
    /\ UNCHANGED <<unheard, agentVars>>

\* loadHistory answers with the session. (Here and below a request that fails
\* is one that is never answered.)
HistoryLoaded(c) ==
    /\ Idle /\ c \in histories
    /\ histories' = histories \ {c}
    /\ row' = [row EXCEPT ![c] = "project"]
    /\ UNCHANGED <<record, saved, stored, queue, selected, batchVars, chatVars, worldVars,
                   historyVars>>

\* The transcript of a conversation: what its queries have said so far.
Transcript(c) == {t \in Tasks : convOf[t] = c /\ agent[t] \in {"running", "over"}}

TranscriptLoaded ==
    /\ Idle /\ loading # None
    /\ messages' = [messages EXCEPT ![loading] = Transcript(loading)]
    /\ loading' = None
    /\ UNCHANGED <<storageVars, sharedVars, batchVars, mounted, view, lockVars, taskOf, panel,
                   persist, rejoining, worldVars, historyVars>>

HistoricalLoaded ==
    /\ Idle /\ rejoining # None
    /\ messages' = [messages EXCEPT ![rejoining.conv] =
                        Transcript(rejoining.conv) \cup rejoining.tail]
    /\ rejoining' = None
    /\ UNCHANGED <<storageVars, sharedVars, batchVars, mounted, view, lockVars, taskOf, panel,
                   persist, loading, worldVars, historyVars>>

-----------------------------------------------------------------------------
(* useSseHandlers: the effect that drains the queue, event by event.       *)

Drain ==
    /\ Idle /\ mounted /\ queue # <<>>
    /\ batch' = Len(queue)
    /\ session' = running
    /\ UNCHANGED <<storageVars, sharedVars, chatVars, worldVars, historyVars>>

\* handleEvent of the next event of the batch.
Handle(kinds) ==
    /\ batch > 0
    /\ Head(queue).kind \in kinds
    /\ queue' = Tail(queue)
    /\ batch' = batch - 1
    /\ session' = IF batch = 1 THEN None ELSE session
    /\ UNCHANGED <<mounted, worldVars, historyVars>>

HandleCreated ==
    LET t == Head(queue).task
    IN  /\ Handle({"created"})
        /\ current' = t
        /\ taskOf' = With(taskOf, convOf[t], t)
        /\ UNCHANGED <<storageVars, selected, histories, view, running, streaming, panel,
                       messages, persist, loading, rejoining>>

\* Bug: a task is recorded only if its conversation is known.
HandleStart_IfRouted ==
    LET t == Head(queue).task
    IN  /\ Handle({"start"})
        /\ current' = t
        /\ taskOf' = With(taskOf, session, t)
        /\ record' = IF session = None THEN record ELSE Of(t, session)
        /\ UNCHANGED <<saved, stored, row, selected, histories, view, running, streaming,
                       panel, messages, persist, loading, rejoining>>

HandleStart ==
    LET t == Head(queue).task
    IN  /\ Handle({"start"})
        /\ current' = t
        /\ taskOf' = With(taskOf, session, t)
        /\ record' = Of(t, session)
        /\ UNCHANGED <<saved, stored, row, selected, histories, view, running, streaming,
                       panel, messages, persist, loading, rejoining>>

\* Bug: the messages go to the conversation on view.
HandleText_ToView ==
    LET t == Head(queue).task
    IN  /\ Handle({"text"})
        /\ messages' = With(messages, view, MessagesOf(view) \cup {t})
        /\ persist' = IF current = None THEN persist ELSE Of(current, view)
        /\ UNCHANGED <<storageVars, selected, histories, view, lockVars, taskOf, panel,
                       loading, rejoining>>

HandleText ==
    LET t == Head(queue).task
    IN  /\ Handle({"text"})
        /\ messages' = With(messages, session, MessagesOf(session) \cup {t})
        /\ persist' = IF current = None THEN persist ELSE Of(current, session)
        /\ UNCHANGED <<storageVars, selected, histories, view, lockVars, taskOf, panel,
                       loading, rejoining>>

\* Bug: the question is shown and not stored.
HandleQuestion_NotStored ==
    LET t == Head(queue).task
    IN  /\ Handle({"question"})
        /\ panel' = [panel EXCEPT ![convOf[t]] = Head(queue).of]
        /\ UNCHANGED <<storageVars, selected, histories, view, lockVars, taskOf, messages,
                       persist, loading, rejoining>>

HandleQuestion ==
    LET t == Head(queue).task
    IN  /\ Handle({"question"})
        /\ panel' = [panel EXCEPT ![convOf[t]] = Head(queue).of]
        /\ stored' = stored \cup {Head(queue).of}
        /\ UNCHANGED <<record, saved, row, selected, histories, view, lockVars, taskOf,
                       messages, persist, loading, rejoining>>

Unlock ==
    /\ current' = None /\ running' = None /\ streaming' = FALSE

\* What every done does; the answer of a hello names no conversation, so that
\* its done leaves the panel and what is stored of its question.
EndTask(t) ==
    /\ saved' = [saved EXCEPT ![t] = None]
    /\ persist' = None
    /\ Unlock
    /\ UNCHANGED <<record, selected, view, taskOf, messages, loading, rejoining>>

\* The first stored question of the conversation is cleared, whichever it is;
\* a session id, if there is one, is kept and its history asked for.
HandleDone ==
    LET t == Head(queue).task
        c == convOf[t]
    IN  /\ Handle({"done"})
        /\ EndTask(t)
        /\ panel' = [panel EXCEPT ![c] = None]
        /\ IF StoredOf(c) = {} THEN UNCHANGED stored
           ELSE \E r \in StoredOf(c) : stored' = stored \ {r}
        /\ \/ UNCHANGED <<row, histories>>
           \/ /\ c \in Convs
              /\ histories' = histories \cup {c}
              /\ row' = IF row[c] = "new" THEN [row EXCEPT ![c] = "session"] ELSE row

HandleGone ==
    /\ Handle({"gone"})
    /\ EndTask(Head(queue).task)
    /\ UNCHANGED <<stored, row, histories, panel>>

\* Bug: the error is shown and the composer stays locked.
HandleError_KeepsStreaming ==
    LET t == Head(queue).task
    IN  /\ Handle({"error", "neterror"})
        /\ saved' = IF current = None THEN saved ELSE [saved EXCEPT ![current] = None]
        /\ persist' = IF current = None THEN persist ELSE None
        /\ current' = None /\ running' = None
        /\ panel' = With(panel, session, None)
        /\ messages' = With(messages, session, MessagesOf(session) \cup {t})
        /\ UNCHANGED <<streaming, record, stored, row, selected, histories, view, taskOf, loading,
                       rejoining>>

\* An error of either kind ends what is current, not what it is about.
HandleError ==
    LET t == Head(queue).task
    IN  /\ Handle({"error", "neterror"})
        /\ saved' = IF current = None THEN saved ELSE [saved EXCEPT ![current] = None]
        /\ persist' = IF current = None THEN persist ELSE None
        /\ Unlock
        /\ panel' = With(panel, session, None)
        /\ messages' = With(messages, session, MessagesOf(session) \cup {t})
        /\ UNCHANGED <<record, stored, row, selected, histories, view, taskOf, loading,
                       rejoining>>

SavedOf(t) == IF saved[t] = None THEN {} ELSE saved[t]

\* Bug: the composer is not locked again.
Resume_NotStreaming(t, c) ==
    /\ current' = t /\ running' = c /\ view' = c
    /\ taskOf' = [taskOf EXCEPT ![c] = t]
    /\ messages' = [messages EXCEPT ![c] = IF saved[t] = None THEN @ ELSE SavedOf(t)]
    /\ UNCHANGED <<streaming, rejoining>>

\* Bug: the conversation is not told its task.
Resume_NoTask(t, c) ==
    /\ current' = t /\ running' = c /\ streaming' = TRUE /\ view' = c
    /\ messages' = [messages EXCEPT ![c] = IF saved[t] = None THEN @ ELSE SavedOf(t)]
    /\ UNCHANGED <<taskOf, rejoining>>

\* A task is taken up again with what was saved of its messages; the transcript
\* of its conversation, if that is known, is to come before them.
Resume(t, c) ==
    /\ current' = t /\ running' = c /\ streaming' = TRUE /\ view' = c
    /\ taskOf' = [taskOf EXCEPT ![c] = t]
    /\ messages' = [messages EXCEPT ![c] = IF saved[t] = None THEN @ ELSE SavedOf(t)]
    /\ rejoining' = IF c \in Convs /\ row[c] = "project"
                    THEN [conv |-> c, tail |-> SavedOf(t)] ELSE rejoining

\* (The check for the current task guards against a second reconnect; here the
\* event is the first of a page, whose current task is not set.)
HandleReconnecting ==
    LET t == Head(queue).task
    IN  /\ Handle({"reconnecting"})
        /\ IF current = t THEN UNCHANGED <<view, lockVars, taskOf, messages, rejoining>>
                          ELSE Resume(t, Head(queue).of)
        /\ UNCHANGED <<storageVars, selected, histories, panel, persist, loading>>

\* The scheduler's idle callback, writeToDisk.
Flush ==
    /\ Idle /\ persist # None
    /\ saved' = [saved EXCEPT ![persist.task] = MessagesOf(persist.conv)]
    /\ persist' = None
    /\ UNCHANGED <<record, stored, row, sharedVars, batchVars, mounted, view, lockVars,
                   taskOf, panel, messages, loading, rejoining, worldVars, historyVars>>

-----------------------------------------------------------------------------
(* The user: ChatInterface, ChatComposer, Sidebar and App.                 *)

\* The effect on selectedConversation: the view, the transcript unless there
\* are messages (a load for the last selection is aborted), a stored question.
ShowSelection(c) ==
    /\ view' = c
    /\ loading' = IF c # None /\ row[c] = "project" /\ messages[c] = {} THEN c ELSE None
    /\ IF c = None \/ StoredOf(c) = {} THEN UNCHANGED panel
       ELSE \E r \in StoredOf(c) : panel' = [panel EXCEPT ![c] = r]

HandleSelected ==
    /\ Handle({"selected"})
    /\ ShowSelection(selected)
    /\ UNCHANGED <<storageVars, selected, histories, lockVars, taskOf, messages,
                   persist, rejoining>>

Select(c) ==
    /\ Idle /\ mounted
    /\ c \in Convs /\ row[c] # "none"
    /\ selected' = c
    /\ ShowSelection(c)
    /\ UNCHANGED <<storageVars, queue, histories, batchVars, mounted, lockVars, taskOf,
                   messages, persist, rejoining, worldVars, historyVars>>

NewChat ==
    /\ Idle /\ mounted
    /\ selected' = None
    /\ ShowSelection(None)
    /\ UNCHANGED <<storageVars, queue, histories, batchVars, mounted, lockVars, taskOf,
                   messages, persist, rejoining, worldVars, historyVars>>

\* The composer is there, is not uploading and is not disabled.
CanSend ==
    /\ mounted /\ ~streaming
    /\ view # None => panel[view] = None
    /\ \A k \in calls : k.at # "here"

\* The calls after a render: once a panel takes the place of the composer, or
\* ChatInterface is gone, the call goes on without the composer it began in.
Rerendered(ks) ==
    LET at(k) == CASE ~mounted' -> "unmounted"
                   [] mounted' /\ k.at = "here" /\ batch' = 0 /\ view' # None
                        /\ panel'[view'] # None -> "replaced"
                   [] OTHER -> k.at
    IN  {[k EXCEPT !.at = at(k)] : k \in ks}

\* A step that begins and ends no call.
Rerender == calls' = Rerendered(calls) /\ UNCHANGED orphans

Uploading(t) == \E k \in calls : k.task = t

\* handleSend of ChatInterface, of the render that had `from` on view; without
\* a conversation a new one is created and selected, which a ChatInterface that
\* is mounted shows. The state of one that is gone goes nowhere.
OnSend(t, from, gone, c) ==
    /\ IF from # None THEN c = from /\ UNCHANGED <<row, selected, loading, view, panel>>
       ELSE /\ c \in Convs /\ row[c] = "none"
            /\ row' = [row EXCEPT ![c] = "new"]
            /\ selected' = c
            /\ IF mounted THEN ShowSelection(c) ELSE UNCHANGED <<loading, view, panel>>
    /\ IF gone THEN UNCHANGED <<messages, running, streaming>>
       ELSE /\ messages' = [messages EXCEPT ![c] = @ \cup {t}]
            /\ running' = c /\ streaming' = TRUE
    /\ stream' = [stream EXCEPT ![t] = "posting"]
    /\ convOf' = [convOf EXCEPT ![t] = c]
    /\ mixed' = (mixed \/ gone \/ \E u \in Tasks \ {t} : Busy(u))
    /\ UNCHANGED <<record, saved, stored, queue, histories, batchVars, mounted, current,
                   taskOf, persist, rejoining, agentVars, moves, left>>

\* handleSend of the composer without files: the test and the sending are one.
Send(t, c) ==
    /\ Idle /\ CanSend
    /\ stream[t] = "unused" /\ ~Uploading(t)
    /\ OnSend(t, view, FALSE, c)
    /\ Rerender

Behind == {u \in Tasks : \E i \in 1..Len(queue) :
                queue[i].kind = "reconnecting" /\ queue[i].task = u}

\* handleSend with files: the test, and the uploads begin.
BeginUploads(t) ==
    /\ Idle /\ CanSend
    /\ stream[t] = "unused" /\ ~Uploading(t)
    /\ calls' = calls \cup {[task |-> t, from |-> view, at |-> "here", behind |-> Behind]}
    /\ UNCHANGED <<pageVars, orphans>>

\* The uploads have ended: the captured onSend is called, whatever has happened
\* since the test; a message without a text whose uploads all failed is not sent.
UploadsEnd(k, c) ==
    /\ Idle
    /\ OnSend(k.task, k.from, k.at = "unmounted", c)
    /\ calls' = Rerendered(calls \ {k})
    /\ orphans' = IF k.at = "here" THEN orphans ELSE orphans \cup {k.task}

UploadsFail(k) ==
    /\ Idle
    /\ calls' = calls \ {k}
    /\ UNCHANGED <<pageVars, orphans>>

\* handleAnswerQuestion and handleSkipQuestion: the panel closes and the
\* question is forgotten before the answer is posted, which may fail.
Answer(r) ==
    /\ Idle /\ mounted
    /\ view # None /\ panel[view] = r
    /\ panel' = [panel EXCEPT ![view] = None]
    /\ stored' = stored \ {r}
    /\ \/ UNCHANGED asking
       \/ asking' = [t \in Tasks |-> IF asking[t] = r THEN None ELSE asking[t]]
    /\ UNCHANGED <<record, saved, row, sharedVars, batchVars, mounted, view, lockVars,
                   taskOf, messages, persist, loading, rejoining, stream, convOf, agent,
                   asker, texts, failed, historyVars>>

\* The state of the hooks when ChatInterface unmounts, or a page loads.
FreshChat ==
    /\ view' = None /\ running' = None /\ streaming' = FALSE /\ current' = None
    /\ taskOf' = [c \in ConvIds |-> None]
    /\ panel' = [c \in ConvIds |-> None]
    /\ messages' = [c \in ConvIds |-> {}]
    /\ persist' = None /\ loading' = None /\ rejoining' = None

\* Another tab of the page is shown.
Leave ==
    /\ Idle /\ mounted /\ moves < MaxMoves
    /\ moves' = moves + 1
    /\ left' = (left \/ \E t \in Tasks : Busy(t))
    /\ mounted' = FALSE
    /\ FreshChat
    /\ UNCHANGED <<storageVars, sharedVars, batchVars, worldVars, mixed>>

\* ChatInterface mounts: its effects drain the queue, then show the selection.
Return ==
    /\ Idle /\ ~mounted
    /\ mounted' = TRUE
    /\ queue' = Append(queue, Event("selected", None, None))
    /\ batch' = Len(queue')
    /\ session' = None
    /\ UNCHANGED <<storageVars, selected, histories, view, lockVars, taskOf, panel, messages,
                   persist, loading, rejoining, worldVars, historyVars>>

\* running_session_id ?? taskId
Home(of) == IF of.conv = None THEN of.task ELSE of.conv

\* The page is loaded anew, its streams are closed; the mount effect of
\* SseProvider takes up the task of the record.
Reload ==
    /\ Idle /\ moves < MaxMoves
    /\ moves' = moves + 1
    /\ mounted' = TRUE /\ selected' = None /\ histories' = {} /\ calls' = {}
    /\ FreshChat
    /\ LET closed == [t \in Tasks |-> IF Open(t) THEN "closed" ELSE stream[t]]
       IN  IF record = None THEN queue' = <<>> /\ stream' = closed
           ELSE /\ queue' = <<Event("reconnecting", record.task, Home(record))>>
                /\ stream' = [closed EXCEPT ![record.task] = "hello"]
    /\ UNCHANGED <<storageVars, batchVars, convOf, agentVars, left, mixed, orphans>>

-----------------------------------------------------------------------------
World ==
    \/ \E t \in Tasks :
          \/ Respond(t) \/ Break(t) \/ EndSilently(t) \/ Rejoin(t) \/ RejoinGone(t)
          \/ Start(t) \/ Text(t) \/ Fail(t) \/ Finish(t)
          \/ \E r \in Requests : Ask(t, r)
    \/ \E c \in Convs : HistoryLoaded(c)
    \/ TranscriptLoaded \/ HistoricalLoaded

HandleEvent ==
    \/ HandleCreated \/ HandleStart \/ HandleText \/ HandleQuestion \/ HandleDone
    \/ HandleGone \/ HandleError \/ HandleReconnecting \/ HandleSelected

User ==
    \/ \E c \in Convs : Select(c)
    \/ \E r \in Requests : Answer(r)
    \/ NewChat \/ Leave \/ Return

Compose ==
    \/ \E t \in Tasks, c \in ConvIds : Send(t, c)
    \/ \E t \in Tasks : BeginUploads(t)
    \/ \E k \in calls : UploadsFail(k) \/ \E c \in ConvIds : UploadsEnd(k, c)

Next ==
    \/ (World \/ Drain \/ HandleEvent \/ Flush \/ User) /\ Rerender
    \/ Compose
    \/ Reload

Spec == Init /\ [][Next]_vars

-----------------------------------------------------------------------------
(* Safety. One query at a time is what the composer is to guarantee        *)
(* (docs/chat-architecture.md, 3); most of the rest depends on it.         *)

Waiting(kind, t) ==
    \E i \in 1..Len(queue) : queue[i].kind = kind /\ queue[i].task = t

\* Whose reconnecting event waits as the test of a query's composer is made.
Untold(t) ==
    IF Uploading(t) THEN UNION {k.behind : k \in {j \in calls : j.task = t}} ELSE Behind

\* While a stream is busy no other query is sent, whichever conversation is on
\* view, after a page load and after the uploads of its files too - unless the
\* stream's query has failed (its done is still to come), the chat tab was left
\* while a stream was busy, the page had just loaded and not drained its
\* reconnecting event as the composer tested, or one of the two queries is of a
\* call that awaited its uploads while its composer was replaced or unmounted.
\* (Once two queries have overlapped, the done of one unlocks the composer for
\* the other.)
ComposerLock ==
    [][\A t, u \in Tasks :
            (~mixed /\ t # u /\ stream[t] = "unused" /\ stream'[t] = "posting" /\ Busy(u))
                => left \/ u \in failed \/ u \in Untold(t) \/ {t, u} \cap orphans' # {}]_vars

\* A query is of the conversation it was sent in, and of the one named by its
\* task that a page load falls back to.
Belongs(t, c) == convOf[t] = c \/ t = c

\* As long as queries do not mix, a conversation never shows messages of
\* another's query, nothing of another's is saved for a task, and the record
\* leads a page load back to the task's own conversation: whatever the user
\* looks at when events are drained, reloads and transcripts included.
OwnConversation ==
    ~mixed =>
        /\ \A c \in ConvIds : \A t \in messages[c] : Belongs(t, c)
        /\ \A t \in Tasks : saved[t] # None =>
               \A u \in saved[t] : \E c \in {convOf[t], t} : Belongs(u, c)
        /\ record # None => record.conv \in {None, convOf[record.task], record.task}

\* A question on a panel is one localStorage has: a reload, or a visit to
\* another tab or conversation, does not lose the panel.
QuestionsSurviveReload == \A c \in ConvIds : panel[c] # None => panel[c] \in stored

\* As long as queries do not mix, a task that runs on an open stream and
\* whose start is drained is on record, so that a page load takes it up again.
RunningTaskRecorded ==
    \A t \in Tasks :
        (~mixed /\ Open(t) /\ agent[t] = "running" /\ t \notin failed
               /\ ~Waiting("start", t))
            => record # None /\ record.task = t

\* The composer is locked only while something can unlock it: a stream is open
\* or an event is to be drained - unless a stream has ended silently.
LockedByStream ==
    mounted /\ streaming /\ queue = <<>> => \E t \in Tasks : Open(t) \/ stream[t] = "silent"

\* Stop names the task that runs: once the page has drained what tells it the
\* task of an open stream, the running conversation's Stop posts that task, as
\* long as queries do not mix.
StopNamesRunning ==
    \A t \in Tasks :
        (/\ ~mixed /\ mounted /\ streaming /\ running # None
         /\ stream[t] \in {"live", "hello", "es"}
         /\ ~Waiting("created", t) /\ ~Waiting("reconnecting", t))
            => taskOf[running] = t

=============================================================================
