# A TLA+ development of WebCode

WebCode gives every user a Firecracker VM with a terminal, a file manager and a
Claude chat. This directory holds TLA+ models of the parts of it where steps of
several actors interleave, the TLC runs that check them on small instances, and
proofs, checked by TLAPS, of what holds for any number of users, VMs, requests,
queries, tabs or files: of the VM admission code, the agent daemon, the token
rotation, the credential refresh, and three components of the page. Paths below are
relative to `src/`.

- [The system](#the-system): the parts, their state, how they interact
- [The modules](#the-modules): state and actions against the code
- [The runs](#the-runs): what each shows, the bounds, the fairness
- [The proofs](#the-proofs)
- [Where the code and its documents part](#where-the-code-and-its-documents-part)
- [Not modelled](#not-modelled), [Plan](#plan), [Running it](#running-it)

## The system

```
 browser page                    server (axum, tokio)                VM of the user
 ------------                    --------------------                --------------
 SseContext: streams, queue  --> csrf.rs   token per session
 useSseHandlers: chat state  --> chat.rs   one connection per   ---> agent.py: sessions,
 localStorage                              request to the agent      queries, questions
 Terminal                    --> terminal.rs  WebSocket <-> SSH ---> sshd
                                 handlers.rs  UserVm, provisioning
                                 state.rs     vms, provisioning_users, rootfs_lock
                                 sweep.rs, mmds.rs  timers
 FileManager, SettingsPanel, --> files.rs, upload.rs, settings.rs,
 useConversations                history handlers: one SFTP     ---> files of the user
                                 session per request
                                 rootfs.rs    user_rootfs_dir/{user}.ext4
```

| Part | State it keeps | Operations | What makes it correct |
|---|---|---|---|
| **VM admission and lifecycle** (`server/src/handlers.rs`, `state.rs`, `terminal.rs`, `main.rs`, `vm-lifecycle/src/`) | the registry `vms`, `provisioning_users`, one `rootfs_lock`, one root file system image per user | look up or provision a VM; open and close a terminal; save the disk; reset; idle sweep; shutdown; cleanup at start | one VM per user, at most `vm_max_count`; no VM process without an owner; one party saves a disk; no user's work in another's file; saved work stays; reservations end |
| **CSRF token** (`server/src/csrf.rs`; its users in the frontend) | `csrf_token` in the session record; `csrfTokenRef` in each tab | issue with a page; validate and rotate with every mutating request; refresh from the answer's header | the page's next request is accepted; a used token is spent |
| **Agent daemon** (`rootfs/agent.py` 65-356) | `_sessions` with writer and pending question; one asyncio task per query | query, hello, answer, interrupt; run a query; ask a question and wait; restart by systemd | events go to a connection of their query; nothing after done; sessions leave the table; who rejoins can answer the question |
| **Agent stream processing** (`rootfs/agent.py` 359-560) | current block per query | turn SDK messages into events | nothing that was streamed is emitted again; a tool is announced once its input is complete |
| **Chat handlers** (`server/src/chat.rs`) | none between requests | `/chat`, `/chat-stream`, `/chat-question-answer`, `/chat-stop`: each opens its own connection | what the agent writes reaches a stream of its task; Stop stops |
| **Chat page** (`frontend/src/contexts/SseContext.tsx`, `hooks/`, `components/ChatInterface.tsx`, `App.tsx`) | event queue, selection; messages, running state, panels; in localStorage the running-task record, saved messages, questions, conversations | receive events, drain them in batches, send, answer, select, leave and return, reload | messages stay in their conversation; one query at a time; Stop names the running task; a reload takes everything up again |
| **Transcript rebuild** (`frontend/src/utils/transcript.ts`) | none | rebuild messages from the SDK's records | agrees with what the stream showed |
| **Conversation list** (`hooks/useConversations.ts`, `App.tsx`, `Sidebar.tsx`) | the entries with their sessions, the selection | merge the history, note a query's session, select, delete | one entry for a session; what is deleted stays away; a follow-up continues the session |
| **Composer and question panel** (`ChatComposer.tsx`, `AskUserQuestionPanel.tsx`) | draft, command menu, attached files; the step, selections and texts of a question | type, attach, upload and send; choose, move, answer, skip | one query at a time and a file in one message although uploads come in between; the answer fits the question |
| **File manager** (`FileManager.tsx`, `server/src/files.rs`, `upload.rs`) | directory shown, its entries, status of the last upload | open, upload, reload | the list is what the directory holds |
| **Settings panel** (`SettingsPanel.tsx`, `server/src/settings.rs`) | what is known of the key, the field, the last save | open, close, type, save, reload | what it says of a save is true |
| **Tool diff** (`ToolDiffViewer.tsx`, `ToolRenderer.tsx`) | none | compare the two contents of a tool call | no line is lost, the common lines are as many as there can be |
| **IAM refresh** (`vm-lifecycle/src/mmds.rs`, `iam.rs`) | credentials in each VM's MMDS | every 15 minutes, write new ones to registered VMs | a pass reaches every VM, whichever fails |
| **Authentication** (`server/src/auth.rs`, `migrations/`) | sessions in Postgres | login, callback, upsert of the user | delegated to Cognito and Postgres |
| **File, settings and history handlers** (`server/src/`) | none between requests | one SFTP session per request | path checks |
| **Pages, views, installation** | none | rendering; host commands in order | |

What is hard, and so what the models are about:

- *Interleaving in the server.* A page load takes an HTTP request through a dozen
  awaits: lookup, reservation, lock, copy, boot, registration. Two mutexes and one
  fair lock stand between any two requests; a request's future may be dropped at
  any await when the browser goes away; the idle sweep, the reset, the shutdown and
  a crash come in between.
- *Time of check, time of use.* The VM boots from a file read without the lock; the
  save names the file by the request's user and the disk by the entry found.
- *Connections come and go* while the agent runs a query and waits for an answer:
  who an event is for is decided when it is written.
- *Batches in the page.* Events queue up and are drained by an effect which sees the
  running conversation of the last render; meanwhile the user moves between
  conversations and tabs and loads the page anew, and localStorage is written partly
  as events arrive and partly as they are handled.
- *Answers in any order.* Listings, uploads, saves, loads of the history and deletions
  overlap without a limit, and each answer is applied as it comes to whatever the
  component shows by then, or to a component that was closed, or replaced by another.
- *Captured state.* A handler that resumes after an await goes on with the text, the
  files, the selection and the list of conversations of the render it began in, and after
  the component it belongs to is gone. `ChatComposer.handleSend` tests that no query runs,
  uploads file after file, and then sends: `ChatClient`, `ChatInput` and `Conversations` each
  have these steps apart, for what they have to say of them.
- *Rotation.* Every accepted request changes the token that the next one needs,
  while requests overlap and answers get lost.

`PROJECT.json` lists the hazards with the line where each one bites and the
properties that would show it.

## The modules

| Module | Models | Extended or used by |
|---|---|---|
| `VmLifecycle` | VM admission and lifecycle | `MCVmLifecycle`, `VmLifecycle_proofs` |
| `VmSlots` | abstract: what admission promises | `VmLifecycle` (`INSTANCE VmSlots WITH slot <- slotOf`) |
| `VmLifecycle_proofs` | theorems about `VmLifecycle` | |
| `CsrfRotation` | token rotation, server and tabs together | `MCCsrfRotation` |
| `Agent` | the daemon, with any clients | `AgentBehindServer` |
| `AgentBehindServer` | the daemon as `chat.rs` uses it | `MCAgentBehindServer`, `AgentBehindServer_proofs` |
| `AgentBehindServer_proofs` | theorems about `AgentBehindServer` | |
| `CsrfRotation_proofs` | theorems about `CsrfRotation` | |
| `ChatClient`, `ChatClient_proofs` | one browser page, with the streams it listens to; theorems about it | `MCChatClient` |
| `MessageStream`, `MessageStream_proofs` | what one query says, block by block, live; theorems about it | `StreamRecord` |
| `StreamRecord`, `StreamRecord_proofs` | the same rebuilt from its record, and the comparison of both; the proof of it | |
| `Conversations` | the list of conversations against the VM's history | `MCComponents`, `Components_proofs` |
| `QuestionPanel` | the panel that asks the user | `ChatInput` |
| `ChatInput` | the composer, and the panel that takes its place | `MCComponents`, `Components_proofs` |
| `FileManager` | the Files tab | `MCComponents`, `Components_proofs` |
| `SettingsPanel` | the settings panel | `MCComponents`, `Components_proofs` |
| `Components_proofs` | theorems about `FileManager`, `SettingsPanel`, `QuestionPanel`, `ChatInput`, `Mmds` and `Conversations` | |
| `ToolDiff`, `ToolDiff_proofs` | the diff of a tool card; theorems about it | `MCComponents` |
| `Mmds` | the refresh of the VMs' credentials | `MCComponents`, `Components_proofs` |
| `MCComponents` | one instance of each of these, explored one at a time | |

Operators whose comment begins with "Bug:" or "Mutant:" are no part of a
specification: each is a variant of the definition that follows it, as a plausible
mistake would write it, and serves to see that a property notices (`mutants` in
`PROJECT.json`).

### VmLifecycle

A task is one tokio task: a request from arrival to response, or the terminal
session it is upgraded to. `pc[t]` is the await it stands at, and an action is the
code from one await to the next, or one critical section of a short mutex. A terminal
whose relay runs (`InRelay`) is at its await on the WebSocket and the SSH channel.

| State | Code |
|---|---|
| `vms`, `owner`, `idle` | `AppState.vms`, `VmEntry.user_id`, entries past `IDLE_TIMEOUT` |
| `provisioning` | `AppState.provisioning_users`, emptied by `ProvisioningGuard::drop` |
| `lockQueue` | `AppState.rootfs_lock`, tokio's fair mutex: holder first, then waiters |
| `pc`, `user`, `held` | where a task is, its user, the VM it has in hand |
| `main`, `draining` | `serve_router`, entries `save_all_vm_rootfs` has drained |
| `alive`, `disk` | Firecracker processes and the contents of their disks |
| `hasFile`, `file` | `user_rootfs_dir/{user}.ext4` |

The content of a disk is the set of VMs whose user's work it carries: enough to tell
the base image from a saved disk, an old save from a new one and one user's from
another's. `Arrive`, `FindUserVm`, `Reserve`/`Reject`, `RequestLock`,
`FindFile`/`MissFile`, `CopyBase`, `CreateVm`, `RegisterVm` and `Provisioned` are the
`UserVm` extractor; `GiveUpEnsure`, `CopyFails` and `CreateFails` are its error
paths and the drop of its future. `OpenTerminal`, `Disconnect`, `LockForSave`,
`SaveRootfs` and `SaveFails` are the terminal session; `RemoveUserVm` to
`DeleteFails` the reset; `Sweep`, `Signal`, `Drain`, `SaveNext`, `Exit`, `Crash`,
`Start` the process. `VmSlots` knows only a slot per user that is none, booting or
running.

### CsrfRotation

`stored` is the token in the session record, `ref` each tab's copy, `req` the
requests: sent, running, answered, received or lost. tower-sessions is external; the
model lets it save the record or not where the code does not determine it
(`writesBack`; an error's changes). Every caller of the frontend is an action, by the
token it sends and by what it does with the answer's:

| Kind | Actions | Token sent | Answer |
|---|---|---|---|
| page | `LoadPage` | none | brings the tab its token |
| context | `SendFromContext`: queries, stops, answers, deletions of `SseContext` | `csrfTokenRef` | refreshes it, unless it is an error |
| attachment | `SendAttachments`, `SendNextAttachment`: the composer's files, one after the other | the one captured as the message was sent (`attaching`) | not read |
| component | `UploadFile`, `SaveSettings`, `ResetRootfs` | that of the last render, `csrfTokenRef`'s | not read |

(`/api/csrf-token` exists and no caller uses it.)

### Agent, AgentBehindServer

asyncio runs one coroutine at a time, so a message handler is one step and a query
runs from await to await. `conn`/`out` are the connections and what was written to
them, `sessions`/`writer`/`pending` the table `_sessions`, `captured` the writer in a
query's context, `query` its asyncio task, `hook` each `AskUserQuestion` hook with its
future. `EmitTarget` is `emit_sse`: the query's own connection while it is open, the
session's otherwise, else the event is lost. `Finally` is the `finally` of
`run_query`, reached by `Finish` and `Fail`; `CancelUnstarted` is asyncio's rule that
a coroutine cancelled before its first step never runs; `Restart` is systemd's.
`Agent!Spec` lets any client send anything; the runs check the daemon as the server
uses it, where `CancelUnstarted` cannot happen (`NoQueryIsCancelled`) and is left out.

`AgentBehindServer` extends `Agent` and lets it receive only what `chat.rs` sends: a
connection is opened for one request, carries one message, and is closed (`use`). A
hello comes only for a task whose `session_start` somebody has seen, an answer only
for a question somebody was shown and with an id that parses (`Uuids`).

### ChatClient

JavaScript runs one task at a time. `Drain` starts a batch, `Handle...` are the cases
of `handleEvent` for each event of it with `session` fixed at what `runningRef`
held; every other action waits until the batch is over. Of the messages of a
conversation the model keeps which tasks they belong to.

A message without files is one step, `Send`. One with files is a call: `BeginUploads` is the test
of the composer (`CanSend`, `ChatComposer.tsx` 82) up to the first await, `UploadsEnd` calls the
`onSend` captured then (`OnSend`, 112), whatever has happened since, and `UploadsFail` is a call that has
nothing to send. In between the composer of that render blocks itself; but it may be replaced by a question's
panel, or unmounted with its `ChatInterface` by a visit to another tab, and the call goes on (`Rerendered`).

| State | Code |
|---|---|
| `record`, `saved`, `stored`, `row` | localStorage: running task, messages per task, questions, conversations |
| `queue`, `selected`, `histories` | `SseProvider` and `App`: they survive a visit to another tab |
| `mounted`, `view`, `running`, `streaming`, `current`, `taskOf`, `panel`, `messages`, `persist`, `loading`, `rejoining` | `ChatInterface` and its hooks: lost when another tab is shown (`Leave`) or the page is loaded (`Reload`) |
| `calls` | the calls of `handleSend` at the await of their uploads: the task, the conversation captured, whether the composer is still there |
| `stream`, `agent`, `convOf`, `asker`, `asking`, `texts`, `failed` | the streams and as much of the agent as a page can tell |
| `left`, `orphans`, `mixed` | history: the tab was left while a stream was busy; queries of calls that had lost their composer; a query was sent into a busy stream |

The agent's side is the environment: `Respond`, `Start`, `Text`, `Ask`, `Fail`,
`Finish` put events on a stream that listens, `Break` and `EndSilently` end one,
`Rejoin`/`RejoinGone` answer the hello of a page load.

### MessageStream and StreamRecord

One query from the SDK to the screen by both ways there are. Live: `ProcessBlockStart`,
`ProcessBlockDelta`, `ProcessBlockStop`, `ProcessAssistantEvent`, `AskUserQuestion`,
`ProcessUserEvent`, `Finish` and `Fail` are `agent.py`; each writes events to `wire`,
from which `HandleInit` to `HandleErrorEvent`, the cases of `handleEvent` that change
messages, take them. After a reload: `transcript` is the SDK's record of
the session and `BuildMessagesFromTranscript`, in `StreamRecord`, is `transcript.ts`, a recursive function of its
entries. Neither module uses a fold or a recursive operator, so that theorems about them can be proved.

| State | Code |
|---|---|
| `message`, `at`, `due`, `transcript` | the SDK: message under way, blocks of it already streamed, tools that run, the record |
| `streamed`, `typed` | the SDK, fixed at the start: whether messages are streamed first, and whether its objects have the attributes `type` and `message`; `agent.py` provides for both |
| `open`, `emitted` | `block_types`, `emitted_streaming_text` |
| `messages`, `thinking`, `assistant`, `card` | the conversation's messages, `thinkingMsgId`, `assistantMsgId`, `toolIdToMsgId` |

Text of block `n` comes in two chunks and is `<<n, n>>` when complete: enough to tell a
repeated, a lost and a misplaced delta. The fact that batches of events are drained
together is in `ChatClient`; within a batch these handlers run one after the other, and
nothing else touches the messages of the running conversation.

### Conversations

An entry of `conversations` has a session once its first query is done, and a
`projectDir` (`dir`) once that was found in the history. `syncs` are the calls of
`syncConversationsFromHistory` under way, `lookups` those of the done event, `deletions`
those of `handleDeleteConversation` with the selection it captured; each is answered by
the server at one step and handled at a later one. `history` is what the agent has
recorded: while a query runs its session appears there (`Recorded`) before the list hears
of it. `queries` are those that run, any number of them: what keeps them apart is `ChatInput`'s. A
message without files is sent in one step (`SendQuery`), with the session that the entry in view has
then. One with files waits (`BeginUploads`, `waiting`) and is sent by `UploadsDone` with the conversation and the
session of the render in which it was written (`ChatInterface.tsx` 134), so that a done handled
meanwhile is `missed`. `Done` notes the session, after an error event too; `QueryFails` is an
end that names no session. `LookupEnds` sets the `projectDir` and nothing else.

### QuestionPanel, ChatInput

`step`, `selections`, `otherActive`, `otherTexts` are the state of
`AskUserQuestionPanel`; `pending` and `stored` the requests in the page's state and in
localStorage. The panel has no React key: `Render` says when its state is fresh and when
it stays, and is part of every action that changes what is shown. `ChatInput` adds the
composer, whose state is lost when the panel takes its place (`Replaced`) or another tab is shown
(`LeaveTab`), and `jobs`, the calls of `handleSend` that stand at the await of an upload, with what they
captured. `SendFiles`, `UploadNext` and `UploadsEnd` are the steps of one such call, `OnSend` is the
`handleSend` of `ChatInterface`. `LeaveTab` unmounts `ChatInterface` (`App.tsx` 107): the panel, the
running state (`streaming`) and the view go, `App`'s selection (`selected`) stays, a call goes on and what
it sets is set nowhere (`gone`). `ReturnTab` mounts a new one. `running` are the queries that run,
whatever the page takes to be running; `QueryRaises` is an `error_event`, which unlocks the composer before
the query's done.

### FileManager, SettingsPanel

`listings` and `uploads`, or `loads` and `saves`, are the requests under way: `Serve...`
and `Store...` are the server's step, `Show...`, `...Answered`, `...Ends` and `...Fails` the
page's. The file manager stays mounted while other tabs are shown; the settings panel is
mounted anew each time it is opened, and answers for a closed one are dropped.

### ToolDiff

`Lengths` is the table of `computeLCS` under its cap, a recursive function; `Match`, `DropLine`
and `EndTrace` are the way back through it, which builds `lcs`; `Context`, `Added`, `Removed`
and `EndWalk` are the branches of the loop of `computeDiffLines`. `ContextIsLongest` compares
the result with a definition of a common subsequence that knows nothing of tables.

### Mmds

`host` is the number of the credentials the host has, `creds[v]` those in a VM's metadata.
A pass is `Fetch`, `Collect` and one `Write` or `WriteFails` for each VM collected, in any
order; VMs come and go in between (`FetchForVm`, `Register`, `Remove`).

## The runs

| Run | Instance | Shows |
|---|---|---|
| `VmLifecycle_admission` | 2 users, 2 VM ids, 2 tasks, limit 1 | `CapacityRespected`, `DiskIsolation`; the server implements `VmSlots` |
| `VmLifecycle_tabs` | 1 user, 2 VM ids, 2 tasks, limit 2, fair | `OneVmPerUser`, `NoLeakedVm`, `OneSaver`, `CopyTargetAbsent`, `QuietResetErases`; `ReservationsEnd`, `RetiredVmsEnd` |
| `VmLifecycle_close`, `_persist` | 1 user | violations, see below |
| `AgentBehindServer_streams` | 2 queries, 3 connections, 1 question, 1 text, fair | `EventsReachStreams`, `NoQueryIsCancelled`, `NothingAfterDone`, `QuestionReachesRejoined`; `SessionsAreFreed`, `SubmitterHearsDone`, `RejoinedHearsDone` |
| `AgentBehindServer_stop` | 1 query, 2 connections | violation |
| `CsrfRotation_tabs` | 2 tabs, 4 requests, up to 2 files attached to a message | `InSyncWhenUndisturbed`, `AnsweredTokenIsSpent` |
| `CsrfRotation_latest` | 1 tab, 3 requests | violation |
| `ChatClient_page` | 2 queries with or without files, 2 conversations (1 of an earlier visit), 2 questions, 1 text, queue of 3, 3 page loads or visits to another tab | `OwnConversation`, `StopNamesRunning`, `QuestionsSurviveReload`, `RunningTaskRecorded`, `LockedByStream`, `ComposerLock` |
| `StreamRecord_shown` | 4 blocks, 3 of them in a message, 2 events on the wire | `ShownAsRecorded`, `TextsAsProduced` |
| `Components_alone` | diffs of up to 4 lines, 3 of them compared; 3 directories, 2 uploads, 4 listings; 2 keys, 3 saves, 2 panels; 2 requests, 2 options, 2 files, 1 command prefix, 2 messages, any tab visits; 3 queries, refreshes or deletions, 1 earlier session; 2 VMs, 3 credentials | `ShowsBoth`, `ContextIsLongest`; `ListIsCurrent`; `SuccessIsSaved`; `PanelFits`, `OneChoice`, `SendsOneAtATime`, `FilesSentOnce`; `OneEntryPerSession`, `DeletedStaysAway`, `FollowUpsContinue`; `RefreshReachesAll` |
| `Components_switch` | 2 conversations, a request with 1 question and one with 2 | violation |

The components of `Components_alone` share no state: `component` is chosen at the start
and the others stay in an initial state, so that the states of the run are the sum of
theirs and not the product.

### Bounds

- *VmLifecycle.* VM ids are never reused, so a behaviour creates at most two VMs;
  tasks are reused without limit. The races named by the hazards are between two
  parties: two requests for the last slot (admission), two requests or terminals of one
  user, or one and a reset, the sweep, the shutdown (tabs). Two VM ids let a second VM
  boot while the first one's disk is still unsaved. The proofs remove these bounds from
  every safety property and from the refinement of `VmSlots`; the liveness properties keep them.
- *Agent.* A connection names a task in one query or hello. Three connections are
  a submitter, one that rejoins, and one that answers, interrupts or rejoins again.
  With two queries `AgentBehindServer_streams` has one connection to spare, enough for
  an event to go to the wrong query. `MaxTexts` counts the texts of both queries
  together: a text takes the same path as `session_start`, and one is enough to follow a rebinding.
- *CsrfRotation.* Each request is sent once. Four are a page, two that overlap, and
  the one that meets what they left. `MaxFiles` is two, a file and one after it. Token numbers are bounded by the requests.
- *ChatClient.* Each task is one query. `MaxQueue` bounds what waits between two drains:
  three hold any order of removal and writing of the record; `MaxMoves` bounds page loads and
  visits, `MaxTexts` text events, which all take one path. `Bounded` of `MCChatClient` follows two
  queries through one move, with batches of two and no question (a panel disables the
  composer and changes nothing else that keeps two queries apart); two questions of one query, open
  together, through two moves; and one query with one question, with or without uploads, through
  all of it. It stops where queries mix: a query is sent while another's stream is busy, or by a
  call whose `ChatInterface` was gone, so that the page does not know of it. The page keeps one
  `current` task, and what it shows after that is not what these properties are about. `ComposerLock` itself
  is checked on the step that leads there, and names the openings: the other query has failed and its done is still
  to come; the tab was left while a stream was busy; the page had just loaded and not drained its
  reconnecting event as the composer tested; or one of the two queries is of a call that lost its composer to a
  panel or a visit while it uploaded. The call that a panel orphaned takes three tasks here (one has
  left the question that the panel shows, one uploads, one is sent from the composer that comes after the panel), so
  the run does not reach it: it is in the theorem, and in the run of `ChatInput`, which has no streams.
- *StreamRecord.* Four blocks hold any sequence of a text, a tool, a question and
  thinking, over one message or several; `MaxLength` keeps a message shorter than the query, so that there is a later
  one. `MaxWire` limits how far the agent is ahead of the page: the handlers do not
  look at what follows, and the agent does not look at the page.
- *Components.* Two requests under way and a third to overtake them is what orders of
  answers need, so four listings (the first is the page's own), three saves, and three
  things the user asks of the list of conversations. Two questions of different kinds are
  a panel that can be handed from a longer request to a shorter one. Contents of up to
  three lines over three values meet every branch of the diff; those of four exceed
  the cap. `Bounded` of `MCComponents` follows `ChatInput` up to the step that sends into a running query, with
  a tab left while a query ran or an error before its done, not both; it
  does not attach files to a message while a panel is filled in, as no
  action reads both, and opens the menu of commands on a fresh page only. Of the three things asked of
  the list of conversations two at a time are messages whose queries run or whose files are uploaded.
- Tasks, connections, requests and tabs are symmetric where the run checks no liveness.

Deadlock is checked in the runs of `VmLifecycle` and `AgentBehindServer`,
whose processes can always restart. The runs of `CsrfRotation`, `ChatClient`,
`StreamRecord` and the components end when their requests, queries or blocks are used up and say `CHECK_DEADLOCK FALSE`.

### Fairness

- `VmLifecycle!FairSpec`: weak fairness of `Proceed(t)` for every task. tokio polls
  what is ready; everything a provisioning or saving request awaits has a timeout or an error path
  (the 30 s on the lock; SFTP, AWS and Firecracker calls that answer or fail). Nothing is assumed
  of users, of the sweep or of the shutdown, and a relay may stay open for ever. Weak
  fairness on one task is enough: the lock's queue is FIFO, and whoever holds it
  proceeds.
- `AgentBehindServer!FairServerSpec`: weak fairness of `Begin`, of `End` and of
  `RunHook`. The event loop runs what is ready; the SDK ends a query that waits for no answer;
  the hook is registered with a timeout (`agent.py` 319). `End` is not fair while a hook waits:
  the query then waits too.
- The other runs state no fairness and check no liveness.

## The proofs

`VmLifecycle_proofs` proves for every `Users`, `VmIds`, `Tasks` and `MaxVms` satisfying
`ConstantsAssumption` (the limit is a natural number; `None` and `Main` are not among
the things they are distinguished from):

| Theorem | Statement |
|---|---|
| `TypeCorrect` | `Spec => []TypeOK` |
| `OneVmPerUserHolds` | `Spec => []OneVmPerUser` |
| `CapacityHolds` | `Spec => []CapacityRespected` |
| `DiskIsolationHolds` | `Spec => []DiskIsolation` |
| `CopyTargetAbsentHolds` | `Spec => []CopyTargetAbsent` |
| `NoLeakedVmHolds`, `OneSaverHolds` | `Spec => []NoLeakedVm`, `Spec => []OneSaver` |
| `QuietResetErasesHolds` | `Spec => []QuietResetErases` |
| `ImplementsSlotsHolds` | `Spec => ImplementsSlots` (the specification of `VmSlots` under the mapping) |

None of the properties is inductive by itself. The argument:

- `TypeInv == TypeOK /\ RefInv /\ LockInv`. `TypeOK` needs to know that a busy task has a
  user and that a task with a VM in hand has one of its user's (`RefInv`), and that
  whoever releases `rootfs_lock` is at its head (`LockInv`), so that the queue is not
  empty. Lemmas about the queue (`LeaveQueueType`, `UnlockType`, `LeaveKeepsHolder`,
  `EnqueueKeepsHolder`) say that waiters that give up displace no holder.
- `SlotInv` is why there is one VM per user although lookup, reservation and
  registration are separate: a task between reservation and the drop of its guard has
  its user in `provisioning`, is the only such task of the user, and until it
  registers the user has no VM. `acquire_provisioning_slot`
  establishes it because it looks at both sets; the guard keeps it because it drops
  after registration, not before.
- `CapacityInv` adds that the sets are finite. `Booting \subseteq provisioning`
  (`BootingReserved`) gives the step that admits; registration moves a user from one
  side of the sum to the other; all other steps shrink it (`ShrinkKeepsCapacity`).
- `IsolationInv` extends `DiskIsolation` from running VMs to every VM that has an
  owner: a save writes the disk of the VM in hand into the file of the task's user,
  and `RefInv` says that they belong together.
- `CopyTargetStep`: whoever copies holds the lock (`LockInv`), and every writer of a
  file holds it too.
- `Custody`: a running VM is in one place, the registry, the shutdown drain or the hands of
  one task, until the final save. A removal moves it from the first to one of the others in one
  step (the registry's mutex), a registration back, and the drop of what a task holds ends it. Both
  `NoLeakedVm` and `OneSaver` follow.
- `ErasedInv`: a reset that met nothing of its user in flight (`Sealed`) leaves none of the
  user's VMs running, so that nobody is left who could write the erased work back between the
  removal of the VM and that of the file; a VM created since began from the base image.
- `ImplementsSlots`: the slot of a user is a function of the registry and of the tasks that carry
  an admission (`SlotValues`). Each action is one step of `VmSlots` or none: a removal retires the
  slot (`RemovalRetires`), the end of a task gives up what it carried (`FinishAbandons`), and
  `CapacityInv` gives the limit of an admission (`TakenWithin`).

`AgentBehindServer_proofs` proves for every `Tasks`, `Conns`, `Requests`, `Uuids` and
`MaxTexts` (from `AgentAssumption`: `None` is none of the others, and the bound on texts is a natural number):

| Theorem | Statement |
|---|---|
| `ServerTypeCorrect` | `ServerSpec => []ServerTypeOK` |
| `EventsReachStreamsHolds` | `ServerSpec => []EventsReachStreams` |
| `NoQueryIsCancelledHolds` | `ServerSpec => []NoQueryIsCancelled` |
| `NothingAfterDoneHolds` | `ServerSpec => []NothingAfterDone` |
| `QuestionReachesRejoinedHolds` | `ServerSpec => []QuestionReachesRejoined` |

- `StreamInv`: the writer a query captured was opened for that query, the writer of a
  session for a query or a hello of its task. `emit_sse` writes to one of the two, which gives
  `EventsReachStreams`; an interrupt comes on a connection opened for a message, so it is
  neither, which gives `NoQueryIsCancelled`. It is this that makes it sound to leave
  `CancelUnstarted` out of `AgentStep`.
- `LifeInv`: a session's query has not ended, and a query whose `done` was written has.
  So nobody who could still write about it is left (`EmitBeforeDone`), and a hello finds no
  session to answer with a question (`HelloAfterDone`): `NothingAfterDone`.
- `QuestionInv`: once somebody has rejoined, the submitter's connection is closed for good, so
  that a question asked later goes to the session's writer; one asked before is sent
  again by the hello. It needs that a connection named by a query or a session is no longer
  new, or its acceptance might open it a second time, and that a pending question was asked.

`CsrfRotation_proofs` proves for every `Tabs`, `Reqs` and `MaxFiles` (from `CsrfAssumption`)
`CsrfTypeCorrect` (`Spec => []TypeOK`), `AnsweredTokenIsSpentHolds`
(`Spec => AnsweredTokenIsSpent`) and `InSyncHolds` (`Spec => []InSyncWhenUndisturbed`):

- `Secret`: the token a running rotation has made is nobody's yet: no tab holds it and no request
  submits it. So what a rotation stores is not the token of a request that was answered.
- `Spent`: no answered request's token is stored. It gives the action property: who is let in
  submits what is stored. Only a page that writes back what it read would break it, which
  `writesBack` names.
- `InStep`: while a tab is undisturbed at most one request is in flight, a page load or one from
  its own context, and its answer will bring the tab what is stored or leave it with that
  (`Brings`). The property speaks of quiet moments only, so it says nothing of the steps in between.

`ChatClient_proofs` proves for every `Tasks`, `Convs`, `Known`, `Requests`, `MaxQueue`, `MaxTexts`
and `MaxMoves` (from `ChatAssumption`: tasks and conversations are apart, `None` is neither of them nor a record, the
queue has room for an event):

| Theorem | Statement |
|---|---|
| `ChatTypeCorrect` | `Spec => []ChatTypeOK` |
| `OwnConversationHolds` | `Spec => []OwnConversation` |
| `ComposerLockHolds` | `Spec => ComposerLock`, an action property |
| `StopNamesRunningHolds`, `LockedByStreamHolds` | `Spec => []StopNamesRunning`, `Spec => []LockedByStream` |
| `RunningTaskRecordedHolds` | `Spec => []RunningTaskRecorded` |
| `QuestionsSurviveReloadHolds` | `Spec => []QuestionsSurviveReload` |

The invariant, `ChatInv`, has two halves. The first holds always:

- `OrderInv` relates the events that wait to streams and agent (`StreamOK`, `EventOK`) and says
  which event may wait behind which of the same task (`Ordered`): none behind a `done`, no `created` behind
  anything, no `start` behind a text. It is what makes a batch, drained long after its events were
  written, say something about now.
- `QuestionInv`: what a panel shows is stored, and by a query of the panel's conversation.
- `LockInv`: a locked composer, or a reconnecting event that will lock it, has a task with a stream
  that is not over or with an event to come that ends it.

- `CallInv`: a call is of a query that is not sent yet, one at most has its composer, and none has a
  `ChatInterface` that is not there.

The second half holds until queries mix (`mixed`):

- `Alone`: one task is busy (`OneBusy`); the running conversation, the batch's `session`, the current
  task and the lock are all its own, the lock but for what `ComposerLock` names. Part of it is where in its life the task is:
  before its `start` is handled nothing is saved for it (`EarlyUnsaved`) and the running
  conversation is the one it was sent in (`EarlyRunning`), and a page that has just loaded has no
  state that its first event could contradict (`ReconnectFresh`).
- `CallLock`: while a call has its composer, no stream gets busy that its test would have refused, but the exceptions:
  what carries the test over to the sending, however long the uploads take.
- `Homes`: the conversation of the record, of what is to be persisted, of the reconnecting event and of what is
  saved for the recorded task agree (`HomeOf`), through a page load that names the conversation
  after the task.
- `RecordInv` and `StopInv`, the general forms of `RunningTaskRecorded` and `StopNamesRunning`, which
  also speak of tasks a page load has just taken up.

The proof corrected two properties that held in the run only for its bounds.
`OwnConversation` said of what is saved for a task that it is the task's conversation; after two
page loads it may be the conversation named after the task (`SseContext.tsx` 118 falls back to the task's id when
the record has no conversation), which `Belongs` now says. `ComposerLock` failed
for a third query, sent after two had overlapped and one of them was done; it speaks of the time
before queries mix now.

`Components_proofs` and `ToolDiff_proofs` prove for every value of the constants:

| Theorem | Statement |
|---|---|
| `InputTypeCorrect` | `InputSpec => []InputTypeOK` |
| `PanelFitsHolds`, `OneChoiceHolds` | `InputSpec => []PanelFits`, `InputSpec => []OneChoice` |
| `SendsOneAtATimeHolds`, `FilesSentOnceHolds` | `InputSpec => []SendsOneAtATime`, `InputSpec => []FilesSentOnce` |
| `FileTypeCorrect`, `ListIsCurrentHolds` | `FileSpec => []FileTypeOK`, `FileSpec => []ListIsCurrent` |
| `SettingsTypeCorrect`, `SuccessIsSavedHolds` | `SettingsSpec => []SettingsTypeOK`, `SettingsSpec => []SuccessIsSaved` |
| `DiffTypeCorrect`, `NothingLost`, `EveryPassAddsARow` | `DiffSpec => []DiffTypeOK`, `[]ShowsBoth`, `[]NeverStuck` |
| `SmallestDiff` | `DiffSpec => []ContextIsLongest` |
| `MmdsTypeCorrect`, `RefreshReachesAllHolds` | `MmdsSpec => []MmdsTypeOK`, `MmdsSpec => []RefreshReachesAll` |
| `ListTypeCorrect`, `OneEntryPerSessionHolds` | `ListSpec => []ListTypeOK`, `ListSpec => []OneEntryPerSession` |
| `DeletedStaysAwayHolds`, `FollowUpsContinueHolds` | `ListSpec => []DeletedStaysAway`, `ListSpec => FollowUpsContinue`, an action property |

- *Question panel.* While the panel shows the request it opened with it stands in it, and a single
  choice has one option and no "Other...", or "Other..." and no option (`InRequest`). `RenderKeeps` says it
  once for everything that is asked, answered, ended or selected. `PanelAssumption` says that some
  request has the most questions.
- *Composer.* Of the calls of `handleSend` at their await one at most has a composer to come back to, and
  that one is blocked by it (`OneWaits`). The others were orphaned, by a panel or by a visit to another tab. As long as no
  orphan has sent, the tab was not left while a query ran and no query raised an error, one query runs at most, the
  composer knows of it, and no call that has a composer is under way beside it (`OneRuns`). `UnmountedKeeps` and `TabKeeps` are what the loss of a
  composer leaves of this.
  Each file is attached, or with one call, or in one message (`FilesApart`); it needs that an orphaned call's files
  are not attached any more, for its composer was emptied.
- *File manager.* The latest request is under way, or was shown, or an error is
  (`LatestKnown`). A finished upload asks for a listing in the same step, so that the latest
  request is younger than every upload the page heard of, and its answer has them
  (`LatestHasUploads`). That only directories there are can be opened rests on
  `DirsAssumption`: what is above a directory is a directory.
- *Settings panel.* The load a panel opens with ends before anything can be saved from it
  (`FirstLoad`), so that every other load is served after a key was stored (`KeyIsThere`); saves
  that never met are each the last sent (`OneByOne`).
- *Tool diff.* `lcs` beyond `lcsIdx` can be found, in its order, in what is left of either
  content (`Embeds`), whatever the table says. So no content ends with a common line to come.
  `SmallestDiff` is about what the table says: there is a table as `computeLCS` fills it (`TableExists`),
  and every entry of it is the length of a longest common subsequence of the beginnings it stands for
  (`TableIsLongest`, from `LongestMatch` and `LongestDrop`, one lemma per branch of the loop). The lines
  the trace has found and the entry it stands at then add up to the longest length all the way
  (`KInv`). Both facts about the table are inductions over the two lengths. The library's induction theorems
  cannot be used, for they take an operator; they are carried out as a least counterexample, for which
  `WFMin` of the library takes only sets (`LeastNumber`).
- *Refresh.* A VM leaves `sockets` written to or failed, and nobody else writes to a VM that
  stays registered (`Reached`, `Settled`).
- *Conversations.* An entry's id is its own, and what its last answer came from is its session
  (`EntryInv`). Of the queries that run and the calls that wait, all that use a session are of one conversation,
  and an entry with that session is this one, but for a session a load brought meanwhile
  (`UsersAgree`): `SessionKept` and `UserJoins` say which steps cannot disturb it, and `OneEntryPerSession` is part of the same
  invariant. A call captured the session its conversation still continues, or missed a done
  (`WaitingKnown`), which gives `FollowUpsContinue`. A session whose deletion the server has served, and that nothing
  under way at the time could bring back, is neither in the history nor in an answer on its way, and no query that could
  record it runs (`DeadUnreachable`); the only entry it has is the one that goes with the answer
  (`DeadAlone`).
  `mergeConversations` gives an id to each new session: that there are as many ids as sessions is `Numbering`,
  about finite sets of any size.

`MessageStream_proofs` and `StreamRecord_proofs` prove, for any number of blocks, any lengths of messages and
any number of events on the wire (from `StreamAssumption`):

| Theorem | Statement |
|---|---|
| `TextsAsProducedHolds` | `Spec => []TextsAsProduced` |
| `ShownAsRecordedHolds` | `Spec => []ShownAsRecorded` |
| `StreamTypeCorrect` | `Spec => []TypeOK` |
| `ThinkingNotShown` | `Spec => []ThinkingEmpty` |

The agent writes events long before the page takes them, so the invariant relates the two by what is
between them. A position (`Positions`) is how far the texts are: the last one begun, its chunks, and
whether the next chunk begins another. The page stands at one (`PageAt`: it shows the texts up to there), the
agent stands at one (`AgentAt`: it has told them), and each event leads from one position to another (`Says`).
`Linked` says that the events on the wire lead from the page's position to the agent's.

- `LeadsJoin`, `LeadsTail`: what the agent writes is added at one end, what the page takes is removed at the
  other. `LeadsMore`: texts that are produced later come after all there are, and change nothing on the way.
- `AllLeads`: the events of a whole message tell its texts one after the other. `AllBlockEvents` is a
  recursive function of the blocks; that there is such a function (`JoinedExists`) and what it joins are inductions over
  the blocks, carried out as a least counterexample as in `ToolDiff_proofs`.
- `AgentInv`: a text that is streamed leaves `emitted` true, before its first chunk is written. So a whole
  message is written only where none of the query's texts was streamed (`AssistantEventInv`), which is
  what `agent.py` 329 is about.
- `SameTexts`: sealing an empty bubble, a tool's card, its result and an error leave the texts on the page as they are,
  for the bubble is never one of them (`NoTextBubble`) and ids are those of one message (`Ordered`).

For `ShownAsRecorded` the same is said of all that is seen, once for the texts alone and once for the texts with
the tools. A view (`Views`) is a list of texts and tools, with their results, and what the page is in the midst of.
Each event turns one view into another (`Turns`), and `Joined` says that what is on the wire turns the view the page
shows (`PageSees`) into the one the agent has told (`AgentSees`). The latter is `ToSee`: what `transcript.ts` would
rebuild if the record had the blocks of the current message that were streamed, and besides them the text that is
open, as far as it has come.

- `AgentShows`, `PageShows`: a step of the agent adds events that turn the view it has told into the one it has
  told then; a step of the page takes the first event, and the page shows what that turns its view into. There is one
  lemma per action, `...Joined` for the agent's and `...Sees` for the page's.
- `BlockBecomes`, `AllBecome`: the events of a whole message add its blocks one after the other, as
  `ReloadStep` says of the rebuilt ones. `OfKindsResults` and `MaskedResults`: a result that completes a tool does so in
  either list, wherever the tool is in it.
- `Shows`: where tools are looked at, the card of a tool on the page is that tool's (`CardInv` keeps cards apart
  from messages to come), so that `handleToolResult` finds it as `toolIdToIndex` of `transcript.ts` does.
- `NewTools`, `Doubled`, `DoubledStays`: a tool is announced once, but where its message was streamed with no text
  before its end. Then `ToolsDoubled` holds and never ceases to, so that the claim about the tools can rest on its
  absence, while that about the texts goes on.
- When the query is over no message is open and no text; with nothing on the wire both views are one
  (`ShownIsRecord`).
- `OfKinds` and `BuildMessagesFromTranscript` are recursive functions; that there are such functions (`KeptExists`,
  `BuiltExists`) and what they do with one more element (`OfKindsAppend`, `BuiltAppend`) are inductions as above.

The types of `MessageStream` need more than that each action keeps them: a thinking bubble could be given text without
end if deltas found it. `EventInv` says that they do not. On the wire an `init` is followed by the text it announces or by
an error (`Paired`), what the agent has announced and not begun is its last event (`Announced`), and while the
page has a bubble the next event is that text or that error. So `BubbleInv` holds: a current bubble is a message
of the page, and nothing but a text says anything (`Quiet`). With `TextsAsProduced` for the texts this gives
`StreamTypeCorrect`, and it also proves the divergence on thinking described below, for
every order of blocks and any delay: no bubble of the page ever has a text (`ThinkingNotShown`).

Each step lemma has one step per action of the next-state relation. TLC checked every
invariant on small instances first.

Every safety invariant and action property that a passing run checks is a theorem. Only model-checked is
liveness, for the prover does not handle ENABLED and fairness here. The type invariants of the components (`ChatTypeOK`, `InputTypeOK`, `ListTypeOK` and so on) are theorems and
listed by no run, and so is that of `MessageStream`; the one of `VmSlots` (`TypeOK`) is there for the reader.

## Where the code and its documents part

Runs that end in a counterexample, each under the property the document states:

- `VmLifecycle_close` (`CloseSavesRootfs`): `server/spec.md` 19 says the terminal
  WebSocket "drops VM and saves rootfs on close". `last_activity` is set when a terminal starts and never
  while it is used; after five idle minutes `sweep.rs` 18 drops the VM under the
  terminal and nothing is saved when it closes.
- `VmLifecycle_persist` (`SavedWorkSurvives`): `server/spec.md` 11 promises a file that
  persists between sessions. `terminal.rs` 61 takes the VM out of the registry before it has
  the lock to save it; a page load in between boots a VM from the older file, whose own
  save later replaces the work saved meanwhile.
- `AgentBehindServer_stop` (`StopCancels`): `docs/chat-architecture.md` 205 says Stop leads to
  `session.task.cancel()`. `chat.rs` 179 sends the interrupt on a connection of its
  own and `agent.py` 167 honours it only on the session's: no Stop cancels anything.
- `CsrfRotation_latest` (`NextUsesLatest`): `docs/chat-architecture.md` 217 says "the next
  request always uses the latest value". Uploads, settings and error answers rotate
  the token and the page does not read it.
- `Components_switch` (`SwitchRestoresPanel`): `docs/chat-architecture.md` 199 says that on a
  conversation switch the stored question "restores the panel". The panel has no key: it goes on
  at the step where it stands, and beyond the last question of the other request it
  reads a property of undefined (`AskUserQuestionPanel.tsx` 124), which replaces the page by the error screen.

Seen while modelling, and present in the models as behaviour, without a run:

- A reset that meets a save in flight deletes the file, and the save writes it back
  (`handlers.rs` 262; `server/spec.md` 22). `QuietResetErases` states the rest.
- A shutdown saves what the registry holds; a disconnect that already took its entry
  is cut off with its VM unsaved (`main.rs` 198).
- A connection that says hello while the submitter's is still open hears nothing until
  that one closes (`agent.py` 109, 130).
- A second `AskUserQuestion` call replaces the pending one; the answer to the first is
  delivered to nobody and its hook waits for the timeout (`agent.py` 147, 296).
- A query cancelled before its first step leaves its session in the table for ever
  (`agent.py` 169). Behind the server this cannot happen (`NoQueryIsCancelled`).
- The server refuses answers whose request id is not a UUID, whatever ids the SDK uses
  (`chat.rs` 151, `agent.py` 290).
- While another tab of the page is shown, `ChatInterface` is not mounted (`App.tsx` 107):
  events that are drained on return are routed to no conversation, and the composer is unlocked. A message
  whose files are uploaded then is sent by a component that is gone: the new composer neither waits for it nor shows it as running
  (`ComposerLock` and `SendsOneAtATime` name it).
- A failed query's `done` comes after its error has unlocked the composer, and ends
  the running state of a query sent in between (`useSseHandlers.ts` 293).
- `done` removes one stored question of its conversation; others come back with every visit
  (`useSseHandlers.ts` 300). An answer is posted after the panel and the stored question are
  gone: if the post fails, only a page load brings them back (`ChatInterface.tsx` 158).
- Thinking is never shown live: a `thinking_delta` comes before the `init` of the text it
  leads to, and `useSseHandlers.ts` 196 drops it where no bubble is there
  (`docs/chat-architecture.md` 131 says it appends): `ThinkingNotShown`. It appears when the transcript is loaded.
- Tools are announced twice when their message was streamed and no text of the query came
  before it (`agent.py` 524; the comment at 329 says duplicates are avoided):
  `ToolsDoubled` in `StreamRecord`.
- Where the SDK's objects carry no `type` or `message`, for which `_derive_block_type`
  provides, tool results are never emitted (`agent.py` 551, 556).
- `transcript.ts` shows `AskUserQuestion` as a tool; the live page does not.
- After an error an empty thinking bubble stays (`useSseHandlers.ts` 330).
- Reconnecting puts the transcript before the saved messages, which are those of the
  whole conversation: earlier turns appear twice (`useSseHandlers.ts` 361).
- All files attached to a message are posted with one token; once the first is accepted
  the rest are refused and left out without a word, and so is the message itself
  (`ChatComposer.tsx` 94).
- The composer and the file manager name a path under the upload directory, which the
  composer also tells the model; `/chat-upload` ignores it and stores the file under
  `/tmp` (`handlers.rs` 377, `templates.rs` 28). The file manager lists
  `/sessions/{vmId}/ls` (`FileManager.tsx` 33), which is no route of the server (`main.rs` 111).
- The record of a failed query is written again where its `session_start` and its error drain in
  one batch: it is removed as the terminal event arrives and written as the start is handled
  (`useSseHandlers.ts` 169; `docs/chat-architecture.md` 171 says it is cleared).
- A history that is loaded during a conversation's first query brings a second entry for it
  (`OneEntryPerSession` names the case); a deletion that meets a query of the session, or an
  older load, brings the session back (`DeletedStaysAway`). A deletion that ends after another
  conversation was selected goes by the selection it captured (`App.tsx` 70).
- A message sent with files goes to the session that the list had before they were uploaded: if a conversation's first
  done, late after an error, is handled meanwhile, the message starts another session in it (`ChatInterface.tsx` 134;
  `FollowUpsContinue` names the case).
- A question takes the composer's place: the draft and the files are lost, and a message whose
  files are still uploading is sent all the same, into the running query
  (`SendsOneAtATime`). Removing a file during its upload does not stop it; a failed upload
  is left out without a word.
- The error of a failed listing stays over the success of another (`FileManager.tsx` 34); a
  finished upload brings back the directory it went to, wherever the user is by then; the timer
  of one upload clears the status of the next.
- `SettingsPanel.tsx` empties the field when a save is answered, with what was typed meanwhile;
  Enter saves again while the button is disabled.
- A panel closed before its save fails never says so.
- The refresh may give a VM older credentials than it booted with: the pass
  fetches before it collects (`mmds.rs` 34).
- A partial copy of the base image passes `exists()` ever after (`rootfs.rs` 42).

## Not modelled

- *The composition of page, server and agent*: `ChatClient` has an environment of its own for what
  `AgentBehindServer` does, and the two were compared by reading. Planned.
- *Two pages of one user*, which share localStorage: `ChatClient` has one page.
- *Authentication, pages, views*: request-local or plain rendering, no state that
  interleaves. Of the views `MessageCopyControl` and `Terminal` keep timers and a socket of
  their own, which nothing else reads.
- *File, settings and history handlers of the server*: path checks, downloads and attachments.
  What they read and write in the VM is one step of the component that asks; their use of the CSRF token and of the
  VM lookup is modelled.
- *Installation and image build*: sequential scripts.
- *Libraries* (`firecracker_manager`, `tower-sessions`, `claude_agent_sdk`, the SSH and SFTP clients): modelled as far
  as the callers rely on them, marked external in the map.

## Plan

Done: `VmLifecycle` with `VmSlots`, `CsrfRotation`, `Agent`, `AgentBehindServer`,
`ChatClient`, `MessageStream` with `StreamRecord`, `Conversations`, `QuestionPanel`, `ChatInput`, `FileManager`,
`SettingsPanel`, `ToolDiff`, `Mmds`, and the proofs above. Next:

1. *ChatSystem*: `ChatClient` over `AgentBehindServer`, the agent's part of `ChatClient` replaced
   by the real one; that the environment of `ChatClient` is what `AgentBehindServer` does.

`VmLifecycle_tabs` and `ChatClient_page` are the largest runs; new questions are to join existing
instances where they fit.

## Running it

In this directory: `tlc -workers 2 -config <run>.cfg <module>` for a run, with the module
that `PROJECT.json` names, and `tlapm <module>.tla` for each module whose name ends in `_proofs` (a few minutes for the
larger ones).
No run takes more than a few minutes.
