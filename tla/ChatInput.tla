----------------------------- MODULE ChatInput -----------------------------
(***************************************************************************)
(* What the user writes into the chat: ChatComposer.tsx and the handleSend *)
(* of ChatInterface.tsx, with the question panel that takes the composer's *)
(* place and the visits to another tab that unmount all of it (App.tsx).   *)
(*                                                                         *)
(* Attachments are uploaded one after the other before the message is      *)
(* sent, by a handleSend that keeps the text, the files and the onSend of  *)
(* the render it was called in. The composer may be gone when it resumes,  *)
(* and ChatInterface too. Events that arrive while another tab is shown    *)
(* are drained as ChatInterface mounts, before the selection is shown;     *)
(* nothing that is modelled sees what they change before that.             *)
(***************************************************************************)
EXTENDS QuestionPanel

CONSTANTS
    Files,          \* files the user may attach, each once
    NoText, Text,   \* an empty draft; one that is not a command
    Slash,          \* drafts that begin a command, without a space
    Matching,       \* the commands that each of them begins: a sequence
    Known,          \* the conversations of earlier visits
    MaxMessages     \* bound: messages sent

ASSUME ComposerAssumption ==
    /\ NoText \notin Slash /\ Text \notin Slash /\ NoText # Text
    /\ DOMAIN Matching = Slash /\ \A d \in Slash : Matching[d] \in Seq(STRING)
    /\ Known \subseteq Convs /\ MaxMessages \in Nat

VARIABLES
    input, slashMenuOpen, slashMenuIndex,   \* ChatComposer
    pendingFiles, uploading,
    picked,     \* files attached so far
    jobs,       \* handleSend calls at their await
    mounted,    \* the chat tab is shown
    selected,   \* selectedConversation of App, which view follows
    streaming,  \* the conversation ChatInterface takes to be running, or NoConv
    sent,       \* the messages sent
    running,    \* those whose query runs
    orphaned,   \* history: one was sent by a composer that was gone
    left,       \* history: the chat tab was left while a query was running
    raised,     \* history: a query has raised an error before its done
    overlap     \* history: one was sent while a query was running

composer == <<input, slashMenuOpen, slashMenuIndex, pendingFiles, uploading>>
menuVars == <<slashMenuOpen, slashMenuIndex>>
tabVars == <<mounted, selected>>
sentVars == <<streaming, sent, running, orphaned, left, raised, overlap>>
inputVars == <<panelVars, composer, picked, jobs, tabVars, sentVars>>

InputTypeOK ==
    /\ PanelTypeOK
    /\ input \in Slash \cup {NoText, Text}
    /\ slashMenuOpen \in BOOLEAN /\ slashMenuIndex \in Nat
    /\ pendingFiles \in Seq(Files) /\ uploading \in BOOLEAN
    /\ picked \subseteq Files
    /\ mounted \in BOOLEAN /\ selected \in Convs \cup {NoConv}
    /\ streaming \in Convs \cup {NoConv} /\ running \subseteq 1..Len(sent)
    /\ orphaned \in BOOLEAN /\ left \in BOOLEAN /\ raised \in BOOLEAN /\ overlap \in BOOLEAN

InputInit ==
    /\ PanelInit
    /\ input = NoText /\ slashMenuOpen = FALSE /\ slashMenuIndex = 1
    /\ pendingFiles = <<>> /\ uploading = FALSE
    /\ picked = {} /\ jobs = {}
    /\ mounted = TRUE /\ selected = NoConv
    /\ streaming = NoConv /\ sent = <<>> /\ running = {}
    /\ orphaned = FALSE /\ left = FALSE /\ raised = FALSE /\ overlap = FALSE

Created == Known \cup {sent[m].conv : m \in 1..Len(sent)}
Composing == mounted /\ Shown = NoRequest
Blocked == streaming # NoConv \/ uploading
Enabled == Composing /\ ~Blocked
MenuItems == IF slashMenuOpen /\ input \in Slash THEN Matching[input] ELSE <<>>

\* The composer is gone: its draft and files are lost, a handleSend at its
\* await goes on.
Unmounted(gone) ==
    /\ input' = NoText /\ slashMenuOpen' = FALSE /\ slashMenuIndex' = 1
    /\ pendingFiles' = <<>> /\ uploading' = FALSE
    /\ jobs' = {[j EXCEPT !.orphan = TRUE, !.gone = @ \/ gone] : j \in jobs}

\* The panel takes the composer's place, or gives it back.
Replaced ==
    IF Composing /\ ShownAt(view', pending') # NoRequest
    THEN Unmounted(FALSE)
    ELSE UNCHANGED <<composer, jobs>>

-----------------------------------------------------------------------------
(* The composer.                                                           *)

HandleInput(d) ==
    /\ Enabled
    /\ input' = d
    /\ slashMenuOpen' = (d \in Slash) /\ slashMenuIndex' = 1
    /\ UNCHANGED <<panelVars, pendingFiles, uploading, picked, jobs, tabVars, sentVars>>

\* ArrowDown and ArrowUp.
MoveChoice ==
    /\ Enabled /\ MenuItems # <<>>
    /\ LET n == Len(MenuItems)
       IN  slashMenuIndex' \in {(slashMenuIndex % n) + 1, ((slashMenuIndex + n - 2) % n) + 1}
    /\ UNCHANGED <<panelVars, input, slashMenuOpen, pendingFiles, uploading, picked, jobs, tabVars, sentVars>>

\* Enter, Tab, or a click on any item, which the upload does not disable.
SelectCommand ==
    /\ Composing /\ MenuItems # <<>>
    /\ input' = Text /\ slashMenuOpen' = FALSE /\ slashMenuIndex' = 1
    /\ UNCHANGED <<panelVars, pendingFiles, uploading, picked, jobs, tabVars, sentVars>>

CloseMenu ==
    /\ Enabled /\ MenuItems # <<>>
    /\ slashMenuOpen' = FALSE
    /\ UNCHANGED <<panelVars, input, slashMenuIndex, pendingFiles, uploading, picked, jobs, tabVars, sentVars>>

HandleFileSelect(f) ==
    /\ Enabled /\ f \notin picked
    /\ picked' = picked \cup {f} /\ pendingFiles' = Append(pendingFiles, f)
    /\ UNCHANGED <<panelVars, input, menuVars, uploading, jobs, tabVars, sentVars>>

\* Not disabled by an upload either.
RemoveFile(k) ==
    /\ Composing /\ k \in 1..Len(pendingFiles)
    /\ pendingFiles' = SubSeq(pendingFiles, 1, k - 1)
                            \o SubSeq(pendingFiles, k + 1, Len(pendingFiles))
    /\ UNCHANGED <<panelVars, input, menuVars, uploading, picked, jobs, tabVars, sentVars>>

-----------------------------------------------------------------------------
(* Sending.                                                                *)

\* handleSend of ChatInterface: the conversation in view when the message was
\* written, or a new one that is selected. The state of a ChatInterface that is
\* gone ignores it.
OnSend(from, files, orphan, gone) ==
    \E c \in Convs :
        /\ \/ from # NoConv /\ c = from /\ UNCHANGED <<view, selected>>
           \/ /\ from = NoConv /\ c \notin Created
              /\ selected' = c
              /\ view' = IF mounted THEN c ELSE view
        /\ streaming' = IF gone THEN streaming ELSE c
        /\ sent' = Append(sent, [conv |-> c, from |-> from, files |-> files])
        /\ running' = running \cup {Len(sent) + 1}
        /\ overlap' = (overlap \/ running # {})
        /\ orphaned' = (orphaned \/ orphan)
        /\ UNCHANGED <<pending, stored, answered, mounted, left, raised>>
        /\ Render

SendText ==
    /\ Enabled /\ input # NoText /\ pendingFiles = <<>>
    /\ Len(sent) < MaxMessages
    /\ input' = NoText /\ slashMenuOpen' = FALSE
    /\ OnSend(view, {}, FALSE, FALSE)
    /\ UNCHANGED <<slashMenuIndex, pendingFiles, uploading, picked, jobs>>

\* Bug: nothing blocks the composer while files are uploaded.
SendFiles_NotBlocked ==
    /\ Enabled /\ pendingFiles # <<>>
    /\ Len(sent) + Cardinality(jobs) < MaxMessages
    /\ jobs' = jobs \cup {[text |-> input, from |-> view, todo |-> pendingFiles,
                           done |-> {}, orphan |-> FALSE, gone |-> FALSE]}
    /\ UNCHANGED <<panelVars, composer, picked, tabVars, sentVars>>

\* handleSend of ChatComposer, up to its first await.
SendFiles ==
    /\ Enabled /\ pendingFiles # <<>>
    /\ Len(sent) + Cardinality(jobs) < MaxMessages
    /\ uploading' = TRUE
    /\ jobs' = jobs \cup {[text |-> input, from |-> view, todo |-> pendingFiles,
                           done |-> {}, orphan |-> FALSE, gone |-> FALSE]}
    /\ UNCHANGED <<panelVars, input, menuVars, pendingFiles, picked, tabVars, sentVars>>

\* The upload of the next file succeeds or fails; a failure is passed over.
UploadNext(j) ==
    /\ j \in jobs /\ j.todo # <<>>
    /\ \E done \in {j.done, j.done \cup {Head(j.todo)}} :
            jobs' = (jobs \ {j}) \cup {[j EXCEPT !.todo = Tail(@), !.done = done]}
    /\ UNCHANGED <<panelVars, composer, picked, tabVars, sentVars>>

\* Bug: the files stay attached.
UploadsEnd_KeepsFiles(j) ==
    /\ j \in jobs /\ j.todo = <<>>
    /\ jobs' = jobs \ {j}
    /\ uploading' = (uploading /\ j.orphan)
    /\ UNCHANGED <<pendingFiles, slashMenuIndex, picked>>
    /\ IF j.text = NoText /\ j.done = {}
       THEN UNCHANGED <<panelVars, input, slashMenuOpen, tabVars, sentVars>>
       ELSE /\ input' = IF j.orphan THEN input ELSE NoText
            /\ slashMenuOpen' = (slashMenuOpen /\ j.orphan)
            /\ OnSend(j.from, j.done, j.orphan, j.gone)

\* The rest of handleSend. The state of a composer that is gone ignores it;
\* with no text and no file uploaded nothing is sent.
UploadsEnd(j) ==
    /\ j \in jobs /\ j.todo = <<>>
    /\ jobs' = jobs \ {j}
    /\ uploading' = (uploading /\ j.orphan)
    /\ pendingFiles' = IF j.orphan THEN pendingFiles ELSE <<>>
    /\ UNCHANGED <<slashMenuIndex, picked>>
    /\ IF j.text = NoText /\ j.done = {}
       THEN UNCHANGED <<panelVars, input, slashMenuOpen, tabVars, sentVars>>
       ELSE /\ input' = IF j.orphan THEN input ELSE NoText
            /\ slashMenuOpen' = (slashMenuOpen /\ j.orphan)
            /\ OnSend(j.from, j.done, j.orphan, j.gone)

-----------------------------------------------------------------------------
(* What happens around the composer and the panel.                         *)

Around == UNCHANGED <<picked, sent, orphaned, overlap>>

\* The question of a query that runs.
Ask(r) ==
    /\ r \notin answered /\ \A c \in Convs : pending[c] # r /\ <<r, c>> \notin stored
    /\ \E m \in running : AskUser(sent[m].conv, r)
    /\ Replaced
    /\ Around /\ UNCHANGED <<tabVars, streaming, running, left, raised>>

\* done, or an error_event that nothing follows.
QueryEnds(m) ==
    /\ m \in running
    /\ running' = running \ {m}
    /\ streaming' = NoConv
    /\ EndOfQuery(sent[m].conv) /\ Replaced
    /\ Around /\ UNCHANGED <<tabVars, left, raised>>

\* error_event: the running conversation is unlocked and loses its panel, not
\* the stored question; the done may be still to come.
QueryRaises(m) ==
    /\ m \in running
    /\ running' \in {running, running \ {m}}
    /\ raised' = (raised \/ m \in running')
    /\ streaming' = NoConv
    /\ pending' = IF streaming = NoConv THEN pending
                  ELSE [pending EXCEPT ![streaming] = NoRequest]
    /\ UNCHANGED <<view, stored, answered>>
    /\ Render /\ Replaced
    /\ Around /\ UNCHANGED <<tabVars, left>>

\* The list shows the conversations there are.
SelectConv ==
    /\ mounted
    /\ \E c \in Created : Select(c)
    /\ selected' = view'
    /\ Replaced
    /\ Around /\ UNCHANGED <<mounted, streaming, running, left, raised>>

ClickNewChat ==
    /\ mounted /\ view # NoConv
    /\ NewChat /\ selected' = NoConv
    /\ Replaced
    /\ Around /\ UNCHANGED <<mounted, streaming, running, left, raised>>

\* Another tab is shown: ChatInterface goes with all its state.
LeaveTab ==
    /\ mounted /\ mounted' = FALSE
    /\ view' = NoConv /\ pending' = [c \in Convs |-> NoRequest]
    /\ streaming' = NoConv
    /\ left' = (left \/ running # {})
    /\ Unmounted(TRUE)
    /\ UNCHANGED <<stored, answered, selected, running, raised>>
    /\ Render /\ Around

\* The chat tab is shown again: a new ChatInterface shows the selection.
ReturnTab ==
    /\ ~mounted /\ mounted' = TRUE
    /\ IF selected = NoConv THEN UNCHANGED panelVars ELSE Select(selected)
    /\ UNCHANGED <<composer, jobs, selected, streaming, running, left, raised>>
    /\ Around

OnAnswer ==
    /\ UsePanel
    /\ UNCHANGED <<composer, picked, jobs, tabVars, sentVars>>

InputNext ==
    /\ ~Crashed
    /\ \/ \E d \in Slash \cup {NoText, Text} : HandleInput(d)
       \/ MoveChoice \/ SelectCommand \/ CloseMenu
       \/ \E f \in Files : HandleFileSelect(f)
       \/ \E k \in 1..Len(pendingFiles) : RemoveFile(k)
       \/ SendText \/ SendFiles
       \/ \E j \in jobs : UploadNext(j) \/ UploadsEnd(j)
       \/ \E r \in Requests : Ask(r)
       \/ \E m \in running : QueryEnds(m) \/ QueryRaises(m)
       \/ SelectConv \/ ClickNewChat \/ OnAnswer \/ LeaveTab \/ ReturnTab

InputSpec == InputInit /\ [][InputNext]_inputVars

-----------------------------------------------------------------------------
\* No message is sent into a running query, although the uploads come between
\* the test and the sending, but after one was sent by a composer that a panel
\* had replaced, or that a visit to another tab had unmounted, while it uploaded,
\* after the tab was left while a query ran, or after an error unlocked the
\* composer before the query's done.
SendsOneAtATime == overlap => orphaned \/ left \/ raised

\* No file goes into two messages, or stays attached once it is in one.
FilesSentOnce ==
    \A m \in 1..Len(sent) :
        /\ \A n \in 1..(m - 1) : sent[n].files \cap sent[m].files = {}
        /\ \A k \in 1..Len(pendingFiles) : pendingFiles[k] \notin sent[m].files
=============================================================================
