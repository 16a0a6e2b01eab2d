--------------------------- MODULE Conversations ---------------------------
(***************************************************************************)
(* The list of conversations: useConversations.ts, the handlers of App.tsx *)
(* behind Sidebar.tsx, and what ChatInterface and the done event write to  *)
(* it, against the sessions that the VM's history holds.                   *)
(*                                                                         *)
(* An entry knows its session from a done, and its projectDir from the     *)
(* history that is loaded then. Loads of the history and deletions are     *)
(* answered at one step and handled at a later one. A message with files   *)
(* is sent after their uploads, with what its handleSend captured before.  *)
(* Any number of queries may run: what keeps them from it, and where it    *)
(* does not, is ChatInput's.                                               *)
(***************************************************************************)
EXTENDS Naturals, FiniteSets

CONSTANTS
    MaxAsks,        \* bound: queries, refreshes and deletions of the user
    MaxHistory      \* bound: sessions there are when the page is loaded

ASSUME ListAssumption == MaxAsks \in Nat /\ MaxHistory \in Nat

VARIABLES
    conversations,  \* the entries
    selectedId,     \* selectedConversation
    history,        \* the server's sessions
    queries,        \* queries that run: their conversation and session
    waiting,        \* handleSend calls that await their uploads
    syncs,          \* loadHistory calls of syncConversationsFromHistory
    lookups,        \* loadHistory calls of a done
    deletions,      \* deleteSession calls, with what handleDelete captured
    nextId, nextSession, asks,
    early,          \* history: sessions a sync added while a query used them
    exposed,        \* history: sessions deleted under a query or a stale load
    missed,      \* history: calls that waited while a done noted a session
    gone            \* history: sessions whose deletion the page has handled

requestVars == <<syncs, lookups, deletions>>
pastVars == <<early, exposed, missed, gone>>
counters == <<nextId, nextSession, asks>>
askVars == <<queries, waiting>>
listVars == <<conversations, selectedId, history, askVars, requestVars, counters, pastVars>>

\* Conversation ids and session ids are numbered as they come; 0 is none. The
\* last session that a done noted for an entry, or that it was listed with, is
\* kept for FollowUpsContinue.
Entry(c, s, known, last) == [id |-> c, session |-> s, dir |-> known, last |-> last]
IdsOf(es) == {e.id : e \in es}
\* The answer of a load the server has not served yet.
Unserved == {0}

ListTypeOK ==
    /\ \A e \in conversations : e.id \in 1..(nextId - 1) /\ e.session \in 0..(nextSession - 1)
    /\ \A e, f \in conversations : e.id = f.id => e = f
    /\ selectedId \in 0..(nextId - 1) /\ history \subseteq 1..(nextSession - 1)
    /\ asks \in 0..MaxAsks

ListInit ==
    /\ conversations = {} /\ selectedId = 0
    /\ \E k \in 0..MaxHistory : history = 1..k /\ nextSession = k + 1
    /\ queries = {} /\ waiting = {}
    /\ syncs = {[n |-> 0, answer |-> Unserved]} /\ lookups = {} /\ deletions = {}
    /\ nextId = 1 /\ asks = 0
    /\ early = {} /\ exposed = {} /\ missed = {} /\ gone = {}

-----------------------------------------------------------------------------
(* Queries.                                                                *)

SessionOf(c) ==
    IF c \in IdsOf(conversations) THEN (CHOOSE e \in conversations : e.id = c).session ELSE 0

SessionsOf(qs) == {q.session : q \in qs}

\* The rest of handleSend, for conversation c and session s as it was called
\* with: in conversation c, or in a new one. The agent continues the session, or
\* starts one.
Sends(n, c, s) ==
    /\ IF c = 0
       THEN /\ conversations' = conversations \cup {Entry(nextId, 0, FALSE, 0)}
            /\ nextId' = nextId + 1 /\ selectedId' = nextId
       ELSE UNCHANGED <<conversations, nextId, selectedId>>
    /\ LET sender == IF c = 0 THEN nextId ELSE c
       IN  IF s = 0
           THEN /\ queries' = queries \cup {[n |-> n, id |-> sender, session |-> nextSession, begun |-> TRUE]}
                /\ nextSession' = nextSession + 1
           ELSE /\ queries' = queries \cup {[n |-> n, id |-> sender, session |-> s, begun |-> s \in history]}
                /\ UNCHANGED nextSession
    /\ UNCHANGED <<history, requestVars, pastVars>>

\* handleSend without files: in the conversation in view.
SendQuery ==
    /\ asks < MaxAsks /\ asks' = asks + 1
    /\ Sends(asks + 1, selectedId, SessionOf(selectedId))
    /\ UNCHANGED waiting

\* handleSend with files, up to its await: its onSend is that of the render.
BeginUploads ==
    /\ asks < MaxAsks /\ asks' = asks + 1
    /\ waiting' = waiting \cup {[n |-> asks + 1, id |-> selectedId, session |-> SessionOf(selectedId)]}
    /\ UNCHANGED <<conversations, selectedId, history, queries, requestVars, nextId, nextSession, pastVars>>

\* The files are uploaded: the message is sent. With no text and no file
\* uploaded it is not.
UploadsDone(w) ==
    /\ w \in waiting /\ waiting' = waiting \ {w}
    /\ \/ Sends(w.n, w.id, w.session)
       \/ UNCHANGED <<conversations, selectedId, history, queries, requestVars, nextId, nextSession, pastVars>>
    /\ UNCHANGED asks

\* The agent writes the session's file, while the query runs; a session that
\* had been deleted by then cannot be continued.
Recorded(q) ==
    /\ q \in queries /\ q.begun
    /\ history' = history \cup {q.session}
    /\ UNCHANGED <<conversations, selectedId, askVars, requestVars, counters, pastVars>>

\* Bug: the session is noted with the projectDir, when the history has come.
Done_NotesLater(q) ==
    /\ q \in queries /\ q.begun
    /\ queries' = queries \ {q}
    /\ conversations' = {IF e.id = q.id THEN [e EXCEPT !.last = q.session] ELSE e : e \in conversations}
    /\ lookups' = lookups \cup {[id |-> q.id, session |-> q.session]}
    /\ missed' = missed \cup {w.n : w \in {v \in waiting : v.id = q.id}}
    /\ UNCHANGED <<selectedId, history, waiting, syncs, deletions, counters, early, exposed, gone>>

\* done, after an error_event or not: the session is noted at once (an entry
\* that is gone stays gone), and its projectDir looked up.
Done(q) ==
    /\ q \in queries /\ q.begun
    /\ queries' = queries \ {q}
    /\ conversations' = {IF e.id = q.id THEN Entry(e.id, q.session, e.dir, q.session) ELSE e :
                            e \in conversations}
    /\ lookups' = lookups \cup {[id |-> q.id, session |-> q.session]}
    /\ missed' = missed \cup {w.n : w \in {v \in waiting : v.id = q.id}}
    /\ UNCHANGED <<selectedId, history, waiting, syncs, deletions, counters, early, exposed, gone>>

\* A done without a session, or none.
QueryFails(q) ==
    /\ q \in queries
    /\ queries' = queries \ {q}
    /\ UNCHANGED <<conversations, selectedId, history, waiting, requestVars, counters, pastVars>>

\* The session is found in the history, or not, or the load fails.
LookupEnds(l) ==
    /\ l \in lookups
    /\ lookups' = lookups \ {l}
    /\ \/ /\ l.session \in history
          /\ conversations' = {IF e.id = l.id THEN [e EXCEPT !.dir = TRUE] ELSE e : e \in conversations}
       \/ UNCHANGED conversations
    /\ UNCHANGED <<selectedId, history, askVars, syncs, deletions, counters, pastVars>>

-----------------------------------------------------------------------------
(* syncConversationsFromHistory.                                           *)

Refresh ==
    /\ asks < MaxAsks /\ asks' = asks + 1
    /\ syncs' = syncs \cup {[n |-> asks + 1, answer |-> Unserved]}
    /\ UNCHANGED <<conversations, selectedId, history, askVars, lookups, deletions, nextId, nextSession, pastVars>>

ServeSync(y) ==
    /\ y \in syncs /\ y.answer = Unserved
    /\ syncs' = (syncs \ {y}) \cup {[y EXCEPT !.answer = history]}
    /\ UNCHANGED <<conversations, selectedId, history, askVars, lookups, deletions, counters, pastVars>>

\* Bug: the entries are those of the render in which the load was asked for.
NewSessions_Stale(answer) == answer

\* The sessions of the answer that no entry has.
NewSessions(answer) == answer \ {e.session : e \in conversations}

Merge(y) ==
    /\ y \in syncs /\ y.answer # Unserved
    /\ syncs' = syncs \ {y}
    /\ LET added == NewSessions(y.answer)
           number == CHOOSE f \in [added -> nextId..(nextId + Cardinality(added) - 1)] :
                        \A s, t \in added : f[s] = f[t] => s = t
       IN  /\ conversations' = conversations \cup {Entry(number[s], s, TRUE, s) : s \in added}
           /\ nextId' = nextId + Cardinality(added)
           /\ early' = early \cup (added \cap SessionsOf(queries \cup waiting))
    /\ UNCHANGED <<selectedId, history, askVars, lookups, deletions, nextSession, asks, exposed, missed, gone>>

SyncFails(y) ==
    /\ y \in syncs
    /\ syncs' = syncs \ {y}
    /\ UNCHANGED <<conversations, selectedId, history, askVars, lookups, deletions, counters, pastVars>>

-----------------------------------------------------------------------------
(* The side bar.                                                           *)

SelectEntry ==
    /\ \E e \in conversations :
        /\ e.id # selectedId
        /\ selectedId' = e.id
    /\ UNCHANGED <<conversations, history, askVars, requestVars, counters, pastVars>>

HandleNewChat ==
    /\ selectedId # 0 /\ selectedId' = 0
    /\ UNCHANGED <<conversations, history, askVars, requestVars, counters, pastVars>>

\* deleteConversation, and the selection as handleDelete captured it.
Drop(c, captured) ==
    /\ conversations' = {e \in conversations : e.id # c}
    /\ selectedId' = IF captured = c THEN 0 ELSE selectedId

\* handleDeleteConversation: an entry without session or projectDir goes at
\* once, and nothing is asked of the server.
DeleteClicked(e) ==
    /\ e \in conversations
    /\ IF e.session # 0 /\ e.dir
       THEN /\ deletions' = deletions \cup {[id |-> e.id, session |-> e.session,
                                             selected |-> selectedId, done |-> FALSE]}
            /\ UNCHANGED <<conversations, selectedId>>
       ELSE Drop(e.id, selectedId) /\ UNCHANGED deletions
    /\ asks < MaxAsks /\ asks' = asks + 1
    /\ UNCHANGED <<history, askVars, syncs, lookups, nextId, nextSession, pastVars>>

ServeDeletion(d) ==
    /\ d \in deletions /\ ~d.done
    /\ deletions' = (deletions \ {d}) \cup {[d EXCEPT !.done = TRUE]}
    /\ history' = history \ {d.session}
    /\ exposed' = IF \/ d.session \in SessionsOf(queries)
                     \/ \E y \in syncs : d.session \in y.answer
                     \/ \E e \in conversations : e.id # d.id /\ e.session = d.session
                  THEN exposed \cup {d.session} ELSE exposed
    /\ UNCHANGED <<conversations, selectedId, askVars, syncs, lookups, counters, early, missed, gone>>

\* Bug: the entry is dropped though the server has refused.
DeletionFails_Drops(d) ==
    /\ d \in deletions
    /\ deletions' = deletions \ {d}
    /\ Drop(d.id, d.selected)
    /\ gone' = gone \cup {d.session}
    /\ UNCHANGED <<history, askVars, syncs, lookups, counters, early, exposed, missed>>

DeletionFails(d) ==
    /\ d \in deletions
    /\ deletions' = deletions \ {d}
    /\ UNCHANGED <<conversations, selectedId, history, askVars, syncs, lookups, counters, pastVars>>

Deleted(d) ==
    /\ d \in deletions /\ d.done
    /\ deletions' = deletions \ {d}
    /\ Drop(d.id, d.selected)
    /\ gone' = gone \cup {d.session}
    /\ UNCHANGED <<history, askVars, syncs, lookups, counters, early, exposed, missed>>

-----------------------------------------------------------------------------
ListNext ==
    \/ SendQuery \/ BeginUploads
    \/ \E w \in waiting : UploadsDone(w)
    \/ \E q \in queries : Recorded(q) \/ Done(q) \/ QueryFails(q)
    \/ \E l \in lookups : LookupEnds(l)
    \/ Refresh
    \/ \E y \in syncs : ServeSync(y) \/ Merge(y) \/ SyncFails(y)
    \/ SelectEntry \/ HandleNewChat
    \/ \E e \in conversations : DeleteClicked(e)
    \/ \E d \in deletions : ServeDeletion(d) \/ DeletionFails(d) \/ Deleted(d)

ListSpec == ListInit /\ [][ListNext]_listVars

-----------------------------------------------------------------------------
\* A session has one entry, however loads of the history and queries overlap,
\* but for one that a load brought while the query that began it still ran.
OneEntryPerSession ==
    \A e, f \in conversations :
        e.session = f.session /\ e.session # 0 => e = f \/ e.session \in early

\* A session deleted on the server does not come back to the list, unless a
\* query of its own or an older load was under way, or it had two entries.
DeletedStaysAway ==
    \A e \in conversations : e.session \in gone => e.session \in exposed \cup early

\* A query continues the session of its conversation's last answer, as long as
\* the conversation is in the list, unless that answer came while the query's
\* files were uploaded.
FollowUpsContinue ==
    [][\A q \in queries' \ queries : \A e \in conversations :
            e.id = q.id /\ e.last # 0 => q.session = e.last \/ q.n \in missed]_listVars
=============================================================================
