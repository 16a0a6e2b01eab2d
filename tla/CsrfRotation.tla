---------------------------- MODULE CsrfRotation ----------------------------
(***************************************************************************)
(* server/src/csrf.rs and the token the browser keeps (SseContext.tsx).    *)
(* Every request that is not a GET submits the token of its tab; the       *)
(* middleware compares it with the session's and rotates it, and the new   *)
(* one travels back in a header, which some of the callers read.           *)
(*                                                                         *)
(* External (tower_sessions): a request reads the session record from the  *)
(* store when it first asks for a value, and its changes are saved when    *)
(* its handler has answered, unless it answered with a server error. Both  *)
(* are left open here: whether storing the value that is there counts as a *)
(* change (writesBack), and whether an error's changes are saved.          *)
(***************************************************************************)
EXTENDS Naturals, FiniteSets

CONSTANTS
    Tabs,       \* tabs of one browser: they share a session
    Reqs,       \* HTTP requests (bound: each is sent once)
    MaxFiles,   \* bound: attachments of one message
    None

ASSUME CsrfAssumption ==
    /\ IsFiniteSet(Reqs)
    /\ MaxFiles \in Nat
    /\ None \notin Nat
    /\ None \notin Tabs

VARIABLES
    stored,     \* csrf_token of the session in the store
    issued,     \* how many tokens were made: each is a new number
    ref,        \* csrfTokenRef (and the csrfToken state) of each tab's page
    req,        \* the requests
    attaching,  \* each composer: files still to be sent, and the token captured
                \* by the handleSend that sends them
    writesBack, \* a page whose token exists saves the record it read
    disturbed   \* history: tabs whose page was followed by anything but
                \* "context" requests of its own, one at a time, all answered
                \* with success

vars == <<stored, issued, ref, req, attaching, writesBack, disturbed>>

\* By what they do with the tab's token: a page brings one; the requests SseContext
\* sends itself refresh it from the answer; attachments and the other requests of
\* components do not.
Kinds == {"page", "context", "attachment", "component"}
InFlight == {"sent", "running", "ok", "failed", "refused"}
Tokens == Nat \cup {None}

\* new: the token in the request's copy of the record; changed: whether the
\* request put it there.
Requests == [state : InFlight \cup {"unused", "over", "lost"}, tab : Tabs \cup {None},
             kind : Kinds, token : Tokens, new : Tokens, changed : BOOLEAN]

\* Types; the token of a response to be read is there.
TypeOK ==
    /\ stored \in Tokens
    /\ issued \in Nat
    /\ ref \in [Tabs -> Tokens]
    /\ req \in [Reqs -> Requests]
    /\ attaching \in [Tabs -> [left : 0..MaxFiles, token : Tokens]]
    /\ writesBack \in BOOLEAN
    /\ \A r \in Reqs : req[r].state = "ok" => req[r].new \in 1..issued
    /\ disturbed \subseteq Tabs

Fresh(state, t, kind, token) ==
    [state |-> state, tab |-> t, kind |-> kind, token |-> token,
     new |-> None, changed |-> FALSE]

NoFiles == [left |-> 0, token |-> None]

Init ==
    /\ stored = None
    /\ issued = 0
    /\ ref = [t \in Tabs |-> None]
    /\ req = [r \in Reqs |-> Fresh("unused", None, "page", None)]
    /\ attaching = [t \in Tabs |-> NoFiles]
    /\ writesBack \in BOOLEAN
    /\ disturbed = {}

Quiet == \A r \in Reqs : req[r].state \notin InFlight

-----------------------------------------------------------------------------
(* Requests and who sends them.                                            *)

Disturbs(t, kind) ==
    CASE ~Quiet \/ kind \in {"attachment", "component"} -> Tabs
      [] Quiet /\ kind = "page"                         -> disturbed \ {t}
      [] Quiet /\ kind = "context"                      -> disturbed \cup (Tabs \ {t})

Send(r, t, kind, token) ==
    /\ req[r].state = "unused"
    /\ req' = [req EXCEPT ![r] = Fresh("sent", t, kind, token)]
    /\ disturbed' = Disturbs(t, kind)
    /\ UNCHANGED <<stored, issued, ref, writesBack>>

\* GET / or GET /terminal/{id}, by the user or after a reset.
LoadPage(r, t) == Send(r, t, "page", None) /\ UNCHANGED attaching

\* sendQuery, post (for a stop, for an answer) and deleteSession, with csrfTokenRef.
SendFromContext(r, t) ==
    /\ ref[t] # None
    /\ Send(r, t, "context", ref[t])
    /\ UNCHANGED attaching

\* Components send the token of their last render.
SendFromComponent(r, t) ==
    /\ ref[t] # None
    /\ Send(r, t, "component", ref[t])
    /\ UNCHANGED attaching

\* The file manager, the settings panel, the reset button: nothing keeps any of
\* them from sending twice.
UploadFile(r, t) == SendFromComponent(r, t)
SaveSettings(r, t) == SendFromComponent(r, t)
ResetRootfs(r, t) == SendFromComponent(r, t)

Attachments(t) == {r \in Reqs : req[r].tab = t /\ req[r].kind = "attachment"
                                /\ req[r].state \in InFlight}

\* handleSend of the composer captures the token and uploads the files of a message
\* one after the other; a file whose upload fails is left out. Then it calls onSend,
\* which is SendFromContext.
SendAttachments(r, t) ==
    /\ ref[t] # None
    /\ attaching[t].left = 0
    /\ Attachments(t) = {}
    /\ Send(r, t, "attachment", ref[t])
    /\ \E n \in 1..MaxFiles : attaching' = [attaching EXCEPT ![t] =
                                            [left |-> n - 1, token |-> ref[t]]]

SendNextAttachment(r, t) ==
    /\ attaching[t].left > 0
    /\ Attachments(t) = {}
    /\ Send(r, t, "attachment", attaching[t].token)
    /\ attaching' = [attaching EXCEPT ![t].left = @ - 1]

-----------------------------------------------------------------------------
(* The middleware and what it protects.                                    *)

\* Bug: an accepted token is not rotated.
Validate_NoRotation(r) ==
    /\ req[r].state = "sent"
    /\ req[r].kind # "page"
    /\ req' = IF stored # None /\ stored = req[r].token
              THEN [req EXCEPT ![r].state = "running", ![r].new = stored]
              ELSE [req EXCEPT ![r].state = "refused"]
    /\ UNCHANGED <<stored, issued, ref, attaching, writesBack, disturbed>>

\* validate_csrf.
Validate(r) ==
    /\ req[r].state = "sent"
    /\ req[r].kind # "page"
    /\ IF stored # None /\ stored = req[r].token
       THEN /\ issued' = issued + 1
            /\ req' = [req EXCEPT ![r].state = "running", ![r].new = issued',
                                  ![r].changed = TRUE]
       ELSE /\ req' = [req EXCEPT ![r].state = "refused"]
            /\ UNCHANGED issued
    /\ UNCHANGED <<stored, ref, attaching, writesBack, disturbed>>

\* get_csrf_token: the session's token, or its first one.
GetToken(r) ==
    /\ req[r].state = "sent"
    /\ req[r].kind = "page"
    /\ issued' = IF stored = None THEN issued + 1 ELSE issued
    /\ req' = [req EXCEPT ![r].state = "running",
                          ![r].new = IF stored = None THEN issued' ELSE stored,
                          ![r].changed = (stored = None)]
    /\ UNCHANGED <<stored, ref, attaching, writesBack, disturbed>>

\* build_terminal_response: the page with its token; the record is saved if that was
\* new, or if storing what was there counts.
RespondPage(r) ==
    /\ req[r].state = "running"
    /\ req[r].kind = "page"
    /\ req' = [req EXCEPT ![r].state = "ok"]
    /\ stored' = IF req[r].changed \/ writesBack THEN req[r].new ELSE stored
    /\ UNCHANGED <<issued, ref, attaching, writesBack, disturbed>>

\* A handler answers with success, and the middleware attaches the new token.
Respond(r) ==
    /\ req[r].state = "running"
    /\ req[r].kind # "page"
    /\ req' = [req EXCEPT ![r].state = "ok"]
    /\ stored' = IF req[r].changed \/ writesBack THEN req[r].new ELSE stored
    /\ UNCHANGED <<issued, ref, attaching, writesBack, disturbed>>

\* Or with an error: SSH or SFTP fail or time out, the VM is gone. A rotation that is
\* not saved never was.
RespondError(r) ==
    /\ req[r].state = "running"
    /\ req[r].kind # "page"
    /\ \E saved \in BOOLEAN :
          /\ stored' = IF saved THEN req[r].new ELSE stored
          /\ req' = [req EXCEPT ![r].state = "failed",
                                ![r].new = IF saved THEN @ ELSE None]
    /\ disturbed' = Tabs
    /\ UNCHANGED <<issued, ref, attaching, writesBack>>

\* Bug: only a page brings a token.
Refreshes_PageOnly(r) == req[r].kind = "page" /\ req[r].state = "ok"

\* The callers throw before refreshCsrfToken when the status is not ok.
Refreshes(r) == req[r].kind \in {"page", "context"} /\ req[r].state = "ok"

\* A response reaches the tab. A page replaces the one that was there, with
\* what that one still waits for.
Receive(r) ==
    /\ req[r].state \in {"ok", "failed", "refused"}
    /\ ref' = IF Refreshes(r) /\ req[r].tab # None
              THEN [ref EXCEPT ![req[r].tab] = req[r].new] ELSE ref
    /\ req' = [q \in Reqs |->
                 IF q = r THEN [req[r] EXCEPT !.state = "over"]
                 ELSE IF req[r].kind = "page" /\ req[q].tab = req[r].tab
                 THEN [req[q] EXCEPT !.tab = None] ELSE req[q]]
    /\ attaching' = IF req[r].kind = "page" /\ req[r].tab # None
                    THEN [attaching EXCEPT ![req[r].tab] = NoFiles] ELSE attaching
    /\ UNCHANGED <<stored, issued, writesBack, disturbed>>

\* It is lost on the way.
Lose(r) ==
    /\ req[r].state \in {"ok", "failed", "refused"}
    /\ req' = [req EXCEPT ![r].state = "lost"]
    /\ disturbed' = Tabs
    /\ UNCHANGED <<stored, issued, ref, attaching, writesBack>>

Next ==
    \E r \in Reqs :
        \/ \E t \in Tabs :
              \/ LoadPage(r, t)
              \/ SendFromContext(r, t)
              \/ UploadFile(r, t)
              \/ SaveSettings(r, t)
              \/ ResetRootfs(r, t)
              \/ SendAttachments(r, t)
              \/ SendNextAttachment(r, t)
        \/ Validate(r)
        \/ GetToken(r)
        \/ RespondPage(r)
        \/ Respond(r)
        \/ RespondError(r)
        \/ Receive(r)
        \/ Lose(r)

Spec == Init /\ [][Next]_vars

-----------------------------------------------------------------------------
\* What the rotation does give: once nothing is in flight, a page followed only
\* by requests of its SseContext, one at a time, all answered with success,
\* has the token its next request needs; loading the page anew brings any tab
\* there.
InSyncWhenUndisturbed ==
    \A t \in Tabs : Quiet /\ t \notin disturbed /\ ref[t] # None => ref[t] = stored

\* A token lets one request in, or several that ran at the same time: once a
\* request that used it was answered, no other that submits it is accepted.
\* (Where a page writes back what it read, an older token may return.)
AnsweredTokenIsSpent ==
    [][\A r, q \in Reqs :
        (/\ ~writesBack
         /\ req[r].state = "sent" /\ req'[r].state = "running"
         /\ req[r].kind # "page" /\ req[q].kind # "page" /\ q # r
         /\ req[q].token = req[r].token /\ req[q].new # None)
            => req[q].state = "running"]_vars

\* docs/chat-architecture.md, 8: "updates it on each response, ensuring the next
\* request always uses the latest value". No response having been lost, what a
\* page sends when nothing is in flight has the latest token.
NextUsesLatest ==
    [][\A r \in Reqs :
        (/\ Quiet /\ \A q \in Reqs : req[q].state # "lost"
         /\ req[r].state = "unused" /\ req'[r].state = "sent" /\ req'[r].kind # "page")
            => req'[r].token = stored]_vars
=============================================================================
