------------------------ MODULE CsrfRotation_proofs ------------------------
(***************************************************************************)
(* Proofs about the token rotation, for every number of tabs, requests and *)
(* attachments.                                                            *)
(*                                                                         *)
(* What a rotation has made and not yet saved is known to nobody: it is no *)
(* tab's token and no request submits it (Secret). So no answered          *)
(* request's token ever becomes the session's again (Spent). And while a   *)
(* tab is not disturbed at most one request is in flight, whose answer     *)
(* will bring that tab, or leave it with, what is stored (InStep).         *)
(***************************************************************************)
EXTENDS CsrfRotation, TLAPS

Known(token) == token # None => token \in 1..issued

TokensKnown ==
    /\ Known(stored)
    /\ \A t \in Tabs : Known(ref[t]) /\ Known(attaching[t].token)
    /\ \A r \in Reqs : Known(req[r].token) /\ Known(req[r].new)

StatesFit ==
    \A r \in Reqs :
        /\ req[r].state \in {"unused", "sent", "refused"} => req[r].new = None
        /\ req[r].state \in {"running", "ok"} => req[r].new # None
        /\ req[r].state = "running" /\ req[r].kind # "page" => req[r].changed

TypeInv == TypeOK /\ TokensKnown /\ StatesFit

Secret ==
    \A p \in Reqs : req[p].state = "running" /\ req[p].changed =>
        /\ req[p].new # stored /\ req[p].new # req[p].token
        /\ \A t \in Tabs : ref[t] # req[p].new /\ attaching[t].token # req[p].new
        /\ \A q \in Reqs : q # p => req[q].token # req[p].new /\ req[q].new # req[p].new

Answered(q) == req[q].kind # "page" /\ req[q].new # None /\ req[q].state # "running"

Spent == ~writesBack => \A q \in Reqs : Answered(q) => req[q].token # stored

(* Types.                                                                  *)

\* Sending uses a token that is known, and nothing else.
LEMMA SendType ==
    ASSUME TypeInv, NEW r \in Reqs, NEW t \in Tabs, NEW kind \in Kinds,
           NEW token \in Tokens, Known(token), Send(r, t, kind, token)
    PROVE  /\ req' \in [Reqs -> Requests] /\ disturbed' \in SUBSET Tabs
           /\ req[r].state = "unused" /\ req'[r] = Fresh("sent", t, kind, token)
           /\ \A q \in Reqs : q # r => req'[q] = req[q]
           /\ StatesFit'
           /\ \A q \in Reqs : req'[q].state = "ok" => req'[q].new \in 1..issued
           /\ \A q \in Reqs : Known(req'[q].token) /\ Known(req'[q].new)
           /\ UNCHANGED <<stored, issued, ref, writesBack>>
<1>1. Fresh("sent", t, kind, token) \in Requests
  BY DEF Fresh, Requests, InFlight, Tokens
<1>2. req \in [Reqs -> Requests] /\ disturbed \subseteq Tabs
  BY DEF TypeInv, TypeOK
<1>3. /\ req' \in [Reqs -> Requests] /\ req'[r] = Fresh("sent", t, kind, token)
      /\ \A q \in Reqs : q # r => req'[q] = req[q]
      /\ UNCHANGED <<stored, issued, ref, writesBack>> /\ req[r].state = "unused"
  BY <1>1, <1>2 DEF Send
<1>4. disturbed' \in SUBSET Tabs
  BY <1>2 DEF Send, Disturbs, Kinds
<1>5. /\ req'[r].state = "sent" /\ req'[r].new = None /\ req'[r].token = token
  BY <1>3 DEF Fresh
<1>6. StatesFit'
  BY <1>3, <1>5 DEF TypeInv, StatesFit
<1>7. \A q \in Reqs : req'[q].state = "ok" => req'[q].new \in 1..issued
  BY <1>3, <1>5 DEF TypeInv, TypeOK
<1>8. \A q \in Reqs : Known(req'[q].token) /\ Known(req'[q].new)
  BY <1>3, <1>5 DEF TypeInv, TokensKnown, Known
<1> QED
  BY <1>3, <1>4, <1>6, <1>7, <1>8

\* Whoever sends anything submits a token that is known.
Sends(r, t) ==
    \/ LoadPage(r, t) \/ SendFromContext(r, t)
    \/ UploadFile(r, t) \/ SaveSettings(r, t) \/ ResetRootfs(r, t)
    \/ SendAttachments(r, t) \/ SendNextAttachment(r, t)

\* The tokens that can be submitted are those of the tab, and what a composer captured.
LEMMA SendsFacts ==
    ASSUME TypeInv, NEW r \in Reqs, NEW t \in Tabs, Sends(r, t)
    PROVE  \E kind \in Kinds, token \in {None, ref[t], attaching[t].token} :
              /\ Send(r, t, kind, token)
              /\ attaching' \in [Tabs -> [left : 0..MaxFiles, token : Tokens]]
              /\ \A u \in Tabs : attaching'[u].token \in {attaching[u].token, ref[u]}
<1>0. /\ attaching \in [Tabs -> [left : 0..MaxFiles, token : Tokens]] /\ ref \in [Tabs -> Tokens]
      /\ MaxFiles \in Nat
  BY CsrfAssumption DEF TypeInv, TypeOK
<1>1. CASE LoadPage(r, t)
  BY <1>0, <1>1 DEF LoadPage, Kinds
<1>2. CASE SendFromContext(r, t)
  BY <1>0, <1>2 DEF SendFromContext, Kinds
<1>3. CASE UploadFile(r, t) \/ SaveSettings(r, t) \/ ResetRootfs(r, t)
  BY <1>0, <1>3 DEF UploadFile, SaveSettings, ResetRootfs, SendFromComponent, Kinds
<1>4. CASE SendAttachments(r, t)
  <2>1. PICK n \in 1..MaxFiles : attaching' = [attaching EXCEPT ![t] = [left |-> n - 1, token |-> ref[t]]]
    BY <1>4 DEF SendAttachments
  <2>2. n - 1 \in 0..MaxFiles
    BY <1>0
  <2>3. /\ attaching' \in [Tabs -> [left : 0..MaxFiles, token : Tokens]]
        /\ \A u \in Tabs : attaching'[u].token \in {attaching[u].token, ref[u]}
    BY <1>0, <2>1, <2>2
  <2> QED
    BY <1>4, <2>3 DEF SendAttachments, Kinds
<1>5. CASE SendNextAttachment(r, t)
  <2>1. /\ attaching' = [attaching EXCEPT ![t].left = @ - 1] /\ attaching[t].left > 0
        /\ Send(r, t, "attachment", attaching[t].token)
    BY <1>5 DEF SendNextAttachment
  <2>2. attaching[t].left - 1 \in 0..MaxFiles
    BY <1>0, <2>1
  <2>3. /\ attaching' \in [Tabs -> [left : 0..MaxFiles, token : Tokens]]
        /\ \A u \in Tabs : attaching'[u].token = attaching[u].token
    BY <1>0, <2>1, <2>2
  <2> QED
    BY <2>1, <2>3 DEF Kinds
<1> QED
  BY <1>1, <1>2, <1>3, <1>4, <1>5 DEF Sends

\* Everything holds before the first request.
LEMMA InitInv == Init => TypeInv /\ Secret /\ Spent
<1> SUFFICES ASSUME Init
             PROVE  TypeInv /\ Secret /\ Spent
  OBVIOUS
<1>1. Fresh("unused", None, "page", None) \in Requests /\ None \in Tokens
  BY DEF Fresh, Requests, InFlight, Kinds, Tokens
<1>2. NoFiles \in [left : 0..MaxFiles, token : Tokens]
  BY <1>1, CsrfAssumption DEF NoFiles
<1>3. TypeOK
  BY <1>1, <1>2 DEF Init, TypeOK, Fresh
<1>4. TokensKnown /\ StatesFit
  BY DEF Init, TokensKnown, Known, StatesFit, Fresh, NoFiles
<1>5. Secret /\ Spent
  BY DEF Init, Secret, Spent, Answered, Fresh
<1> QED
  BY <1>3, <1>4, <1>5 DEF TypeInv

\* A token made is a new number, and known from then on.
LEMMA NewToken ==
    ASSUME TypeInv
    PROVE  /\ issued + 1 \in Nat /\ issued + 1 # None /\ issued + 1 \in 1..issued + 1
           /\ \A k \in 1..issued : k \in 1..issued + 1 /\ k # issued + 1
<1> QED
  BY CsrfAssumption DEF TypeInv, TypeOK

States == InFlight \cup {"unused", "over", "lost"}

\* A request with another state and another token is a request.
LEMMA UpdateType ==
    ASSUME NEW r \in Reqs, req \in [Reqs -> Requests],
           NEW s \in States, NEW n \in Tokens, NEW c \in BOOLEAN
    PROVE  /\ [req EXCEPT ![r].state = s, ![r].new = n, ![r].changed = c] \in [Reqs -> Requests]
           /\ [req EXCEPT ![r].state = s, ![r].new = n] \in [Reqs -> Requests]
<1>1. [req[r] EXCEPT !.state = s] \in Requests
  BY DEF Requests, States
<1>2. [[req[r] EXCEPT !.state = s] EXCEPT !.new = n] \in Requests
  BY <1>1 DEF Requests
<1>3. [[[req[r] EXCEPT !.state = s] EXCEPT !.new = n] EXCEPT !.changed = c] \in Requests
  BY <1>2 DEF Requests
<1> QED
  BY <1>2, <1>3

\* The server's steps, and the answers' way back, keep the types.
LEMMA AnswerType ==
    ASSUME TypeInv, NEW r \in Reqs,
           Validate(r) \/ GetToken(r) \/ RespondPage(r) \/ Respond(r) \/ RespondError(r)
              \/ Receive(r) \/ Lose(r)
    PROVE  TypeInv'
<1>0. /\ stored \in Tokens /\ issued \in Nat /\ ref \in [Tabs -> Tokens]
      /\ req \in [Reqs -> Requests] /\ writesBack \in BOOLEAN /\ disturbed \subseteq Tabs
      /\ attaching \in [Tabs -> [left : 0..MaxFiles, token : Tokens]]
      /\ \A q \in Reqs : req[q].state = "ok" => req[q].new \in 1..issued
  BY DEF TypeInv, TypeOK
<1>1. CASE Validate(r)
  <2>1. CASE stored # None /\ stored = req[r].token
    <3>1. /\ issued' = issued + 1
          /\ req' = [req EXCEPT ![r].state = "running", ![r].new = issued + 1, ![r].changed = TRUE]
          /\ UNCHANGED <<stored, ref, attaching, writesBack, disturbed>>
      BY <1>1, <2>1 DEF Validate
    <3>2. req' \in [Reqs -> Requests]
      BY <1>0, <3>1, NewToken, UpdateType DEF Tokens, States, InFlight
    <3>3. \A q \in Reqs : q # r => req'[q] = req[q]
      BY <1>0, <3>1
    <3>4. req'[r].state = "running" /\ req'[r].new = issued + 1 /\ req'[r].changed /\ req'[r].token = req[r].token
      BY <1>0, <3>1 DEF Requests
    <3>5. TypeOK'
      BY <1>0, <3>1, <3>2, <3>3, <3>4, NewToken DEF TypeOK
    <3>6. TokensKnown'
      <4>1. \A token : Known(token) => Known(token)'
        BY <3>1, NewToken DEF Known
      <4>2. Known(req[r].token) /\ Known(req[r].new)'
        BY <3>4, NewToken, <3>1 DEF TypeInv, TokensKnown, Known
      <4>3. \A q \in Reqs : Known(req[q].token)' /\ Known(req[q].new)'
        BY <3>3, <3>4, <4>1, <4>2 DEF TypeInv, TokensKnown
      <4>4. Known(stored)' /\ \A t \in Tabs : Known(ref[t])' /\ Known(attaching[t].token)'
        BY <3>1, <4>1, NewToken DEF TypeInv, TokensKnown, Known
      <4> QED
        BY <4>3, <4>4 DEF TokensKnown
    <3>7. StatesFit'
      BY <3>3, <3>4, NewToken DEF TypeInv, StatesFit
    <3> QED
      BY <3>5, <3>6, <3>7 DEF TypeInv
  <2>2. CASE ~(stored # None /\ stored = req[r].token)
    <3>1. /\ issued' = issued /\ req[r].state = "sent"
          /\ req' = [req EXCEPT ![r].state = "refused"]
          /\ UNCHANGED <<stored, ref, attaching, writesBack, disturbed>>
      BY <1>1, <2>2 DEF Validate
    <3>2. req' \in [Reqs -> Requests]
      <4>1. "refused" \in InFlight \cup {"unused", "over", "lost"}
        BY DEF InFlight
      <4>2. [req[r] EXCEPT !.state = "refused"] \in Requests
        BY <1>0, <4>1 DEF Requests
      <4> QED
        BY <1>0, <3>1, <4>2
    <3>3. \A q \in Reqs : q # r => req'[q] = req[q]
      BY <1>0, <3>1
    <3>4. req'[r].state = "refused" /\ req'[r].new = req[r].new /\ req'[r].token = req[r].token
      BY <1>0, <3>1 DEF Requests
    <3>5. TypeOK'
      BY <1>0, <3>1, <3>2, <3>3, <3>4 DEF TypeOK
    <3>6. TokensKnown'
      BY <3>1, <3>3, <3>4 DEF TypeInv, TokensKnown, Known
    <3>7. StatesFit'
      BY <3>1, <3>3, <3>4 DEF TypeInv, StatesFit
    <3> QED
      BY <3>5, <3>6, <3>7 DEF TypeInv
  <2> QED
    BY <2>1, <2>2
<1>2. CASE GetToken(r)
  <2>1. CASE stored = None
    <3>1. /\ issued' = issued + 1 /\ req[r].kind = "page"
          /\ req' = [req EXCEPT ![r].state = "running", ![r].new = issued + 1, ![r].changed = TRUE]
          /\ UNCHANGED <<stored, ref, attaching, writesBack, disturbed>>
      BY <1>2, <2>1 DEF GetToken
    <3>2. req' \in [Reqs -> Requests]
      BY <1>0, <3>1, NewToken, UpdateType DEF Tokens, States, InFlight
    <3>3. \A q \in Reqs : q # r => req'[q] = req[q]
      BY <1>0, <3>1
    <3>4. req'[r].state = "running" /\ req'[r].new = issued + 1 /\ req'[r].changed /\ req'[r].token = req[r].token
      BY <1>0, <3>1 DEF Requests
    <3>5. TypeOK'
      BY <1>0, <3>1, <3>2, <3>3, <3>4, NewToken DEF TypeOK
    <3>6. TokensKnown'
      <4>1. \A token : Known(token) => Known(token)'
        BY <3>1, NewToken DEF Known
      <4>2. Known(req[r].token) /\ Known(req[r].new)'
        BY <3>4, NewToken, <3>1 DEF TypeInv, TokensKnown, Known
      <4>3. \A q \in Reqs : Known(req[q].token)' /\ Known(req[q].new)'
        BY <3>3, <3>4, <4>1, <4>2 DEF TypeInv, TokensKnown
      <4>4. Known(stored)' /\ \A t \in Tabs : Known(ref[t])' /\ Known(attaching[t].token)'
        BY <3>1, <4>1, NewToken DEF TypeInv, TokensKnown, Known
      <4> QED
        BY <4>3, <4>4 DEF TokensKnown
    <3>7. StatesFit'
      BY <3>3, <3>4, NewToken DEF TypeInv, StatesFit
    <3> QED
      BY <3>5, <3>6, <3>7 DEF TypeInv
  <2>2. CASE stored # None
    <3>1. /\ issued' = issued /\ req[r].kind = "page"
          /\ req' = [req EXCEPT ![r].state = "running", ![r].new = stored, ![r].changed = FALSE]
          /\ UNCHANGED <<stored, ref, attaching, writesBack, disturbed>>
      BY <1>2, <2>2 DEF GetToken
    <3>2. req' \in [Reqs -> Requests]
      BY <1>0, <3>1, UpdateType DEF States, InFlight
    <3>3. \A q \in Reqs : q # r => req'[q] = req[q]
      BY <1>0, <3>1
    <3>4. /\ req'[r].state = "running" /\ req'[r].new = stored /\ req'[r].kind = "page"
          /\ req'[r].token = req[r].token
      BY <1>0, <3>1 DEF Requests
    <3>5. TypeOK'
      BY <1>0, <3>1, <3>2, <3>3, <3>4 DEF TypeOK
    <3>6. TokensKnown'
      BY <3>1, <3>3, <3>4 DEF TypeInv, TokensKnown, Known
    <3>7. StatesFit'
      BY <2>2, <3>3, <3>4 DEF TypeInv, StatesFit
    <3> QED
      BY <3>5, <3>6, <3>7 DEF TypeInv
  <2> QED
    BY <2>1, <2>2
<1>3. CASE RespondPage(r) \/ Respond(r)
  <2>1. /\ req[r].state = "running" /\ req' = [req EXCEPT ![r].state = "ok"]
        /\ stored' \in {stored, req[r].new}
        /\ UNCHANGED <<issued, ref, attaching, writesBack, disturbed>>
    BY <1>3 DEF RespondPage, Respond
  <2>2. req' \in [Reqs -> Requests]
    <3>1. "ok" \in InFlight \cup {"unused", "over", "lost"}
      BY DEF InFlight
    <3>2. [req[r] EXCEPT !.state = "ok"] \in Requests
      BY <1>0, <3>1 DEF Requests
    <3> QED
      BY <1>0, <2>1, <3>2
  <2>3. \A q \in Reqs : q # r => req'[q] = req[q]
    BY <1>0, <2>1
  <2>4. req'[r].state = "ok" /\ req'[r].new = req[r].new /\ req'[r].token = req[r].token
    BY <1>0, <2>1 DEF Requests
  <2>5. req[r].new \in 1..issued /\ req[r].new # None /\ req[r].new \in Tokens
    BY <2>1 DEF TypeInv, StatesFit, TokensKnown, Known, TypeOK, Requests
  <2>6. TypeOK'
    BY <1>0, <2>1, <2>2, <2>3, <2>4, <2>5 DEF TypeOK
  <2>7. TokensKnown'
    BY <2>1, <2>3, <2>4, <2>5 DEF TypeInv, TokensKnown, Known
  <2>8. StatesFit'
    BY <2>3, <2>4, <2>5 DEF TypeInv, StatesFit
  <2> QED
    BY <2>6, <2>7, <2>8 DEF TypeInv
<1>4. CASE RespondError(r)
  <2>1. PICK saved \in BOOLEAN :
          /\ stored' = IF saved THEN req[r].new ELSE stored
          /\ req' = [req EXCEPT ![r].state = "failed",
                                ![r].new = IF saved THEN req[r].new ELSE None]
    BY <1>4 DEF RespondError
  <2>2. /\ req[r].state = "running" /\ disturbed' = Tabs
        /\ UNCHANGED <<issued, ref, attaching, writesBack>>
    BY <1>4 DEF RespondError
  <2>3. req' \in [Reqs -> Requests]
    <3>1. (IF saved THEN req[r].new ELSE None) \in Tokens
      BY <1>0 DEF Requests, Tokens
    <3> QED
      BY <1>0, <2>1, <3>1, UpdateType DEF States, InFlight
  <2>4. \A q \in Reqs : q # r => req'[q] = req[q]
    BY <1>0, <2>1
  <2>5. req'[r].state = "failed" /\ req'[r].new \in {req[r].new, None} /\ req'[r].token = req[r].token
    BY <1>0, <2>1 DEF Requests
  <2>6. req[r].new \in 1..issued /\ req[r].new \in Tokens
    BY <2>2 DEF TypeInv, StatesFit, TokensKnown, Known, TypeOK, Requests
  <2>7. TypeOK'
    BY <1>0, <2>1, <2>2, <2>3, <2>4, <2>5, <2>6 DEF TypeOK
  <2>8. TokensKnown'
    BY <2>1, <2>2, <2>4, <2>5, <2>6 DEF TypeInv, TokensKnown, Known
  <2>9. StatesFit'
    BY <2>4, <2>5 DEF TypeInv, StatesFit
  <2> QED
    BY <2>7, <2>8, <2>9 DEF TypeInv
<1>5. CASE Receive(r)
  <2>1. /\ req[r].state \in {"ok", "failed", "refused"}
        /\ ref' = IF Refreshes(r) /\ req[r].tab # None
                  THEN [ref EXCEPT ![req[r].tab] = req[r].new] ELSE ref
        /\ attaching' = IF req[r].kind = "page" /\ req[r].tab # None
                        THEN [attaching EXCEPT ![req[r].tab] = NoFiles] ELSE attaching
        /\ UNCHANGED <<stored, issued, writesBack, disturbed>>
    BY <1>5 DEF Receive
  <2>2. \A q \in Reqs : /\ req'[q] \in Requests
                        /\ req'[q].state = IF q = r THEN "over" ELSE req[q].state
                        /\ req'[q].kind = req[q].kind /\ req'[q].token = req[q].token
                        /\ req'[q].new = req[q].new /\ req'[q].changed = req[q].changed
    BY <1>0, <1>5 DEF Receive, Requests, InFlight
  <2>3. req' \in [Reqs -> Requests]
    BY <2>2, <1>5 DEF Receive
  <2>4. req[r].tab \in Tabs \cup {None}
    BY <1>0 DEF Requests
  <2>5. Refreshes(r) => req[r].new \in Tokens /\ Known(req[r].new)
    BY <1>0 DEF Refreshes, Requests, TypeInv, TokensKnown
  <2>6. ref' \in [Tabs -> Tokens] /\ \A t \in Tabs : Known(ref'[t])
    BY <1>0, <2>1, <2>4, <2>5 DEF TypeInv, TokensKnown
  <2>7. NoFiles \in [left : 0..MaxFiles, token : Tokens] /\ NoFiles.token = None
    BY CsrfAssumption DEF NoFiles, Tokens
  <2>8. /\ attaching' \in [Tabs -> [left : 0..MaxFiles, token : Tokens]]
        /\ \A t \in Tabs : attaching'[t].token \in {attaching[t].token, None}
    BY <1>0, <2>1, <2>4, <2>7
  <2>9. TypeOK'
    BY <1>0, <2>1, <2>2, <2>3, <2>6, <2>8 DEF TypeOK
  <2>10. TokensKnown'
    BY <2>1, <2>2, <2>6, <2>8 DEF TypeInv, TokensKnown, Known
  <2>11. StatesFit'
    BY <2>2 DEF TypeInv, StatesFit
  <2> QED
    BY <2>9, <2>10, <2>11 DEF TypeInv
<1>6. CASE Lose(r)
  <2>1. /\ req' = [req EXCEPT ![r].state = "lost"] /\ disturbed' = Tabs
        /\ UNCHANGED <<stored, issued, ref, attaching, writesBack>>
    BY <1>6 DEF Lose
  <2>2. req' \in [Reqs -> Requests]
    BY <1>0, <2>1 DEF Requests
  <2>3. \A q \in Reqs : q # r => req'[q] = req[q]
    BY <1>0, <2>1
  <2>4. req'[r].state = "lost" /\ req'[r].new = req[r].new /\ req'[r].token = req[r].token
    BY <1>0, <2>1 DEF Requests
  <2>5. TypeOK'
    BY <1>0, <2>1, <2>2, <2>3, <2>4 DEF TypeOK
  <2>6. TokensKnown'
    BY <2>1, <2>3, <2>4 DEF TypeInv, TokensKnown, Known
  <2>7. StatesFit'
    BY <2>3, <2>4 DEF TypeInv, StatesFit
  <2> QED
    BY <2>5, <2>6, <2>7 DEF TypeInv
<1> QED
  BY <1>1, <1>2, <1>3, <1>4, <1>5, <1>6

\* The requests a page sends keep the types.
LEMMA SendsType ==
    ASSUME TypeInv, NEW r \in Reqs, NEW t \in Tabs, Sends(r, t)
    PROVE  TypeInv'
<1>1. PICK kind \in Kinds, token \in {None, ref[t], attaching[t].token} :
          /\ Send(r, t, kind, token)
          /\ attaching' \in [Tabs -> [left : 0..MaxFiles, token : Tokens]]
          /\ \A u \in Tabs : attaching'[u].token \in {attaching[u].token, ref[u]}
  BY SendsFacts
<1>2. token \in Tokens /\ Known(token)
  BY DEF TypeInv, TypeOK, TokensKnown, Known, Tokens
<1>3. /\ req' \in [Reqs -> Requests] /\ disturbed' \in SUBSET Tabs
      /\ StatesFit'
      /\ \A q \in Reqs : req'[q].state = "ok" => req'[q].new \in 1..issued
      /\ \A q \in Reqs : Known(req'[q].token) /\ Known(req'[q].new)
      /\ UNCHANGED <<stored, issued, ref, writesBack>>
  BY <1>1, <1>2, SendType
<1>4. TypeOK'
  BY <1>1, <1>3 DEF TypeInv, TypeOK
<1>5. TokensKnown'
  BY <1>1, <1>3 DEF TypeInv, TokensKnown, Known
<1> QED
  BY <1>3, <1>4, <1>5 DEF TypeInv

\* Every step keeps the types.
LEMMA TypeStep == TypeInv /\ [Next]_vars => TypeInv'
<1> SUFFICES ASSUME TypeInv, [Next]_vars
             PROVE  TypeInv'
  OBVIOUS
<1>1. CASE Next
  BY <1>1, AnswerType, SendsType DEF Next, Sends
<1>2. CASE UNCHANGED vars
  BY <1>2 DEF vars, TypeInv, TypeOK, TokensKnown, StatesFit, Known
<1> QED
  BY <1>1, <1>2

(* What the requests become, field by field.                               *)

\* A rotation, or a page, is under way, or the request is refused.
LEMMA ServeEffect ==
    ASSUME TypeInv, NEW r \in Reqs, Validate(r) \/ GetToken(r)
    PROVE  /\ req[r].state = "sent"
           /\ \A q \in Reqs : q # r => req'[q] = req[q]
           /\ req'[r].kind = req[r].kind /\ req'[r].token = req[r].token /\ req'[r].tab = req[r].tab
           /\ UNCHANGED <<stored, ref, attaching, writesBack, disturbed>>
           /\ \/ req'[r].state = "refused" /\ req'[r].new = req[r].new /\ issued' = issued
                 /\ req[r].kind # "page" /\ ~(stored # None /\ stored = req[r].token)
              \/ req'[r].state = "running" /\ req'[r].changed /\ req'[r].new = issued + 1
                 /\ (req[r].kind # "page" => stored # None /\ stored = req[r].token)
                 /\ (req[r].kind = "page" => stored = None)
              \/ req'[r].state = "running" /\ ~req'[r].changed /\ req'[r].new = stored
                 /\ req[r].kind = "page" /\ stored # None
<1>1. req \in [Reqs -> Requests]
  BY DEF TypeInv, TypeOK
<1>2. CASE Validate(r)
  <2>1. CASE stored # None /\ stored = req[r].token
    <3>1. /\ issued' = issued + 1
          /\ req' = [req EXCEPT ![r].state = "running", ![r].new = issued + 1, ![r].changed = TRUE]
      BY <1>2, <2>1 DEF Validate
    <3>2. /\ req'[r].kind = req[r].kind /\ req'[r].token = req[r].token /\ req'[r].tab = req[r].tab
          /\ req'[r].state = "running" /\ req'[r].changed /\ req'[r].new = issued + 1
          /\ \A q \in Reqs : q # r => req'[q] = req[q]
      BY <1>1, <3>1 DEF Requests
    <3> QED
      BY <1>2, <2>1, <3>2 DEF Validate
  <2>2. CASE ~(stored # None /\ stored = req[r].token)
    <3>1. issued' = issued /\ req' = [req EXCEPT ![r].state = "refused"]
      BY <1>2, <2>2 DEF Validate
    <3>2. /\ req'[r].kind = req[r].kind /\ req'[r].token = req[r].token /\ req'[r].tab = req[r].tab
          /\ req'[r].state = "refused" /\ req'[r].new = req[r].new
          /\ \A q \in Reqs : q # r => req'[q] = req[q]
      BY <1>1, <3>1 DEF Requests
    <3> QED
      BY <1>2, <2>2, <3>1, <3>2 DEF Validate
  <2> QED
    BY <2>1, <2>2
<1>3. CASE GetToken(r)
  <2>1. CASE stored = None
    <3>1. /\ issued' = issued + 1
          /\ req' = [req EXCEPT ![r].state = "running", ![r].new = issued + 1, ![r].changed = TRUE]
      BY <1>3, <2>1 DEF GetToken
    <3>2. /\ req'[r].kind = req[r].kind /\ req'[r].token = req[r].token /\ req'[r].tab = req[r].tab
          /\ req'[r].state = "running" /\ req'[r].changed /\ req'[r].new = issued + 1
          /\ \A q \in Reqs : q # r => req'[q] = req[q]
      BY <1>1, <3>1 DEF Requests
    <3> QED
      BY <1>3, <2>1, <3>2 DEF GetToken
  <2>2. CASE stored # None
    <3>1. req' = [req EXCEPT ![r].state = "running", ![r].new = stored, ![r].changed = FALSE]
      BY <1>3, <2>2 DEF GetToken
    <3>2. /\ req'[r].kind = req[r].kind /\ req'[r].token = req[r].token /\ req'[r].tab = req[r].tab
          /\ req'[r].state = "running" /\ ~req'[r].changed /\ req'[r].new = stored
          /\ \A q \in Reqs : q # r => req'[q] = req[q]
      BY <1>1, <3>1 DEF Requests
    <3> QED
      BY <1>3, <2>2, <3>2 DEF GetToken
  <2> QED
    BY <2>1, <2>2
<1> QED
  BY <1>2, <1>3

\* A request is answered, and what it made may be saved.
LEMMA RespondEffect ==
    ASSUME TypeInv, NEW r \in Reqs, RespondPage(r) \/ Respond(r) \/ RespondError(r)
    PROVE  /\ req[r].state = "running"
           /\ \A q \in Reqs : q # r => req'[q] = req[q]
           /\ req'[r].kind = req[r].kind /\ req'[r].token = req[r].token /\ req'[r].tab = req[r].tab
           /\ req'[r].changed = req[r].changed
           /\ UNCHANGED <<issued, ref, attaching, writesBack>>
           /\ \/ /\ req'[r].state = "ok" /\ req'[r].new = req[r].new /\ disturbed' = disturbed
                 /\ stored' = IF req[r].changed \/ writesBack THEN req[r].new ELSE stored
              \/ /\ req'[r].state = "failed" /\ disturbed' = Tabs /\ req[r].kind # "page"
                 /\ \/ req'[r].new = req[r].new /\ stored' = req[r].new
                    \/ req'[r].new = None /\ stored' = stored
<1>1. req \in [Reqs -> Requests]
  BY DEF TypeInv, TypeOK
<1>2. CASE RespondPage(r) \/ Respond(r)
  <2>1. req' = [req EXCEPT ![r].state = "ok"]
    BY <1>2 DEF RespondPage, Respond
  <2>2. /\ req'[r].kind = req[r].kind /\ req'[r].token = req[r].token /\ req'[r].tab = req[r].tab
        /\ req'[r].state = "ok" /\ req'[r].new = req[r].new /\ req'[r].changed = req[r].changed
        /\ \A q \in Reqs : q # r => req'[q] = req[q]
    BY <1>1, <2>1 DEF Requests
  <2> QED
    BY <1>2, <2>2 DEF RespondPage, Respond
<1>3. CASE RespondError(r)
  <2>1. PICK saved \in BOOLEAN :
          /\ stored' = IF saved THEN req[r].new ELSE stored
          /\ req' = [req EXCEPT ![r].state = "failed",
                                ![r].new = IF saved THEN req[r].new ELSE None]
    BY <1>3 DEF RespondError
  <2>2. /\ req'[r].kind = req[r].kind /\ req'[r].token = req[r].token /\ req'[r].tab = req[r].tab
        /\ req'[r].state = "failed" /\ req'[r].changed = req[r].changed
        /\ req'[r].new = IF saved THEN req[r].new ELSE None
        /\ \A q \in Reqs : q # r => req'[q] = req[q]
    BY <1>1, <2>1 DEF Requests
  <2>3. CASE saved
    BY <1>3, <2>1, <2>2, <2>3 DEF RespondError
  <2>4. CASE ~saved
    BY <1>3, <2>1, <2>2, <2>4 DEF RespondError
  <2> QED
    BY <2>3, <2>4
<1> QED
  BY <1>2, <1>3

\* An answer comes, or is lost: the tab's token may become that of the answer.
LEMMA ReceiveEffect ==
    ASSUME TypeInv, NEW r \in Reqs, Receive(r) \/ Lose(r)
    PROVE  /\ req[r].state \in {"ok", "failed", "refused"} /\ req'[r].state \in {"over", "lost"}
           /\ \A q \in Reqs : q # r => req'[q].state = req[q].state
           /\ \A q \in Reqs : /\ req'[q].kind = req[q].kind /\ req'[q].token = req[q].token
                              /\ req'[q].new = req[q].new /\ req'[q].changed = req[q].changed
           /\ UNCHANGED <<stored, issued, writesBack>>
           /\ \A t \in Tabs : ref'[t] \in {ref[t], req[r].new}
           /\ \A t \in Tabs : attaching'[t].token \in {attaching[t].token, None}
<1>1. /\ req \in [Reqs -> Requests] /\ ref \in [Tabs -> Tokens]
      /\ attaching \in [Tabs -> [left : 0..MaxFiles, token : Tokens]]
  BY DEF TypeInv, TypeOK
<1>2. CASE Receive(r)
  <2>1. \A q \in Reqs : /\ req'[q].state = IF q = r THEN "over" ELSE req[q].state
                        /\ req'[q].kind = req[q].kind /\ req'[q].token = req[q].token
                        /\ req'[q].new = req[q].new /\ req'[q].changed = req[q].changed
    BY <1>1, <1>2 DEF Receive, Requests
  <2>2. \A t \in Tabs : ref'[t] \in {ref[t], req[r].new}
    BY <1>1, <1>2 DEF Receive
  <2>3. \A t \in Tabs : attaching'[t].token \in {attaching[t].token, None}
    BY <1>1, <1>2 DEF Receive, NoFiles
  <2>4. /\ req[r].state \in {"ok", "failed", "refused"}
        /\ UNCHANGED <<stored, issued, writesBack>>
    BY <1>2 DEF Receive
  <2> QED
    BY <2>1, <2>2, <2>3, <2>4
<1>3. CASE Lose(r)
  <2>1. req' = [req EXCEPT ![r].state = "lost"]
    BY <1>3 DEF Lose
  <2>2. \A q \in Reqs : /\ req'[q].state = IF q = r THEN "lost" ELSE req[q].state
                        /\ req'[q].kind = req[q].kind /\ req'[q].token = req[q].token
                        /\ req'[q].new = req[q].new /\ req'[q].changed = req[q].changed
    BY <1>1, <2>1 DEF Requests
  <2> QED
    BY <1>3, <2>2 DEF Lose
<1> QED
  BY <1>2, <1>3

(* What is not saved is known to nobody, and what was used is spent.       *)

\* The token of a request that runs is a number made before.
LEMMA RunningToken ==
    ASSUME TypeInv, NEW p \in Reqs, req[p].state = "running"
    PROVE  req[p].new \in 1..issued /\ req[p].new # None /\ req[p].new # issued + 1
<1> QED
  BY NewToken DEF TypeInv, StatesFit, TokensKnown, Known

\* A request that is sent knows only what the tabs know.
LEMMA SendSecret ==
    ASSUME TypeInv, Secret, Spent, NEW r \in Reqs, NEW t \in Tabs, Sends(r, t)
    PROVE  Secret' /\ Spent'
<1>1. PICK kind \in Kinds, token \in {None, ref[t], attaching[t].token} :
          /\ Send(r, t, kind, token)
          /\ attaching' \in [Tabs -> [left : 0..MaxFiles, token : Tokens]]
          /\ \A u \in Tabs : attaching'[u].token \in {attaching[u].token, ref[u]}
  BY SendsFacts
<1>2. token \in Tokens /\ Known(token)
  BY DEF TypeInv, TypeOK, TokensKnown, Known, Tokens
<1>3. /\ req'[r] = Fresh("sent", t, kind, token)
      /\ \A q \in Reqs : q # r => req'[q] = req[q]
      /\ UNCHANGED <<stored, issued, ref, writesBack>>
  BY <1>1, <1>2, SendType
<1>4. req'[r].state = "sent" /\ req'[r].new = None /\ req'[r].token = token
  BY <1>3 DEF Fresh
<1>5. ASSUME NEW p \in Reqs, req'[p].state = "running", req'[p].changed
      PROVE  /\ req'[p].new # stored' /\ req'[p].new # req'[p].token
             /\ \A u \in Tabs : ref'[u] # req'[p].new /\ attaching'[u].token # req'[p].new
             /\ \A q \in Reqs : q # p => req'[q].token # req'[p].new /\ req'[q].new # req'[p].new
  <2>1. p # r /\ req'[p] = req[p]
    BY <1>3, <1>4, <1>5
  <2>2. req[p].new # None
    BY <1>5, <2>1, RunningToken
  <2>3. /\ req[p].new # stored /\ req[p].new # req[p].token
        /\ \A u \in Tabs : ref[u] # req[p].new /\ attaching[u].token # req[p].new
        /\ \A q \in Reqs : q # p => req[q].token # req[p].new /\ req[q].new # req[p].new
    BY <1>5, <2>1 DEF Secret
  <2> QED
    BY <1>1, <1>3, <1>4, <2>1, <2>2, <2>3
<1>6. Secret'
  BY <1>5 DEF Secret
<1>7. Spent'
  BY <1>3, <1>4 DEF Spent, Answered
<1> QED
  BY <1>6, <1>7

\* A token that is made is known to nobody yet.
LEMMA ServeSecret ==
    ASSUME TypeInv, Secret, Spent, NEW r \in Reqs, Validate(r) \/ GetToken(r)
    PROVE  Secret' /\ Spent'
<1>1. /\ req[r].state = "sent"
      /\ \A q \in Reqs : q # r => req'[q] = req[q]
      /\ req'[r].kind = req[r].kind /\ req'[r].token = req[r].token
      /\ UNCHANGED <<stored, ref, attaching, writesBack>>
      /\ \/ req'[r].state = "refused" /\ req'[r].new = req[r].new
         \/ req'[r].state = "running" /\ req'[r].changed /\ req'[r].new = issued + 1
         \/ req'[r].state = "running" /\ ~req'[r].changed /\ req'[r].new = stored
  BY ServeEffect
<1>2. req[r].new = None
  BY <1>1 DEF TypeInv, StatesFit
<1>3. \A k : Known(k) => k # issued + 1
  BY NewToken DEF Known
<1>4. ASSUME NEW p \in Reqs, req'[p].state = "running", req'[p].changed
      PROVE  /\ req'[p].new # stored' /\ req'[p].new # req'[p].token
             /\ \A u \in Tabs : ref'[u] # req'[p].new /\ attaching'[u].token # req'[p].new
             /\ \A q \in Reqs : q # p => req'[q].token # req'[p].new /\ req'[q].new # req'[p].new
  <2>1. CASE p = r
    <3>1. req'[p].new = issued + 1
      BY <1>1, <1>4, <2>1
    <3>2. /\ Known(stored) /\ \A u \in Tabs : Known(ref[u]) /\ Known(attaching[u].token)
          /\ \A q \in Reqs : Known(req[q].token) /\ Known(req[q].new)
      BY DEF TypeInv, TokensKnown
    <3> QED
      BY <1>1, <1>3, <2>1, <3>1, <3>2
  <2>2. CASE p # r
    <3>1. req'[p] = req[p] /\ req[p].state = "running" /\ req[p].changed
      BY <1>1, <1>4, <2>2
    <3>2. req[p].new # None /\ req[p].new # issued + 1
      BY <3>1, RunningToken
    <3>3. /\ req[p].new # stored /\ req[p].new # req[p].token
          /\ \A u \in Tabs : ref[u] # req[p].new /\ attaching[u].token # req[p].new
          /\ \A q \in Reqs : q # p => req[q].token # req[p].new /\ req[q].new # req[p].new
      BY <3>1 DEF Secret
    <3> QED
      BY <1>1, <1>2, <3>1, <3>2, <3>3
  <2> QED
    BY <2>1, <2>2
<1>5. Secret'
  BY <1>4 DEF Secret
<1>6. Spent'
  BY <1>1, <1>2 DEF Spent, Answered
<1> QED
  BY <1>5, <1>6

\* What is saved was known to nobody, so it is no token that was used.
LEMMA RespondSecret ==
    ASSUME TypeInv, Secret, Spent, NEW r \in Reqs, RespondPage(r) \/ Respond(r) \/ RespondError(r)
    PROVE  Secret' /\ Spent'
<1>1. /\ req[r].state = "running"
      /\ \A q \in Reqs : q # r => req'[q] = req[q]
      /\ req'[r].kind = req[r].kind /\ req'[r].token = req[r].token
      /\ UNCHANGED <<ref, attaching, writesBack>>
      /\ req'[r].state # "running" /\ req'[r].new \in {req[r].new, None}
      /\ stored' \in {stored, req[r].new}
      /\ stored' = stored => req'[r].new = None \/ ~req[r].changed \/ req[r].new = stored
      /\ stored' # stored => req[r].changed \/ writesBack
  <2>1. req[r].kind # "page" => req[r].changed
    BY RespondEffect DEF TypeInv, StatesFit
  <2> QED
    BY <2>1, RespondEffect
<1>2. req[r].new # None
  BY <1>1, RunningToken
<1>3. ASSUME NEW p \in Reqs, req'[p].state = "running", req'[p].changed
      PROVE  /\ req'[p].new # stored' /\ req'[p].new # req'[p].token
             /\ \A u \in Tabs : ref'[u] # req'[p].new /\ attaching'[u].token # req'[p].new
             /\ \A q \in Reqs : q # p => req'[q].token # req'[p].new /\ req'[q].new # req'[p].new
  <2>1. p # r /\ req'[p] = req[p] /\ req[p].state = "running" /\ req[p].changed
    BY <1>1, <1>3
  <2>2. req[p].new # None
    BY <2>1, RunningToken
  <2>3. /\ req[p].new # stored /\ req[p].new # req[p].token
        /\ \A u \in Tabs : ref[u] # req[p].new /\ attaching[u].token # req[p].new
        /\ \A q \in Reqs : q # p => req[q].token # req[p].new /\ req[q].new # req[p].new
    BY <2>1 DEF Secret
  <2> QED
    BY <1>1, <2>1, <2>2, <2>3
<1>4. Secret'
  BY <1>3 DEF Secret
<1>5. ASSUME ~writesBack', NEW q \in Reqs, Answered(q)'
      PROVE  req'[q].token # stored'
  <2>0. ~writesBack
    BY <1>1, <1>5
  <2>1. CASE q = r
    <3>1. req[r].kind # "page" /\ req'[r].new # None
      BY <1>1, <1>5, <2>1 DEF Answered
    <3>2. req[r].changed
      BY <1>1, <3>1 DEF TypeInv, StatesFit
    <3>3. req[r].new # req[r].token /\ req[r].new # stored
      BY <1>1, <3>2 DEF Secret
    <3>4. stored' = req[r].new
      BY <1>1, <3>1, <3>2, <3>3
    <3> QED
      BY <1>1, <2>1, <3>3, <3>4
  <2>2. CASE q # r
    <3>1. req'[q] = req[q] /\ Answered(q)
      BY <1>1, <1>5, <2>2 DEF Answered
    <3>2. req[q].token # stored
      BY <2>0, <3>1 DEF Spent
    <3>3. CASE stored' = stored
      BY <3>1, <3>2, <3>3
    <3>4. CASE stored' # stored
      <4>1. req[r].changed /\ stored' = req[r].new
        BY <1>1, <2>0, <3>4
      <4>2. req[q].token # req[r].new
        BY <1>1, <2>2, <4>1 DEF Secret
      <4> QED
        BY <3>1, <4>1, <4>2
    <3> QED
      BY <3>3, <3>4
  <2> QED
    BY <2>1, <2>2
<1>6. Spent'
  BY <1>5 DEF Spent
<1> QED
  BY <1>4, <1>6

\* A tab learns only a token that was saved.
LEMMA ReceiveSecret ==
    ASSUME TypeInv, Secret, Spent, NEW r \in Reqs, Receive(r) \/ Lose(r)
    PROVE  Secret' /\ Spent'
<1>1. /\ req[r].state \in {"ok", "failed", "refused"} /\ req'[r].state \in {"over", "lost"}
      /\ \A q \in Reqs : q # r => req'[q].state = req[q].state
      /\ \A q \in Reqs : /\ req'[q].kind = req[q].kind /\ req'[q].token = req[q].token
                         /\ req'[q].new = req[q].new /\ req'[q].changed = req[q].changed
      /\ UNCHANGED <<stored, issued, writesBack>>
      /\ \A t \in Tabs : ref'[t] \in {ref[t], req[r].new}
      /\ \A t \in Tabs : attaching'[t].token \in {attaching[t].token, None}
  BY ReceiveEffect
<1>2. ASSUME NEW p \in Reqs, req'[p].state = "running", req'[p].changed
      PROVE  /\ req'[p].new # stored' /\ req'[p].new # req'[p].token
             /\ \A u \in Tabs : ref'[u] # req'[p].new /\ attaching'[u].token # req'[p].new
             /\ \A q \in Reqs : q # p => req'[q].token # req'[p].new /\ req'[q].new # req'[p].new
  <2>1. p # r /\ req[p].state = "running" /\ req[p].changed /\ req'[p].new = req[p].new
    BY <1>1, <1>2
  <2>2. req[p].new # None
    BY <2>1, RunningToken
  <2>3. /\ req[p].new # stored /\ req[p].new # req[p].token
        /\ \A u \in Tabs : ref[u] # req[p].new /\ attaching[u].token # req[p].new
        /\ \A q \in Reqs : q # p => req[q].token # req[p].new /\ req[q].new # req[p].new
    BY <2>1 DEF Secret
  <2> QED
    BY <1>1, <2>1, <2>2, <2>3
<1>3. Secret'
  BY <1>2 DEF Secret
<1>4. Spent'
  BY <1>1 DEF Spent, Answered
<1> QED
  BY <1>3, <1>4

\* Every step keeps the secret.
LEMMA SecretStep == TypeInv /\ Secret /\ Spent /\ [Next]_vars => Secret' /\ Spent'
<1> SUFFICES ASSUME TypeInv, Secret, Spent, [Next]_vars
             PROVE  Secret' /\ Spent'
  OBVIOUS
<1>1. CASE Next
  BY <1>1, SendSecret, ServeSecret, RespondSecret, ReceiveSecret DEF Next, Sends
<1>2. CASE UNCHANGED vars
  BY <1>2 DEF vars, Secret, Spent, Answered
<1> QED
  BY <1>1, <1>2

\* The three together are an invariant.
LEMMA SecretHolds == Spec => [](TypeInv /\ Secret /\ Spent)
<1> QED
  BY InitInv, TypeStep, SecretStep, PTL DEF Spec

(* The theorems.                                                           *)

\* Types of the session's token, the tabs' and the requests' (csrf.rs,
\* SseContext.tsx), for every number of them.
THEOREM CsrfTypeCorrect == Spec => []TypeOK
<1>1. TypeInv => TypeOK
  BY DEF TypeInv
<1> QED
  BY <1>1, SecretHolds, PTL

\* Once a request that a token let in was answered, the middleware accepts no
\* other with that token (validate_csrf), for every number of requests.
THEOREM AnsweredTokenIsSpentHolds == Spec => AnsweredTokenIsSpent
<1>1. ASSUME TypeInv, Spent, [Next]_vars, ~writesBack,
             NEW r \in Reqs, NEW q \in Reqs,
             req[r].state = "sent", req'[r].state = "running",
             req[r].kind # "page", req[q].kind # "page", q # r,
             req[q].token = req[r].token, req[q].new # None
      PROVE  req[q].state = "running"
  <2>1. stored = req[r].token
    <3>1. ASSUME NEW p \in Reqs, NEW t \in Tabs, Sends(p, t)
          PROVE  FALSE
      <4>1. PICK kind \in Kinds, token \in {None, ref[t], attaching[t].token} :
              Send(p, t, kind, token)
        BY <1>1, <3>1, SendsFacts
      <4>2. token \in Tokens /\ Known(token)
        BY <1>1 DEF TypeInv, TypeOK, TokensKnown, Known, Tokens
      <4>3. /\ req'[p] = Fresh("sent", t, kind, token)
            /\ \A s \in Reqs : s # p => req'[s] = req[s]
        BY <1>1, <4>1, <4>2, SendType
      <4> QED
        BY <1>1, <4>3 DEF Fresh
    <3>2. ASSUME NEW p \in Reqs, Validate(p) \/ GetToken(p)
          PROVE  stored = req[r].token
      BY <1>1, <3>2, ServeEffect
    <3>3. ASSUME NEW p \in Reqs, RespondPage(p) \/ Respond(p) \/ RespondError(p)
          PROVE  FALSE
      BY <1>1, <3>3, RespondEffect
    <3>4. ASSUME NEW p \in Reqs, Receive(p) \/ Lose(p)
          PROVE  FALSE
      BY <1>1, <3>4, ReceiveEffect
    <3>5. CASE UNCHANGED vars
      BY <1>1, <3>5 DEF vars
    <3> QED
      BY <1>1, <3>1, <3>2, <3>3, <3>4, <3>5 DEF Next, Sends
  <2> QED
    BY <1>1, <2>1 DEF Spent, Answered
<1>2. TypeInv /\ Spent /\ [Next]_vars =>
        [\A r, q \in Reqs :
            (/\ ~writesBack
             /\ req[r].state = "sent" /\ req'[r].state = "running"
             /\ req[r].kind # "page" /\ req[q].kind # "page" /\ q # r
             /\ req[q].token = req[r].token /\ req[q].new # None)
                => req[q].state = "running"]_vars
  BY <1>1
<1> QED
  BY <1>2, SecretHolds, PTL DEF Spec, AnsweredTokenIsSpent

(* A tab that is not disturbed is in step.                                 *)

Agrees(t) == ref[t] # None => ref[t] = stored

\* What is in flight while the tab is not disturbed: a page, which is the tab's own or
\* leaves it as it is, or a request of the tab's SseContext that will be accepted.
Brings(r, t) ==
    \/ /\ req[r].kind = "page" /\ req[r].state \in {"sent", "running", "ok"}
       /\ req[r].tab # t => Agrees(t)
       /\ req[r].state = "running" =>
            (req[r].changed /\ stored = None) \/ req[r].new = stored
       /\ req[r].state = "ok" => req[r].new = stored
    \/ /\ req[r].kind = "context" /\ req[r].state \in {"sent", "running", "ok"}
       /\ req[r].tab = t
       /\ req[r].state = "sent" => req[r].token = stored /\ stored # None
       /\ req[r].state = "ok" => req[r].new = stored

InStep ==
    \A t \in Tabs : t \notin disturbed =>
        /\ Quiet => Agrees(t)
        /\ \A r \in Reqs : req[r].state \in InFlight =>
            /\ \A q \in Reqs : req[q].state \in InFlight => q = r
            /\ Brings(r, t)

\* Sending disturbs every tab but the one that sends from its context, or that
\* loads its page, while nothing else is in flight.
LEMMA UndisturbedBy ==
    ASSUME NEW u \in Tabs, NEW kind \in Kinds, NEW t \in Tabs, t \notin Disturbs(u, kind)
    PROVE  /\ Quiet /\ kind \in {"page", "context"}
           /\ kind = "page" => t = u \/ t \notin disturbed
           /\ kind = "context" => t = u /\ t \notin disturbed
BY DEF Disturbs, Kinds

\* A request that is sent finds the tab in step.
LEMMA SendInStep ==
    ASSUME TypeInv, InStep, NEW r \in Reqs, NEW u \in Tabs, Sends(r, u)
    PROVE  InStep'
<1>1. PICK kind \in Kinds, token \in {None, ref[u], attaching[u].token} :
          /\ Send(r, u, kind, token)
          /\ kind = "context" => token = ref[u] /\ ref[u] # None
  BY DEF Sends, LoadPage, SendFromContext, SendFromComponent, UploadFile, SaveSettings,
         ResetRootfs, SendAttachments, SendNextAttachment, Kinds
<1>2. token \in Tokens /\ Known(token)
  BY DEF TypeInv, TypeOK, TokensKnown, Known, Tokens
<1>3. /\ req'[r] = Fresh("sent", u, kind, token)
      /\ \A q \in Reqs : q # r => req'[q] = req[q]
      /\ UNCHANGED <<stored, ref>> /\ disturbed' = Disturbs(u, kind)
  BY <1>1, <1>2, SendType DEF Send
<1>4. /\ req'[r].state = "sent" /\ req'[r].kind = kind /\ req'[r].tab = u
      /\ req'[r].token = token
  BY <1>3 DEF Fresh
<1> SUFFICES ASSUME NEW t \in Tabs, t \notin disturbed'
             PROVE  /\ ~Quiet'
                    /\ \A q \in Reqs : req'[q].state \in InFlight => q = r
                    /\ Brings(r, t)'
  BY DEF InStep
<1>5. /\ Quiet /\ kind \in {"page", "context"}
      /\ kind = "page" => t = u \/ t \notin disturbed
      /\ kind = "context" => t = u /\ t \notin disturbed
  BY <1>3, UndisturbedBy
<1>6. ~Quiet'
  BY <1>4 DEF Quiet, InFlight
<1>7. \A q \in Reqs : req'[q].state \in InFlight => q = r
  BY <1>3, <1>5 DEF Quiet
<1>8. t \notin disturbed => Agrees(t)
  BY <1>5 DEF InStep
<1>9. Brings(r, t)'
  <2>1. CASE kind = "page"
    BY <1>3, <1>4, <1>5, <1>8, <2>1 DEF Brings, Agrees
  <2>2. CASE kind = "context"
    BY <1>1, <1>3, <1>4, <1>5, <1>8, <2>2 DEF Brings, Agrees
  <2> QED
    BY <1>5, <2>1, <2>2
<1> QED
  BY <1>6, <1>7, <1>9

\* Where one request is in flight and a step changes only that one, which stays in
\* flight, it suffices that it still brings the tab what is stored.
LEMMA StaysInStep ==
    ASSUME InStep, NEW r \in Reqs, req[r].state \in InFlight, req'[r].state \in InFlight,
           \A q \in Reqs : q # r => req'[q].state = req[q].state,
           \A t \in Tabs : t \notin disturbed' =>
                t \notin disturbed /\ (Brings(r, t) => Brings(r, t)')
    PROVE  InStep'
<1> SUFFICES ASSUME NEW t \in Tabs, t \notin disturbed'
             PROVE  /\ ~Quiet'
                    /\ \A q \in Reqs : req'[q].state \in InFlight => q = r
                    /\ Brings(r, t)'
  BY DEF InStep
<1>1. Brings(r, t) /\ \A q \in Reqs : req[q].state \in InFlight => q = r
  BY DEF InStep
<1> QED
  BY <1>1 DEF Quiet

\* The middleware accepts the request that is in step.
LEMMA ServeInStep ==
    ASSUME TypeInv, InStep, NEW r \in Reqs, Validate(r) \/ GetToken(r)
    PROVE  InStep'
<1>1. /\ req[r].state = "sent" /\ req'[r].state \in {"refused", "running"}
      /\ \A q \in Reqs : q # r => req'[q] = req[q]
      /\ req'[r].kind = req[r].kind /\ req'[r].tab = req[r].tab
      /\ UNCHANGED <<stored, ref, disturbed>>
      /\ req'[r].state = "refused" =>
            req[r].kind # "page" /\ ~(stored # None /\ stored = req[r].token)
      /\ req[r].kind = "page" => (req'[r].changed /\ stored = None) \/ req'[r].new = stored
  BY ServeEffect
<1>2. ASSUME NEW t \in Tabs, Brings(r, t) PROVE Brings(r, t)'
  <2>1. CASE req[r].kind = "page"
    BY <1>1, <1>2, <2>1 DEF Brings, Agrees
  <2>2. CASE req[r].kind = "context"
    BY <1>1, <1>2, <2>2 DEF Brings
  <2> QED
    BY <1>2, <2>1, <2>2 DEF Brings
<1> QED
  BY <1>1, <1>2, StaysInStep DEF InFlight

\* What is answered with success is stored.
LEMMA RespondInStep ==
    ASSUME TypeInv, InStep, NEW r \in Reqs, RespondPage(r) \/ Respond(r) \/ RespondError(r)
    PROVE  InStep'
<1>1. /\ req[r].state = "running"
      /\ \A q \in Reqs : q # r => req'[q] = req[q]
      /\ req'[r].kind = req[r].kind /\ req'[r].tab = req[r].tab /\ ref' = ref
      /\ req[r].kind # "page" => req[r].changed
      /\ \/ /\ req'[r].state = "ok" /\ req'[r].new = req[r].new /\ disturbed' = disturbed
            /\ stored' = IF req[r].changed \/ writesBack THEN req[r].new ELSE stored
         \/ req'[r].state = "failed" /\ disturbed' = Tabs
  BY RespondEffect DEF TypeInv, StatesFit
<1>2. CASE req'[r].state = "failed" /\ disturbed' = Tabs
  BY <1>2 DEF InStep
<1>3. CASE /\ req'[r].state = "ok" /\ req'[r].new = req[r].new /\ disturbed' = disturbed
           /\ stored' = IF req[r].changed \/ writesBack THEN req[r].new ELSE stored
  <2>1. ASSUME NEW t \in Tabs, Brings(r, t) PROVE Brings(r, t)'
    <3>1. CASE req[r].kind = "page"
      BY <1>1, <1>3, <2>1, <3>1 DEF Brings, Agrees
    <3>2. CASE req[r].kind = "context"
      BY <1>1, <1>3, <2>1, <3>2 DEF Brings
    <3> QED
      BY <2>1, <3>1, <3>2 DEF Brings
  <2> QED
    BY <1>1, <1>3, <2>1, StaysInStep DEF InFlight
<1> QED
  BY <1>1, <1>2, <1>3

\* The answer that comes brings the tab what is stored, or leaves it there.
LEMMA ReceiveInStep ==
    ASSUME TypeInv, InStep, NEW r \in Reqs, Receive(r) \/ Lose(r)
    PROVE  InStep'
<1>1. CASE Lose(r)
  BY <1>1 DEF Lose, InStep
<1>2. CASE Receive(r)
  <2>1. /\ req[r].state \in {"ok", "failed", "refused"} /\ req'[r].state \in {"over", "lost"}
        /\ \A q \in Reqs : q # r => req'[q].state = req[q].state
        /\ UNCHANGED <<stored, disturbed>>
    BY <1>2, ReceiveEffect DEF Receive
  <2>2. ASSUME NEW t \in Tabs, Refreshes(r), req[r].tab = t PROVE ref'[t] = req[r].new
    BY <1>2, <2>2, CsrfAssumption DEF Receive, TypeInv, TypeOK
  <2>3. ASSUME NEW t \in Tabs, req[r].tab # t PROVE ref'[t] = ref[t]
    BY <1>2, <2>3 DEF Receive, TypeInv, TypeOK
  <2> SUFFICES ASSUME NEW t \in Tabs, t \notin disturbed
               PROVE  /\ Agrees(t)'
                      /\ \A q \in Reqs : req'[q].state \notin InFlight
    BY <2>1 DEF InStep
  <2>4. Brings(r, t) /\ \A q \in Reqs : req[q].state \in InFlight => q = r
    BY <2>1 DEF InStep, InFlight
  <2>5. \A q \in Reqs : req'[q].state \notin InFlight
    BY <2>1, <2>4 DEF InFlight
  <2>6. req[r].state = "ok" /\ req[r].new = stored /\ Refreshes(r)
    BY <2>1, <2>4 DEF Brings, Refreshes
  <2>7. CASE req[r].tab = t
    BY <2>1, <2>2, <2>5, <2>6, <2>7 DEF Agrees
  <2>8. CASE req[r].tab # t
    BY <2>1, <2>3, <2>4, <2>5, <2>8 DEF Agrees, Brings
  <2> QED
    BY <2>7, <2>8
<1> QED
  BY <1>1, <1>2

\* What is in step stays so.
LEMMA InStepHolds == Spec => []InStep
<1>1. Init => InStep
  BY DEF Init, InStep, Agrees, InFlight, Fresh
<1>2. TypeInv /\ InStep /\ [Next]_vars => InStep'
  <2> SUFFICES ASSUME TypeInv, InStep, [Next]_vars PROVE InStep'
    OBVIOUS
  <2>1. CASE Next
    BY <2>1, SendInStep, ServeInStep, RespondInStep, ReceiveInStep DEF Next, Sends
  <2>2. CASE UNCHANGED vars
    BY <2>2 DEF vars, InStep, Brings, Agrees, Quiet
  <2> QED
    BY <2>1, <2>2
<1> QED
  BY <1>1, <1>2, SecretHolds, PTL DEF Spec

\* A page followed only by requests of its SseContext, one at a time and all answered
\* with success, has the token its next request needs (csrf.rs, SseContext.tsx), for every
\* number of tabs and requests.
THEOREM InSyncHolds == Spec => []InSyncWhenUndisturbed
<1>1. InStep => InSyncWhenUndisturbed
  BY DEF InStep, InSyncWhenUndisturbed, Agrees
<1> QED
  BY <1>1, InStepHolds, PTL
=============================================================================
