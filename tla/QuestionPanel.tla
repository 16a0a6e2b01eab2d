--------------------------- MODULE QuestionPanel ---------------------------
(***************************************************************************)
(* The panel that asks the user: AskUserQuestionPanel.tsx, where           *)
(* ChatInterface.tsx shows it.                                             *)
(*                                                                         *)
(* The panel is shown while the conversation in view has a request         *)
(* pending, and it has no key: when the request is replaced by another, or *)
(* the user moves between two conversations that both have one, the same   *)
(* component goes on with the state it has.                                *)
(***************************************************************************)
EXTENDS Naturals, Sequences, FiniteSets

CONSTANTS
    Convs, NoConv,          \* conversations; the new chat
    Requests, NoRequest,
    Questions,      \* of a request, a sequence of questions: is it multiSelect?
    Options,        \* labels, the same for every question
    Other           \* the free text of "Other..."

ASSUME PanelAssumption ==
    /\ NoConv \notin Convs /\ NoRequest \notin Requests /\ Other \notin Options
    /\ Questions \in [Requests -> Seq(BOOLEAN) \ {<<>>}]
    /\ \E r \in Requests : \A q \in Requests : Len(Questions[q]) <= Len(Questions[r])

VARIABLES
    view,       \* viewConversationId
    pending,    \* pendingQuestionsBySession
    stored,     \* localStorage question_*: requests with their conversations
    step, selections, otherActive, otherTexts,      \* the component's state
    answered,   \* requests answered or skipped
    carried     \* history: the panel shows another request than it opened with

panelState == <<step, selections, otherActive, otherTexts>>
panelVars == <<view, pending, stored, panelState, answered, carried>>

\* The request shown for a view: the composer is hidden while there is one.
ShownAt(v, p) == IF v = NoConv THEN NoRequest ELSE p[v]
Shown == ShownAt(view, pending)

\* Rendering a panel beyond the last question reads a property of undefined:
\* ErrorBoundary replaces the page.
Crashed == Shown # NoRequest /\ step > Len(Questions[Shown])

MaxQuestions ==
    CHOOSE n \in {Len(Questions[r]) : r \in Requests} :
        \A r \in Requests : Len(Questions[r]) <= n
Steps == 1..MaxQuestions

PanelTypeOK ==
    /\ view \in Convs \cup {NoConv}
    /\ pending \in [Convs -> Requests \cup {NoRequest}]
    /\ stored \subseteq Requests \X Convs
    /\ step \in Steps
    /\ selections \in [Steps -> SUBSET Options]
    /\ otherActive \in [Steps -> BOOLEAN] /\ otherTexts \in [Steps -> BOOLEAN]
    /\ answered \subseteq Requests /\ carried \in BOOLEAN

Nothing == [k \in Steps |-> {}]
Off == [k \in Steps |-> FALSE]

PanelInit ==
    /\ view = NoConv /\ pending = [c \in Convs |-> NoRequest] /\ stored = {}
    /\ step = 1 /\ selections = Nothing /\ otherActive = Off /\ otherTexts = Off
    /\ answered = {} /\ carried = FALSE

\* Bug: the panel is kept when it is not shown, with all its state.
Render_Keeps ==
    /\ UNCHANGED panelState
    /\ carried' = FALSE

\* The next render: the panel mounts or unmounts, or stays with its state.
Render ==
    LET now == ShownAt(view', pending')
    IN  IF Shown # NoRequest /\ now # NoRequest
        THEN /\ UNCHANGED panelState
             /\ carried' = (carried \/ now # Shown)
        ELSE /\ step' = 1 /\ selections' = Nothing /\ otherActive' = Off /\ otherTexts' = Off
             /\ carried' = FALSE

-----------------------------------------------------------------------------
(* What is pending, and what is in view.                                   *)

\* ask_user_question: the request is pending, and stored.
AskUser(c, r) ==
    /\ pending' = [pending EXCEPT ![c] = r]
    /\ stored' = stored \cup {<<r, c>>}
    /\ UNCHANGED <<view, answered>>
    /\ Render

\* The end of a query: its question goes, and one of those stored with it.
EndOfQuery(c) ==
    /\ pending' = [pending EXCEPT ![c] = NoRequest]
    /\ IF \E r \in Requests : <<r, c>> \in stored
       THEN \E r \in Requests : <<r, c>> \in stored /\ stored' = stored \ {<<r, c>>}
       ELSE UNCHANGED stored
    /\ UNCHANGED <<view, answered>>
    /\ Render

\* A conversation is selected: one of its stored questions is pending again.
Select(c) ==
    /\ c # view
    /\ view' = c
    /\ IF \E r \in Requests : <<r, c>> \in stored
       THEN \E r \in Requests : <<r, c>> \in stored /\ pending' = [pending EXCEPT ![c] = r]
       ELSE UNCHANGED pending
    /\ UNCHANGED <<stored, answered>>
    /\ Render

NewChat ==
    /\ view' = NoConv
    /\ UNCHANGED <<pending, stored, answered>>
    /\ Render

-----------------------------------------------------------------------------
(* The user answers.                                                       *)

OnPanel == Shown # NoRequest /\ ~Crashed
Multi == Questions[Shown][step]
Last == Len(Questions[Shown])
elsewhere == <<view, pending, stored, answered, carried>>

\* Bug: another option of a single choice leaves "Other..." as it is.
ToggleOption_KeepsOther(o) ==
    /\ OnPanel
    /\ selections' = [selections EXCEPT ![step] =
            IF ~Multi THEN {o} ELSE IF o \in @ THEN @ \ {o} ELSE @ \cup {o}]
    /\ UNCHANGED <<step, otherActive, otherTexts, elsewhere>>

ToggleOption(o) ==
    /\ OnPanel
    /\ selections' = [selections EXCEPT ![step] =
            IF ~Multi THEN {o} ELSE IF o \in @ THEN @ \ {o} ELSE @ \cup {o}]
    /\ otherActive' = [otherActive EXCEPT ![step] = Multi /\ @]
    /\ UNCHANGED <<step, otherTexts, elsewhere>>

ToggleOther ==
    /\ OnPanel
    /\ otherActive' = [otherActive EXCEPT ![step] = ~@]
    /\ selections' = [selections EXCEPT ![step] =
            IF ~Multi /\ ~otherActive[step] THEN {} ELSE @]
    /\ UNCHANGED <<step, otherTexts, elsewhere>>

\* The text of "Other..." is written, or erased.
TypeOther ==
    /\ OnPanel /\ otherActive[step]
    /\ otherTexts' = [otherTexts EXCEPT ![step] = ~@]
    /\ UNCHANGED <<step, selections, otherActive, elsewhere>>

\* Bug: Next is there on the last question too.
Move_PastEnd ==
    /\ OnPanel
    /\ step' \in (1..(Last + 1)) \ {step}
    /\ UNCHANGED <<selections, otherActive, otherTexts, elsewhere>>

\* Next, Back, or one of the dots.
Move ==
    /\ OnPanel
    /\ step' \in (1..Last) \ {step}
    /\ UNCHANGED <<selections, otherActive, otherTexts, elsewhere>>

BuildAnswers ==
    [k \in 1..Last |->
        selections[k] \cup (IF otherActive[k] /\ otherTexts[k] THEN {Other} ELSE {})]

\* handleAnswerQuestion and handleSkipQuestion: the panel closes, the stored
\* question goes, and BuildAnswers, or nothing, is posted.
Answer ==
    /\ OnPanel
    /\ answered' = answered \cup {Shown}
    /\ pending' = [pending EXCEPT ![view] = NoRequest]
    /\ stored' = {q \in stored : q[1] # Shown}
    /\ UNCHANGED view
    /\ Render

UsePanel ==
    \/ \E o \in Options : ToggleOption(o)
    \/ ToggleOther \/ TypeOther \/ Move \/ Answer

-----------------------------------------------------------------------------
\* The panel never stands beyond the last question, which would replace the
\* page by the error screen, but where it was handed a request with fewer
\* questions than the one it stood in.
PanelFits == Crashed => carried

\* Whatever the user toggles and in whatever order, what the panel would post
\* answers a question with a single choice by one option or one text at most,
\* unless the panel was handed from one request to another on the way.
OneChoice ==
    OnPanel /\ ~carried =>
        \A k \in 1..Last :
            Questions[Shown][k] \/ Cardinality(BuildAnswers[k]) <= 1

\* docs/chat-architecture.md:199: "On conversation switch:
\* getQuestionsForConversation(conversationId) scans localStorage for matching
\* question_* entries and restores the panel."
SwitchRestoresPanel ==
    [][\A c \in Convs :
            Select(c) /\ (\E r \in Requests : <<r, c>> \in stored)
                => <<Shown', c>> \in stored /\ ~Crashed']_panelVars
=============================================================================
