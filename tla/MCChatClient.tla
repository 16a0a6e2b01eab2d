---------------------------- MODULE MCChatClient ----------------------------
(* Small instances of ChatClient: tasks and requests are interchangeable;  *)
(* conversations are not, as some are known from earlier visits.           *)
EXTENDS ChatClient, FiniteSets, TLC

Symmetry == Permutations(Tasks) \cup Permutations(Requests)

Used == {t \in Tasks : stream[t] # "unused"}

Asked == {r \in Requests : asker[r] # None}

\* What happens after two queries have been mixed is not followed: the safety
\* that the page has then is that of ComposerLock's exceptions. Two queries
\* are followed through one page load or visit to another tab, with shorter
\* batches and no questions; two questions of one query through two loads or
\* visits, without texts and uploads; a single query with a single question
\* through all that MaxMoves allows.
Bounded ==
    /\ ~mixed
    /\ Cardinality(Used) > 1 => moves <= 1 /\ Len(queue) <= 2 /\ Asked = {}
    /\ Cardinality(Asked) > 1 => moves <= 2 /\ texts = 0 /\ calls = {}
=============================================================================
