---------------------------- MODULE StreamRecord ----------------------------
(***************************************************************************)
(* What a reload shows of the query of MessageStream, by way of the        *)
(* session's transcript and utils/transcript.ts, and that it is what the   *)
(* page has shown live.                                                    *)
(***************************************************************************)
EXTENDS MessageStream

\* A message as it is seen, live or rebuilt.
Seen(kind, tool, text, result) ==
    [kind |-> kind, tool |-> tool, text |-> text, result |-> result]

\* The message of a block of the assistant; AskUserQuestion is the name of a tool.
Rebuilt(block) ==
    IF block.kind \in {"tool", "question"} THEN Seen(block.kind, block.n, <<>>, FALSE)
    ELSE Seen(block.kind, None, Whole(block.n), FALSE)

\* The tools a content has results of.
Results(content) == {block.n : block \in {b \in Range(content) : b.kind = "result"}}

\* An entry of the record: a result of the user's role completes the message of its
\* tool, which toolIdToIndex finds; a block of the assistant's is a message.
AddEntry(ms, entry) ==
    IF entry.role = "user"
    THEN [i \in DOMAIN ms |-> IF ms[i].tool \in Results(entry.content)
                              THEN [ms[i] EXCEPT !.result = TRUE] ELSE ms[i]]
    ELSE ms \o [i \in DOMAIN entry.content |-> Rebuilt(entry.content[i])]

BuildMessagesFromTranscript ==
    LET built[k \in 0..Len(transcript)] ==
            IF k = 0 THEN <<>> ELSE AddEntry(built[k-1], transcript[k])
    IN  built[Len(transcript)]

-----------------------------------------------------------------------------
(* Safety.                                                                 *)

AllShown == query = "over" /\ wire = <<>>

Live == [i \in DOMAIN messages |-> Seen(messages[i].kind, messages[i].tool,
                                        messages[i].text, messages[i].result)]

\* The messages of ms that are of these kinds, in their order.
OfKinds(ms, kinds) ==
    LET upTo[k \in 0..Len(ms)] ==
            IF k = 0 THEN <<>>
            ELSE IF ms[k].kind \in kinds THEN Append(upTo[k-1], ms[k]) ELSE upTo[k-1]
    IN  upTo[Len(ms)]

\* What the page rebuilds from the record of these kinds, as it is to be seen live:
\* without the results where the SDK's objects have no `type`.
Expected(kinds) ==
    LET shown == OfKinds(BuildMessagesFromTranscript, kinds)
    IN  [i \in DOMAIN shown |-> [shown[i] EXCEPT !.result = @ /\ typed]]

Has(i, kind) == \E block \in Range(transcript[i].content) : block.kind = kind

\* Tools are announced twice when their message was streamed and no text of the
\* query was before it, or in it.
ToolsDoubled ==
    streamed /\ \E i \in DOMAIN transcript :
        Has(i, "tool") /\ \A j \in 1..i : ~Has(j, "text")

\* agent.py:330: "to avoid duplicates". When a query is over, the page shows what
\* it would show after a reload: every text once, in its place among the tools, each
\* tool with its result; but for the thinking, the questions, the results that
\* Expected leaves out, and tools announced twice.
ShownAsRecorded ==
    AllShown => /\ OfKinds(Live, {"text"}) = Expected({"text"})
                /\ ~ToolsDoubled => Live = Expected({"text", "tool"})
=============================================================================
