--------------------------- MODULE MessageStream ---------------------------
(***************************************************************************)
(* What one query says, live from the SDK to the screen, by way of         *)
(* rootfs/agent.py (process_stream_event, process_agent_event) and the     *)
(* handlers of useSseHandlers.ts. (StreamRecord has what a reload shows of *)
(* it.)                                                                    *)
(*                                                                         *)
(* A message of the assistant is a sequence of blocks, numbered through    *)
(* the query; the number of a tool's block is its id. The text of block n  *)
(* comes in two chunks, so it is <<n, n>> once it is complete. Inputs of   *)
(* tools and contents of results are left out.                             *)
(*                                                                         *)
(* External (claude_agent_sdk): whether a query's messages are streamed    *)
(* before they are delivered whole, and whether its messages and blocks    *)
(* have the attributes `type` and `message`; agent.py provides for both.   *)
(* The blocks of a message are streamed one after the other, and none is   *)
(* empty.                                                                  *)
(***************************************************************************)
EXTENDS Sequences, Functions

CONSTANTS
    MaxBlocks,  \* bound: blocks of a query
    MaxLength,  \* bound: blocks of a message
    MaxWire,    \* bound: events between agent and page
    None

ASSUME StreamAssumption ==
    /\ MaxBlocks \in Nat
    /\ MaxLength \in Nat
    /\ MaxWire \in Nat
    /\ None \notin Nat

VARIABLES
    streamed,   \* SDK: StreamEvents come first
    typed,      \* SDK: messages and blocks have `type` and `message`
    message,    \* SDK: the assistant's current message
    at,         \* SDK: blocks of it whose streaming is over
    due,        \* SDK: tools that run
    transcript, \* SDK: the session's record, as /chat-transcript returns it
    open,       \* block_types: chunks of the block that is being streamed
    emitted,    \* emitted_streaming_text
    query,      \* "running", "over" or, after an exception, "failed"
    wire,       \* events written and not yet handled
    messages,   \* messagesBySession of the conversation
    nextId,     \* generateId
    thinking,   \* thinkingMsgId
    assistant,  \* assistantMsgId
    card        \* toolIdToMsgId

sdkVars == <<streamed, typed, message, at, due, transcript>>
agentVars == <<open, emitted, query>>
pageVars == <<messages, nextId, thinking, assistant, card>>
vars == <<streamed, typed, message, at, due, transcript, open, emitted, query, wire,
          messages, nextId, thinking, assistant, card>>

Numbers == 1..MaxBlocks
Kinds == {"thinking", "text", "tool", "question"}
Blocks == [kind : Kinds \cup {"result"}, n : Numbers]
Whole(n) == <<n, n>>

Texts == UNION {[1..k -> Numbers] : k \in 0..2}

\* Events as the page tells them apart; n is a tool's id.
Events == [kind : {"init", "thinking_delta", "text_delta", "tool_start", "tool_result",
                   "ask_user_question", "error_event", "done"},
           n : Numbers \cup {None}, text : Texts]

\* Messages of the page.
ChatMessages == [id : Nat, kind : {"thinking", "text", "tool", "error"},
                 tool : Numbers \cup {None}, text : Texts, result : BOOLEAN]

\* Types; the page's current bubble and current text are messages it has.
TypeOK ==
    /\ streamed \in BOOLEAN
    /\ typed \in BOOLEAN
    /\ message \in Seq(Blocks)
    /\ at \in 0..Len(message)
    /\ due \subseteq Blocks
    /\ transcript \in Seq([role : {"user", "assistant"}, content : Seq(Blocks)])
    /\ open \in 0..2 \cup {None}
    /\ emitted \in BOOLEAN
    /\ query \in {"running", "over", "failed"}
    /\ wire \in Seq(Events)
    /\ messages \in Seq(ChatMessages)
    /\ nextId \in Nat
    /\ card \in [Numbers -> Nat \cup {None}]
    /\ \A id \in {thinking, assistant} \ {None} : \E i \in DOMAIN messages : messages[i].id = id

\* (The prompt, the first message on the page and in the record, is left out.)
Init ==
    /\ streamed \in BOOLEAN
    /\ typed \in BOOLEAN
    /\ message = <<>>
    /\ at = 0
    /\ due = {}
    /\ transcript = <<>>
    /\ open = None
    /\ emitted = FALSE
    /\ query = "running"
    /\ wire = <<>>
    /\ messages = <<>>
    /\ nextId = 0
    /\ thinking = None
    /\ assistant = None
    /\ card = [n \in Numbers |-> None]

-----------------------------------------------------------------------------
(* The SDK and agent.py.                                                   *)

Event(kind, n, text) == [kind |-> kind, n |-> n, text |-> text]

Emit(events) ==
    /\ Len(wire) < MaxWire
    /\ wire' = wire \o events

\* The blocks of the record.
Written == UNION {Range(transcript[i].content) : i \in DOMAIN transcript}

\* The model decides on its next message, once its tools have run.
NextMessage(kinds, used) ==
    /\ query = "running"
    /\ message = <<>>
    /\ due = {}
    /\ {block.n : block \in Written} = 1..used
    /\ used + Len(kinds) <= MaxBlocks
    /\ message' = [i \in DOMAIN kinds |-> [kind |-> kinds[i], n |-> used + i]]
    /\ UNCHANGED <<streamed, typed, at, due, transcript, agentVars, wire, pageVars>>

\* The block that is streamed next, or now.
Streaming == query = "running" /\ streamed /\ at < Len(message)

\* process_block_start: a text block begins with init.
ProcessBlockStart ==
    /\ Streaming
    /\ open = None
    /\ open' = 0
    /\ IF message[at + 1].kind = "text"
       THEN Emit(<<Event("init", None, <<>>)>>) /\ emitted' = TRUE
       ELSE UNCHANGED <<wire, emitted>>
    /\ UNCHANGED <<sdkVars, query, pageVars>>

\* process_block_delta, with some text or thinking. (The input of a tool
\* accumulates; an empty delta does nothing.)
ProcessBlockDelta ==
    LET block == message[at + 1]
    IN  /\ Streaming
        /\ open \in {0, 1}
        /\ \/ /\ block.kind = "text"
              /\ Emit(<<Event("text_delta", None, <<block.n>>)>>)
              /\ emitted' = TRUE
           \/ /\ block.kind = "thinking"
              /\ Emit(<<Event("thinking_delta", None, <<block.n>>)>>)
              /\ UNCHANGED emitted
        /\ open' = open + 1
        /\ UNCHANGED <<sdkVars, query, pageVars>>

\* process_block_stop: a tool is announced when its input is complete, but for
\* AskUserQuestion.
ProcessBlockStop ==
    LET block == message[at + 1]
    IN  /\ Streaming
        /\ open = IF block.kind \in {"text", "thinking"} THEN 2 ELSE 0
        /\ open' = None
        /\ at' = at + 1
        /\ IF block.kind = "tool" THEN Emit(<<Event("tool_start", block.n, <<>>)>>)
           ELSE UNCHANGED wire
        /\ UNCHANGED <<streamed, typed, message, due, transcript, emitted, query, pageVars>>

\* emit_assistant_block.
BlockEvents(block) ==
    CASE block.kind = "text"     -> <<Event("init", None, <<>>),
                                      Event("text_delta", None, Whole(block.n))>>
      [] block.kind = "thinking" -> <<Event("thinking_delta", None, Whole(block.n))>>
      [] block.kind = "tool"     -> <<Event("tool_start", block.n, <<>>)>>
      [] block.kind = "question" -> <<>>

\* emit_assistant_block for one block after the other.
AllBlockEvents(content) ==
    LET upTo[k \in 0..Len(content)] ==
            IF k = 0 THEN <<>> ELSE upTo[k-1] \o BlockEvents(content[k])
    IN  upTo[Len(content)]

\* Bug: what was streamed is not skipped.
ContentEvents_Always(content) == AllBlockEvents(content)

\* process_assistant_event: the whole message is skipped once a text of this
\* query was streamed.
ContentEvents(content) == IF emitted THEN <<>> ELSE AllBlockEvents(content)

\* An AssistantMessage; its tools start to run.
ProcessAssistantEvent ==
    /\ query = "running"
    /\ message # <<>>
    /\ streamed => at = Len(message)
    /\ Emit(ContentEvents(message))
    /\ transcript' = Append(transcript, [role |-> "assistant", content |-> message])
    /\ due' = {block \in Range(message) : block.kind \in {"tool", "question"}}
    /\ message' = <<>>
    /\ at' = 0
    /\ UNCHANGED <<streamed, typed, agentVars, pageVars>>

\* ask_user_question_hook. (Agent models when it waits and for whom.)
AskUserQuestion(block) ==
    /\ query = "running"
    /\ block \in due
    /\ block.kind = "question"
    /\ Emit(<<Event("ask_user_question", block.n, <<>>)>>)
    /\ due' = (due \ {block}) \cup {[block EXCEPT !.kind = "tool"]}
    /\ UNCHANGED <<streamed, typed, message, at, transcript, agentVars, pageVars>>

\* process_user_event: the result of a tool. Without a `message` it has, or a
\* `type` its block has, nothing is emitted.
ProcessUserEvent(block) ==
    /\ query = "running"
    /\ block \in due
    /\ block.kind = "tool"
    /\ IF typed THEN Emit(<<Event("tool_result", block.n, <<>>)>>) ELSE UNCHANGED wire
    /\ transcript' = Append(transcript, [role |-> "user",
                        content |-> <<[kind |-> "result", n |-> block.n]>>])
    /\ due' = due \ {block}
    /\ UNCHANGED <<streamed, typed, message, at, agentVars, pageVars>>

\* The stream of run_query ends.
Finish ==
    /\ query = "running"
    /\ message = <<>>
    /\ due = {}
    /\ query' = "over"
    /\ Emit(<<Event("done", None, <<>>)>>)
    /\ UNCHANGED <<sdkVars, open, emitted, pageVars>>

\* It raises, at any time.
Fail ==
    /\ query = "running"
    /\ query' = "failed"
    /\ Emit(<<Event("error_event", None, <<>>), Event("done", None, <<>>)>>)
    /\ UNCHANGED <<sdkVars, open, emitted, pageVars>>

-----------------------------------------------------------------------------
(* useSseHandlers.ts: handleEvent, and useChatState.ts.                    *)

Take(kind) ==
    /\ wire # <<>>
    /\ Head(wire).kind = kind
    /\ wire' = Tail(wire)

NewMessage(kind, tool, text) ==
    [id |-> nextId, kind |-> kind, tool |-> tool, text |-> text, result |-> FALSE]

\* updateMessageById, with the two updates there are: a text is appended, a result set.
UpdateMessageById(ms, id, text, result) ==
    [i \in DOMAIN ms |-> IF ms[i].id = id
                         THEN [ms[i] EXCEPT !.text = @ \o text, !.result = @ \/ result]
                         ELSE ms[i]]

Without(ms, i) == [k \in 1..Len(ms) - 1 |-> IF k < i THEN ms[k] ELSE ms[k+1]]

\* sealThinking, the messages it leaves: without the current bubble if that is
\* empty.
WithoutEmptyBubble ==
    LET empty == {i \in DOMAIN messages : messages[i].id = thinking /\ messages[i].text = <<>>}
    IN  IF empty = {} THEN messages ELSE Without(messages, CHOOSE i \in empty : TRUE)

\* Bug: init begins no new text.
HandleInit_SameText ==
    /\ Take("init")
    /\ messages' = Append(messages, NewMessage("thinking", None, <<>>))
    /\ nextId' = nextId + 1
    /\ thinking' = nextId
    /\ UNCHANGED <<sdkVars, agentVars, assistant, card>>

HandleInit ==
    /\ Take("init")
    /\ messages' = Append(messages, NewMessage("thinking", None, <<>>))
    /\ nextId' = nextId + 1
    /\ thinking' = nextId
    /\ assistant' = None
    /\ UNCHANGED <<sdkVars, agentVars, card>>

HandleThinkingDelta ==
    /\ Take("thinking_delta")
    /\ messages' = UpdateMessageById(messages, thinking, Head(wire).text, FALSE)
    /\ UNCHANGED <<sdkVars, agentVars, nextId, thinking, assistant, card>>

HandleTextDelta ==
    /\ Take("text_delta")
    /\ thinking' = None
    /\ \/ /\ assistant = None
          /\ messages' = Append(WithoutEmptyBubble, NewMessage("text", None, Head(wire).text))
          /\ nextId' = nextId + 1
          /\ assistant' = nextId
       \/ /\ assistant # None
          /\ messages' = UpdateMessageById(WithoutEmptyBubble, assistant, Head(wire).text, FALSE)
          /\ UNCHANGED <<nextId, assistant>>
    /\ UNCHANGED <<sdkVars, agentVars, card>>

HandleToolStart ==
    /\ Take("tool_start")
    /\ thinking' = None
    /\ assistant' = None
    /\ messages' = Append(WithoutEmptyBubble, NewMessage("tool", Head(wire).n, <<>>))
    /\ nextId' = nextId + 1
    /\ card' = [card EXCEPT ![Head(wire).n] = nextId]
    /\ UNCHANGED <<sdkVars, agentVars>>

HandleToolResult ==
    /\ Take("tool_result")
    /\ messages' = UpdateMessageById(messages, card[Head(wire).n], <<>>, TRUE)
    /\ UNCHANGED <<sdkVars, agentVars, nextId, thinking, assistant, card>>

HandleAskUserQuestion ==
    /\ Take("ask_user_question")
    /\ thinking' = None
    /\ assistant' = None
    /\ messages' = WithoutEmptyBubble
    /\ UNCHANGED <<sdkVars, agentVars, nextId, card>>

HandleDone ==
    /\ Take("done")
    /\ thinking' = None
    /\ assistant' = None
    /\ messages' = WithoutEmptyBubble
    /\ card' = [n \in Numbers |-> None]
    /\ UNCHANGED <<sdkVars, agentVars, nextId>>

\* The current bubble is forgotten, not sealed.
HandleErrorEvent ==
    /\ Take("error_event")
    /\ thinking' = None
    /\ assistant' = None
    /\ messages' = Append(messages, NewMessage("error", None, <<>>))
    /\ nextId' = nextId + 1
    /\ card' = [n \in Numbers |-> None]
    /\ UNCHANGED <<sdkVars, agentVars>>

-----------------------------------------------------------------------------
\* Bound: the lengths of messages.
Contents == UNION {[1..k -> Kinds] : k \in 1..MaxLength}

Next ==
    \/ \E kinds \in Contents, used \in 0..MaxBlocks : NextMessage(kinds, used)
    \/ ProcessBlockStart \/ ProcessBlockDelta \/ ProcessBlockStop
    \/ ProcessAssistantEvent
    \/ \E block \in due : AskUserQuestion(block) \/ ProcessUserEvent(block)
    \/ Finish \/ Fail
    \/ HandleInit \/ HandleThinkingDelta \/ HandleTextDelta \/ HandleToolStart
    \/ HandleToolResult \/ HandleAskUserQuestion \/ HandleDone \/ HandleErrorEvent

Spec == Init /\ [][Next]_vars

-----------------------------------------------------------------------------
(* Safety.                                                                 *)

\* The texts the SDK has produced, with those of the message it is producing.
Produced == {block.n : block \in {b \in Written \cup Range(message) : b.kind = "text"}}

\* The block a text of the page is from.
Number(i) == Head(messages[i].text)

\* At any time, also when the query fails, each text on the page is one that was
\* produced, in that order and none left out between, and all but the last of them
\* are complete: deltas are neither appended to a text before them nor split or
\* repeated.
TextsAsProduced ==
    LET texts == {i \in DOMAIN messages : messages[i].kind = "text"}
    IN  /\ \A i \in texts : Number(i) \in Produced
        /\ \A i \in texts : messages[i].text \in {<<Number(i)>>, Whole(Number(i))}
        /\ \A i, j \in texts : i < j =>
              Number(i) < Number(j) /\ messages[i].text = Whole(Number(i))
        /\ \A i \in texts, n \in Produced : n < Number(i) => \E j \in texts : Number(j) = n
=============================================================================
