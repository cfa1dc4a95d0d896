------------------------------ MODULE Conversation ------------------------------
(***************************************************************************)
(* A conversation over /v1/responses (responses in src/src/server.rs) that *)
(* is not streamed.  The proxy keeps nothing of it: with every request the *)
(* client sends all the items there are, those the proxy made of earlier   *)
(* answers among them, and the proxy translates all of them anew.          *)
(*                                                                         *)
(* What has been said is the history `said`, a sequence of units: a text,  *)
(* a call, or the result of the k-th call.                                 *)
(***************************************************************************)
EXTENDS Translation

CONSTANTS
    Words,     \* what a part of a content may say
    Roles,     \* roles of the client's messages
    Contents,  \* contents of its messages and instructions
    Outputs,   \* contents of its tool results
    Tools,     \* lists of tools a client may offer
    Says,      \* what an answer may say
    MaxTurns,  \* bound: requests in a conversation
    MaxItems,  \* bound: items in a conversation
    MaxCalls   \* bound: tool calls in an answer

\* The ids of calls, by the request, the place in its answer and who makes them.
Ids   == Nat \X Nat \X {"upstream", "proxy"}
Parts == [kind : {"text", "refusal", "image", "unsupported"}, say : Words]
CallRecords == [id : Ids \cup {None}, name : {"tool", None}, arguments : {"args", None}]

\* A client's own message instructs or is the user's; an assistant's has been
\* made by the proxy.  No calls are not a list of calls.
ASSUME ConversationAssumption ==
    /\ MaxTurns \in Nat /\ MaxItems \in Nat /\ MaxCalls \in Nat
    /\ Roles \subseteq {"user", "system", "developer"}
    /\ Contents \cup Outputs \cup Says \subseteq Seq(Parts)
    /\ None \notin Seq(CallRecords)

VARIABLES
    source,       \* where answers come from: direct or acp
    instructions, \* the client's instructions, or None
    tools,        \* the tools it offers
    items,        \* the client: the conversation as it knows it
    phase,        \* who is to go on: client, upstream or refused
    payload,      \* what has last been sent upstream
    context,      \* the identity of the session of the last request
    turn,         \* the requests made
    said          \* history: what has been said

vars == <<source, instructions, tools, items, phase, payload, context, turn, said>>

Unit(kind, role, content, call, result) ==
    [kind |-> kind, role |-> role, content |-> content, call |-> call, result |-> result]
Spoken(role, content) == Unit("text", role, content, None, 0)
Called(call)          == Unit("call", "assistant", <<>>, <<call.name, call.arguments>>, 0)
CalledIn(calls)       == FlattenSeq([p \in DOMAIN calls |->
                             OneIf(calls[p].name # None, Called(calls[p]))])
Result(content, k)    == Unit("result", "tool", content, None, k)

Init ==
    /\ source \in {"direct", "acp"}
    /\ instructions \in Contents \cup {None} /\ tools \in Tools
    /\ items = <<>> /\ phase = "client" /\ payload = None /\ context = None /\ turn = 0
    /\ said = IF instructions = None THEN <<>>
              ELSE <<Spoken("system", AsContent(TextFromContent(instructions)))>>

-----------------------------------------------------------------------------
(* The client *)

\* A message; the role is told as the chat API knows it.
Say(role, content) ==
    /\ phase = "client" /\ turn < MaxTurns /\ Len(items) < MaxItems
    /\ items' = Append(items, MessageItem(role, content))
    /\ said' = Append(said, Spoken(IF role = "developer" THEN "system" ELSE role,
                                   ChatContentFromResponses(content)))
    /\ UNCHANGED <<source, instructions, tools, phase, payload, context, turn>>

\* The calls among the items, and the result of the k-th of them.
CallsAmong(list) ==
    FlattenSeq([i \in DOMAIN list |-> OneIf(list[i].type = "function_call", list[i])])
Calls        == CallsAmong(items)
Answered(id) == \E i \in DOMAIN items :
                   items[i].type = "function_call_output" /\ items[i].call_id = id
Answer(k, content) ==
    /\ phase = "client" /\ turn < MaxTurns
    /\ ~Answered(Calls[k].call_id)
    /\ items' = Append(items, OutputItem(Calls[k].call_id, content))
    /\ said' = Append(said, Result(AsContent(TextFromContent(content)), k))
    /\ UNCHANGED <<source, instructions, tools, phase, payload, context, turn>>

\* An item of a type the proxy does not know, such as a reasoning.
Think ==
    /\ phase = "client" /\ turn < MaxTurns /\ Len(items) < MaxItems
    /\ items' = Append(items, [MessageItem("assistant", <<>>) EXCEPT !.type = "reasoning"])
    /\ UNCHANGED <<source, instructions, tools, phase, payload, context, turn, said>>

-----------------------------------------------------------------------------
(* The proxy and its upstream *)

\* responses: the request is translated and routed, or refused.
Ask ==
    /\ phase = "client" /\ turn < MaxTurns
    /\ turn' = turn + 1
    /\ IF Acceptable(items) /\ (source = "acp" => tools = <<>>)
       THEN /\ payload' = BuildChatPayload(instructions, items, tools)
            /\ context' = StableContextText(payload'.messages)
            /\ phase' = "upstream"
       ELSE phase' = "refused" /\ UNCHANGED <<payload, context>>
    /\ UNCHANGED <<source, instructions, tools, items, said>>

\* The upstream answers with a text and tool calls, which the agent transport
\* has none of (chat_result); a refusal is a text.
Made(n) == [p \in 1..n |-> <<turn, p, "proxy">>]
Reply(message) ==
    /\ phase = "upstream"
    /\ source = "acp" => message.tool_calls = None
    /\ LET calls == ToolCalls(message)
           text  == TextFromContent(message.content)
       IN  /\ \A p \in DOMAIN calls : calls[p].name # None =>
                 \E q \in DOMAIN payload.tools : payload.tools[q].name = calls[p].name
           /\ items' = items \o ResponseOutputItems(message, Made(Len(calls)))
           /\ said' = said \o OneIf(text # <<>>, Spoken("assistant", AsContent(text)))
                           \o CalledIn(calls)
    /\ phase' = "client"
    /\ UNCHANGED <<source, instructions, tools, payload, context, turn>>

\* The upstream or the agent fails, which the client is told; it may ask again.
NoReply ==
    /\ phase = "upstream" /\ phase' = "client"
    /\ UNCHANGED <<source, instructions, tools, items, payload, context, turn, said>>

\* The upstream's answers: the ids in them are new, or missing.
NewCalls(n) ==
    {[p \in 1..n |-> ToolCall(IF p \in ids THEN <<turn, p, "upstream">> ELSE None,
                              IF p \in named THEN "tool" ELSE None, "args")] :
        ids \in SUBSET (1..n), named \in SUBSET (1..n)}
Replies ==
    {Message("assistant", content, calls, None) :
        content \in Says, calls \in {None} \cup UNION {NewCalls(n) : n \in 0..MaxCalls}}

-----------------------------------------------------------------------------
Next ==
    \/ \E role \in Roles, content \in Contents : Say(role, content)
    \/ \E k \in DOMAIN Calls, content \in Outputs : Answer(k, content)
    \/ Think \/ Ask \/ NoReply
    \/ \E message \in Replies : Reply(message)

Spec == Init /\ [][Next]_vars

-----------------------------------------------------------------------------
(* Properties *)

\* What a list of chat messages says: the result of a call is that of the last
\* call with its id before it.
CallsIn(chat) == FlattenSeq([i \in DOMAIN chat |-> ToolCalls(chat[i])])
ResultFor(calls, id) == Max({k \in DOMAIN calls : calls[k].id = id} \cup {0})
UnitsOf(before, message) ==
    IF message.role = "tool"
    THEN <<Result(message.content, ResultFor(CallsIn(before), message.tool_call_id))>>
    ELSE OneIf(message.role # "assistant" \/ message.content # <<>>,
               Spoken(message.role, message.content))
         \o [p \in DOMAIN ToolCalls(message) |-> Called(ToolCalls(message)[p])]
UnitsIn(chat) == FlattenSeq([i \in DOMAIN chat |-> UnitsOf(SubSeq(chat, 1, i - 1), chat[i])])

\* The part of it for an agent, who has instructions of its own and gets text.
ForAgent(units) ==
    FlattenSeq([i \in DOMAIN units |->
        OneIf(units[i].role # "system",
              [units[i] EXCEPT !.content = AsContent(TextFromContent(@))])])

\* In every turn the upstream is told all that has been said, by everybody, in
\* order and once, the results with the calls they belong to, though it went
\* through two translations and the client; but a call without a name, the
\* images of a result, and for an agent instructions and images.
Heard ==
    phase = "upstream" /\ said # <<>> =>
       IF source = "direct" THEN UnitsIn(payload.messages) = said
       ELSE UnitsIn(SerializeMessages(payload.messages)) = ForAgent(said)

\* From the first request with a message of the user on, a conversation stays
\* in its automatic session, whatever is added to it.
UserHeard == payload # None /\ \E i \in DOMAIN payload.messages :
    payload.messages[i].role = "user" /\ payload.messages[i].content # <<>>
SameSession == [][UserHeard => context' = context]_vars
=============================================================================
