------------------------------ MODULE Translation ------------------------------
(***************************************************************************)
(* Between the Responses API and the chat API (src/src/openai.rs), the     *)
(* prompt of the agent transport (src/src/acp.rs) and the identity of a    *)
(* conversation (src/src/session_store.rs).                                *)
(*                                                                         *)
(* A content is a sequence of parts, a string being one part of text, and a*)
(* null none.  What a part says is opaque, and a text is the sequence of   *)
(* what its parts say.  JSON values have the form the client and the       *)
(* upstream give them: fields of a wrong type are left out.                *)
(***************************************************************************)
EXTENDS Naturals, Sequences, SequencesExt

CONSTANT None

\* One x if it passes a test, else none: a list filtered is its elements flattened.
OneIf(test, x) == IF test THEN <<x>> ELSE <<>>

Part(kind, say) == [kind |-> kind, say |-> say]

\* An item of the Responses API: a message, a function call or its output.
MessageItem(role, content) ==
    [type |-> "message", role |-> role, content |-> content, call_id |-> None,
     name |-> None, arguments |-> None]
CallItem(call_id, name, arguments) ==
    [type |-> "function_call", role |-> None, content |-> <<>>, call_id |-> call_id,
     name |-> name, arguments |-> arguments]
OutputItem(call_id, content) ==
    [type |-> "function_call_output", role |-> None, content |-> content,
     call_id |-> call_id, name |-> None, arguments |-> None]

\* A message of the chat API, and a tool call in it.
Message(role, content, tool_calls, tool_call_id) ==
    [role |-> role, content |-> content, tool_calls |-> tool_calls,
     tool_call_id |-> tool_call_id]
ToolCall(id, name, arguments) == [id |-> id, name |-> name, arguments |-> arguments]

-----------------------------------------------------------------------------
(* Contents *)

\* text_from_content: what the texts and refusals say; the rest is dropped.
Textual(part) == part.kind \in {"text", "refusal"}
TextFromContent(content) ==
    FlattenSeq([i \in DOMAIN content |-> OneIf(Textual(content[i]), content[i].say)])

\* chat_content_from_responses, an error if a part is none that the proxy can
\* pass on: a local image, a file or a type it does not know.
Supported(content) == \A i \in DOMAIN content : content[i].kind # "unsupported"
ChatContentFromResponses(content) ==
    [i \in DOMAIN content |-> IF content[i].kind = "refusal"
                              THEN Part("text", content[i].say) ELSE content[i]]

\* A text as a content.
AsContent(text) == [i \in DOMAIN text |-> Part("text", text[i])]

-----------------------------------------------------------------------------
(* From the Responses API to the chat API *)

\* The message of one item.  Of a result only the text is passed on.
MessageOf(item) ==
    IF item.type = "message"
    THEN Message(IF item.role = "developer" THEN "system" ELSE item.role,
                 ChatContentFromResponses(item.content), None, None)
    ELSE IF item.type = "function_call"
    THEN Message("assistant", <<>>, <<ToolCall(item.call_id, item.name, item.arguments)>>, None)
    ELSE Message("tool", AsContent(TextFromContent(item.content)), None, item.call_id)

\* responses_input_to_messages: the instructions, then the items but those of a
\* type it does not know; never no message at all.
Known(item) == item.type \in {"message", "function_call", "function_call_output"}
InputMessages(instructions, items) ==
    OneIf(instructions # None,
          Message("system", AsContent(TextFromContent(instructions)), None, None))
    \o FlattenSeq([i \in DOMAIN items |-> OneIf(Known(items[i]), MessageOf(items[i]))])
ResponsesInputToMessages(instructions, items) ==
    LET all == InputMessages(instructions, items)
    IN  IF all = <<>> THEN <<Message("user", <<>>, None, None)>> ELSE all

\* Whether it returns no error.
Acceptable(items) ==
    \A i \in DOMAIN items : items[i].type = "message" => Supported(items[i].content)

\* responses_tools_to_chat: the functions that have a name, in order, whether it
\* is in an object of its own or not.
ResponsesToolsToChat(tools) ==
    FlattenSeq([i \in DOMAIN tools |->
        OneIf(tools[i].type = "function" /\ (tools[i].nested \/ tools[i].name # None), tools[i])])

\* build_chat_payload; the settings of the request are copied as they are.
BuildChatPayload(instructions, items, tools) ==
    [messages |-> ResponsesInputToMessages(instructions, items),
     tools    |-> ResponsesToolsToChat(tools)]

-----------------------------------------------------------------------------
(* From the chat API to the Responses API *)

\* The calls of a message, and the function calls made of those with a name; one
\* without an id gets a new one, made[p] for the p-th call.
ToolCalls(message) == IF message.tool_calls = None THEN <<>> ELSE message.tool_calls
CallItems(calls, made) ==
    FlattenSeq([p \in DOMAIN calls |->
        OneIf(calls[p].name # None,
              CallItem(IF calls[p].id = None THEN made[p] ELSE calls[p].id,
                       calls[p].name, calls[p].arguments))])

\* Mutant: beside tool calls no text is kept.
ResponseOutputItems_CallsOnly(message, made) ==
    OneIf(message.tool_calls = None,
          MessageItem("assistant", AsContent(TextFromContent(message.content))))
    \o CallItems(ToolCalls(message), made)

\* response_output_items: the text, unless it is empty beside tool calls, and a
\* function call for each of those with a name.
ResponseOutputItems(message, made) ==
    LET text == TextFromContent(message.content)
    IN  OneIf(text # <<>> \/ message.tool_calls = None, MessageItem("assistant", AsContent(text)))
        \o CallItems(ToolCalls(message), made)

-----------------------------------------------------------------------------
(* The agent transport and the session store *)

\* serialize_messages: what the agent is told: no instructions, and text only.
Serialized(message) ==
    OneIf(message.role \notin {"system", "developer"},
          [message EXCEPT !.content = AsContent(TextFromContent(@))])
SerializeMessages(messages) == FlattenSeq([i \in DOMAIN messages |-> Serialized(messages[i])])

\* Mutant: the identity goes on after the first message of the user.
StableContextText_All(messages) ==
    FlattenSeq([i \in DOMAIN messages |->
        OneIf(messages[i].role \in {"system", "developer", "user"},
              <<messages[i].role, TextFromContent(messages[i].content)>>)])

\* context_content_identity: the text, and all of a content that is not only text.
ContentIdentity(content) ==
    [text  |-> TextFromContent(content),
     whole |-> IF \A i \in DOMAIN content : Textual(content[i]) THEN <<>> ELSE content]

\* stable_context_text: what instructs the conversation, up to and with the
\* first message of the user.
StableContextText(messages) ==
    LET users == {i \in DOMAIN messages : messages[i].role = "user"}
    IN  FlattenSeq([i \in 1..(IF users = {} THEN Len(messages) ELSE Min(users)) |->
            OneIf(messages[i].role \in {"system", "developer", "user"},
                  <<messages[i].role, ContentIdentity(messages[i].content)>>)])
=============================================================================
