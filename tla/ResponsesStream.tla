--------------------------- MODULE ResponsesStream --------------------------
(***************************************************************************)
(* A streaming /v1/responses call (src/src/server.rs, src/src/sse.rs): the *)
(* upstream's chat-completion stream, or the agent transport's events, are *)
(* turned into the events of the Responses API, which the client applies.  *)
(*                                                                         *)
(* The upstream's answer is a sequence of lines.  A chunk line holds text  *)
(* pieces and tool-call deltas; one delta is one step, and the events of a *)
(* chunk are yielded when all of it has been accepted.  The n-th delta of  *)
(* the answer carries the piece n, so that contents show loss, repetition  *)
(* and disorder.  Positions of output items count from 1; 0 means none.    *)
(***************************************************************************)
EXTENDS Integers, Sequences

CONSTANTS
    Calls,      \* indexes of the upstream's tool calls
    MaxTools,   \* MAX_STREAM_TOOL_CALLS
    MaxDeltas,  \* bound: deltas in one answer
    Message     \* the message item

ASSUME ResponsesAssumption ==
    MaxTools \in Nat /\ MaxDeltas \in Nat /\ Message \notin Calls

VARIABLES
    source,     \* where the answer comes from: direct or acp
    phase,      \* where the generator stands
    saw_terminal, \* ChatSseValidator: a finish reason has been seen
    completed,  \* ChatSseValidator: [DONE] has been seen; acp: Completed
    message,    \* message_output_index
    text,       \* the pieces of the message
    tools,      \* the StreamingToolCalls, oldest first
    next,       \* the output positions given out
    batch,      \* `events` of consume_chunk
    out,        \* events being yielded
    log,        \* history: the deltas the upstream has sent
    items,      \* the client: items announced so far, by position
    outcome     \* the client: open, completed or failed

validator == <<saw_terminal, completed>>
state     == <<message, text, tools, next>>
view      == <<items, outcome>>
vars      == <<source, phase, validator, state, batch, out, log, view>>

Fields == {"id", "name", "arguments"}
Piece  == Len(log) + 1
Generated == 0    \* a call id made up by the proxy

Added(i, id)       == [kind |-> "added", at |-> i, id |-> id]
Delta(i, piece)    == [kind |-> "delta", at |-> i, piece |-> piece]
Sealed(i, content) == [kind |-> "sealed", at |-> i, content |-> content]
Item(id, content)  == [id |-> id, content |-> content, status |-> "done"]
Done(i, item)      == [kind |-> "done", at |-> i, item |-> item]
Failed             == [kind |-> "failed"]

Init ==
    /\ source \in {"direct", "acp"}
    /\ phase = "open"
    /\ saw_terminal = FALSE /\ completed = FALSE
    /\ message = 0 /\ text = <<>> /\ tools = <<>> /\ next = 0
    /\ batch = <<>> /\ out = <<>> /\ log = <<>>
    /\ items = <<>> /\ outcome = "open"

Idle(at) == phase = at /\ out = <<>>

\* response.failed, after which the generator returns; what the chunk at hand
\* had produced is lost.
Fail == phase' = "over" /\ out' = <<Failed>> /\ batch' = <<>>

-----------------------------------------------------------------------------
(* The client *)

\* An item the client has never heard of has no fields of its own.
Known(i) == IF i \in DOMAIN items THEN items[i]
            ELSE [id |-> "unknown", content |-> <<>>, status |-> "unknown"]
Put(i, item) ==
    items' = [j \in DOMAIN items \cup {i} |-> IF j = i THEN item ELSE items[j]]

\* One event is yielded and applied as a client of the Responses API does.
Yield ==
    /\ out # <<>>
    /\ out' = Tail(out)
    /\ LET e == Head(out) IN
       \/ /\ e.kind = "added"
          /\ Put(e.at, [id |-> e.id, content |-> <<>>, status |-> "growing"])
          /\ UNCHANGED outcome
       \/ /\ e.kind = "delta"
          /\ Put(e.at, [Known(e.at) EXCEPT !.content = Append(@, e.piece)])
          /\ UNCHANGED outcome
       \/ /\ e.kind = "sealed"
          /\ Put(e.at, [Known(e.at) EXCEPT !.content = e.content, !.status = "closed"])
          /\ UNCHANGED outcome
       \/ /\ e.kind = "done" /\ Put(e.at, e.item) /\ UNCHANGED outcome
       \/ e.kind = "completed" /\ items' = e.output /\ outcome' = "completed"
       \/ e.kind = "failed" /\ outcome' = "failed" /\ UNCHANGED items
    /\ UNCHANGED <<source, phase, validator, state, batch, log>>

-----------------------------------------------------------------------------
(* The upstream's lines: direct_responses_stream *)

\* response.created says nothing of items.
Open ==
    /\ Idle("open")
    /\ phase' = "read"
    /\ IF source = "acp"
       THEN message' = 1 /\ next' = 1 /\ out' = <<Added(1, Message)>>
       ELSE UNCHANGED <<message, next, out>>
    /\ UNCHANGED <<source, validator, text, tools, batch, log, view>>

\* A line with a chunk: with a finish reason in it or not.
Chunk ==
    /\ Idle("read") /\ source = "direct"
    /\ IF completed
       THEN Fail /\ UNCHANGED validator
       ELSE /\ \E finish \in BOOLEAN : saw_terminal' = (saw_terminal \/ finish)
            /\ phase' = "chunk"
            /\ UNCHANGED <<completed, out, batch>>
    /\ UNCHANGED <<source, state, log, view>>

\* A delta of the chunk is accepted.
Accept(delta, events) ==
    /\ log' = Append(log, delta)
    /\ batch' = batch \o events
    /\ UNCHANGED <<source, phase, validator, out, view>>

Text ==
    /\ Idle("chunk") /\ Len(log) < MaxDeltas
    /\ text' = Append(text, Piece)
    /\ IF message = 0 THEN message' = next + 1 /\ next' = next + 1
                      ELSE UNCHANGED <<message, next>>
    /\ Accept([of |-> Message, fields |-> {}],
              (IF text = <<>> THEN <<Added(message', Message)>> ELSE <<>>)
              \o <<Delta(message', Piece)>>)
    /\ UNCHANGED tools

\* The entry of the tool call c, and what a delta with these fields makes of it.
NewCall(c) == [of |-> c, call_id |-> <<>>, name |-> <<>>, arguments |-> <<>>,
               pending |-> <<>>, index |-> 0]
Position(c) == IF \E p \in DOMAIN tools : tools[p].of = c
               THEN CHOOSE p \in DOMAIN tools : tools[p].of = c
               ELSE Len(tools) + 1
Extended(tool, fields) ==
    LET add(field, old) == IF field \in fields THEN Append(old, Piece) ELSE old
    IN  [tool EXCEPT !.call_id = add("id", @), !.name = add("name", @),
                     !.arguments = add("arguments", @), !.pending = add("arguments", @)]
Announced(tool) ==
    [tool EXCEPT !.index = next + 1,
                 !.call_id = IF @ = <<>> THEN <<Generated>> ELSE @]
Pending(tool) ==
    [i \in 1..Len(tool.pending) |-> Delta(tool.index, tool.pending[i])]

\* The entry of c is replaced, or the first of its name is added.
Keep(c, tool) ==
    tools' = [p \in 1..Len(tools) \cup {Position(c)} |->
                 IF p = Position(c) THEN tool ELSE tools[p]]
Entry(c) == IF Position(c) > Len(tools) THEN NewCall(c) ELSE tools[Position(c)]

ToolAllowed(c) == Position(c) <= Len(tools) \/ Len(tools) < MaxTools

\* Mutant: pending argument pieces are yielded but not drained.
ToolDelta_Undrained(c, fields) ==
    /\ Idle("chunk") /\ Len(log) < MaxDeltas
    /\ ToolAllowed(c)
    /\ LET grown    == Extended(Entry(c), fields)
           announce == grown.index = 0 /\ grown.name # <<>>
           shown    == IF announce THEN Announced(grown) ELSE grown
       IN /\ next' = IF announce THEN next + 1 ELSE next
          /\ Keep(c, shown)
          /\ Accept([of |-> c, fields |-> fields],
                    (IF announce THEN <<Added(shown.index, c)>> ELSE <<>>)
                    \o (IF shown.index # 0 THEN Pending(shown) ELSE <<>>))
    /\ UNCHANGED <<message, text>>

\* A tool-call delta: the call is announced when its name is known, and its
\* arguments are yielded from then on.
ToolDelta(c, fields) ==
    /\ Idle("chunk") /\ Len(log) < MaxDeltas
    /\ ToolAllowed(c)
    /\ LET grown    == Extended(Entry(c), fields)
           announce == grown.index = 0 /\ grown.name # <<>>
           shown    == IF announce THEN Announced(grown) ELSE grown
       IN /\ next' = IF announce THEN next + 1 ELSE next
          /\ Keep(c, [shown EXCEPT !.pending = IF shown.index = 0 THEN @ ELSE <<>>])
          /\ Accept([of |-> c, fields |-> fields],
                    (IF announce THEN <<Added(shown.index, c)>> ELSE <<>>)
                    \o (IF shown.index # 0 THEN Pending(shown) ELSE <<>>))
    /\ UNCHANGED <<message, text>>

\* A delta with a field of the wrong type, a size above its limit, or one tool
\* call too many.
BadDelta ==
    /\ Idle("chunk")
    /\ Fail
    /\ UNCHANGED <<source, validator, state, log, view>>

ChunkEnds ==
    /\ Idle("chunk")
    /\ phase' = "read" /\ out' = batch /\ batch' = <<>>
    /\ UNCHANGED <<source, validator, state, log, view>>

\* data: [DONE].  The generator reads on until the upstream closes.
DoneLine ==
    /\ Idle("read") /\ source = "direct"
    /\ IF completed \/ ~saw_terminal
       THEN Fail /\ UNCHANGED completed
       ELSE completed' = TRUE /\ UNCHANGED <<phase, out, batch>>
    /\ UNCHANGED <<source, saw_terminal, state, log, view>>

\* Mutant: neither the network nor the timeout is noticed.
Breaks_Never == FALSE

\* A malformed line, an error object, a line too long, the network or the
\* timeout of the client; acp: Err, or an answer that is too large.
Breaks ==
    /\ Idle("read")
    /\ Fail
    /\ UNCHANGED <<source, validator, state, log, view>>

-----------------------------------------------------------------------------
(* The end of the answer *)

\* The events that end the tool call at position p of tools.
ToolItem(p) == Item(tools[p].of, tools[p].arguments)
ToolEnds ==
    [k \in 1..(2 * Len(tools)) |->
        LET p == (k + 1) \div 2 IN
        IF k % 2 = 1 THEN Sealed(tools[p].index, tools[p].arguments)
                     ELSE Done(tools[p].index, ToolItem(p))]

\* completed_events: the message first, an empty one when there is nothing
\* else; then the tools; then all of them by position.
CompletedEvents ==
    LET at == IF message # 0 THEN message ELSE IF tools = <<>> THEN 1 ELSE 0
        used == {at} \cup {tools[p].index : p \in DOMAIN tools}
        output == [i \in used \ {0} |->
                      IF i = at THEN Item(Message, text)
                      ELSE ToolItem(CHOOSE p \in DOMAIN tools : tools[p].index = i)]
    IN  (IF message = 0 /\ at # 0 THEN <<Added(at, Message)>> ELSE <<>>)
        \o (IF at # 0 THEN <<Sealed(at, text), Done(at, Item(Message, text))>> ELSE <<>>)
        \o ToolEnds
        \o <<[kind |-> "completed", output |-> output]>>

\* Mutant: a finish reason is taken for the completion marker.
Eof_Lenient ==
    /\ Idle("read") /\ source = "direct"
    /\ IF ~saw_terminal \/ \E p \in DOMAIN tools : tools[p].index = 0
       THEN Fail
       ELSE phase' = "over" /\ out' = CompletedEvents /\ UNCHANGED batch
    /\ UNCHANGED <<source, validator, state, log, view>>

\* The upstream closes.
Eof ==
    /\ Idle("read") /\ source = "direct"
    /\ IF ~completed \/ \E p \in DOMAIN tools : tools[p].index = 0
       THEN Fail
       ELSE phase' = "over" /\ out' = CompletedEvents /\ UNCHANGED batch
    /\ UNCHANGED <<source, validator, state, log, view>>

-----------------------------------------------------------------------------
(* The agent transport's events: responses, workbuddy_acp *)

AcpText ==
    /\ Idle("read") /\ source = "acp" /\ Len(log) < MaxDeltas
    /\ text' = Append(text, Piece)
    /\ log' = Append(log, [of |-> Message, fields |-> {}])
    /\ out' = <<Delta(message, Piece)>>
    /\ UNCHANGED <<source, phase, validator, message, tools, next, batch, view>>

AcpCompleted ==
    /\ Idle("read") /\ source = "acp"
    /\ completed' = TRUE
    /\ phase' = "over"
    /\ out' = CompletedEvents
    /\ UNCHANGED <<source, saw_terminal, state, batch, log, view>>

-----------------------------------------------------------------------------
Generator ==
    \/ Open \/ Chunk \/ Text \/ BadDelta \/ ChunkEnds \/ DoneLine \/ Breaks \/ Eof
    \/ \E c \in Calls, fields \in SUBSET Fields : ToolDelta(c, fields)
    \/ AcpText \/ AcpCompleted

Next == Yield \/ Generator

Spec == Init /\ [][Next]_vars

\* The client keeps reading; the generator computes without waiting for anyone
\* but the upstream, and the upstream's request, its body included, has one
\* deadline, which an upstream that goes on and on cannot put off: strong
\* fairness, for between two lines the generator is not waiting.
FairSpec ==
    /\ Spec
    /\ WF_vars(Yield) /\ WF_vars(Open) /\ WF_vars(ChunkEnds) /\ SF_vars(Breaks)

-----------------------------------------------------------------------------
(* Properties *)

Ids       == Calls \cup {Message}
PieceNums == 0..MaxDeltas
Contents  == Seq(PieceNums)

\* The generator's locals and the client's view keep their types, and no more
\* tool calls are kept than MAX_STREAM_TOOL_CALLS.
TypeOK ==
    /\ source \in {"direct", "acp"} /\ phase \in {"open", "read", "chunk", "over"}
    /\ saw_terminal \in BOOLEAN /\ completed \in BOOLEAN
    /\ message \in 0..(MaxTools + 1) /\ next \in 0..(MaxTools + 1)
    /\ text \in Contents
    /\ tools \in Seq([of : Calls, call_id : Contents, name : Contents, arguments : Contents,
                      pending : Contents, index : 0..(MaxTools + 1)])
    /\ Len(tools) <= MaxTools
    /\ log \in Seq([of : Ids, fields : SUBSET Fields])
    /\ items \in Seq([id : Ids, content : Contents, status : {"growing", "closed", "done"}])
    /\ outcome \in {"open", "completed", "failed"}

\* The client's view implements ResponsesProtocol: positions are given out
\* without gaps, nothing is said of an item before its announcement or after
\* its end, what is repeated in full is what was said piece by piece, and there
\* is one outcome with nothing after it.
Protocol == INSTANCE ResponsesProtocol WITH Pieces <- PieceNums
ProtocolSpec == Protocol!Spec

\* The numbers of the deltas that carry a piece of an item.
Carries(d, id) == d.of = id /\ (id = Message \/ "arguments" \in d.fields)
Sent(id) == {d \in DOMAIN log : Carries(log[d], id)}

\* A content is made of all of them, in their order.
Rising(s) == \A k, l \in DOMAIN s : k < l => s[k] < s[l]
Lists(content, pieces) ==
    Rising(content) /\ {content[k] : k \in DOMAIN content} = pieces

\* A response that completes is the upstream's whole answer: the upstream marked
\* its end, all the text it sent and every tool call, none of them nameless, is
\* in an item of its own, and nothing else is.
CompletedIsAnswer ==
    outcome = "completed" =>
       /\ completed /\ (source = "direct" => saw_terminal)
       /\ \A i \in DOMAIN items : Lists(items[i].content, Sent(items[i].id))
       /\ \A d \in DOMAIN log :
             /\ \E i \in DOMAIN items : items[i].id = log[d].of
             /\ log[d].of # Message =>
                   \E e \in DOMAIN log : log[e].of = log[d].of /\ "name" \in log[e].fields
       /\ \A i, j \in DOMAIN items : items[i].id = items[j].id => i = j

\* Every stream that is opened tells its client an outcome, whatever the
\* upstream sends or leaves out.
OutcomeTold == <>(outcome # "open")

=============================================================================
