------------------------------ MODULE ChatStream ------------------------------
(***************************************************************************)
(* A call of /v1/chat/completions (chat and direct_chat, src/src/server.rs)*)
(* with the decoder and the validator of its stream (src/src/sse.rs): the  *)
(* upstream's bytes arrive cut anywhere, are put together to lines, and    *)
(* each line is checked and passed on; or the agent transport's events are *)
(* turned into a stream of the same form; or the answer is collected and   *)
(* given as a whole.                                                       *)
(*                                                                         *)
(* A line of one token is what the token says: a chunk, a chunk with a     *)
(* finish reason, the completion marker or an error.  A longer one is not  *)
(* JSON.  What the client has got is the sequence `sent`: the chunks passed *)
(* on and the outcome, "done" or "failed"; "answer" is a whole answer.     *)
(***************************************************************************)
EXTENDS Integers, Sequences

CONSTANTS
    MaxBuffer,  \* MAX_SSE_BUFFER_BYTES
    MaxOutput,  \* MAX_STREAM_OUTPUT_BYTES and MAX_UPSTREAM_JSON_BYTES, in pieces
    MaxBytes,   \* bound: the length of an upstream's answer
    MaxChunk    \* bound: the bytes that arrive at once

ASSUME ChatAssumption ==
    /\ MaxBuffer \in Nat /\ MaxOutput \in Nat \ {0}
    /\ MaxBytes \in Nat /\ MaxChunk \in Nat

VARIABLES
    source,       \* where the answer comes from: direct or acp
    streaming,    \* the client asked for a stream
    phase,        \* where the handler or its generator stands
    buffer,       \* SseDecoder: bytes of an unfinished line
    lines,        \* the lines of the chunk at hand
    closed,       \* the upstream's answer has ended
    saw_terminal, \* ChatSseValidator: a finish reason has been seen
    output,       \* output_bytes, or the pieces collected
    sent,         \* what the client has got
    client,       \* reading or gone
    bytes         \* history: the bytes that have arrived

vars == <<source, streaming, phase, buffer, lines, closed, saw_terminal, output, sent,
          client, bytes>>

Tokens   == {"chunk", "finish", "done", "error", "cr", "nl"}
Outcomes == {"done", "failed", "answer"}

Init ==
    /\ source \in {"direct", "acp"} /\ streaming \in BOOLEAN
    /\ phase = "call"
    /\ buffer = <<>> /\ lines = <<>> /\ closed = FALSE
    /\ saw_terminal = FALSE /\ output = 0
    /\ sent = <<>> /\ client = "reading" /\ bytes = <<>>

At(p, from, form) == phase = p /\ source = from /\ streaming = form

\* The client gets more, perhaps the last of it.
Tell(item) == sent' = Append(sent, item)
Fail       == Tell("failed") /\ phase' = "over"

-----------------------------------------------------------------------------
(* The call *)

\* The client is authorised, its body is a chat, asks the agent transport for no
\* tools and its session is found; or it is refused.
Call ==
    /\ phase = "call"
    /\ \/ phase' = "send" /\ UNCHANGED sent
       \/ Fail
    /\ UNCHANGED <<source, streaming, buffer, lines, closed, saw_terminal, output, client, bytes>>

\* The upstream is reached, or is not, or refuses, which is passed on whatever
\* was asked for; the first event of the agent transport may be an error.
Send ==
    /\ phase = "send"
    /\ \/ phase' = "read" /\ UNCHANGED sent
       \/ Fail
    /\ UNCHANGED <<source, streaming, buffer, lines, closed, saw_terminal, output, client, bytes>>

\* The client closes its connection, which drops the handler or its generator.
HangUp ==
    /\ phase # "over" /\ client = "reading"
    /\ client' = "gone" /\ phase' = "over"
    /\ UNCHANGED <<source, streaming, buffer, lines, closed, saw_terminal, output, sent, bytes>>

-----------------------------------------------------------------------------
(* SseDecoder *)

\* The lines of the bytes b, and what follows the last line break.
Split(b) ==
    LET cut[n \in 0..Len(b)] ==
          IF n = 0 THEN [lines |-> <<>>, rest |-> <<>>]
          ELSE IF b[n] = "nl"
          THEN [lines |-> Append(cut[n - 1].lines, cut[n - 1].rest), rest |-> <<>>]
          ELSE [lines |-> cut[n - 1].lines, rest |-> Append(cut[n - 1].rest, b[n])]
    IN  cut[Len(b)]

TooLong(cut) ==
    \/ Len(cut.rest) > MaxBuffer
    \/ \E k \in DOMAIN cut.lines : Len(cut.lines[k]) > MaxBuffer

\* Mutant: the bytes of an unfinished line are not counted.
Take_Unbounded(cut) ==
    IF \E k \in DOMAIN cut.lines : Len(cut.lines[k]) > MaxBuffer
    THEN Fail /\ buffer' = <<>> /\ UNCHANGED lines
    ELSE /\ lines' = cut.lines /\ buffer' = cut.rest
         /\ phase' = "lines" /\ UNCHANGED sent

\* Of a chunk with a line that is too long no line is left.
Take(cut) ==
    IF TooLong(cut)
    THEN Fail /\ buffer' = <<>> /\ UNCHANGED lines
    ELSE /\ lines' = cut.lines /\ buffer' = cut.rest
         /\ phase' = "lines" /\ UNCHANGED sent

\* Mutant: a line is looked for in the bytes at hand only.
Push_Forget(chunk) == Take(Split(chunk))

\* SseDecoder::push
Push(chunk) == Take(Split(buffer \o chunk))

-----------------------------------------------------------------------------
(* direct_chat, streaming *)

Arrive(chunk) ==
    /\ At("read", "direct", TRUE) /\ ~closed
    /\ Len(bytes) + Len(chunk) <= MaxBytes
    /\ bytes' = bytes \o chunk
    /\ Push(chunk)
    /\ UNCHANGED <<source, streaming, closed, saw_terminal, output, client>>

\* Carriage returns at the ends of a line are trimmed.
Kind(line) ==
    LET said == {i \in DOMAIN line : line[i] # "cr"}
    IN  IF said = {} THEN "blank"
        ELSE IF \A i, j \in said : i = j THEN line[CHOOSE i \in said : TRUE]
        ELSE "malformed"

\* Mutant: the marker is enough.
Check_NoFinish(kind) ==
    \/ kind = "blank" /\ UNCHANGED <<sent, phase, saw_terminal>>
    \/ kind \in {"chunk", "finish"} /\ Tell(kind) /\ saw_terminal' = (saw_terminal \/ kind = "finish")
       /\ UNCHANGED phase
    \/ kind = "done" /\ Tell("done") /\ phase' = "over" /\ UNCHANGED saw_terminal
    \/ kind \in {"error", "malformed"} /\ Fail /\ UNCHANGED saw_terminal

\* ChatSseValidator::line.  After the marker nothing is read any more.
Check(kind) ==
    \/ kind = "blank" /\ UNCHANGED <<sent, phase, saw_terminal>>
    \/ kind \in {"chunk", "finish"} /\ Tell(kind) /\ saw_terminal' = (saw_terminal \/ kind = "finish")
       /\ UNCHANGED phase
    \/ kind = "done" /\ saw_terminal /\ Tell("done") /\ phase' = "over" /\ UNCHANGED saw_terminal
    \/ kind = "done" /\ ~saw_terminal /\ Fail /\ UNCHANGED saw_terminal
    \/ kind \in {"error", "malformed"} /\ Fail /\ UNCHANGED saw_terminal

Line ==
    /\ phase = "lines" /\ lines # <<>>
    /\ lines' = Tail(lines)
    /\ Check(Kind(Head(lines)))
    /\ UNCHANGED <<source, streaming, buffer, closed, output, client, bytes>>

\* The lines are done: the next chunk, or, at the end, validator.finish.
NoLines ==
    /\ phase = "lines" /\ lines = <<>>
    /\ IF closed THEN Fail ELSE phase' = "read" /\ UNCHANGED sent
    /\ UNCHANGED <<source, streaming, buffer, lines, closed, saw_terminal, output, client, bytes>>

\* The upstream closes: SseDecoder::finish gives what is left as a line.
Close ==
    /\ At("read", "direct", TRUE) /\ ~closed
    /\ closed' = TRUE
    /\ lines' = IF buffer = <<>> THEN <<>> ELSE <<buffer>>
    /\ buffer' = <<>>
    /\ phase' = "lines"
    /\ UNCHANGED <<source, streaming, saw_terminal, output, sent, client, bytes>>

\* Mutant: an upstream that stalls is waited for.
Break_Never == FALSE

\* The connection breaks, or its time is up.
Break ==
    /\ phase = "read" /\ source = "direct"
    /\ Fail
    /\ UNCHANGED <<source, streaming, buffer, lines, closed, saw_terminal, output, client, bytes>>

-----------------------------------------------------------------------------
(* An answer that is collected: direct_chat, and chat over the agent transport *)

\* More of the body, which has a limit.
Collect ==
    /\ phase = "read" /\ ~streaming
    /\ IF output = MaxOutput THEN Fail /\ UNCHANGED output
       ELSE output' = output + 1 /\ UNCHANGED <<sent, phase>>
    /\ UNCHANGED <<source, streaming, buffer, lines, closed, saw_terminal, client, bytes>>

\* The end: the body is JSON or is not; the transport has completed, has failed
\* or has just ended.
Collected ==
    /\ phase = "read" /\ ~streaming
    /\ \/ closed' = TRUE /\ Tell("answer") /\ phase' = "over"
       \/ UNCHANGED closed /\ Fail
    /\ UNCHANGED <<source, streaming, buffer, lines, saw_terminal, output, client, bytes>>

-----------------------------------------------------------------------------
(* chat over the agent transport, streaming *)

\* A text; the first one of a call is not measured.
AcpText ==
    /\ At("read", "acp", TRUE)
    /\ IF output >= MaxOutput THEN Fail /\ UNCHANGED output
       ELSE Tell("chunk") /\ output' = output + 1 /\ UNCHANGED phase
    /\ UNCHANGED <<source, streaming, buffer, lines, closed, saw_terminal, client, bytes>>

\* Completed, which the transport tells after some text only: a chunk with a
\* finish reason, then the marker.
AcpCompleted ==
    /\ At("read", "acp", TRUE) /\ output > 0 /\ ~closed
    /\ closed' = TRUE /\ Tell("finish")
    /\ phase' = "finish"
    /\ UNCHANGED <<source, streaming, buffer, lines, saw_terminal, output, client, bytes>>

AcpDone ==
    /\ phase = "finish"
    /\ Tell("done") /\ phase' = "over"
    /\ UNCHANGED <<source, streaming, buffer, lines, closed, saw_terminal, output, client, bytes>>

\* An error, or an end without completion.
AcpFails ==
    /\ At("read", "acp", TRUE)
    /\ Fail
    /\ UNCHANGED <<source, streaming, buffer, lines, closed, saw_terminal, output, client, bytes>>

-----------------------------------------------------------------------------
Chunks == UNION {[1..n -> Tokens] : n \in 1..MaxChunk}

Next ==
    \/ Call \/ Send \/ HangUp
    \/ (\E chunk \in Chunks : Arrive(chunk)) \/ Line \/ NoLines \/ Close \/ Break
    \/ Collect \/ Collected
    \/ AcpText \/ AcpCompleted \/ AcpDone \/ AcpFails

Spec == Init /\ [][Next]_vars

\* The handler waits for nobody but its upstream and a client that reads.  The
\* upstream's request, its body included, has one deadline (server.rs:105) that
\* an upstream which goes on cannot put off; the agent transport tells every
\* request an outcome (AcpTransport).
FairSpec ==
    /\ Spec
    /\ WF_vars(Call) /\ WF_vars(Send) /\ WF_vars(Line) /\ WF_vars(NoLines) /\ WF_vars(AcpDone)
    /\ SF_vars(Break) /\ SF_vars(AcpFails) /\ SF_vars(Collected)

-----------------------------------------------------------------------------
(* Properties *)

\* The buffer keeps to its limit whenever the generator waits for bytes.
TypeOK ==
    /\ source \in {"direct", "acp"} /\ streaming \in BOOLEAN
    /\ phase \in {"call", "send", "read", "lines", "finish", "over"}
    /\ buffer \in Seq(Tokens) /\ Len(buffer) <= MaxBuffer
    /\ lines \in Seq(Seq(Tokens)) /\ bytes \in Seq(Tokens)
    /\ closed \in BOOLEAN /\ saw_terminal \in BOOLEAN
    /\ output \in 0..MaxOutput
    /\ sent \in Seq({"chunk", "finish"} \cup Outcomes)
    /\ client \in {"reading", "gone"}

\* The kinds of the lines ls, without the blank ones.
Kinds(ls) ==
    LET upto[n \in 0..Len(ls)] ==
          IF n = 0 THEN <<>>
          ELSE IF Kind(ls[n]) = "blank" THEN upto[n - 1]
          ELSE Append(upto[n - 1], Kind(ls[n]))
    IN  upto[Len(ls)]

\* What lines of these kinds amount to: up to the first that ends the stream,
\* and then the outcome, which a stream that just ends has too.
Verdict(kinds, end) ==
    LET Stops(i) == kinds[i] \in {"done", "error", "malformed"}
        last == CHOOSE i \in DOMAIN kinds : Stops(i) /\ \A j \in 1..(i - 1) : ~Stops(j)
        ok   == kinds[last] = "done" /\ \E i \in 1..(last - 1) : kinds[i] = "finish"
    IN  IF \E i \in DOMAIN kinds : Stops(i)
        THEN Append(SubSeq(kinds, 1, last - 1), IF ok THEN "done" ELSE "failed")
        ELSE IF end THEN Append(kinds, "failed") ELSE kinds

\* The lines of the bytes b, where an unfinished one counts at the end.
AllLines(b, end) ==
    LET cut == Split(b) IN IF end /\ cut.rest # <<>> THEN Append(cut.lines, cut.rest) ELSE cut.lines

\* What the whole of the bytes b amounts to, cut nowhere.
Whole(b, end) == Verdict(Kinds(AllLines(b, end)), end)

\* However the bytes are cut into chunks, the client gets what the whole of
\* them amounts to: never more, never in another form, and all of it as soon as
\* the generator waits for more, unless the connection or a line broke off.
CutAnywhere ==
    source = "direct" /\ streaming =>
       LET whole == Whole(bytes, closed)
       IN  /\ \A i \in DOMAIN sent : sent[i] # "failed" => i \in DOMAIN whole /\ sent[i] = whole[i]
           /\ phase = "read" => sent = whole
           /\ phase = "over" /\ closed /\ client = "reading" => sent = whole

\* What a stream has told: its chunks, and how it ended.
Ended == sent # <<>> /\ sent[Len(sent)] \in Outcomes
Told  == IF streaming
         THEN [i \in 1..(IF Ended THEN Len(sent) - 1 ELSE Len(sent)) |->
                  [answer |-> source, index |-> i]]
         ELSE <<>>
State == IF ~streaming THEN "open"
         ELSE IF Ended THEN IF sent[Len(sent)] = "done" THEN "completed" ELSE "failed"
         ELSE IF client = "gone" THEN "abandoned" ELSE "open"

\* A stream implements CompletionStream: chunks, then at most one outcome, and
\* no completion without a chunk.
Stream == INSTANCE CompletionStream WITH
    Requests <- {1}, Answers <- {"direct", "acp"},
    text <- [r \in {1} |-> Told], outcome <- [r \in {1} |-> State]
StreamSpec == Stream!Spec

\* A client that goes on reading is told an outcome, and one only.
OutcomeTold == <>(client = "gone" \/ Ended)
=============================================================================
