---------------------------- MODULE AcpTransport ----------------------------
(***************************************************************************)
(* A completion over the agent protocol (src/src/acp.rs): the task that    *)
(* stream_chat_with_attempts spawns, which runs up to MaxAttempts attempts *)
(* against a gateway and feeds a bounded channel; the AcpEventStream that  *)
(* the HTTP handler reads (src/src/server.rs); and the gateway lock it     *)
(* holds until it is dropped.                                              *)
(*                                                                         *)
(* An attempt is one gateway connection: GET, initialize, session/new,     *)
(* session/set_model, session/prompt, then DELETE.  A request of an attempt*)
(* is one step, but for session/prompt, whose answer is read line by line. *)
(* The gateway, the network and the client are the environment.            *)
(***************************************************************************)
EXTENDS Naturals, Sequences

CONSTANTS
    Requests,     \* concurrent completions
    Gateways,     \* gateway urls
    GatewayOf,    \* the gateway each request is routed to
    MaxAttempts,  \* workbuddy_acp_max_attempts, at least 1
    Capacity,     \* ACP_EVENT_CHANNEL_CAPACITY
    MaxChunks,    \* bound: text chunks in one answer
    None

ASSUME AcpAssumption ==
    /\ GatewayOf \in [Requests -> Gateways]
    /\ MaxAttempts \in Nat \ {0} /\ Capacity \in Nat \ {0} /\ MaxChunks \in Nat \ {0}
    /\ None \notin Requests

VARIABLES
    guard,    \* the owner of each gateway's mutex
    open,     \* the consumer waits for, or holds, its AcpEventStream
    phase,    \* where the request's task stands
    attempt,  \* the attempt being made
    emitted,  \* the attempt has seen text of its answer
    complete, \* the attempt has seen stopReason end_turn
    gone,     \* `disconnected`: a chunk found the channel closed
    error,    \* the error an attempt ends with
    session,  \* the attempt knows its ACP session id
    turn,     \* the prompt at the gateway: none, running or ended
    linked,   \* the gateway holds a connection for the attempt
    sent,     \* chunks of the attempt's answer that have reached the proxy
    queue,    \* the channel
    text,     \* the chunks the consumer has read
    outcome   \* the terminal event the consumer has read

flags  == <<emitted, complete, gone, session>>
remote == <<turn, linked, sent>>
client == <<guard, open, text, outcome>>
vars   == <<client, phase, attempt, flags, error, remote, queue>>

Errors == {"final", "retryable"}

Chunk(r)     == [kind |-> "text", answer |-> attempt[r], index |-> sent[r] + 1]
Terminal(k)  == [kind |-> k, answer |-> 0, index |-> 0]
HasRoom(r)   == Len(queue[r]) < Capacity
Push(r, e)   == queue' = [queue EXCEPT ![r] = Append(@, e)]
Goto(r, to)  == phase' = [phase EXCEPT ![r] = to]
Set(f, r, v) == [f EXCEPT ![r] = v]

-----------------------------------------------------------------------------
Init ==
    /\ guard = [g \in Gateways |-> None]
    /\ open = [r \in Requests |-> FALSE]
    /\ phase = [r \in Requests |-> "idle"]
    /\ attempt = [r \in Requests |-> 0]
    /\ emitted = [r \in Requests |-> FALSE]
    /\ complete = [r \in Requests |-> FALSE]
    /\ gone = [r \in Requests |-> FALSE]
    /\ error = [r \in Requests |-> "none"]
    /\ session = [r \in Requests |-> FALSE]
    /\ turn = [r \in Requests |-> "none"]
    /\ linked = [r \in Requests |-> FALSE]
    /\ sent = [r \in Requests |-> 0]
    /\ queue = [r \in Requests |-> <<>>]
    /\ text = [r \in Requests |-> <<>>]
    /\ outcome = [r \in Requests |-> "open"]

\* The locals of `run` when an attempt begins.
Attempt(r, n) ==
    /\ attempt' = Set(attempt, r, n)
    /\ emitted' = Set(emitted, r, FALSE)
    /\ complete' = Set(complete, r, FALSE)
    /\ gone' = Set(gone, r, FALSE)
    /\ session' = Set(session, r, FALSE)
    /\ error' = Set(error, r, "none")
    /\ sent' = Set(sent, r, 0)
    /\ Goto(r, "connect")

\* `run` has returned with the error e: try again or report it.
Retries(r, e) == e # "final" /\ ~emitted[r] /\ attempt[r] < MaxAttempts /\ open[r]

Decide(r, e) ==
    \/ Retries(r, e) /\ Attempt(r, attempt[r] + 1)
    \/ /\ ~Retries(r, e)
       /\ error' = Set(error, r, e)
       /\ Goto(r, "report")
       /\ UNCHANGED <<attempt, flags, sent>>

\* The inner async block ends with the error e, the session known or not:
\* cancel when there is a session and nobody listens, then close.
EndRun(r, e, known) ==
    /\ error' = Set(error, r, e)
    /\ Goto(r, IF known /\ ~open[r] THEN "cancel" ELSE "close")

-----------------------------------------------------------------------------
(* The HTTP handler and its client *)

Arrive(r) ==
    /\ phase[r] = "idle"
    /\ Goto(r, "wait")
    /\ open' = Set(open, r, TRUE)
    /\ UNCHANGED <<guard, text, outcome, attempt, flags, error, remote, queue>>

\* Mutant: the guard is not moved into the stream.
Acquire_Dropped(r) ==
    /\ phase[r] = "wait" /\ open[r]
    /\ guard[GatewayOf[r]] = None
    /\ Attempt(r, 1)
    /\ UNCHANGED <<guard, open, text, outcome, turn, linked, queue>>

\* gateways.acquire(url).await, then the task is spawned.
Acquire(r) ==
    /\ phase[r] = "wait" /\ open[r]
    /\ guard[GatewayOf[r]] = None
    /\ guard' = Set(guard, GatewayOf[r], r)
    /\ Attempt(r, 1)
    /\ UNCHANGED <<open, text, outcome, turn, linked, queue>>

\* stream.next().await
Read(r) ==
    /\ open[r] /\ queue[r] # <<>>
    /\ LET e == Head(queue[r]) IN
       IF e.kind = "text"
       THEN /\ text' = [text EXCEPT ![r] = Append(@, [answer |-> e.answer, index |-> e.index])]
            /\ UNCHANGED outcome
       ELSE /\ outcome' = Set(outcome, r, e.kind)
            /\ UNCHANGED text
    /\ queue' = [queue EXCEPT ![r] = Tail(@)]
    /\ UNCHANGED <<guard, open, phase, attempt, flags, error, remote>>

\* The AcpEventStream is dropped: the channel is closed and the lock released.
\* A request that still waits for the lock just goes away.
Leave(r) ==
    /\ open' = Set(open, r, FALSE)
    /\ guard' = [g \in Gateways |-> IF guard[g] = r THEN None ELSE guard[g]]
    /\ queue' = Set(queue, r, <<>>)
    /\ IF phase[r] = "wait" THEN Goto(r, "done") ELSE UNCHANGED phase
    /\ UNCHANGED <<text, outcome, attempt, flags, error, remote>>

\* Mutant: the handler leaves the stream alive after its end.
Finish_Never(r) == FALSE /\ Leave(r)

\* The handler has read a terminal event, or the end of the channel.
Finish(r) ==
    /\ open[r]
    /\ \/ outcome[r] # "open"
       \/ phase[r] = "done" /\ queue[r] = <<>>
    /\ Leave(r)

\* The client disconnects, or the answer exceeds the maximum size.
Hangup(r) == open[r] /\ outcome[r] = "open" /\ Leave(r)

-----------------------------------------------------------------------------
(* An attempt, up to the prompt *)

\* GET: a refusal, a network error or a missing connection id ends `run` at
\* once, with nothing to close.
Connect(r) ==
    /\ phase[r] = "connect"
    /\ \/ /\ linked' = Set(linked, r, TRUE)
          /\ Goto(r, "initialize")
          /\ UNCHANGED <<attempt, flags, error, sent>>
       \/ /\ \E e \in Errors : Decide(r, e)
          /\ UNCHANGED linked
    /\ UNCHANGED <<client, turn, queue>>

\* An rpc that fails: its status, a JSON-RPC error, the network, a timeout, a
\* malformed line, or no result.
RpcFails(r, known) == \E e \in Errors : EndRun(r, e, known)

Initialize(r) ==
    /\ phase[r] = "initialize"
    /\ \/ Goto(r, "new") /\ UNCHANGED error
       \/ RpcFails(r, FALSE)
    /\ UNCHANGED <<client, attempt, flags, remote, queue>>

\* Mutant: a failure of session/new is returned with `?`, past the close.
NewSession_Return(r) ==
    /\ phase[r] = "new"
    /\ \E known \in BOOLEAN :
       /\ session' = Set(session, r, known)
       /\ \/ known /\ Goto(r, "model") /\ UNCHANGED error
          \/ error' = Set(error, r, "final") /\ Goto(r, "report")
    /\ UNCHANGED <<client, attempt, emitted, complete, gone, remote, queue>>

\* session/new.  The id may be known although the rpc fails afterwards; a
\* result without one is a protocol error.
NewSession(r) ==
    /\ phase[r] = "new"
    /\ \E known \in BOOLEAN :
       /\ session' = Set(session, r, known)
       /\ \/ known /\ Goto(r, "model") /\ UNCHANGED error
          \/ RpcFails(r, known)
    /\ UNCHANGED <<client, attempt, emitted, complete, gone, remote, queue>>

\* session/set_model, then session/prompt is sent.
SetModel(r) ==
    /\ phase[r] = "model"
    /\ \/ /\ turn' = Set(turn, r, "running")
          /\ Goto(r, "prompt")
          /\ UNCHANGED error
       \/ RpcFails(r, TRUE) /\ UNCHANGED turn
    /\ UNCHANGED <<client, attempt, flags, linked, sent, queue>>

-----------------------------------------------------------------------------
(* session/prompt, line by line *)

\* Mutant: a full channel is taken for a closed one.
PromptChunk_Lossy(r) ==
    /\ phase[r] = "prompt" /\ turn[r] = "running" /\ sent[r] < MaxChunks
    /\ emitted' = Set(emitted, r, TRUE)
    /\ sent' = [sent EXCEPT ![r] = @ + 1]
    /\ \/ open[r] /\ HasRoom(r) /\ Push(r, Chunk(r)) /\ UNCHANGED gone
       \/ ~(open[r] /\ HasRoom(r)) /\ gone' = Set(gone, r, TRUE) /\ UNCHANGED queue
    /\ UNCHANGED <<client, phase, error, attempt, complete, session, turn, linked>>

\* Mutant: a chunk that finds the channel full is dropped.
PromptChunk_Drop(r) ==
    /\ phase[r] = "prompt" /\ turn[r] = "running" /\ sent[r] < MaxChunks
    /\ emitted' = Set(emitted, r, TRUE)
    /\ sent' = [sent EXCEPT ![r] = @ + 1]
    /\ \/ open[r] /\ HasRoom(r) /\ Push(r, Chunk(r))
       \/ ~(open[r] /\ HasRoom(r)) /\ UNCHANGED queue
    /\ UNCHANGED <<client, phase, error, attempt, complete, gone, session, turn, linked>>

\* A non-empty agent_message_chunk of this prompt; the others are ignored.
PromptChunk(r) ==
    /\ phase[r] = "prompt" /\ turn[r] = "running" /\ sent[r] < MaxChunks
    /\ emitted' = Set(emitted, r, TRUE)
    /\ sent' = [sent EXCEPT ![r] = @ + 1]
    /\ \/ /\ open[r] /\ HasRoom(r)
          /\ Push(r, Chunk(r))
          /\ UNCHANGED <<gone, phase, error>>
       \/ /\ open[r] /\ ~HasRoom(r)
          /\ EndRun(r, "final", TRUE)
          /\ UNCHANGED <<gone, queue>>
       \/ /\ ~open[r]
          /\ gone' = Set(gone, r, TRUE)
          /\ UNCHANGED <<queue, phase, error>>
    /\ UNCHANGED <<client, attempt, complete, session, turn, linked>>

\* The result: end_turn.
PromptEndTurn(r) ==
    /\ phase[r] = "prompt" /\ turn[r] = "running"
    /\ turn' = Set(turn, r, "ended")
    /\ complete' = Set(complete, r, TRUE)
    /\ UNCHANGED <<client, phase, attempt, emitted, gone, session, error, linked, sent, queue>>

\* The result: any other stop reason (prompt_stop_error) or a JSON-RPC error.
PromptStop(r) ==
    /\ phase[r] = "prompt" /\ turn[r] = "running"
    /\ turn' = Set(turn, r, "ended")
    /\ RpcFails(r, TRUE)
    /\ UNCHANGED <<client, attempt, flags, linked, sent, queue>>

\* The answer breaks off: a status, the network, the timeout, a malformed line,
\* or its end before a result.
PromptBreaks(r) ==
    /\ phase[r] = "prompt"
    /\ RpcFails(r, TRUE)
    /\ UNCHANGED <<client, attempt, flags, remote, queue>>

\* The end of the answer, after its result.
PromptSettles(r) ==
    /\ phase[r] = "prompt" /\ complete[r]
    /\ \/ gone[r] /\ Goto(r, "cancel") /\ UNCHANGED error
       \/ ~gone[r] /\ ~emitted[r] /\ EndRun(r, "retryable", TRUE)
       \/ ~gone[r] /\ emitted[r] /\ Goto(r, "send") /\ UNCHANGED error
    /\ UNCHANGED <<client, attempt, flags, remote, queue>>

-----------------------------------------------------------------------------
(* The end of an attempt, and of the task *)

\* Mutant: the terminal event does not wait for room.
SendCompleted_NoWait(r) ==
    /\ phase[r] = "send"
    /\ \/ ~open[r] /\ UNCHANGED queue
       \/ open[r] /\ Push(r, Terminal("completed"))
    /\ Goto(r, "close")
    /\ UNCHANGED <<client, attempt, flags, error, remote>>

\* tx.send(Completed).await: waits for room, unless the channel is closed.
SendCompleted(r) ==
    /\ phase[r] = "send"
    /\ \/ ~open[r] /\ UNCHANGED queue
       \/ open[r] /\ HasRoom(r) /\ Push(r, Terminal("completed"))
    /\ Goto(r, "close")
    /\ UNCHANGED <<client, attempt, flags, error, remote>>

\* session/cancel; what becomes of it is ignored.
Cancel(r) ==
    /\ phase[r] = "cancel"
    /\ turn' = Set(turn, r, "ended")
    /\ Goto(r, "close")
    /\ UNCHANGED <<client, attempt, flags, error, linked, sent, queue>>

\* Mutant: an attempt is repeated whether or not its text has been passed on.
Close_AlwaysRetry(r) ==
    /\ phase[r] = "close"
    /\ linked' = Set(linked, r, FALSE)
    /\ turn' = Set(turn, r, "none")
    /\ \/ /\ error[r] = "none"
          /\ Goto(r, "done")
          /\ UNCHANGED <<attempt, flags, error, sent>>
       \/ /\ error[r] # "none"
          /\ IF error[r] # "final" /\ attempt[r] < MaxAttempts /\ open[r]
             THEN Attempt(r, attempt[r] + 1)
             ELSE Goto(r, "report") /\ UNCHANGED <<attempt, flags, error, sent>>
    /\ UNCHANGED <<client, queue>>

\* DELETE, with which the gateway drops the turn; then `run` returns.
Close(r) ==
    /\ phase[r] = "close"
    /\ linked' = Set(linked, r, FALSE)
    /\ turn' = Set(turn, r, "none")
    /\ \/ /\ error[r] = "none"
          /\ Goto(r, "done")
          /\ UNCHANGED <<attempt, flags, error, sent>>
       \/ error[r] # "none" /\ Decide(r, error[r])
    /\ UNCHANGED <<client, queue>>

\* tx.send(Err(error)).await
Report(r) ==
    /\ phase[r] = "report"
    /\ \/ ~open[r] /\ UNCHANGED queue
       \/ open[r] /\ HasRoom(r) /\ Push(r, Terminal("failed"))
    /\ Goto(r, "done")
    /\ UNCHANGED <<client, attempt, flags, error, remote>>

-----------------------------------------------------------------------------
TaskStep(r) ==
    \/ Connect(r) \/ Initialize(r) \/ NewSession(r) \/ SetModel(r)
    \/ PromptChunk(r) \/ PromptEndTurn(r) \/ PromptStop(r) \/ PromptBreaks(r) \/ PromptSettles(r)
    \/ SendCompleted(r) \/ Cancel(r) \/ Close(r) \/ Report(r)

Next == \E r \in Requests :
    Arrive(r) \/ Acquire(r) \/ Read(r) \/ Finish(r) \/ Hangup(r) \/ TaskStep(r)

Spec == Init /\ [][Next]_vars

\* Every HTTP request of the task carries the configured timeout, so the task
\* always moves on; a connected consumer keeps reading; tokio's mutex serves
\* its waiters first come first served, hence strong fairness.
Fairness == \A r \in Requests :
    WF_vars(TaskStep(r)) /\ WF_vars(Read(r)) /\ WF_vars(Finish(r)) /\ SF_vars(Acquire(r))

FairSpec == Spec /\ Fairness

-----------------------------------------------------------------------------
(* Properties *)

Phases == {"idle", "wait", "connect", "initialize", "new", "model", "prompt",
           "send", "cancel", "close", "report", "done"}
\* The phases in which an attempt has a connection to close.
Linked == {"initialize", "new", "model", "prompt", "send", "cancel", "close"}

Answers == 1..MaxAttempts
Indexes == 1..MaxChunks
Events  == [kind : {"text"}, answer : Answers, index : Indexes]
           \cup {Terminal("completed"), Terminal("failed")}

\* Every local of the task and every event on the channel has the kind the code
\* gives it, and the channel stays within its capacity.
TypeOK ==
    /\ guard \in [Gateways -> Requests \cup {None}]
    /\ open \in [Requests -> BOOLEAN]
    /\ phase \in [Requests -> Phases]
    /\ attempt \in [Requests -> 0..MaxAttempts]
    /\ emitted \in [Requests -> BOOLEAN] /\ complete \in [Requests -> BOOLEAN]
    /\ gone \in [Requests -> BOOLEAN] /\ session \in [Requests -> BOOLEAN]
    /\ error \in [Requests -> {"none"} \cup Errors]
    /\ turn \in [Requests -> {"none", "running", "ended"}]
    /\ linked \in [Requests -> BOOLEAN]
    /\ sent \in [Requests -> 0..MaxChunks]
    /\ queue \in [Requests -> Seq(Events)]
    /\ \A r \in Requests : Len(queue[r]) <= Capacity
    /\ text \in [Requests -> Seq([answer : Answers, index : Indexes])]
    /\ outcome \in [Requests -> {"open", "completed", "failed"}]

\* The lock of a gateway is held exactly while some consumer holds a stream of
\* it: it is neither lost by a waiter that goes away nor kept after a drop, and
\* two connected consumers never use one gateway at a time.
GuardInv ==
    /\ \A r \in Requests : open[r] /\ phase[r] # "wait" => guard[GatewayOf[r]] = r
    /\ \A g \in Gateways : guard[g] # None =>
          /\ GatewayOf[guard[g]] = g
          /\ open[guard[g]] /\ phase[guard[g]] \notin {"idle", "wait"}

HasEnd(r)    == queue[r] # <<>> /\ queue[r][Len(queue[r])].kind # "text"
Delivered(r) == Len(text[r]) + Len(queue[r]) - IF HasEnd(r) THEN 1 ELSE 0
Told(r, k)   == outcome[r] = k \/ \E i \in 1..Len(queue[r]) : queue[r][i].kind = k

\* A consumer told that its answer is complete has, or will read, every chunk
\* the gateway sent: text dropped on the way always ends in a failure.
CompletedIsWhole == \A r \in Requests :
    Told(r, "completed") => Delivered(r) = sent[r] /\ sent[r] > 0 /\ complete[r]

\* The task never ends without telling a consumer that still listens.
NoSilentEnd == \A r \in Requests :
    phase[r] = "done" /\ open[r] => Told(r, "completed") \/ Told(r, "failed")

\* However an attempt ends, its gateway connection is closed before the next
\* attempt connects and before the task ends: at most one is open at a time.
ConnectionsClosed == \A r \in Requests : linked[r] <=> phase[r] \in Linked

\* The stream each consumer sees implements CompletionStream: one answer only,
\* without gap or repetition whatever is retried, and one outcome after it.
Stream == INSTANCE CompletionStream WITH
    outcome <- [r \in Requests |->
        IF outcome[r] = "open" /\ ~open[r] /\ phase[r] # "idle" THEN "abandoned" ELSE outcome[r]]
StreamSpec == Stream!Spec

\* Every request that asks for a gateway is through in the end: it gets its
\* turn, its task ends, its connection is closed and it gives the gateway up.
Served == \A r \in Requests :
    phase[r] = "wait" ~> phase[r] = "done" /\ ~open[r]

=============================================================================
