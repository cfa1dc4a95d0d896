------------------------- MODULE AcpTransportProofs -------------------------
(***************************************************************************)
(* Proofs about AcpTransport for any requests, gateways and routing, any   *)
(* number of attempts and chunks, and any capacity of the channel.         *)
(***************************************************************************)
EXTENDS AcpTransport, TLAPS

USE AcpAssumption

-----------------------------------------------------------------------------
(* Types *)

\* Nothing has been asked at the start.
LEMMA TypeInit == Init => TypeOK
  BY DEF Init, TypeOK, Phases

\* The events that the task sends.
LEMMA EventTypes ==
  ASSUME TypeOK, NEW r \in Requests
  PROVE  /\ Terminal("completed") \in Events /\ Terminal("failed") \in Events
         /\ attempt[r] \in Answers /\ sent[r] < MaxChunks => Chunk(r) \in Events
  BY DEF TypeOK, Events, Terminal, Chunk, Answers, Indexes

\* An event fits on the channel when there is room for it.
LEMMA PushType ==
  ASSUME TypeOK, NEW r \in Requests, NEW e \in Events, HasRoom(r), Push(r, e)
  PROVE  /\ queue' \in [Requests -> Seq(Events)]
         /\ \A q \in Requests : Len(queue'[q]) <= Capacity
<1>1. Append(queue[r], e) \in Seq(Events) /\ Len(Append(queue[r], e)) = Len(queue[r]) + 1
  BY DEF TypeOK
<1> QED
  BY <1>1 DEF TypeOK, HasRoom, Push

\* A new attempt starts from typed locals.
LEMMA AttemptType ==
  ASSUME TypeOK, NEW r \in Requests, NEW n \in 1..MaxAttempts, Attempt(r, n)
  PROVE  /\ attempt' \in [Requests -> 0..MaxAttempts]
         /\ emitted' \in [Requests -> BOOLEAN] /\ complete' \in [Requests -> BOOLEAN]
         /\ gone' \in [Requests -> BOOLEAN] /\ session' \in [Requests -> BOOLEAN]
         /\ error' \in [Requests -> {"none"} \cup Errors]
         /\ sent' \in [Requests -> 0..MaxChunks]
         /\ phase' \in [Requests -> Phases]
  BY DEF TypeOK, Attempt, Set, Goto, Phases

\* So does the decision between another attempt and the report.
LEMMA DecideType ==
  ASSUME TypeOK, NEW r \in Requests, NEW e \in Errors, Decide(r, e)
  PROVE  /\ attempt' \in [Requests -> 0..MaxAttempts]
         /\ emitted' \in [Requests -> BOOLEAN] /\ complete' \in [Requests -> BOOLEAN]
         /\ gone' \in [Requests -> BOOLEAN] /\ session' \in [Requests -> BOOLEAN]
         /\ error' \in [Requests -> {"none"} \cup Errors]
         /\ sent' \in [Requests -> 0..MaxChunks]
         /\ phase' \in [Requests -> Phases]
<1>1. CASE Retries(r, e) /\ Attempt(r, attempt[r] + 1)
  <2>1. attempt[r] + 1 \in 1..MaxAttempts
    BY <1>1 DEF TypeOK, Retries
  <2> QED
    BY <1>1, <2>1, AttemptType
<1>2. CASE ~Retries(r, e) /\ UNCHANGED <<attempt, flags, sent>>
           /\ error' = Set(error, r, e) /\ Goto(r, "report")
  BY <1>2 DEF TypeOK, flags, Set, Goto, Phases
<1> QED
  BY <1>1, <1>2 DEF Decide

\* And the end of the inner block.
LEMMA EndRunType ==
  ASSUME TypeOK, NEW r \in Requests, NEW known,
         RpcFails(r, known) \/ \E e \in Errors : EndRun(r, e, known)
  PROVE  phase' \in [Requests -> Phases] /\ error' \in [Requests -> {"none"} \cup Errors]
<1>1. PICK e \in Errors : EndRun(r, e, known)
  BY DEF RpcFails, Errors
<1>2. PICK to \in {"cancel", "close"} : Goto(r, to)
  BY <1>1 DEF EndRun
<1>3. phase' \in [Requests -> Phases]
  BY <1>2 DEF TypeOK, Goto, Phases
<1>4. error' \in [Requests -> {"none"} \cup Errors]
  BY <1>1 DEF TypeOK, EndRun, Set
<1> QED
  BY <1>3, <1>4

\* The steps of the handler and its client.
LEMMA TypeClient ==
  ASSUME TypeOK, NEW r \in Requests,
         Arrive(r) \/ Acquire(r) \/ Read(r) \/ Finish(r) \/ Hangup(r)
  PROVE  TypeOK'
<1> USE DEF client, flags, remote
<1>1. CASE Arrive(r)
  BY <1>1 DEF TypeOK, Arrive, Set, Goto, Phases
<1>2. CASE Acquire(r)
  <2>1. guard' \in [Gateways -> Requests \cup {None}]
    BY <1>2 DEF TypeOK, Acquire, Set
  <2>2. 1 \in 1..MaxAttempts /\ Attempt(r, 1)
    BY <1>2 DEF Acquire
  <2>3. UNCHANGED <<open, text, outcome, turn, linked, queue>>
    BY <1>2 DEF Acquire
  <2> QED
    BY <2>1, <2>2, <2>3, AttemptType DEF TypeOK
<1>3. CASE Read(r)
  <2>1. /\ queue[r] \in Seq(Events) /\ queue[r] # <<>>
        /\ Head(queue[r]) \in Events
        /\ Tail(queue[r]) \in Seq(Events) /\ Len(Tail(queue[r])) = Len(queue[r]) - 1
    BY <1>3 DEF TypeOK, Read
  <2>2. /\ queue' \in [Requests -> Seq(Events)]
        /\ \A q \in Requests : Len(queue'[q]) <= Capacity
    BY <1>3, <2>1 DEF TypeOK, Read
  <2>3. /\ text' \in [Requests -> Seq([answer : Answers, index : Indexes])]
        /\ outcome' \in [Requests -> {"open", "completed", "failed"}]
    <3> DEFINE e == Head(queue[r])
    <3>1. CASE e.kind = "text"
      <4>1. [answer |-> e.answer, index |-> e.index] \in [answer : Answers, index : Indexes]
        BY <2>1, <3>1 DEF Events, Terminal
      <4>2. /\ outcome' = outcome
            /\ text' = [text EXCEPT ![r] =
                          Append(@, [answer |-> e.answer, index |-> e.index])]
        BY <1>3, <3>1 DEF Read
      <4> DEFINE c == [answer |-> e.answer, index |-> e.index]
      <4>3. text' = [text EXCEPT ![r] = Append(text[r], c)]
        BY <4>2
      <4> HIDE DEF c
      <4>4. c \in [answer : Answers, index : Indexes]
        BY <4>1 DEF c
      <4> DEFINE T == [answer : Answers, index : Indexes]
      <4>5. text \in [Requests -> Seq(T)] /\ c \in T
        BY <4>4 DEF TypeOK
      <4> HIDE DEF T
      <4>6. text' \in [Requests -> Seq(T)]
        BY <4>3, <4>5
      <4> QED
        BY <4>2, <4>6 DEF TypeOK, T
    <3>2. CASE e.kind # "text"
      <4>1. e.kind \in {"completed", "failed"}
        BY <2>1, <3>2 DEF Events, Terminal
      <4>2. text' = text /\ outcome' = [outcome EXCEPT ![r] = e.kind]
        BY <1>3, <3>2 DEF Read, Set
      <4> HIDE DEF e
      <4>3. outcome' \in [Requests -> {"open", "completed", "failed"}]
        BY <4>1, <4>2 DEF TypeOK
      <4> QED
        BY <4>2, <4>3 DEF TypeOK
    <3> QED
      BY <3>1, <3>2
  <2> QED
    BY <1>3, <2>2, <2>3 DEF TypeOK, Read
<1>4. CASE Leave(r)
  <2>1. /\ queue' \in [Requests -> Seq(Events)]
        /\ \A q \in Requests : Len(queue'[q]) <= Capacity
    BY <1>4 DEF TypeOK, Leave, Set
  <2> QED
    BY <1>4, <2>1 DEF TypeOK, Leave, Set, Goto, Phases
<1> QED
  BY <1>1, <1>2, <1>3, <1>4 DEF Finish, Hangup

\* The steps of an attempt up to the prompt.
LEMMA TypeOpening ==
  ASSUME TypeOK, NEW r \in Requests,
         Connect(r) \/ Initialize(r) \/ NewSession(r) \/ SetModel(r)
  PROVE  TypeOK'
<1> USE DEF client, flags, remote
<1>1. CASE Connect(r)
  <2>1. CASE linked' = Set(linked, r, TRUE) /\ Goto(r, "initialize")
             /\ UNCHANGED <<attempt, flags, error, sent>>
    BY <1>1, <2>1 DEF TypeOK, Connect, Set, Goto, Phases
  <2>2. ASSUME NEW e \in Errors, Decide(r, e), UNCHANGED linked PROVE TypeOK'
    BY <1>1, <2>2, DecideType DEF TypeOK, Connect
  <2> QED
    BY <1>1, <2>1, <2>2 DEF Connect
<1>2. CASE Initialize(r)
  BY <1>2, EndRunType DEF TypeOK, Initialize, Goto, Phases
<1>3. CASE NewSession(r)
  <2>1. session' \in [Requests -> BOOLEAN]
    BY <1>3 DEF TypeOK, NewSession, Set
  <2>2. phase' \in [Requests -> Phases] /\ error' \in [Requests -> {"none"} \cup Errors]
    BY <1>3, EndRunType DEF TypeOK, NewSession, Goto, Phases
  <2> QED
    BY <1>3, <2>1, <2>2 DEF TypeOK, NewSession
<1>4. CASE SetModel(r)
  <2>1. turn' \in [Requests -> {"none", "running", "ended"}]
    BY <1>4 DEF TypeOK, SetModel, Set
  <2>2. phase' \in [Requests -> Phases] /\ error' \in [Requests -> {"none"} \cup Errors]
    BY <1>4, EndRunType DEF TypeOK, SetModel, Goto, Phases
  <2> QED
    BY <1>4, <2>1, <2>2 DEF TypeOK, SetModel
<1> QED
  BY <1>1, <1>2, <1>3, <1>4

\* The lines of the prompt's answer, and the end of the attempt.
LEMMA TypePrompt ==
  ASSUME TypeOK, NEW r \in Requests,
         \/ PromptChunk(r) \/ PromptEndTurn(r) \/ PromptStop(r) \/ PromptBreaks(r)
         \/ PromptSettles(r) \/ SendCompleted(r) \/ Cancel(r) \/ Close(r) \/ Report(r),
         phase[r] = "prompt" => attempt[r] \in Answers
  PROVE  TypeOK'
<1> USE DEF client, flags, remote
<1>1. CASE PromptChunk(r)
  <2>1. Chunk(r) \in Events
    BY <1>1, EventTypes DEF PromptChunk
  <2>2. /\ queue' \in [Requests -> Seq(Events)]
        /\ \A q \in Requests : Len(queue'[q]) <= Capacity
    BY <1>1, <2>1, PushType DEF TypeOK, PromptChunk
  <2>3. /\ emitted' \in [Requests -> BOOLEAN] /\ gone' \in [Requests -> BOOLEAN]
        /\ sent' \in [Requests -> 0..MaxChunks]
    <3>1. /\ emitted \in [Requests -> BOOLEAN] /\ gone \in [Requests -> BOOLEAN]
          /\ sent \in [Requests -> 0..MaxChunks]
      BY DEF TypeOK
    <3>2. /\ emitted' = [emitted EXCEPT ![r] = TRUE]
          /\ gone' = [gone EXCEPT ![r] = TRUE] \/ gone' = gone
          /\ sent[r] < MaxChunks /\ sent' = [sent EXCEPT ![r] = @ + 1]
      BY <1>1 DEF PromptChunk, Set
    <3>3. sent' \in [Requests -> 0..MaxChunks]
      <4>1. sent[r] + 1 \in 0..MaxChunks
        BY <3>1, <3>2
      <4> QED
        BY <3>1, <3>2, <4>1
    <3> QED
      BY <3>1, <3>2, <3>3
  <2>4. phase' \in [Requests -> Phases] /\ error' \in [Requests -> {"none"} \cup Errors]
    BY <1>1, EndRunType DEF TypeOK, PromptChunk, Errors
  <2> QED
    BY <1>1, <2>2, <2>3, <2>4 DEF TypeOK, PromptChunk
<1>2. CASE PromptEndTurn(r) \/ PromptStop(r) \/ PromptBreaks(r) \/ PromptSettles(r) \/ Cancel(r)
  <2>1. phase' \in [Requests -> Phases]
    <3>1. phase \in [Requests -> Phases]
      BY DEF TypeOK
    <3>2. CASE phase' = phase \/ \E to \in {"cancel", "send", "close"} : Goto(r, to)
      BY <3>1, <3>2 DEF Goto, Phases
    <3>3. CASE RpcFails(r, TRUE) \/ EndRun(r, "retryable", TRUE)
      BY <3>3, EndRunType DEF Errors
    <3> QED
      BY <1>2, <3>2, <3>3 DEF PromptEndTurn, PromptStop, PromptBreaks, PromptSettles, Cancel
  <2>2. error' \in [Requests -> {"none"} \cup Errors]
    BY <1>2, EndRunType DEF TypeOK, PromptEndTurn, PromptStop, PromptBreaks, PromptSettles,
       Cancel, Errors
  <2>3. /\ complete' \in [Requests -> BOOLEAN]
        /\ turn' \in [Requests -> {"none", "running", "ended"}]
    BY <1>2 DEF TypeOK, PromptEndTurn, PromptStop, PromptBreaks, PromptSettles, Cancel, Set
  <2> QED
    BY <1>2, <2>1, <2>2, <2>3 DEF TypeOK, PromptEndTurn, PromptStop, PromptBreaks,
       PromptSettles, Cancel
<1>3. CASE SendCompleted(r) \/ Report(r)
  <2>1. /\ queue' \in [Requests -> Seq(Events)]
        /\ \A q \in Requests : Len(queue'[q]) <= Capacity
    BY <1>3, EventTypes, PushType DEF TypeOK, SendCompleted, Report
  <2> QED
    BY <1>3, <2>1 DEF TypeOK, SendCompleted, Report, Goto, Phases
<1>4. CASE Close(r)
  <2>1. linked' \in [Requests -> BOOLEAN] /\ turn' \in [Requests -> {"none", "running", "ended"}]
    BY <1>4 DEF TypeOK, Close, Set
  <2>2. CASE error[r] = "none"
    BY <1>4, <2>1, <2>2 DEF TypeOK, Close, Goto, Phases
  <2>3. CASE error[r] # "none"
    BY <1>4, <2>1, <2>3, DecideType DEF TypeOK, Close
  <2> QED
    BY <2>2, <2>3
<1> QED
  BY <1>1, <1>2, <1>3, <1>4

\* An attempt is being made from the connection to the end.
Counted == \A r \in Requests : phase[r] \notin {"idle", "wait", "done"} => attempt[r] \in Answers

TypeIInv == TypeOK /\ Counted

\* Every step keeps the count of the attempts in its range.
LEMMA CountedNext ==
  ASSUME TypeIInv, [Next]_vars
  PROVE  Counted'
<1> USE DEF TypeIInv, TypeOK, Counted, Answers, client, flags, remote, Set, Goto
<1>1. ASSUME NEW r \in Requests, Arrive(r) \/ Read(r) \/ Finish(r) \/ Hangup(r) PROVE Counted'
  BY <1>1 DEF Arrive, Read, Finish, Hangup, Leave
<1>2. ASSUME NEW r \in Requests, Acquire(r) PROVE Counted'
  BY <1>2 DEF Acquire, Attempt
<1>3. ASSUME NEW r \in Requests, Connect(r) \/ Close(r) PROVE Counted'
  <2>1. phase[r] \notin {"idle", "wait", "done"}
    BY <1>3 DEF Connect, Close
  <2>2. CASE attempt' = [attempt EXCEPT ![r] = attempt[r] + 1] /\ attempt[r] < MaxAttempts
             /\ phase' = [phase EXCEPT ![r] = "connect"]
    BY <2>1, <2>2
  <2>3. CASE UNCHANGED attempt /\ \E to \in Phases : phase' = [phase EXCEPT ![r] = to]
    BY <2>1, <2>3
  <2> QED
    BY <1>3, <2>2, <2>3 DEF Connect, Close, Decide, Retries, Attempt, Phases
<1>4. ASSUME NEW r \in Requests, Initialize(r) \/ NewSession(r) \/ SetModel(r) PROVE Counted'
  BY <1>4 DEF Initialize, NewSession, SetModel, RpcFails, EndRun
<1>5. ASSUME NEW r \in Requests,
             PromptChunk(r) \/ PromptEndTurn(r) \/ PromptStop(r) \/ PromptBreaks(r) \/ PromptSettles(r)
      PROVE  Counted'
  BY <1>5 DEF PromptChunk, PromptEndTurn, PromptStop, PromptBreaks, PromptSettles, RpcFails, EndRun
<1>6. ASSUME NEW r \in Requests, SendCompleted(r) \/ Cancel(r) \/ Report(r) PROVE Counted'
  BY <1>6 DEF SendCompleted, Cancel, Report
<1>7. CASE UNCHANGED vars
  BY <1>7 DEF vars
<1> QED
  BY <1>1, <1>2, <1>3, <1>4, <1>5, <1>6, <1>7 DEF Next, TaskStep

\* Every step keeps the types.
LEMMA TypeNext ==
  ASSUME TypeIInv, [Next]_vars
  PROVE  TypeIInv'
<1>1. CASE UNCHANGED vars
  BY <1>1, CountedNext DEF TypeIInv, TypeOK, vars, client, flags, remote
<1> QED
  BY <1>1, CountedNext, TypeClient, TypeOpening, TypePrompt DEF TypeIInv, Counted, Next, TaskStep

\* TypeOK: whatever the gateway answers and the client does, the channel never
\* holds more than its capacity and the locals keep their types.
THEOREM TypeCorrect == Spec => []TypeOK
<1>1. Init => TypeIInv
  BY TypeInit DEF Init, TypeIInv, Counted
<1>2. TypeIInv => TypeOK
  BY DEF TypeIInv
<1> QED
  BY <1>1, <1>2, TypeNext, PTL DEF Spec

-----------------------------------------------------------------------------
(* The stream *)

\* The task has said all it will say.
Over(r) == phase[r] = "done" \/ (phase[r] = "close" /\ error[r] = "none")

\* n chunks are the whole of the attempt's answer.
Whole(r, n) == complete[r] /\ n = sent[r] /\ n > 0

\* What lies on the channel continues what has been read, with a terminal
\* event, if any, at its end.
QueueInv(r) == \A i \in 1..Len(queue[r]) :
    /\ queue[r][i].kind = "text" =>
          queue[r][i].answer = attempt[r] /\ queue[r][i].index = Len(text[r]) + i
    /\ queue[r][i].kind # "text" => i = Len(queue[r]) /\ Over(r)
    /\ queue[r][i].kind = "completed" => Whole(r, Len(text[r]) + i - 1)

\* What has been read comes from the current attempt.
ReadInv(r) ==
    /\ text[r] # <<>> => text[r][1].answer = attempt[r]
    /\ outcome[r] # "open" => queue[r] = <<>> /\ Over(r)
    /\ outcome[r] = "completed" => Whole(r, Len(text[r]))

\* How the attempt's flags relate to what has been passed on.
FlagInv(r) ==
    /\ ~emitted[r] => text[r] = <<>> /\ \A i \in 1..Len(queue[r]) : queue[r][i].kind # "text"
    /\ emitted[r] => sent[r] > 0
    /\ phase[r] \in {"idle", "wait", "connect", "initialize", "new", "model"} =>
          ~emitted[r] /\ sent[r] = 0 /\ ~gone[r] /\ error[r] = "none"
    /\ phase[r] \in {"prompt", "send"} => error[r] = "none"
    /\ phase[r] \in {"prompt", "send"} /\ open[r] => sent[r] = Len(text[r]) + Len(queue[r])
    /\ phase[r] = "send" => emitted[r] /\ complete[r]

\* Nothing is sent to a consumer that has left, and an attempt that ends
\* without an error has told one that listens.
EndInv(r) ==
    /\ ~open[r] => queue[r] = <<>>
    /\ phase[r] = "idle" => ~open[r]
    /\ gone[r] \/ phase[r] = "cancel" => ~open[r]
    /\ phase[r] = "report" => error[r] # "none"
    /\ open[r] /\ Over(r) => Told(r, "completed") \/ Told(r, "failed")

StreamInvOf(r) == QueueInv(r) /\ ReadInv(r) /\ FlagInv(r) /\ EndInv(r)
StreamInv      == \A r \in Requests : StreamInvOf(r)

\* A step that leaves a request's stream and task alone.
Same(q) ==
    /\ queue'[q] = queue[q] /\ text'[q] = text[q] /\ outcome'[q] = outcome[q]
    /\ phase'[q] = phase[q] /\ error'[q] = error[q] /\ open'[q] = open[q]
    /\ attempt'[q] = attempt[q] /\ sent'[q] = sent[q]
    /\ emitted'[q] = emitted[q] /\ complete'[q] = complete[q] /\ gone'[q] = gone[q]

\* Such a step keeps that request's invariant.
LEMMA SameKeeps ==
  ASSUME NEW q \in Requests, StreamInvOf(q), Same(q)
  PROVE  StreamInvOf(q)'
<1>1. QueueInv(q)'
  BY DEF StreamInvOf, QueueInv, Over, Whole, Same
<1>2. ReadInv(q)'
  BY DEF StreamInvOf, ReadInv, Over, Whole, Same
<1>3. FlagInv(q)'
  BY DEF StreamInvOf, FlagInv, Same
<1>4. EndInv(q)'
  BY DEF StreamInvOf, EndInv, Over, Told, Same
<1> QED
  BY <1>1, <1>2, <1>3, <1>4 DEF StreamInvOf

\* Nothing has been sent at the start.
LEMMA StreamInit == Init => StreamInv
<1> SUFFICES ASSUME Init, NEW r \in Requests PROVE StreamInvOf(r)
  BY DEF StreamInv
<1>1. queue[r] = <<>> /\ text[r] = <<>> /\ Len(queue[r]) = 0
  BY DEF Init
<1>2. outcome[r] = "open" /\ phase[r] = "idle" /\ ~emitted[r] /\ sent[r] = 0 /\ ~open[r] /\ ~gone[r]
      /\ error[r] = "none"
  BY DEF Init
<1> QED
  BY <1>1, <1>2 DEF StreamInvOf, QueueInv, ReadInv, FlagInv, EndInv, Over

\* A request's channel and text, as sequences.
LEMMA Lengths ==
  ASSUME TypeOK, NEW r \in Requests
  PROVE  /\ Len(queue[r]) \in Nat /\ Len(text[r]) \in Nat /\ sent[r] \in Nat
         /\ queue[r] \in Seq(Events) /\ text[r] \in Seq([answer : Answers, index : Indexes])
         /\ queue[r] = <<>> <=> Len(queue[r]) = 0
         /\ text[r] = <<>> <=> Len(text[r]) = 0
<1> DEFINE T == [answer : Answers, index : Indexes]
<1>1. queue[r] \in Seq(Events) /\ text[r] \in Seq(T)
  BY DEF TypeOK
<1>3. sent[r] \in Nat
  <2>1. sent[r] \in 0..MaxChunks
    BY DEF TypeOK
  <2> QED
    BY <2>1
<1> HIDE DEF T
<1>2. \A S, q : q \in Seq(S) => Len(q) \in Nat /\ (q = <<>> <=> Len(q) = 0)
  OBVIOUS
<1> QED
  BY <1>1, <1>2, <1>3 DEF T

\* As long as the task has more to say the channel holds nothing but text, and
\* before the first chunk it is empty.
LEMMA NotOver ==
  ASSUME TypeOK, NEW r \in Requests, StreamInvOf(r), ~Over(r)
  PROVE  /\ outcome[r] = "open"
         /\ \A i \in 1..Len(queue[r]) : queue[r][i].kind = "text"
         /\ ~emitted[r] => /\ text[r] = <<>> /\ queue[r] = <<>>
                           /\ Len(text[r]) = 0 /\ Len(queue[r]) = 0
<1>1. outcome[r] = "open"
  BY DEF StreamInvOf, ReadInv
<1>2. \A i \in 1..Len(queue[r]) : queue[r][i].kind = "text"
  BY DEF StreamInvOf, QueueInv
<1>3. ASSUME ~emitted[r]
      PROVE  text[r] = <<>> /\ queue[r] = <<>> /\ Len(text[r]) = 0 /\ Len(queue[r]) = 0
  <2>1. text[r] = <<>> /\ \A i \in 1..Len(queue[r]) : queue[r][i].kind # "text"
    BY <1>3 DEF StreamInvOf, FlagInv
  <2>2. Len(queue[r]) = 0
    BY <1>2, <2>1, Lengths
  <2> QED
    BY <2>1, <2>2, Lengths
<1> QED
  BY <1>1, <1>2, <1>3

\* A step of the task that neither sends nor starts anew.
LEMMA Quiet ==
  ASSUME TypeOK, NEW r \in Requests, StreamInvOf(r), ~Over(r),
         queue'[r] = queue[r], text'[r] = text[r], outcome'[r] = outcome[r],
         open'[r] = open[r], attempt'[r] = attempt[r], sent'[r] = sent[r],
         emitted'[r] = emitted[r], gone'[r] = gone[r],
         \/ phase'[r] \in {"initialize", "new", "model"}
            /\ phase[r] \in {"connect", "initialize", "new"} /\ error'[r] = error[r]
         \/ /\ phase'[r] = "prompt" /\ phase[r] \in {"model", "prompt"}
            /\ error'[r] = error[r]
         \/ /\ phase'[r] = "send" /\ phase[r] = "prompt" /\ error'[r] = error[r]
            /\ emitted[r] /\ complete'[r]
         \/ phase'[r] = "cancel" /\ ~open[r]
         \/ phase'[r] = "close" /\ (error'[r] # "none" \/ ~open[r])
         \/ phase'[r] = "report" /\ error'[r] # "none"
  PROVE  StreamInvOf(r)'
<1>1. QueueInv(r)'
  BY NotOver DEF StreamInvOf, QueueInv
<1>2. ReadInv(r)'
  BY NotOver DEF StreamInvOf, ReadInv
<1>3. FlagInv(r)'
  <2>1. phase'[r] = "prompt" /\ open[r] => sent[r] = Len(text[r]) + Len(queue[r])
    <3>1. CASE phase[r] = "model"
      <4>1. ~emitted[r] /\ sent[r] = 0
        BY <3>1 DEF StreamInvOf, FlagInv
      <4>2. Len(text[r]) = 0 /\ Len(queue[r]) = 0
        BY <4>1, NotOver
      <4> QED
        BY <4>1, <4>2
    <3>2. CASE phase[r] # "model"
      BY <3>2 DEF StreamInvOf, FlagInv
    <3> QED
      BY <3>1, <3>2
  <2>2. phase'[r] \in {"initialize", "new", "model"} =>
          ~emitted[r] /\ sent[r] = 0 /\ ~gone[r] /\ error[r] = "none"
    BY DEF StreamInvOf, FlagInv
  <2> QED
    BY <2>1, <2>2 DEF StreamInvOf, FlagInv
<1>4. EndInv(r)'
  BY NotOver DEF StreamInvOf, EndInv, Over
<1> QED
  BY <1>1, <1>2, <1>3, <1>4 DEF StreamInvOf

\* A new attempt starts from an empty stream.
LEMMA Fresh ==
  ASSUME TypeOK, NEW r \in Requests, StreamInvOf(r), ~Over(r), ~emitted[r],
         queue'[r] = queue[r], text'[r] = text[r], outcome'[r] = outcome[r],
         open'[r] = open[r], sent'[r] = 0, ~emitted'[r], ~gone'[r], phase'[r] = "connect",
         error'[r] = "none"
  PROVE  StreamInvOf(r)'
<1>1. Len(queue'[r]) = 0 /\ text'[r] = <<>> /\ outcome'[r] = "open"
  BY NotOver
<1> QED
  BY <1>1 DEF StreamInvOf, QueueInv, ReadInv, FlagInv, EndInv, Over

\* A task's event goes to the end of the channel.
LEMMA PushSeq ==
  ASSUME TypeOK, NEW r \in Requests, NEW e \in Events, Push(r, e)
  PROVE  /\ queue'[r] = Append(queue[r], e)
         /\ Len(queue'[r]) = Len(queue[r]) + 1
         /\ queue'[r][Len(queue[r]) + 1] = e
         /\ \A i \in 1..Len(queue[r]) : queue'[r][i] = queue[r][i]
<1>1. queue'[r] = Append(queue[r], e)
  BY DEF TypeOK, Push
<1> QED
  BY <1>1, Lengths

\* A chunk of the answer continues what is on the channel.
LEMMA ChunkKeeps ==
  ASSUME TypeOK, NEW r \in Requests, StreamInvOf(r), phase[r] = "prompt", open[r],
         attempt[r] \in Answers, sent[r] < MaxChunks,
         Push(r, Chunk(r)), text'[r] = text[r], outcome'[r] = outcome[r],
         open'[r] = open[r], attempt'[r] = attempt[r], sent'[r] = sent[r] + 1,
         emitted'[r], gone'[r] = gone[r], phase'[r] = phase[r], error'[r] = error[r]
  PROVE  StreamInvOf(r)'
<1>1. Chunk(r) \in Events
  BY EventTypes
<1>2. /\ Len(queue'[r]) = Len(queue[r]) + 1
      /\ queue'[r][Len(queue[r]) + 1] = Chunk(r)
      /\ \A i \in 1..Len(queue[r]) : queue'[r][i] = queue[r][i]
  BY <1>1, PushSeq
<1>3. ~Over(r)
  BY DEF Over
<1>4. sent[r] = Len(text[r]) + Len(queue[r])
  BY DEF StreamInvOf, FlagInv
<1>5. /\ Chunk(r).kind = "text" /\ Chunk(r).answer = attempt[r]
      /\ Chunk(r).index = Len(text[r]) + (Len(queue[r]) + 1)
  <2>1. /\ Chunk(r).kind = "text" /\ Chunk(r).answer = attempt[r]
        /\ Chunk(r).index = sent[r] + 1
    BY DEF Chunk
  <2> DEFINE read == Len(text[r])
             kept == Len(queue[r])
             index == Chunk(r).index
             count == sent[r]
  <2>2. read \in Nat /\ kept \in Nat /\ count = read + kept /\ index = count + 1
    BY <1>4, <2>1, Lengths
  <2> HIDE DEF read, kept, index, count
  <2>3. index = read + (kept + 1)
    BY <2>2
  <2> QED
    BY <2>1, <2>3 DEF read, kept, index
<1>6. QueueInv(r)'
  <2> SUFFICES ASSUME NEW i \in 1..Len(queue'[r])
               PROVE  /\ queue'[r][i].kind = "text"
                      /\ queue'[r][i].answer = attempt[r] /\ queue'[r][i].index = Len(text[r]) + i
    BY DEF QueueInv
  <2>1. CASE i = Len(queue[r]) + 1
    BY <1>2, <1>5, <2>1
  <2>2. CASE i # Len(queue[r]) + 1
    <3>1. i \in 1..Len(queue[r])
      BY <1>2, <2>2, Lengths
    <3>2. queue'[r][i] = queue[r][i] /\ queue[r][i].kind = "text"
      BY <1>2, <1>3, <3>1, NotOver
    <3> QED
      BY <3>1, <3>2 DEF StreamInvOf, QueueInv
  <2> QED
    BY <2>1, <2>2
<1>7. ReadInv(r)'
  BY <1>3, NotOver DEF StreamInvOf, ReadInv
<1>8. FlagInv(r)'
  <2>1. sent'[r] > 0 /\ sent'[r] = Len(text'[r]) + Len(queue'[r])
    <3> DEFINE read == Len(text[r])
               kept == Len(queue[r])
               count == sent[r]
    <3>1. read \in Nat /\ kept \in Nat /\ count = read + kept
      BY <1>4, Lengths
    <3>2. sent'[r] = count + 1 /\ Len(text'[r]) = read /\ Len(queue'[r]) = kept + 1
      BY <1>2
    <3> HIDE DEF read, kept, count
    <3> QED
      BY <3>1, <3>2
  <2> QED
    BY <2>1 DEF StreamInvOf, FlagInv
<1>9. EndInv(r)'
  BY DEF StreamInvOf, EndInv, Over
<1> QED
  BY <1>6, <1>7, <1>8, <1>9 DEF StreamInvOf

\* The terminal event comes after all the text.
LEMMA TerminalKeeps ==
  ASSUME TypeOK, NEW r \in Requests, StreamInvOf(r), ~Over(r),
         NEW k \in {"completed", "failed"}, open[r],
         Push(r, Terminal(k)), text'[r] = text[r], outcome'[r] = outcome[r],
         open'[r] = open[r], attempt'[r] = attempt[r], sent'[r] = sent[r],
         emitted'[r] = emitted[r], complete'[r] = complete[r], gone'[r] = gone[r],
         phase'[r] \in {"close", "done"}, Over(r)',
         k = "completed" => Whole(r, Len(text[r]) + Len(queue[r]))
  PROVE  StreamInvOf(r)'
<1>1. Terminal(k) \in Events /\ Terminal(k).kind = k
  BY EventTypes DEF Terminal
<1>2. /\ Len(queue'[r]) = Len(queue[r]) + 1
      /\ queue'[r][Len(queue[r]) + 1] = Terminal(k)
      /\ \A i \in 1..Len(queue[r]) : queue'[r][i] = queue[r][i]
  BY <1>1, PushSeq
<1>3. QueueInv(r)'
  <2> SUFFICES ASSUME NEW i \in 1..Len(queue'[r])
               PROVE  /\ queue'[r][i].kind = "text" =>
                            queue'[r][i].answer = attempt[r] /\ queue'[r][i].index = Len(text[r]) + i
                      /\ queue'[r][i].kind # "text" => i = Len(queue'[r])
                      /\ queue'[r][i].kind = "completed" => Whole(r, Len(text[r]) + i - 1)
    BY DEF QueueInv, Whole
  <2>1. CASE i = Len(queue[r]) + 1
    <3>1. Len(text[r]) + i - 1 = Len(text[r]) + Len(queue[r])
      BY <2>1, Lengths
    <3> QED
      BY <1>1, <1>2, <2>1, <3>1
  <2>2. CASE i # Len(queue[r]) + 1
    <3>1. i \in 1..Len(queue[r])
      BY <1>2, <2>2, Lengths
    <3> QED
      BY <1>2, <3>1, NotOver DEF StreamInvOf, QueueInv
  <2> QED
    BY <2>1, <2>2
<1>4. ReadInv(r)'
  BY NotOver DEF StreamInvOf, ReadInv
<1>5. FlagInv(r)'
  <2>1. ~emitted'[r] => text'[r] = <<>> /\ \A i \in 1..Len(queue'[r]) : queue'[r][i].kind # "text"
    <3> SUFFICES ASSUME ~emitted[r] PROVE text[r] = <<>> /\ \A i \in 1..Len(queue'[r]) : queue'[r][i].kind # "text"
      OBVIOUS
    <3>1. Len(queue[r]) = 0 /\ text[r] = <<>>
      BY NotOver
    <3>2. \A i \in 1..Len(queue'[r]) : i = Len(queue[r]) + 1
      BY <1>2, <3>1
    <3> QED
      BY <1>1, <1>2, <3>1, <3>2
  <2> QED
    BY <2>1 DEF StreamInvOf, FlagInv
<1>6. EndInv(r)'
  <2>1. Told(r, "completed")' \/ Told(r, "failed")'
    <3>1. Len(queue[r]) + 1 \in 1..Len(queue'[r])
      BY <1>2, Lengths
    <3> QED
      BY <1>1, <1>2, <3>1 DEF Told
  <2> QED
    BY <2>1 DEF StreamInvOf, EndInv, Over
<1> QED
  BY <1>3, <1>4, <1>5, <1>6 DEF StreamInvOf

\* The consumer takes the head of the channel.
LEMMA ReadKeeps ==
  ASSUME TypeOK, NEW r \in Requests, StreamInvOf(r), Read(r)
  PROVE  StreamInvOf(r)'
<1> DEFINE q == queue[r]
           n == Len(queue[r])
           m == Len(text[r])
           c == [answer |-> q[1].answer, index |-> q[1].index]
<1>1. /\ q \in Seq(Events) /\ q # <<>> /\ n \in Nat /\ n >= 1 /\ m \in Nat
      /\ Head(q) = q[1] /\ q[1] \in Events
  BY Lengths DEF Read
<1>2. /\ queue'[r] = Tail(q) /\ Len(queue'[r]) = n - 1
      /\ \A i \in 1..(n - 1) : queue'[r][i] = q[i + 1]
  <2>1. queue'[r] = Tail(q)
    BY DEF TypeOK, Read
  <2> QED
    BY <1>1, <2>1
<1>3. /\ open[r] /\ open'[r] /\ phase'[r] = phase[r] /\ error'[r] = error[r]
      /\ attempt'[r] = attempt[r] /\ sent'[r] = sent[r] /\ emitted'[r] = emitted[r]
      /\ complete'[r] = complete[r] /\ gone'[r] = gone[r]
  BY DEF Read, flags, remote
<1>4. /\ outcome[r] = "open"
      /\ Over(r)' = Over(r)
      /\ \A k : Whole(r, k)' = Whole(r, k)
  BY <1>1, <1>3 DEF StreamInvOf, ReadInv, Over, Whole
<1>5. CASE q[1].kind = "text"
  <2>1. text'[r] = Append(text[r], c) /\ outcome'[r] = "open"
    BY <1>1, <1>4, <1>5 DEF TypeOK, Read
  <2>2. /\ Len(text'[r]) = m + 1 /\ text'[r] # <<>>
        /\ text'[r][1] = IF text[r] = <<>> THEN c ELSE text[r][1]
    <3> DEFINE T == [answer : Answers, index : Indexes]
    <3>1. c \in T
      BY <1>1, <1>5 DEF Events, Terminal
    <3>2. text[r] \in Seq(T)
      BY Lengths
    <3> HIDE DEF T, c
    <3>3. ASSUME NEW t \in Seq(T)
          PROVE  /\ Len(Append(t, c)) = Len(t) + 1 /\ Append(t, c) # <<>>
                 /\ Append(t, c)[1] = IF t = <<>> THEN c ELSE t[1]
      <4>1. Len(t) \in Nat /\ Len(Append(t, c)) = Len(t) + 1 /\ Append(t, c) # <<>>
        BY <3>1
      <4>2. CASE t = <<>>
        BY <4>2
      <4>3. CASE t # <<>>
        <5>1. 1 \in 1..Len(t)
          BY <4>3
        <5> QED
          BY <3>1, <4>3, <5>1
      <4> QED
        BY <4>1, <4>2, <4>3
    <3> QED
      BY <2>1, <3>2, <3>3
  <2>3. q[1].answer = attempt[r] /\ emitted[r]
    <3>1. 1 \in 1..n
      BY <1>1
    <3> QED
      BY <1>5, <3>1 DEF StreamInvOf, QueueInv, FlagInv
  <2>4. QueueInv(r)'
    <3> SUFFICES ASSUME NEW i \in 1..(n - 1)
                 PROVE  /\ q[i + 1].kind = "text" =>
                              q[i + 1].answer = attempt[r] /\ q[i + 1].index = m + 1 + i
                        /\ q[i + 1].kind # "text" => i = n - 1 /\ Over(r)
                        /\ q[i + 1].kind = "completed" => Whole(r, m + 1 + i - 1)
      BY <1>2, <1>3, <1>4, <2>2 DEF QueueInv
    <3>0. n \in Nat /\ m \in Nat
      BY <1>1
    <3> HIDE DEF q, n, m
    <3>1. i + 1 \in 1..n /\ m + (i + 1) = m + 1 + i /\ m + (i + 1) - 1 = m + 1 + i - 1
          /\ (i + 1 = n => i = n - 1)
      BY <3>0
    <3>2. /\ q[i + 1].kind = "text" => q[i + 1].answer = attempt[r] /\ q[i + 1].index = m + (i + 1)
          /\ q[i + 1].kind # "text" => i + 1 = n /\ Over(r)
          /\ q[i + 1].kind = "completed" => Whole(r, m + (i + 1) - 1)
      BY <3>1 DEF StreamInvOf, QueueInv, q, n, m
    <3> QED
      BY <3>1, <3>2
  <2>5. ReadInv(r)'
    BY <1>3, <2>1, <2>2, <2>3 DEF StreamInvOf, ReadInv
  <2>6. FlagInv(r)'
    <3>1. Len(text'[r]) + Len(queue'[r]) = m + n
      <4>1. n \in Nat /\ m \in Nat /\ Len(queue'[r]) = n - 1 /\ Len(text'[r]) = m + 1
        BY <1>1, <1>2, <2>2
      <4> HIDE DEF n, m
      <4> QED
        BY <4>1
    <3> QED
      BY <1>3, <2>3, <3>1 DEF StreamInvOf, FlagInv
  <2>7. \A k \in {"completed", "failed"} : Told(r, k) => Told(r, k)'
    <3> SUFFICES ASSUME NEW k \in {"completed", "failed"}, NEW i \in 1..n, q[i].kind = k
                 PROVE  \E j \in 1..(n - 1) : q[j + 1].kind = k
      BY <1>2, <1>4 DEF Told
    <3>1. i # 1
      BY <1>5
    <3>2. i - 1 \in 1..(n - 1) /\ (i - 1) + 1 = i
      BY <1>1, <3>1
    <3> QED
      BY <3>2
  <2>8. EndInv(r)'
    BY <1>3, <1>4, <2>7 DEF StreamInvOf, EndInv
  <2> QED
    BY <2>4, <2>5, <2>6, <2>8 DEF StreamInvOf
<1>6. CASE q[1].kind # "text"
  <2>1. /\ n = 1 /\ Over(r)
        /\ q[1].kind = "completed" => Whole(r, m + 1 - 1)
    <3>1. 1 \in 1..n
      BY <1>1
    <3> QED
      BY <1>6, <3>1 DEF StreamInvOf, QueueInv
  <2>2. m + 1 - 1 = m
    BY <1>1
  <2>3. text'[r] = text[r] /\ outcome'[r] = q[1].kind
    BY <1>1, <1>6 DEF TypeOK, Read, Set
  <2>4. q[1].kind \in {"completed", "failed"}
    BY <1>1, <1>6 DEF Events, Terminal
  <2>5. queue'[r] = <<>> /\ Len(queue'[r]) = 0
    <3>1. Len(queue'[r]) = 0 /\ queue'[r] \in Seq(Events)
      BY <1>1, <1>2, <2>1
    <3> QED
      BY <3>1
  <2>6. QueueInv(r)'
    BY <2>5 DEF QueueInv
  <2>7. ReadInv(r)'
    BY <1>3, <1>4, <2>1, <2>2, <2>3, <2>5 DEF StreamInvOf, ReadInv
  <2>8. FlagInv(r)'
    BY <1>3, <2>1, <2>3, <2>5 DEF StreamInvOf, FlagInv, Over
  <2>9. EndInv(r)'
    BY <1>3, <2>3, <2>4 DEF StreamInvOf, EndInv, Told
  <2> QED
    BY <2>6, <2>7, <2>8, <2>9 DEF StreamInvOf
<1> QED
  BY <1>5, <1>6

\* The consumer drops the stream.
LEMMA LeaveKeeps ==
  ASSUME TypeOK, NEW r \in Requests, StreamInvOf(r), open[r], Leave(r)
  PROVE  StreamInvOf(r)'
<1>1. /\ ~open'[r] /\ queue'[r] = <<>> /\ Len(queue'[r]) = 0
      /\ text'[r] = text[r] /\ outcome'[r] = outcome[r] /\ error'[r] = error[r]
      /\ attempt'[r] = attempt[r] /\ sent'[r] = sent[r] /\ emitted'[r] = emitted[r]
      /\ complete'[r] = complete[r] /\ gone'[r] = gone[r]
      /\ phase'[r] = IF phase[r] = "wait" THEN "done" ELSE phase[r]
  BY DEF TypeOK, Leave, Set, Goto, flags, remote
<1>2. QueueInv(r)'
  BY <1>1 DEF QueueInv
<1>3. ReadInv(r)'
  BY <1>1 DEF StreamInvOf, ReadInv, Over, Whole
<1>4. FlagInv(r)'
  BY <1>1 DEF StreamInvOf, FlagInv
<1>5. EndInv(r)'
  BY <1>1 DEF StreamInvOf, EndInv
<1> QED
  BY <1>2, <1>3, <1>4, <1>5 DEF StreamInvOf

\* A step of one request leaves the others alone.
LEMMA Others ==
  ASSUME TypeOK, NEW r \in Requests, NEW q \in Requests, q # r,
         \/ Arrive(r) \/ Acquire(r) \/ Read(r) \/ Finish(r) \/ Hangup(r) \/ TaskStep(r)
  PROVE  Same(q)
<1> USE DEF TypeOK, Same, client, flags, remote, Set, Goto, Push
<1>1. CASE Arrive(r) \/ Read(r) \/ Finish(r) \/ Hangup(r)
  BY <1>1 DEF Arrive, Read, Finish, Hangup, Leave
<1>2. CASE Acquire(r)
  BY <1>2 DEF Acquire, Attempt
<1>3. CASE Connect(r) \/ Close(r)
  BY <1>3 DEF Connect, Close, Decide, Attempt
<1>4. CASE Initialize(r) \/ NewSession(r) \/ SetModel(r)
  BY <1>4 DEF Initialize, NewSession, SetModel, RpcFails, EndRun
<1>5. CASE PromptChunk(r)
  BY <1>5 DEF PromptChunk, EndRun
<1>6. CASE PromptEndTurn(r) \/ PromptStop(r) \/ PromptBreaks(r) \/ PromptSettles(r)
  BY <1>6 DEF PromptEndTurn, PromptStop, PromptBreaks, PromptSettles, RpcFails, EndRun
<1>7. CASE SendCompleted(r) \/ Cancel(r) \/ Report(r)
  BY <1>7 DEF SendCompleted, Cancel, Report
<1> QED
  BY <1>1, <1>2, <1>3, <1>4, <1>5, <1>6, <1>7 DEF TaskStep

\* The decision between another attempt and the report.
LEMMA DecideKeeps ==
  ASSUME TypeOK, NEW r \in Requests, StreamInvOf(r), ~Over(r), NEW e \in Errors, Decide(r, e),
         queue' = queue, text' = text, outcome' = outcome, open' = open
  PROVE  StreamInvOf(r)'
<1>1. CASE Retries(r, e) /\ Attempt(r, attempt[r] + 1)
  <2>1. ~emitted[r]
    BY <1>1 DEF Retries
  <2>2. sent'[r] = 0 /\ ~emitted'[r] /\ ~gone'[r] /\ phase'[r] = "connect" /\ error'[r] = "none"
    BY <1>1 DEF TypeOK, Attempt, Set, Goto
  <2> QED
    BY <2>1, <2>2, Fresh
<1>2. CASE ~Retries(r, e) /\ UNCHANGED <<attempt, flags, sent>>
           /\ error' = Set(error, r, e) /\ Goto(r, "report")
  <2>1. phase'[r] = "report" /\ error'[r] # "none"
    BY <1>2 DEF TypeOK, Set, Goto, Errors
  <2> QED
    BY <1>2, <2>1, Quiet DEF flags
<1> QED
  BY <1>1, <1>2 DEF Decide

\* The end of the inner block with an error.
LEMMA EndRunKeeps ==
  ASSUME TypeOK, NEW r \in Requests, StreamInvOf(r), ~Over(r), NEW known,
         RpcFails(r, known) \/ \E e \in Errors : EndRun(r, e, known),
         queue'[r] = queue[r], text'[r] = text[r], outcome'[r] = outcome[r],
         open'[r] = open[r], attempt'[r] = attempt[r], sent'[r] = sent[r],
         emitted'[r] = emitted[r], gone'[r] = gone[r]
  PROVE  StreamInvOf(r)'
<1>1. PICK e \in Errors : EndRun(r, e, known)
  BY DEF RpcFails, Errors
<1>2. /\ error'[r] # "none"
      /\ phase'[r] = "close" \/ (phase'[r] = "cancel" /\ ~open[r])
  BY <1>1 DEF TypeOK, EndRun, Set, Goto, Errors
<1> QED
  BY <1>2, Quiet

\* The steps of the handler and its client.
LEMMA ClientKeeps ==
  ASSUME TypeOK, NEW r \in Requests, StreamInvOf(r),
         Arrive(r) \/ Acquire(r) \/ Read(r) \/ Finish(r) \/ Hangup(r)
  PROVE  StreamInvOf(r)'
<1>1. CASE Arrive(r)
  <2>1. ~Over(r) /\ phase[r] = "idle" /\ phase'[r] = "wait" /\ open'[r]
    BY <1>1 DEF TypeOK, Arrive, Set, Goto, Over
  <2>2. ~emitted[r] /\ sent[r] = 0 /\ ~gone[r] /\ queue[r] = <<>> /\ Len(queue[r]) = 0
    BY <2>1, Lengths DEF StreamInvOf, FlagInv, EndInv
  <2>3. text[r] = <<>> /\ outcome[r] = "open"
    BY <2>1, <2>2, NotOver
  <2> QED
    BY <1>1, <2>1, <2>2, <2>3
    DEF Arrive, flags, remote, StreamInvOf, QueueInv, ReadInv, FlagInv, EndInv, Over
<1>2. CASE Acquire(r)
  <2>1. ~Over(r) /\ ~emitted[r]
    BY <1>2 DEF Acquire, Over, StreamInvOf, FlagInv
  <2>2. sent'[r] = 0 /\ ~emitted'[r] /\ ~gone'[r] /\ phase'[r] = "connect" /\ error'[r] = "none"
    BY <1>2 DEF TypeOK, Acquire, Attempt, Set, Goto
  <2> QED
    BY <1>2, <2>1, <2>2, Fresh DEF Acquire
<1>3. CASE Read(r)
  BY <1>3, ReadKeeps
<1>4. CASE Finish(r) \/ Hangup(r)
  BY <1>4, LeaveKeeps DEF Finish, Hangup
<1> QED
  BY <1>1, <1>2, <1>3, <1>4

\* The steps up to the prompt.
LEMMA OpeningKeeps ==
  ASSUME TypeOK, NEW r \in Requests, StreamInvOf(r),
         Connect(r) \/ Initialize(r) \/ NewSession(r) \/ SetModel(r)
  PROVE  StreamInvOf(r)'
<1> USE DEF client, flags, remote
<1>1. ~Over(r)
  BY DEF Connect, Initialize, NewSession, SetModel, Over
<1>2. CASE Connect(r)
  <2>1. CASE Goto(r, "initialize") /\ UNCHANGED <<attempt, flags, error, sent>>
    <3>1. phase[r] = "connect" /\ phase'[r] = "initialize"
      BY <1>2, <2>1 DEF TypeOK, Connect, Goto
    <3> QED
      BY <1>1, <1>2, <2>1, <3>1, Quiet DEF Connect
  <2>2. ASSUME NEW e \in Errors, Decide(r, e) PROVE StreamInvOf(r)'
    BY <1>1, <1>2, <2>2, DecideKeeps DEF Connect
  <2> QED
    BY <1>2, <2>1, <2>2 DEF Connect
<1>3. CASE Initialize(r)
  <2>1. CASE Goto(r, "new") /\ UNCHANGED error
    <3>1. phase[r] = "initialize" /\ phase'[r] = "new"
      BY <1>3, <2>1 DEF TypeOK, Initialize, Goto
    <3> QED
      BY <1>1, <1>3, <2>1, <3>1, Quiet DEF Initialize
  <2>2. CASE RpcFails(r, FALSE)
    BY <1>1, <1>3, <2>2, EndRunKeeps DEF Initialize
  <2> QED
    BY <1>3, <2>1, <2>2 DEF Initialize
<1>4. CASE NewSession(r)
  <2>1. CASE Goto(r, "model") /\ UNCHANGED error
    <3>1. phase[r] = "new" /\ phase'[r] = "model"
      BY <1>4, <2>1 DEF TypeOK, NewSession, Goto
    <3> QED
      BY <1>1, <1>4, <2>1, <3>1, Quiet DEF NewSession
  <2>2. ASSUME NEW known \in BOOLEAN, RpcFails(r, known) PROVE StreamInvOf(r)'
    BY <1>1, <1>4, <2>2, EndRunKeeps DEF NewSession
  <2> QED
    BY <1>4, <2>1, <2>2 DEF NewSession
<1>5. CASE SetModel(r)
  <2>1. CASE Goto(r, "prompt") /\ UNCHANGED error
    <3>1. phase[r] = "model" /\ phase'[r] = "prompt"
      BY <1>5, <2>1 DEF TypeOK, SetModel, Goto
    <3> QED
      BY <1>1, <1>5, <2>1, <3>1, Quiet DEF SetModel
  <2>2. CASE RpcFails(r, TRUE)
    BY <1>1, <1>5, <2>2, EndRunKeeps DEF SetModel
  <2> QED
    BY <1>5, <2>1, <2>2 DEF SetModel
<1> QED
  BY <1>2, <1>3, <1>4, <1>5

\* A chunk that nobody listens to, or that finds no room.
LEMMA LostKeeps ==
  ASSUME TypeOK, NEW r \in Requests, StreamInvOf(r), phase[r] = "prompt",
         queue'[r] = queue[r], text'[r] = text[r], outcome'[r] = outcome[r],
         open'[r] = open[r], attempt'[r] = attempt[r], sent'[r] = sent[r] + 1, emitted'[r],
         \/ ~open[r] /\ phase'[r] = "prompt" /\ error'[r] = error[r]
         \/ gone'[r] = gone[r] /\ phase'[r] = "close" /\ error'[r] # "none"
  PROVE  StreamInvOf(r)'
<1>1. ~Over(r) /\ ~Over(r)'
  BY DEF Over
<1>2. QueueInv(r)'
  BY <1>1, NotOver DEF StreamInvOf, QueueInv
<1>3. ReadInv(r)'
  BY <1>1, NotOver DEF StreamInvOf, ReadInv
<1>4. FlagInv(r)'
  <2>1. sent'[r] > 0
    BY Lengths
  <2> QED
    BY <2>1 DEF StreamInvOf, FlagInv
<1>5. EndInv(r)'
  BY <1>1 DEF StreamInvOf, EndInv
<1> QED
  BY <1>2, <1>3, <1>4, <1>5 DEF StreamInvOf

\* The lines of the prompt's answer.
LEMMA PromptKeeps ==
  ASSUME TypeOK, Counted, NEW r \in Requests, StreamInvOf(r),
         \/ PromptChunk(r) \/ PromptEndTurn(r) \/ PromptStop(r) \/ PromptBreaks(r)
         \/ PromptSettles(r)
  PROVE  StreamInvOf(r)'
<1> USE DEF client, flags, remote
<1>1. phase[r] = "prompt" /\ ~Over(r) /\ attempt[r] \in Answers
  BY DEF PromptChunk, PromptEndTurn, PromptStop, PromptBreaks, PromptSettles, Over, Counted
<1>2. CASE PromptChunk(r)
  <2>1. sent[r] < MaxChunks /\ sent'[r] = sent[r] + 1 /\ emitted'[r]
    <3>1. sent' = [sent EXCEPT ![r] = sent[r] + 1] /\ emitted' = [emitted EXCEPT ![r] = TRUE]
      BY <1>2 DEF PromptChunk, Set
    <3> QED
      BY <1>2, <3>1 DEF TypeOK, PromptChunk
  <2>2. CASE open[r] /\ HasRoom(r) /\ Push(r, Chunk(r)) /\ UNCHANGED <<gone, phase, error>>
    BY <1>1, <1>2, <2>1, <2>2, ChunkKeeps DEF PromptChunk
  <2>3. CASE open[r] /\ EndRun(r, "final", TRUE) /\ UNCHANGED <<gone, queue>>
    <3>1. phase'[r] = "close" /\ error'[r] # "none"
      BY <2>3 DEF TypeOK, EndRun, Set, Goto
    <3> QED
      BY <1>1, <1>2, <2>1, <2>3, <3>1, LostKeeps DEF PromptChunk
  <2>4. CASE ~open[r] /\ UNCHANGED <<queue, phase, error>>
    BY <1>1, <1>2, <2>1, <2>4, LostKeeps DEF PromptChunk
  <2> QED
    BY <1>2, <2>2, <2>3, <2>4 DEF PromptChunk
<1>3. CASE PromptEndTurn(r)
  BY <1>1, <1>3, Quiet DEF PromptEndTurn
<1>4. CASE PromptStop(r)
  BY <1>1, <1>4, EndRunKeeps DEF PromptStop
<1>5. CASE PromptBreaks(r)
  BY <1>1, <1>5, EndRunKeeps DEF PromptBreaks
<1>6. CASE PromptSettles(r)
  <2>1. CASE gone[r] /\ Goto(r, "cancel")
    <3>1. phase'[r] = "cancel" /\ ~open[r]
      BY <2>1 DEF TypeOK, Goto, StreamInvOf, EndInv
    <3> QED
      BY <1>1, <1>6, <3>1, Quiet DEF PromptSettles
  <2>2. CASE EndRun(r, "retryable", TRUE)
    <3>1. "retryable" \in Errors
      BY DEF Errors
    <3> QED
      BY <1>1, <1>6, <2>2, <3>1, EndRunKeeps DEF PromptSettles
  <2>3. CASE emitted[r] /\ Goto(r, "send")
    <3>1. phase'[r] = "send" /\ complete'[r]
      BY <1>6, <2>3 DEF TypeOK, Goto, PromptSettles
    <3> QED
      BY <1>1, <1>6, <2>3, <3>1, Quiet DEF PromptSettles
  <2> QED
    BY <1>6, <2>1, <2>2, <2>3 DEF PromptSettles
<1> QED
  BY <1>2, <1>3, <1>4, <1>5, <1>6

\* The end of the attempt and of the task.
LEMMA EndKeeps ==
  ASSUME TypeOK, NEW r \in Requests, StreamInvOf(r), attempt[r] \in Answers,
         SendCompleted(r) \/ Cancel(r) \/ Close(r) \/ Report(r)
  PROVE  StreamInvOf(r)'
<1> USE DEF client, flags, remote
<1>1. CASE SendCompleted(r)
  <2>1. /\ phase[r] = "send" /\ phase'[r] = "close" /\ ~Over(r)
        /\ emitted[r] /\ complete[r] /\ error'[r] = error[r] /\ error[r] = "none"
    BY <1>1 DEF TypeOK, SendCompleted, Goto, Over, StreamInvOf, FlagInv
  <2>2. CASE ~open[r] /\ UNCHANGED queue
    BY <1>1, <2>1, <2>2, Quiet DEF SendCompleted
  <2>3. CASE open[r] /\ Push(r, Terminal("completed"))
    <3>1. Whole(r, Len(text[r]) + Len(queue[r]))
      BY <2>1, <2>3 DEF StreamInvOf, FlagInv, Whole
    <3>2. Over(r)'
      BY <2>1 DEF Over
    <3> QED
      BY <1>1, <2>1, <2>3, <3>1, <3>2, TerminalKeeps DEF SendCompleted
  <2> QED
    BY <1>1, <2>2, <2>3 DEF SendCompleted
<1>2. CASE Cancel(r)
  <2>1. phase'[r] = "close" /\ ~open[r] /\ ~Over(r)
    BY <1>2 DEF TypeOK, Cancel, Goto, Over, StreamInvOf, EndInv
  <2> QED
    BY <1>2, <2>1, Quiet DEF Cancel
<1>3. CASE Close(r)
  <2>1. CASE error[r] = "none"
    <3>1. /\ phase[r] = "close" /\ phase'[r] = "done" /\ Over(r) /\ Over(r)'
          /\ UNCHANGED <<attempt, flags, error, sent, client, queue>>
      BY <1>3, <2>1 DEF TypeOK, Close, Goto, Over
    <3> QED
      BY <3>1 DEF StreamInvOf, QueueInv, ReadInv, FlagInv, EndInv, Over, Whole, Told
  <2>2. CASE error[r] # "none"
    <3>1. error[r] \in Errors /\ ~Over(r) /\ Decide(r, error[r])
      BY <1>3, <2>2 DEF TypeOK, Close, Over
    <3> QED
      BY <1>3, <3>1, DecideKeeps DEF Close
  <2> QED
    BY <2>1, <2>2
<1>4. CASE Report(r)
  <2>1. phase[r] = "report" /\ phase'[r] = "done" /\ ~Over(r) /\ Over(r)'
    BY <1>4 DEF TypeOK, Report, Goto, Over
  <2>2. CASE ~open[r] /\ UNCHANGED queue
    <3>1. queue[r] = <<>> /\ Len(queue[r]) = 0 /\ outcome[r] = "open"
      BY <2>1, <2>2, NotOver, Lengths DEF StreamInvOf, EndInv
    <3> QED
      BY <1>4, <2>1, <2>2, <3>1
      DEF Report, StreamInvOf, QueueInv, ReadInv, FlagInv, EndInv
  <2>3. CASE open[r] /\ Push(r, Terminal("failed"))
    BY <1>4, <2>1, <2>3, TerminalKeeps DEF Report
  <2> QED
    BY <1>4, <2>2, <2>3 DEF Report
<1> QED
  BY <1>1, <1>2, <1>3, <1>4

StreamIInv == TypeIInv /\ StreamInv

\* Every step keeps every request's stream in order.
LEMMA StreamNext ==
  ASSUME StreamIInv, [Next]_vars
  PROVE  StreamIInv'
<1>1. TypeIInv'
  BY TypeNext DEF StreamIInv
<1>2. ASSUME NEW q \in Requests PROVE StreamInvOf(q)'
  <2>1. TypeOK /\ Counted /\ StreamInvOf(q)
    BY DEF StreamIInv, TypeIInv, StreamInv
  <2>2. CASE UNCHANGED vars
    <3>1. Same(q)
      BY <2>2 DEF vars, client, flags, remote, Same
    <3> QED
      BY <2>1, <3>1, SameKeeps
  <2>3. ASSUME NEW r \in Requests, r # q,
               Arrive(r) \/ Acquire(r) \/ Read(r) \/ Finish(r) \/ Hangup(r) \/ TaskStep(r)
        PROVE  StreamInvOf(q)'
    <3>1. Same(q)
      BY <2>1, <2>3, Others
    <3> QED
      BY <2>1, <3>1, SameKeeps
  <2>4. CASE Arrive(q) \/ Acquire(q) \/ Read(q) \/ Finish(q) \/ Hangup(q)
    BY <2>1, <2>4, ClientKeeps
  <2>5. CASE TaskStep(q)
    <3>1. CASE Connect(q) \/ Initialize(q) \/ NewSession(q) \/ SetModel(q)
      BY <2>1, <3>1, OpeningKeeps
    <3>2. CASE \/ PromptChunk(q) \/ PromptEndTurn(q) \/ PromptStop(q) \/ PromptBreaks(q)
               \/ PromptSettles(q)
      BY <2>1, <3>2, PromptKeeps
    <3>3. CASE SendCompleted(q) \/ Cancel(q) \/ Close(q) \/ Report(q)
      <4>1. attempt[q] \in Answers
        BY <2>1, <3>3 DEF SendCompleted, Cancel, Close, Report, Counted
      <4> QED
        BY <2>1, <3>3, <4>1, EndKeeps
    <3> QED
      BY <2>5, <3>1, <3>2, <3>3 DEF TaskStep
  <2> QED
    BY <2>2, <2>3, <2>4, <2>5 DEF Next
<1> QED
  BY <1>1, <1>2 DEF StreamIInv, StreamInv

\* The stream invariant holds of every behaviour.
LEMMA StreamInvariant == Spec => []StreamIInv
<1>1. Init => StreamIInv
  BY TypeInit, StreamInit DEF Init, StreamIInv, TypeIInv, Counted
<1> QED
  BY <1>1, StreamNext, PTL DEF Spec

\* CompletedIsWhole: for any capacity of the channel, any pace of the consumer
\* and any number of attempts, a consumer told that its answer is complete has
\* lost no chunk of it.
THEOREM CompletedCorrect == Spec => []CompletedIsWhole
<1>1. StreamIInv => CompletedIsWhole
  <2> SUFFICES ASSUME StreamIInv, NEW r \in Requests, Told(r, "completed")
               PROVE  Delivered(r) = sent[r] /\ sent[r] > 0 /\ complete[r]
    BY DEF CompletedIsWhole
  <2>1. TypeOK /\ StreamInvOf(r)
    BY DEF StreamIInv, TypeIInv, StreamInv
  <2>2. Len(queue[r]) \in Nat /\ Len(text[r]) \in Nat
    BY <2>1, Lengths
  <2>3. CASE outcome[r] = "completed"
    <3>1. queue[r] = <<>> /\ Len(queue[r]) = 0 /\ Whole(r, Len(text[r]))
      BY <2>1, <2>3 DEF StreamInvOf, ReadInv
    <3> QED
      BY <2>2, <3>1 DEF Delivered, HasEnd, Whole
  <2>4. ASSUME NEW i \in 1..Len(queue[r]), queue[r][i].kind = "completed"
        PROVE  Delivered(r) = sent[r] /\ sent[r] > 0 /\ complete[r]
    <3>1. i = Len(queue[r]) /\ Whole(r, Len(text[r]) + i - 1)
      BY <2>1, <2>4 DEF StreamInvOf, QueueInv
    <3>2. HasEnd(r)
      BY <2>1, <2>4, <3>1, Lengths DEF HasEnd
    <3> QED
      BY <2>2, <3>1, <3>2 DEF Delivered, Whole
  <2> QED
    BY <2>3, <2>4 DEF Told
<1> QED
  BY <1>1, StreamInvariant, PTL

\* NoSilentEnd: a task never ends without a terminal event for a consumer that
\* still listens.
THEOREM NoSilentEndCorrect == Spec => []NoSilentEnd
<1>1. StreamIInv => NoSilentEnd
  BY DEF StreamIInv, StreamInv, StreamInvOf, EndInv, NoSilentEnd, Over
<1> QED
  BY <1>1, StreamInvariant, PTL

-----------------------------------------------------------------------------
(* The stream implements its specification *)

\* The outcome each consumer sees.
Seen(r) == IF outcome[r] = "open" /\ ~open[r] /\ phase[r] # "idle"
           THEN "abandoned" ELSE outcome[r]

\* The refined step of a read.
LEMMA ReadRefines ==
  ASSUME StreamIInv, NEW r \in Requests, Read(r)
  PROVE  Stream!Next
<1>1. TypeOK /\ StreamInvOf(r)
  BY DEF StreamIInv, TypeIInv, StreamInv
<1> DEFINE e == queue[r][1]
           seen == [q \in Requests |-> Seen(q)]
<1>2. /\ 1 \in 1..Len(queue[r]) /\ Head(queue[r]) = e /\ e \in Events /\ queue[r] # <<>>
  BY <1>1, Lengths DEF Read
<1>3. /\ open' = open /\ phase' = phase /\ open[r] /\ outcome[r] = "open"
  BY <1>1, <1>2 DEF Read, StreamInvOf, ReadInv
<1>4. seen[r] = "open"
  BY <1>3 DEF Seen
<1>5. CASE e.kind = "text"
  <2>1. /\ e.answer = attempt[r] /\ e.index = Len(text[r]) + 1 /\ e.answer \in Answers
    BY <1>1, <1>2, <1>5 DEF StreamInvOf, QueueInv, Events, Terminal
  <2>2. text[r] # <<>> => e.answer = text[r][1].answer
    BY <1>1, <2>1 DEF StreamInvOf, ReadInv
  <2>3. /\ text' = [text EXCEPT ![r] = Append(@, [answer |-> e.answer, index |-> Len(text[r]) + 1])]
        /\ outcome' = outcome
    BY <1>2, <1>5, <2>1 DEF Read
  <2>4. seen' = seen
    BY <1>3, <2>3 DEF Seen
  <2>5. Stream!Deliver(r, e.answer)
    BY <1>4, <2>2, <2>3, <2>4 DEF Stream!Deliver, Stream!Next_Chunk, Seen
  <2> QED
    BY <2>1, <2>5 DEF Stream!Next
<1>6. CASE e.kind # "text"
  <2>1. e.kind \in {"completed", "failed"}
    BY <1>2, <1>6 DEF Events, Terminal
  <2>2. text' = text /\ outcome' = [outcome EXCEPT ![r] = e.kind]
    BY <1>2, <1>6 DEF Read, Set
  <2>3. seen' = [seen EXCEPT ![r] = e.kind]
    <3> DEFINE k == e.kind
    <3> HIDE DEF e
    <3>1. k # "open" /\ outcome' = [outcome EXCEPT ![r] = k]
      BY <2>1, <2>2
    <3>9. outcome \in [Requests -> {"open", "completed", "failed"}]
      BY <1>1 DEF TypeOK
    <3> HIDE DEF k
    <3>2. \A q \in Requests : Seen(q)' = IF q = r THEN k ELSE Seen(q)
      BY <1>3, <3>9, <3>1 DEF Seen
    <3>3. seen' = [seen EXCEPT ![r] = k]
      BY <3>2
    <3> QED
      BY <3>3 DEF k
  <2>4. e.kind = "completed" => text[r] # <<>>
    <3>1. e.kind = "completed" => Whole(r, Len(text[r]) + 1 - 1) /\ Len(queue[r]) = 1
      BY <1>1, <1>2, <1>6 DEF StreamInvOf, QueueInv
    <3>2. Len(text[r]) + 1 - 1 = Len(text[r]) /\ (text[r] = <<>> => Len(text[r]) = 0)
      BY <1>1, Lengths
    <3> QED
      BY <3>1, <3>2 DEF Whole
  <2>5. Stream!Complete(r) \/ Stream!Fail(r)
    BY <1>4, <2>1, <2>2, <2>3, <2>4 DEF Stream!Complete, Stream!Fail, Seen
  <2> QED
    BY <2>5 DEF Stream!Next
<1> QED
  BY <1>5, <1>6

\* The refined step of a drop.
LEMMA LeaveRefines ==
  ASSUME StreamIInv, NEW r \in Requests, open[r], Leave(r)
  PROVE  Stream!Next \/ UNCHANGED <<text, [q \in Requests |-> Seen(q)]>>
<1> DEFINE seen == [q \in Requests |-> Seen(q)]
<1>1. TypeOK /\ StreamInvOf(r) /\ phase[r] # "idle"
  BY DEF StreamIInv, TypeIInv, StreamInv, StreamInvOf, EndInv
<1>2. text' = text /\ outcome' = outcome
  BY DEF Leave
<1>3. /\ ~open'[r] /\ phase'[r] # "idle"
      /\ \A q \in Requests : q # r => open'[q] = open[q] /\ phase'[q] = phase[q]
  BY <1>1 DEF TypeOK, Leave, Set, Goto
<1>4. CASE outcome[r] = "open"
  <2>1. \A q \in Requests : Seen(q)' = IF q = r THEN "abandoned" ELSE Seen(q)
    BY <1>2, <1>3, <1>4 DEF Seen
  <2>2. seen[r] = "open" /\ seen' = [seen EXCEPT ![r] = "abandoned"]
    BY <1>4, <2>1 DEF Seen
  <2>3. Stream!Abandon(r)
    BY <1>2, <2>2 DEF Stream!Abandon, Seen
  <2> QED
    BY <2>3 DEF Stream!Next
<1>5. CASE outcome[r] # "open"
  <2>1. \A q \in Requests : Seen(q)' = Seen(q)
    BY <1>2, <1>3, <1>5 DEF Seen
  <2> QED
    BY <1>2, <2>1
<1> QED
  BY <1>4, <1>5

\* The steps that the consumer does not see.
LEMMA StutterRefines ==
  ASSUME TypeOK, NEW r \in Requests, Arrive(r) \/ Acquire(r) \/ TaskStep(r)
  PROVE  UNCHANGED <<text, [q \in Requests |-> Seen(q)]>>
<1> USE DEF client
<1>1. CASE Arrive(r)
  <2>1. text' = text /\ outcome' = outcome /\ phase[r] = "idle" /\ open'[r]
    BY <1>1 DEF TypeOK, Arrive, Set
  <2>2. \A q \in Requests : q # r => open'[q] = open[q] /\ phase'[q] = phase[q]
    BY <1>1 DEF TypeOK, Arrive, Set, Goto
  <2>3. \A q \in Requests : Seen(q)' = Seen(q)
    BY <2>1, <2>2 DEF Seen
  <2> QED
    BY <2>1, <2>3
<1>2. CASE Acquire(r) \/ TaskStep(r)
  <2>1. text' = text /\ outcome' = outcome /\ open' = open
    BY <1>2 DEF Acquire, TaskStep, Connect, Initialize, NewSession, SetModel, PromptChunk,
       PromptEndTurn, PromptStop, PromptBreaks, PromptSettles, SendCompleted, Cancel, Close, Report
  <2>2. Acquire(r) => phase[r] # "idle" /\ phase'[r] # "idle"
    BY DEF TypeOK, Acquire, Attempt, Goto
  <2>3. Connect(r) \/ Close(r) => phase[r] # "idle" /\ phase'[r] # "idle"
    BY DEF TypeOK, Connect, Close, Decide, Attempt, Goto
  <2>4. Initialize(r) \/ NewSession(r) \/ SetModel(r) => phase[r] # "idle" /\ phase'[r] # "idle"
    BY DEF TypeOK, Initialize, NewSession, SetModel, RpcFails, EndRun, Goto
  <2>5. PromptChunk(r) \/ PromptEndTurn(r) \/ PromptStop(r) \/ PromptBreaks(r) \/ PromptSettles(r)
          => phase[r] # "idle" /\ phase'[r] # "idle"
    BY DEF TypeOK, PromptChunk, PromptEndTurn, PromptStop, PromptBreaks, PromptSettles,
       RpcFails, EndRun, Goto
  <2>6. SendCompleted(r) \/ Cancel(r) \/ Report(r) => phase[r] # "idle" /\ phase'[r] # "idle"
    BY DEF TypeOK, SendCompleted, Cancel, Report, Goto
  <2>7. phase[r] # "idle" /\ phase'[r] # "idle"
    BY <1>2, <2>2, <2>3, <2>4, <2>5, <2>6 DEF TaskStep
  <2>8. \A q \in Requests : q # r => phase'[q] = phase[q]
    BY <1>2, Others DEF Same
  <2>9. \A q \in Requests : Seen(q)' = Seen(q)
    BY <2>1, <2>7, <2>8 DEF Seen
  <2> QED
    BY <2>1, <2>9
<1> QED
  BY <1>1, <1>2

\* StreamSpec: what each consumer sees is one answer, in order and without a gap
\* or repetition whatever is retried, and one outcome after it.
THEOREM StreamCorrect == Spec => StreamSpec
<1>1. Init => Stream!Init
  BY DEF Init, Stream!Init
<1>2. ASSUME StreamIInv, [Next]_vars
      PROVE  Stream!Next \/ UNCHANGED <<text, [q \in Requests |-> Seen(q)]>>
  <2>1. CASE UNCHANGED vars
    BY <2>1 DEF vars, client, Seen
  <2>2. ASSUME NEW r \in Requests, Read(r) PROVE Stream!Next
    BY <1>2, <2>2, ReadRefines
  <2>3. ASSUME NEW r \in Requests, Finish(r) \/ Hangup(r)
        PROVE  Stream!Next \/ UNCHANGED <<text, [q \in Requests |-> Seen(q)]>>
    BY <1>2, <2>3, LeaveRefines DEF Finish, Hangup
  <2>4. ASSUME NEW r \in Requests, Arrive(r) \/ Acquire(r) \/ TaskStep(r)
        PROVE  UNCHANGED <<text, [q \in Requests |-> Seen(q)]>>
    BY <1>2, <2>4, StutterRefines DEF StreamIInv, TypeIInv
  <2> QED
    BY <1>2, <2>1, <2>2, <2>3, <2>4 DEF Next
<1>3. StreamIInv /\ [Next]_vars =>
        [Stream!Next]_<<text, [r \in Requests |->
            IF outcome[r] = "open" /\ ~open[r] /\ phase[r] # "idle" THEN "abandoned" ELSE outcome[r]]>>
  BY <1>2 DEF Seen
<1> QED
  BY <1>1, <1>3, StreamInvariant, PTL DEF Spec, StreamSpec, Stream!Spec

-----------------------------------------------------------------------------
(* The lock and the connections *)

GuardIInv ==
    /\ TypeIInv
    /\ \A r \in Requests : phase[r] = "idle" => ~open[r]
    /\ GuardInv

\* A step of the task leaves the consumers and the locks alone, and neither
\* starts a request nor takes one back.
LEMMA TaskFrame ==
  ASSUME TypeOK, NEW r \in Requests, TaskStep(r)
  PROVE  /\ UNCHANGED <<guard, open>>
         /\ phase[r] \notin {"idle", "wait"} /\ phase'[r] \notin {"idle", "wait"}
         /\ \A q \in Requests : q # r => phase'[q] = phase[q]
<1> USE DEF client
<1>1. CASE Connect(r) \/ Close(r)
  BY <1>1 DEF TypeOK, Connect, Close, Decide, Attempt, Goto
<1>2. CASE Initialize(r) \/ NewSession(r) \/ SetModel(r)
  BY <1>2 DEF TypeOK, Initialize, NewSession, SetModel, RpcFails, EndRun, Goto
<1>3. CASE PromptChunk(r) \/ PromptEndTurn(r) \/ PromptStop(r) \/ PromptBreaks(r) \/ PromptSettles(r)
  BY <1>3 DEF TypeOK, PromptChunk, PromptEndTurn, PromptStop, PromptBreaks, PromptSettles,
     RpcFails, EndRun, Goto
<1>4. CASE SendCompleted(r) \/ Cancel(r) \/ Report(r)
  BY <1>4 DEF TypeOK, SendCompleted, Cancel, Report, Goto
<1> QED
  BY <1>1, <1>2, <1>3, <1>4 DEF TaskStep

\* Every step keeps the locks with the streams.
LEMMA GuardNext ==
  ASSUME GuardIInv, [Next]_vars
  PROVE  GuardIInv'
<1>1. TypeOK /\ TypeIInv'
  BY TypeNext DEF GuardIInv, TypeIInv
<1>2. (\A r \in Requests : phase[r] = "idle" => ~open[r])' /\ GuardInv'
  <2>1. CASE UNCHANGED vars
    BY <2>1 DEF vars, client, GuardIInv, GuardInv
  <2>2. ASSUME NEW r \in Requests, Arrive(r)
        PROVE  (\A q \in Requests : phase[q] = "idle" => ~open[q])' /\ GuardInv'
    BY <1>1, <2>2 DEF TypeOK, Arrive, Set, Goto, GuardIInv, GuardInv
  <2>3. ASSUME NEW r \in Requests, Acquire(r)
        PROVE  (\A q \in Requests : phase[q] = "idle" => ~open[q])' /\ GuardInv'
    <3>1. /\ guard' = [guard EXCEPT ![GatewayOf[r]] = r] /\ guard[GatewayOf[r]] = None
          /\ open' = open /\ open[r] /\ phase' = [phase EXCEPT ![r] = "connect"]
      BY <2>3 DEF Acquire, Attempt, Set, Goto
    <3>2. GatewayOf[r] \in Gateways /\ \A q \in Requests : q # None
      BY AcpAssumption
    <3> QED
      BY <1>1, <3>1, <3>2 DEF TypeOK, GuardIInv, GuardInv
  <2>4. ASSUME NEW r \in Requests, Read(r)
        PROVE  (\A q \in Requests : phase[q] = "idle" => ~open[q])' /\ GuardInv'
    BY <2>4 DEF Read, GuardIInv, GuardInv
  <2>5. ASSUME NEW r \in Requests, open[r], Leave(r)
        PROVE  (\A q \in Requests : phase[q] = "idle" => ~open[q])' /\ GuardInv'
    <3>1. /\ open' = [open EXCEPT ![r] = FALSE]
          /\ guard' = [g \in Gateways |-> IF guard[g] = r THEN None ELSE guard[g]]
          /\ phase[r] # "idle" /\ phase'[r] # "idle"
          /\ \A q \in Requests : q # r => phase'[q] = phase[q]
      BY <1>1, <2>5 DEF TypeOK, Leave, Set, Goto, GuardIInv
    <3> QED
      BY <1>1, <3>1 DEF TypeOK, GuardIInv, GuardInv
  <2>6. ASSUME NEW r \in Requests, TaskStep(r)
        PROVE  (\A q \in Requests : phase[q] = "idle" => ~open[q])' /\ GuardInv'
    <3>1. /\ UNCHANGED <<guard, open>>
          /\ phase[r] \notin {"idle", "wait"} /\ phase'[r] \notin {"idle", "wait"}
          /\ \A q \in Requests : q # r => phase'[q] = phase[q]
      BY <1>1, <2>6, TaskFrame
    <3>2. guard \in [Gateways -> Requests \cup {None}]
      BY <1>1 DEF TypeOK
    <3> QED
      BY <3>1, <3>2 DEF GuardIInv, GuardInv
  <2> QED
    BY <2>1, <2>2, <2>3, <2>4, <2>5, <2>6 DEF Next, Finish, Hangup
<1> QED
  BY <1>1, <1>2 DEF GuardIInv

\* GuardInv: for any number of requests and any routing, the lock of a gateway
\* is held exactly while a consumer holds a stream of it.
THEOREM GuardCorrect == Spec => []GuardInv
<1>1. Init => GuardIInv
  BY TypeInit DEF Init, GuardIInv, TypeIInv, Counted, GuardInv
<1>2. GuardIInv => GuardInv
  BY DEF GuardIInv
<1> QED
  BY <1>1, <1>2, GuardNext, PTL DEF Spec

\* Every step keeps the connections with the phases that use them.
LEMMA ConnectionsNext ==
  ASSUME TypeOK, ConnectionsClosed, [Next]_vars
  PROVE  ConnectionsClosed'
<1> USE DEF client, flags, remote
<1>1. CASE UNCHANGED vars
  BY <1>1 DEF vars, ConnectionsClosed
<1>2. ASSUME NEW r \in Requests, NEW to \in Phases, Goto(r, to), UNCHANGED linked,
             phase[r] \in Linked <=> to \in Linked
      PROVE  ConnectionsClosed'
  BY <1>2 DEF TypeOK, ConnectionsClosed, Goto
<1>3. ASSUME NEW r \in Requests, NEW to \in Phases, NEW b \in BOOLEAN,
             phase' = [phase EXCEPT ![r] = to], linked' = [linked EXCEPT ![r] = b],
             b <=> to \in Linked
      PROVE  ConnectionsClosed'
  BY <1>3 DEF TypeOK, ConnectionsClosed
<1>4. ASSUME NEW r \in Requests, Arrive(r) \/ Read(r) \/ Finish(r) \/ Hangup(r) \/ Acquire(r)
      PROVE  ConnectionsClosed'
  <2>1. UNCHANGED linked
    BY <1>4 DEF Arrive, Read, Finish, Hangup, Leave, Acquire
  <2>2. CASE UNCHANGED phase
    BY <2>1, <2>2 DEF ConnectionsClosed
  <2>3. CASE phase[r] = "idle" /\ Goto(r, "wait")
    BY <1>2, <2>1, <2>3 DEF Linked, Phases
  <2>4. CASE phase[r] = "wait" /\ \E to \in {"connect", "done"} : Goto(r, to)
    BY <1>2, <2>1, <2>4 DEF Linked, Phases
  <2> QED
    BY <1>4, <2>2, <2>3, <2>4 DEF Arrive, Read, Finish, Hangup, Leave, Acquire, Attempt
<1>5. ASSUME NEW r \in Requests, NEW e, Decide(r, e)
      PROVE  \E to \in {"connect", "report"} : Goto(r, to)
  BY <1>5 DEF Decide, Attempt
<1>6. ASSUME NEW r \in Requests, Connect(r) PROVE ConnectionsClosed'
  <2>1. phase[r] = "connect"
    BY <1>6 DEF Connect
  <2>2. CASE linked' = Set(linked, r, TRUE) /\ Goto(r, "initialize")
    BY <1>3, <2>2 DEF Set, Goto, Linked, Phases
  <2>3. CASE UNCHANGED linked /\ \E to \in {"connect", "report"} : Goto(r, to)
    BY <1>2, <2>1, <2>3 DEF Linked, Phases
  <2> QED
    BY <1>5, <1>6, <2>2, <2>3 DEF Connect
<1>7. ASSUME NEW r \in Requests, Close(r) PROVE ConnectionsClosed'
  <2>1. PICK to \in {"connect", "report", "done"} : Goto(r, to)
    BY <1>5, <1>7 DEF Close
  <2>2. linked' = [linked EXCEPT ![r] = FALSE] /\ to \in Phases /\ to \notin Linked
    BY <1>7 DEF Close, Set, Linked, Phases
  <2> QED
    BY <1>3, <2>1, <2>2 DEF Goto
<1>8. ASSUME NEW r \in Requests, UNCHANGED linked, phase[r] \in Linked,
             UNCHANGED phase \/ \E to \in Linked : Goto(r, to)
      PROVE  ConnectionsClosed'
  <2>1. Linked \subseteq Phases
    BY DEF Linked, Phases
  <2> QED
    BY <1>2, <1>8, <2>1 DEF ConnectionsClosed
<1>9. ASSUME NEW r \in Requests, Initialize(r) \/ NewSession(r) \/ SetModel(r)
      PROVE  ConnectionsClosed'
  <2>1. UNCHANGED linked /\ phase[r] \in Linked
    BY <1>9 DEF Initialize, NewSession, SetModel, Linked
  <2>2. \E to \in Linked : Goto(r, to)
    BY <1>9 DEF Initialize, NewSession, SetModel, RpcFails, EndRun, Linked
  <2> QED
    BY <1>8, <2>1, <2>2
<1>10. ASSUME NEW r \in Requests,
              PromptChunk(r) \/ PromptEndTurn(r) \/ PromptStop(r) \/ PromptBreaks(r) \/ PromptSettles(r)
       PROVE  ConnectionsClosed'
  <2>1. UNCHANGED linked /\ phase[r] \in Linked
    BY <1>10 DEF PromptChunk, PromptEndTurn, PromptStop, PromptBreaks, PromptSettles, Linked
  <2>2. UNCHANGED phase \/ \E to \in Linked : Goto(r, to)
    BY <1>10 DEF PromptChunk, PromptEndTurn, PromptStop, PromptBreaks, PromptSettles,
       RpcFails, EndRun, Linked
  <2> QED
    BY <1>8, <2>1, <2>2
<1>11. ASSUME NEW r \in Requests, SendCompleted(r) \/ Cancel(r) PROVE ConnectionsClosed'
  <2>1. UNCHANGED linked /\ phase[r] \in Linked /\ Goto(r, "close") /\ "close" \in Linked
    BY <1>11 DEF SendCompleted, Cancel, Linked
  <2> QED
    BY <1>8, <2>1
<1>12. ASSUME NEW r \in Requests, Report(r) PROVE ConnectionsClosed'
  <2>1. UNCHANGED linked /\ phase[r] = "report" /\ Goto(r, "done")
    BY <1>12 DEF Report
  <2> QED
    BY <1>2, <2>1 DEF Linked, Phases
<1> QED
  BY <1>1, <1>4, <1>6, <1>7, <1>9, <1>10, <1>11, <1>12 DEF Next, TaskStep

\* ConnectionsClosed: however its attempts end, a task leaves no gateway
\* connection behind, neither when it retries nor when it ends.
THEOREM ConnectionsCorrect == Spec => []ConnectionsClosed
<1>1. Init => ConnectionsClosed
  BY DEF Init, ConnectionsClosed, Linked
<1>2. TypeOK /\ ConnectionsClosed /\ [Next]_vars => ConnectionsClosed'
  BY ConnectionsNext
<1> QED
  BY <1>1, <1>2, TypeCorrect, PTL DEF Spec

=============================================================================
