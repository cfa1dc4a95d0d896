------------------------------ MODULE TuiStream ------------------------------
(***************************************************************************)
(* How the terminal client streams an answer (src/src/tui/client.rs): for  *)
(* each request stream_chat spawns a task, which reads the proxy's answer  *)
(* into a channel (run_stream), and a presenter, which types each delta    *)
(* grapheme by grapheme into a second channel (present_stream).  Both      *)
(* share a cancellation token with the user interface.                     *)
(*                                                                         *)
(* The n-th delta of an answer holds the pieces (n-1)*Graphemes+1 up to    *)
(* n*Graphemes.  The proxy is the environment.                             *)
(***************************************************************************)
EXTENDS Integers, Sequences

CONSTANTS
    MaxRequests,  \* bound: requests made
    MaxDeltas,    \* bound: deltas in an answer
    Graphemes,    \* graphemes in a delta
    Capacity      \* of each channel

ASSUME TuiStreamAssumption ==
    /\ MaxRequests \in Nat /\ MaxDeltas \in Nat
    /\ Graphemes \in Nat \ {0} /\ Capacity \in Nat \ {0}

VARIABLES
    task,       \* where the task of each request stands
    cancelled,  \* the token of the request is cancelled
    sent,       \* deltas the proxy has sent for it
    source,     \* the channel from the task to the presenter
    presenter,  \* where the presenter stands
    typing,     \* what it still has to send: pieces, or one event
    output      \* the channels from the presenter to the user interface

streamVars == <<task, cancelled, sent, source, presenter, typing, output>>

Requests == 1..MaxRequests
Terminal == {"completed", "failed", "cancelled"}

Event(kind, part) == [kind |-> kind, part |-> part]
Pieces(n) == [i \in 1..Graphemes |-> Event("delta", (n - 1) * Graphemes + i)]

StreamInit ==
    /\ task = [r \in Requests |-> "none"]
    /\ cancelled = [r \in Requests |-> FALSE]
    /\ sent = [r \in Requests |-> 0]
    /\ source = [r \in Requests |-> <<>>]
    /\ presenter = [r \in Requests |-> "none"]
    /\ typing = [r \in Requests |-> <<>>]
    /\ output = [r \in Requests |-> <<>>]

\* stream_chat: the task and the presenter are spawned.
Launch(r) ==
    /\ task' = [task EXCEPT ![r] = "sending"]
    /\ presenter' = [presenter EXCEPT ![r] = "recv"]
    /\ UNCHANGED <<cancelled, sent, source, typing, output>>

-----------------------------------------------------------------------------
(* run_stream *)

Closed(r) == presenter[r] = "gone"
Room(r)   == Len(source[r]) < Capacity
Push(r, e) == source' = [source EXCEPT ![r] = Append(@, e)]

\* `let _ = tx.send(e).await`: waits for room, is lost on a closed channel.
Offer(r, e) ==
    \/ ~Closed(r) /\ Room(r) /\ Push(r, e)
    \/ Closed(r) /\ UNCHANGED source

Goto(r, to) == task' = [task EXCEPT ![r] = to]

\* The answer's head: a success, an error status or no answer at all.
Respond(r) ==
    /\ task[r] = "sending"
    /\ \/ Offer(r, Event("connected", 0)) /\ Goto(r, "reading")
       \/ Goto(r, "failing") /\ UNCHANGED source
    /\ UNCHANGED <<cancelled, sent, presenter, typing, output>>

\* Mutant: the error of the cancelled request is reported as well.
HearCancel_Twice(r) ==
    /\ task[r] \in {"sending", "reading"} /\ cancelled[r]
    /\ Offer(r, Event("cancelled", 0))
    /\ Goto(r, "failing")
    /\ UNCHANGED <<cancelled, sent, presenter, typing, output>>

\* The token wins the select! against the answer's head or its next bytes.
HearCancel(r) ==
    /\ task[r] \in {"sending", "reading"} /\ cancelled[r]
    /\ Offer(r, Event("cancelled", 0))
    /\ Goto(r, "over")
    /\ UNCHANGED <<cancelled, sent, presenter, typing, output>>

\* consume_line: a chunk with text.
ReceiveDelta(r) ==
    /\ task[r] = "reading" /\ sent[r] < MaxDeltas
    /\ \/ /\ ~Closed(r) /\ Room(r)
          /\ Push(r, Event("delta", sent[r] + 1))
          /\ sent' = [sent EXCEPT ![r] = @ + 1]
          /\ UNCHANGED task
       \/ Closed(r) /\ Goto(r, "failing") /\ UNCHANGED <<source, sent>>
    /\ UNCHANGED <<cancelled, presenter, typing, output>>

\* [DONE], after a finish reason.
ReceiveDone(r) ==
    /\ task[r] = "reading"
    /\ \/ ~Closed(r) /\ Room(r) /\ Push(r, Event("completed", 0)) /\ Goto(r, "over")
       \/ Closed(r) /\ Goto(r, "failing") /\ UNCHANGED source
    /\ UNCHANGED <<cancelled, sent, presenter, typing, output>>

\* A bad line, an error object, the network, the timeout, or an early end.
ReceiveFails(r) ==
    /\ task[r] = "reading"
    /\ Goto(r, "failing")
    /\ UNCHANGED <<cancelled, sent, source, presenter, typing, output>>

\* Mutant: the task ends without reporting its error.
Report_Silent(r) ==
    /\ task[r] = "failing"
    /\ Goto(r, "over")
    /\ UNCHANGED <<cancelled, sent, source, presenter, typing, output>>

Report(r) ==
    /\ task[r] = "failing"
    /\ Offer(r, Event("failed", 0))
    /\ Goto(r, "over")
    /\ UNCHANGED <<cancelled, sent, presenter, typing, output>>

-----------------------------------------------------------------------------
(* present_stream *)

OutputRoom(r) == Len(output[r]) < Capacity
Type(r, e)    == output' = [output EXCEPT ![r] = Append(@, e)]
Present(r, to) == presenter' = [presenter EXCEPT ![r] = to]

\* source.recv(): a delta is split, any other event passed on as it is.
Take(r) ==
    /\ presenter[r] = "recv" /\ source[r] # <<>>
    /\ LET e == Head(source[r]) IN
       \/ e.kind = "delta" /\ Present(r, "check") /\ typing' = [typing EXCEPT ![r] = Pieces(e.part)]
       \/ e.kind # "delta" /\ Present(r, "send") /\ typing' = [typing EXCEPT ![r] = <<e>>]
    /\ source' = [source EXCEPT ![r] = Tail(@)]
    /\ UNCHANGED <<task, cancelled, sent, output>>

\* Mutant: on cancellation the rest of the delta is skipped, not the stream.
Check_Skip(r) ==
    /\ presenter[r] = "check"
    /\ \/ ~cancelled[r] /\ Present(r, "send") /\ UNCHANGED <<source, typing>>
       \/ /\ cancelled[r]
          /\ Present(r, "recv")
          /\ typing' = [typing EXCEPT ![r] = <<>>]
          /\ UNCHANGED source
    /\ UNCHANGED <<task, cancelled, sent, output>>

\* Before each grapheme, or while it waits for the next: the presenter returns
\* when the token is cancelled, and what is in its channel is dropped with it.
Check(r) ==
    /\ presenter[r] = "check"
    /\ \/ ~cancelled[r] /\ Present(r, "send") /\ UNCHANGED <<source, typing>>
       \/ /\ cancelled[r]
          /\ Present(r, "gone")
          /\ source' = [source EXCEPT ![r] = <<>>]
          /\ typing' = [typing EXCEPT ![r] = <<>>]
    /\ UNCHANGED <<task, cancelled, sent, output>>

TypeOne(r) ==
    /\ presenter[r] = "send" /\ OutputRoom(r)
    /\ Type(r, Head(typing[r]))
    /\ typing' = [typing EXCEPT ![r] = Tail(@)]
    /\ Present(r, IF Len(typing[r]) = 1 THEN "recv" ELSE "check")
    /\ UNCHANGED <<task, cancelled, sent, source>>

\* The task has ended and its channel is empty.
PresenterEnds(r) ==
    /\ presenter[r] = "recv" /\ source[r] = <<>> /\ task[r] = "over"
    /\ Present(r, "gone")
    /\ UNCHANGED <<task, cancelled, sent, source, typing, output>>

-----------------------------------------------------------------------------
TaskStep(r) ==
    Respond(r) \/ HearCancel(r) \/ ReceiveDelta(r) \/ ReceiveDone(r)
    \/ ReceiveFails(r) \/ Report(r)
PresenterStep(r) == Take(r) \/ Check(r) \/ TypeOne(r) \/ PresenterEnds(r)
=============================================================================
