-------------------------- MODULE CompletionStream --------------------------
(***************************************************************************)
(* What the consumer of an AcpEventStream is promised (src/src/acp.rs),    *)
(* said without gateways, retries, connections or buffers: the text of one *)
(* single answer, in order and without a gap, and then at most one outcome.*)
(***************************************************************************)
EXTENDS Naturals, Sequences

CONSTANTS
    Requests,  \* the consumers
    Answers    \* the answers a gateway may give to one request

VARIABLES
    text,      \* what each consumer has received: chunks of an answer
    outcome    \* how its stream stands

\* The chunk that continues t with the answer a.
Next_Chunk(t, a) == [answer |-> a, index |-> Len(t) + 1]

Init ==
    /\ text = [r \in Requests |-> <<>>]
    /\ outcome = [r \in Requests |-> "open"]

\* A stream that has begun goes on with the same answer.
Deliver(r, a) ==
    /\ outcome[r] = "open"
    /\ text[r] # <<>> => a = text[r][1].answer
    /\ text' = [text EXCEPT ![r] = Append(@, Next_Chunk(@, a))]
    /\ UNCHANGED outcome

\* An empty answer is never passed off as a complete one.
Complete(r) ==
    /\ outcome[r] = "open"
    /\ text[r] # <<>>
    /\ outcome' = [outcome EXCEPT ![r] = "completed"]
    /\ UNCHANGED text

Fail(r) ==
    /\ outcome[r] = "open"
    /\ outcome' = [outcome EXCEPT ![r] = "failed"]
    /\ UNCHANGED text

\* The consumer drops the stream before its end.
Abandon(r) ==
    /\ outcome[r] = "open"
    /\ outcome' = [outcome EXCEPT ![r] = "abandoned"]
    /\ UNCHANGED text

Next == \E r \in Requests :
    (\E a \in Answers : Deliver(r, a)) \/ Complete(r) \/ Fail(r) \/ Abandon(r)

Spec == Init /\ [][Next]_<<text, outcome>>
=============================================================================
