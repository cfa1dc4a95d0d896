------------------------------- MODULE TuiChat -------------------------------
(***************************************************************************)
(* The chat of the terminal client: App::update (src/src/tui/app.rs) with  *)
(* the effects it asks for (execute_effect, src/src/tui/mod.rs), over the  *)
(* streams of TuiStream, the sessions the proxy stores and the user.       *)
(*                                                                         *)
(* The event loop handles one event at a time and awaits every effect, so  *)
(* an event with its effects is one action.  A streamed piece carries its  *)
(* request; text that is typed is a member of Prompts.                     *)
(***************************************************************************)
EXTENDS TuiStream, FiniteSets

CONSTANTS
    Prompts,   \* what the user may ask
    Sessions,  \* the proxy's sessions of the project
    Start,     \* the session the client starts in
    None

ASSUME TuiChatAssumption == Start \in Sessions /\ None \notin Prompts

VARIABLES
    generation,  \* the generation state and its request
    messages,    \* the transcript
    last_user,   \* the prompt that retry and edit use
    unsaved,     \* persistence is Unsaved
    session,     \* the session of the transcript
    listed,      \* `sessions`: the records read by the last LoadSessions
    next_id,     \* next_request_id
    cancels,     \* the requests whose token the event loop keeps
    stored,      \* the proxy: the history of each session
    asked,       \* history: the prompt of each request
    ended        \* history: terminal events handled for each request

chatVars == <<generation, messages, last_user, unsaved, session>>
logVars  == <<asked, ended>>
vars     == <<streamVars, chatVars, listed, next_id, cancels, stored, logVars>>

Busy       == generation.state \in {"connecting", "streaming", "cancelling"}
Current(r) == Busy /\ generation.id = r

User(p)      == [role |-> "user", prompt |-> p, pieces |-> <<>>, status |-> "complete"]
Assistant    == [role |-> "assistant", prompt |-> None, pieces |-> <<>>, status |-> "streaming"]
LastOf(s)    == s[Len(s)]
Front(s)     == SubSeq(s, 1, Len(s) - 1)

\* The elements of s at the positions K, in their order.
Nth(K, n)    == CHOOSE i \in K : Cardinality({j \in K : j <= i}) = n
Only(s, K)   == [n \in 1..Cardinality(K) |-> s[Nth(K, n)]]
Complete(s)  == Only(s, {i \in 1..Len(s) : s[i].status = "complete"})
PromptsOf(s) == Only(s, {i \in 1..Len(s) : s[i].role = "user" /\ s[i].status = "complete"})

Generation(state, r) == generation' = [state |-> state, id |-> r]
Idle == Generation("idle", 0)

Init ==
    /\ StreamInit
    /\ generation = [state |-> "idle", id |-> 0]
    /\ messages = <<>> /\ last_user = None /\ unsaved = FALSE /\ session = Start
    /\ listed = [s \in {} |-> <<>>]
    /\ next_id = 1 /\ cancels = {}
    /\ stored = [s \in Sessions |-> <<>>]
    /\ asked = [r \in Requests |-> None] /\ ended = [r \in Requests |-> 0]

-----------------------------------------------------------------------------
(* Sending *)

\* start: the transcript t is continued with the prompt, and Effect::Send.
Send(p, t) ==
    /\ next_id <= MaxRequests
    /\ messages' = t \o <<User(p), Assistant>>
    /\ last_user' = p
    /\ Generation("connecting", next_id)
    /\ next_id' = next_id + 1
    /\ cancels' = cancels \cup {next_id}
    /\ asked' = [asked EXCEPT ![next_id] = p]
    /\ Launch(next_id)
    /\ UNCHANGED <<session, listed, stored, ended>>

Submit(p) == ~Busy /\ Send(p, messages) /\ UNCHANGED unsaved

\* What retry and edit leave of the transcript: an assistant message at its
\* end is dropped, then the last prompt if it is there.
WithoutLast ==
    LET t == IF messages # <<>> /\ LastOf(messages).role = "assistant"
             THEN Front(messages) ELSE messages
    IN  IF t # <<>> /\ LastOf(t).role = "user" /\ LastOf(t).prompt = last_user
        THEN Front(t) ELSE t

Retry ==
    /\ ~Busy /\ last_user # None
    /\ unsaved' = TRUE
    /\ Send(last_user, WithoutLast)

\* The prompt goes back to the composer, from where anything may be submitted.
EditLast ==
    /\ ~Busy /\ last_user # None
    /\ messages' = WithoutLast
    /\ unsaved' = TRUE
    /\ UNCHANGED <<streamVars, generation, last_user, session, listed, next_id, cancels,
                   stored, logVars>>

\* Action::Cancel with Effect::Cancel.
Cancel ==
    /\ Busy
    /\ Generation("cancelling", generation.id)
    /\ cancelled' = [cancelled EXCEPT ![generation.id] = @ \/ generation.id \in cancels]
    /\ cancels' = cancels \ {generation.id}
    /\ UNCHANGED <<task, sent, source, presenter, typing, output, messages, last_user,
                   unsaved, session, listed, next_id, stored, logVars>>

-----------------------------------------------------------------------------
(* The stream's events *)

\* The status of the last message, if there is one.
Mark(status) ==
    messages' = IF messages = <<>> THEN messages
                ELSE [messages EXCEPT ![Len(messages)].status = status]

\* StreamCompleted with Effect::SaveTranscript, which may fail.
Completed ==
    /\ Idle
    /\ Mark("complete")
    /\ IF Len(messages) < 2
       THEN UNCHANGED <<stored, unsaved>>
       ELSE \/ /\ stored' = [stored EXCEPT ![session] = Complete(messages')]
               /\ unsaved' = FALSE
            \/ unsaved' = TRUE /\ UNCHANGED stored

\* StreamDelta
Shown(piece) ==
    messages' = IF messages # <<>> /\ LastOf(messages).status = "streaming"
                THEN [messages EXCEPT ![Len(messages)].pieces = Append(@, piece)]
                ELSE messages

\* The changes to the chat that an event of the current request makes.
Apply(r, e) ==
    \/ /\ e.kind = "connected" /\ Generation("streaming", r)
       /\ UNCHANGED <<messages, unsaved, stored>>
    \/ /\ e.kind = "delta" /\ Shown([of |-> r, piece |-> e.part])
       /\ UNCHANGED <<generation, unsaved, stored>>
    \/ e.kind = "completed" /\ Completed
    \/ e.kind = "failed" /\ Generation("failed", 0) /\ Mark("failed") /\ UNCHANGED <<unsaved, stored>>
    \/ e.kind = "cancelled" /\ Idle /\ Mark("cancelled") /\ UNCHANGED <<unsaved, stored>>

\* The event loop hears from a stream.
Received(r, e) ==
    /\ output[r] # <<>> /\ e = Head(output[r])
    /\ output' = [output EXCEPT ![r] = Tail(@)]
    /\ cancels' = IF e.kind \in Terminal THEN cancels \ {r} ELSE cancels
    /\ ended' = IF e.kind \in Terminal THEN [ended EXCEPT ![r] = @ + 1] ELSE ended
    /\ UNCHANGED <<task, cancelled, sent, source, presenter, typing, last_user, session,
                   listed, next_id, asked>>

\* Mutant: the request of an event is not looked at.
StreamEvent_Any(r) ==
    /\ output[r] # <<>>
    /\ LET e == Head(output[r]) IN Received(r, e) /\ Apply(r, e)

\* Mutant: the token is dropped when the answer begins.
StreamEvent_Forget(r) ==
    /\ output[r] # <<>>
    /\ LET e == Head(output[r]) IN
       /\ output' = [output EXCEPT ![r] = Tail(@)]
       /\ cancels' = IF e.kind # "delta" THEN cancels \ {r} ELSE cancels
       /\ ended' = IF e.kind \in Terminal THEN [ended EXCEPT ![r] = @ + 1] ELSE ended
       /\ IF Current(r) THEN Apply(r, e) ELSE UNCHANGED <<generation, messages, unsaved, stored>>
    /\ UNCHANGED <<task, cancelled, sent, source, presenter, typing, last_user, session,
                   listed, next_id, asked>>

StreamEvent(r) ==
    /\ output[r] # <<>>
    /\ LET e == Head(output[r]) IN
       /\ Received(r, e)
       /\ IF Current(r) THEN Apply(r, e) ELSE UNCHANGED <<generation, messages, unsaved, stored>>

-----------------------------------------------------------------------------
(* Sessions *)

\* Action::SessionChanged, whatever is being streamed.
SessionChanged(s, history) ==
    /\ session' = s
    /\ messages' = history
    /\ last_user' = IF PromptsOf(history) = <<>> THEN None ELSE LastOf(PromptsOf(history)).prompt
    /\ Idle
    /\ UNCHANGED <<streamVars, unsaved, next_id, cancels, logVars>>

LoadSessions ==
    /\ listed' = stored
    /\ UNCHANGED <<streamVars, chatVars, next_id, cancels, stored, logVars>>

\* SwitchSession: from the list, or, when it is not listed, from the proxy.
\* A new session is one with an empty history.
SwitchSession(s) ==
    /\ SessionChanged(s, IF s \in DOMAIN listed THEN listed[s] ELSE stored[s])
    /\ UNCHANGED <<listed, stored>>

\* /clear and its confirmation, which cannot be reached while an answer streams.
ClearHistory ==
    /\ ~Busy
    /\ stored' = [stored EXCEPT ![session] = <<>>]
    /\ SessionChanged(session, <<>>)
    /\ UNCHANGED listed

-----------------------------------------------------------------------------
UserStep ==
    \/ \E p \in Prompts : Submit(p)
    \/ Retry \/ EditLast \/ Cancel \/ LoadSessions \/ ClearHistory
    \/ \E s \in Sessions : SwitchSession(s)

Background(r) ==
    (TaskStep(r) \/ PresenterStep(r)) /\ UNCHANGED <<chatVars, listed, next_id, cancels, stored, logVars>>

Next == UserStep \/ \E r \in Requests : StreamEvent(r) \/ Background(r)

Spec == Init /\ [][Next]_vars

\* The request has a timeout of 180 seconds, the presenter sleeps for
\* milliseconds and the event loop reads its channel.  The user owes nothing.
FairSpec ==
    /\ Spec
    /\ \A r \in Requests :
          /\ WF_vars(TaskStep(r) /\ UNCHANGED <<chatVars, listed, next_id, cancels, stored, logVars>>)
          /\ WF_vars(PresenterStep(r) /\ UNCHANGED <<chatVars, listed, next_id, cancels, stored, logVars>>)
          /\ WF_vars(StreamEvent(r))

-----------------------------------------------------------------------------
(* Properties *)

PieceIds == [of : Requests, piece : Nat \ {0}]
Messages == [role : {"user", "assistant"}, prompt : Prompts \cup {None}, pieces : Seq(PieceIds),
             status : {"complete", "streaming", "cancelled", "failed"}]
Events   == [kind : {"connected"} \cup Terminal, part : {0}] \cup [kind : {"delta"}, part : Nat \ {0}]

StreamTypeOK ==
    /\ task \in [Requests -> {"none", "sending", "reading", "failing", "over"}]
    /\ cancelled \in [Requests -> BOOLEAN] /\ sent \in [Requests -> 0..MaxDeltas]
    /\ presenter \in [Requests -> {"none", "recv", "check", "send", "gone"}]
    /\ typing \in [Requests -> Seq(Events)]
    /\ source \in [Requests -> Seq(Events)] /\ output \in [Requests -> Seq(Events)]
    /\ \A r \in Requests : Len(source[r]) <= Capacity /\ Len(output[r]) <= Capacity
ChatTypeOK ==
    /\ generation \in [state : {"idle", "connecting", "streaming", "cancelling", "failed"},
                       id : 0..MaxRequests]
    /\ messages \in Seq(Messages) /\ last_user \in Prompts \cup {None}
    /\ unsaved \in BOOLEAN /\ session \in Sessions
    /\ DOMAIN listed \subseteq Sessions /\ listed \in [DOMAIN listed -> Seq(Messages)]
    /\ next_id \in 1..(MaxRequests + 1) /\ cancels \subseteq Requests
    /\ stored \in [Sessions -> Seq(Messages)]
    /\ asked \in [Requests -> Prompts \cup {None}] /\ ended \in [Requests -> Nat]

\* The locals of the streams, the state of the app and the channels keep their
\* types, and the channels their capacities.
TypeOK == StreamTypeOK /\ ChatTypeOK

\* The pieces of a request, in order: the first n of them.
Upto(r, n) == [i \in 1..n |-> [of |-> r, piece |-> i]]

\* While an answer is on its way, the last message and no other is waiting for
\* it, and shows a beginning of that answer: nothing of an earlier request,
\* nothing twice, nothing out of order.
ShowsCurrentAnswer ==
    /\ \A i \in DOMAIN messages : messages[i].status = "streaming" => Busy /\ i = Len(messages)
    /\ Busy => LET m == LastOf(messages) IN
               /\ messages # <<>> /\ m.status = "streaming"
               /\ m.pieces = Upto(generation.id, Len(m.pieces))

\* Every answer that is saved is the whole answer of a request, and follows the
\* prompt of that request.
SavedAnswersWhole ==
    \A s \in Sessions : \A i \in DOMAIN stored[s] :
       stored[s][i].role = "assistant" =>
          /\ i > 1 /\ stored[s][i - 1].role = "user"
          /\ \E r \in Requests :
                /\ task[r] = "over" /\ asked[r] = stored[s][i - 1].prompt
                /\ stored[s][i].pieces = Upto(r, sent[r] * Graphemes)

\* A stream tells at most one outcome, and nothing after it.
OutcomeIsLast == \A r \in Requests :
    /\ \A i \in DOMAIN output[r] : output[r][i].kind \in Terminal => i = Len(output[r])
    /\ ended[r] > 0 => ended[r] = 1 /\ output[r] = <<>>

\* An answer that is on its way can be cancelled, or has been.
CanCancel == Busy => generation.id \in cancels \/ cancelled[generation.id]

\* Every answer comes to its end, if the user does not cancel it.
AnswerEnds == \A r \in Requests :
    Current(r) ~> ~Current(r) \/ cancelled[r]

=============================================================================
