---------------------------- MODULE TuiChatProofs ----------------------------
(***************************************************************************)
(* Proofs about TuiChat and TuiStream: the types, that a request tells one *)
(* outcome and nothing after it, that an answer on its way can be          *)
(* cancelled, that the transcript shows the current answer, and that what  *)
(* is saved are whole answers to their prompts.                            *)
(***************************************************************************)
EXTENDS TuiChat, FiniteSetTheorems, SequenceTheorems, TLAPS

-----------------------------------------------------------------------------
(* Picking elements of a sequence *)

\* No two elements of a finite set have as many elements up to them.
LEMMA RanksDiffer ==
    ASSUME NEW K \in SUBSET Nat, IsFiniteSet(K), NEW i \in K, NEW k \in K, i < k
    PROVE  Cardinality({j \in K : j <= i}) # Cardinality({j \in K : j <= k})
<1> DEFINE Below(x) == {j \in K : j <= x}
<1>1. i \in Nat /\ k \in Nat
  OBVIOUS
<1>2. \A j \in Below(i) : j \in Below(k)
  BY <1>1
<1>3. k \in Below(k) /\ k \notin Below(i)
  BY <1>1
<1>4. IsFiniteSet(Below(k))
  BY FS_Subset
<1> SUFFICES Cardinality(Below(i)) # Cardinality(Below(k))
  OBVIOUS
<1> HIDE DEF Below
<1>5. Below(i) \in SUBSET Below(k)
  BY <1>2
<1> QED BY <1>3, <1>4, <1>5, FS_Subset

\* A finite set of numbers has an n-th element for each n up to its size.
LEMMA NthIsIn ==
    ASSUME NEW K \in SUBSET Nat, IsFiniteSet(K), NEW n \in 1..Cardinality(K)
    PROVE  Nth(K, n) \in K /\ Cardinality({j \in K : j <= Nth(K, n)}) = n
<1> DEFINE Below(i) == {j \in K : j <= i}
           rank     == [i \in K |-> Cardinality(Below(i))]
           T        == 1..Cardinality(K)
<1>1. Cardinality(K) \in Nat
  BY FS_CardinalityType
<1>2. ASSUME NEW i \in K
      PROVE  IsFiniteSet(Below(i)) /\ Cardinality(Below(i)) \in T
  <2>1. IsFiniteSet(Below(i)) /\ Cardinality(Below(i)) <= Cardinality(K)
    BY FS_Subset
  <2>2. i \in Below(i)
    OBVIOUS
  <2>3. Cardinality(Below(i)) \in Nat /\ Cardinality(Below(i)) # 0
    BY <2>1, <2>2, FS_EmptySet, FS_CardinalityType
  <2> QED BY <1>1, <2>1, <2>3
<1>3. ASSUME NEW i \in K, NEW k \in K, i < k
      PROVE  rank[i] # rank[k]
  BY <1>3, RanksDiffer
<1>4. rank \in Injection(K, T)
  <2>1. rank \in [K -> T]
    BY <1>2
  <2>2. ASSUME NEW i \in K, NEW k \in K, rank[i] = rank[k] PROVE i = k
    BY <1>3, <2>2
  <2> HIDE DEF rank
  <2> QED BY <2>1, <2>2 DEF Injection, IsInjective
<1>5. IsFiniteSet(T) /\ Cardinality(T) = Cardinality(K)
  BY <1>1, FS_Interval
<1>6. rank \in Surjection(K, T)
  <2> HIDE DEF rank, T
  <2> QED BY <1>4, <1>5, FS_Injection
<1>7. PICK i \in K : rank[i] = n
  <2> HIDE DEF rank
  <2> QED BY <1>6 DEF Surjection
<1>8. \E k \in K : Cardinality({j \in K : j <= k}) = n
  BY <1>7
<1> HIDE DEF Below, rank, T
<1> QED BY <1>8 DEF Nth

\* What is picked is a sequence of elements at the given positions.
LEMMA OnlyPicks ==
    ASSUME NEW S, NEW s \in Seq(S), NEW K \in SUBSET (1..Len(s))
    PROVE  /\ Only(s, K) \in Seq(S)
           /\ \A n \in 1..Len(Only(s, K)) : \E i \in K : Only(s, K)[n] = s[i]
<1>1. IsFiniteSet(K) /\ Cardinality(K) \in Nat /\ K \in SUBSET Nat
  <2>1. Len(s) \in Nat /\ IsFiniteSet(1..Len(s))
    BY FS_Interval
  <2>2. IsFiniteSet(K)
    BY <2>1, FS_Subset
  <2>3. Cardinality(K) \in Nat
    BY <2>2, FS_CardinalityType
  <2> QED BY <2>1, <2>2, <2>3
<1>2. ASSUME NEW n \in 1..Cardinality(K) PROVE Nth(K, n) \in K /\ s[Nth(K, n)] \in S
  <2>1. Nth(K, n) \in K
    BY <1>1, NthIsIn
  <2>2. Nth(K, n) \in 1..Len(s)
    BY <2>1
  <2> QED BY <2>1, <2>2
<1>3. Only(s, K) = [n \in 1..Cardinality(K) |-> s[Nth(K, n)]]
  BY DEF Only
<1>4. Only(s, K) \in Seq(S) /\ Len(Only(s, K)) = Cardinality(K)
  BY <1>1, <1>2, <1>3
<1> QED BY <1>2, <1>3, <1>4

\* A history that is saved has no message that is not complete.
Settled(s) == \A i \in 1..Len(s) : s[i].status = "complete"

LEMMA CompleteSettles ==
    ASSUME NEW s \in Seq(Messages)
    PROVE  Complete(s) \in Seq(Messages) /\ Settled(Complete(s))
BY OnlyPicks DEF Complete, Settled

LEMMA PromptIsPrompt ==
    ASSUME NEW s \in Seq(Messages), PromptsOf(s) # <<>>
    PROVE  LastOf(PromptsOf(s)).prompt \in Prompts \cup {None}
<1>1. PromptsOf(s) \in Seq(Messages)
  BY OnlyPicks DEF PromptsOf
<1>2. PromptsOf(s)[Len(PromptsOf(s))] \in Messages
  BY <1>1
<1> QED BY <1>2 DEF LastOf, Messages

-----------------------------------------------------------------------------
(* The types *)

\* The presenter has something to type when it is about to.
Typing == \A r \in Requests : presenter[r] \in {"check", "send"} => typing[r] # <<>>

Others == <<chatVars, listed, next_id, cancels, stored, logVars>>

LEMMA EventKinds ==
    /\ \A k \in {"connected"} \cup Terminal : Event(k, 0) \in Events
    /\ \A n \in Nat \ {0} : Event("delta", n) \in Events
    /\ \A e \in Events : e.kind \in {"connected", "delta"} \cup Terminal /\ e.part \in Nat
    /\ \A e \in Events : e.kind = "delta" <=> e.part # 0
BY DEF Event, Events, Terminal

\* A delta is split into the graphemes that follow those of the one before.
LEMMA PiecesAre ==
    ASSUME NEW n \in Nat \ {0}
    PROVE  /\ Pieces(n) \in Seq(Events) /\ Len(Pieces(n)) = Graphemes /\ Pieces(n) # <<>>
           /\ \A i \in 1..Graphemes : /\ Pieces(n)[i].kind = "delta"
                                      /\ Pieces(n)[i].part = (n - 1) * Graphemes + i
<1>1. Graphemes \in Nat /\ Graphemes # 0
  BY TuiStreamAssumption
<1>2. (n - 1) * Graphemes \in Nat
  BY <1>1
<1>3. ASSUME NEW i \in 1..Graphemes
      PROVE  Event("delta", (n - 1) * Graphemes + i) \in Events
  <2>1. (n - 1) * Graphemes + i \in Nat \ {0}
    BY <1>1, <1>2
  <2> QED BY <2>1, EventKinds
<1>4. Pieces(n) = [i \in 1..Graphemes |-> Event("delta", (n - 1) * Graphemes + i)]
  BY DEF Pieces
<1>5. Pieces(n) \in Seq(Events) /\ Len(Pieces(n)) = Graphemes
  BY <1>1, <1>3, <1>4
<1>6. \A i \in 1..Graphemes : Pieces(n)[i] = Event("delta", (n - 1) * Graphemes + i)
  BY <1>4
<1> QED BY <1>1, <1>5, <1>6 DEF Event

LEMMA Offered ==
    ASSUME StreamTypeOK, NEW r \in Requests, NEW e \in Events, Offer(r, e)
    PROVE  /\ source' \in [Requests -> Seq(Events)]
           /\ \A q \in Requests : Len(source'[q]) <= Capacity
<1>1. CASE UNCHANGED source
  BY <1>1 DEF StreamTypeOK
<1>2. CASE Room(r) /\ Push(r, e)
  <2>1. source' = [source EXCEPT ![r] = Append(source[r], e)]
    BY <1>2 DEF Push
  <2>2. source[r] \in Seq(Events) /\ Len(source[r]) < Capacity /\ Capacity \in Nat
    BY <1>2, TuiStreamAssumption DEF StreamTypeOK, Room
  <2>3. Append(source[r], e) \in Seq(Events) /\ Len(Append(source[r], e)) <= Capacity
    BY <2>2
  <2> QED BY <2>1, <2>3 DEF StreamTypeOK
<1> QED BY <1>1, <1>2 DEF Offer

LEMMA StreamTypes ==
    ASSUME StreamTypeOK, Typing, NEW r \in Requests, TaskStep(r) \/ PresenterStep(r)
    PROVE  StreamTypeOK' /\ Typing'
<1> USE DEF Goto, Present
<1>1. CASE Respond(r)
  BY <1>1, Offered, EventKinds DEF Respond, StreamTypeOK, Typing
<1>2. CASE HearCancel(r)
  BY <1>2, Offered, EventKinds DEF HearCancel, StreamTypeOK, Typing, Terminal
<1>3. CASE ReceiveDelta(r)
  <2>1. sent[r] \in Nat /\ sent[r] < MaxDeltas /\ MaxDeltas \in Nat
    BY <1>3, TuiStreamAssumption DEF ReceiveDelta, StreamTypeOK
  <2>2. Event("delta", sent[r] + 1) \in Events
    BY <2>1, EventKinds
  <2>3. /\ source' \in [Requests -> Seq(Events)]
        /\ \A q \in Requests : Len(source'[q]) <= Capacity
    <3>1. Offer(r, Event("delta", sent[r] + 1))
      BY <1>3 DEF ReceiveDelta, Offer
    <3> QED BY <2>2, <3>1, Offered
  <2>4. sent' \in [Requests -> 0..MaxDeltas]
    <3>1. sent[r] + 1 \in 0..MaxDeltas
      BY <2>1
    <3> QED BY <1>3, <3>1 DEF ReceiveDelta, StreamTypeOK
  <2> QED BY <1>3, <2>3, <2>4 DEF ReceiveDelta, StreamTypeOK, Typing
<1>4. CASE ReceiveDone(r)
  <2>1. Offer(r, Event("completed", 0))
    BY <1>4 DEF ReceiveDone, Offer
  <2>2. Event("completed", 0) \in Events
    BY EventKinds DEF Terminal
  <2>3. /\ source' \in [Requests -> Seq(Events)]
        /\ \A q \in Requests : Len(source'[q]) <= Capacity
    BY <2>1, <2>2, Offered
  <2> QED BY <1>4, <2>3 DEF ReceiveDone, StreamTypeOK, Typing
<1>5. CASE ReceiveFails(r)
  BY <1>5 DEF ReceiveFails, StreamTypeOK, Typing
<1>6. CASE Report(r)
  BY <1>6, Offered, EventKinds DEF Report, StreamTypeOK, Typing, Terminal
<1>7. CASE Take(r)
  <2>1. source[r] \in Seq(Events) /\ source[r] # <<>> /\ Len(source[r]) <= Capacity /\ Capacity \in Nat
    BY <1>7, TuiStreamAssumption DEF Take, StreamTypeOK
  <2>2. Head(source[r]) \in Events /\ Tail(source[r]) \in Seq(Events)
        /\ Len(Tail(source[r])) <= Capacity
    BY <2>1
  <2>3. CASE Head(source[r]).kind = "delta"
    <3>1. Pieces(Head(source[r]).part) \in Seq(Events)
      BY <2>2, <2>3, EventKinds, PiecesAre
    <3>2. Pieces(Head(source[r]).part) # <<>>
      BY <2>2, <2>3, EventKinds, PiecesAre
    <3>3. /\ typing' = [typing EXCEPT ![r] = Pieces(Head(source[r]).part)]
          /\ presenter' = [presenter EXCEPT ![r] = "check"]
          /\ source' = [source EXCEPT ![r] = Tail(source[r])]
          /\ UNCHANGED <<task, cancelled, sent, output>>
      BY <1>7, <2>3 DEF Take
    <3>4. StreamTypeOK'
      BY <2>2, <3>1, <3>3 DEF StreamTypeOK
    <3>5. Typing'
      BY <3>2, <3>3 DEF Typing, StreamTypeOK
    <3> QED BY <3>4, <3>5
  <2>4. CASE Head(source[r]).kind # "delta"
    <3>1. <<Head(source[r])>> \in Seq(Events)
      BY <2>2
    <3>2. /\ typing' = [typing EXCEPT ![r] = <<Head(source[r])>>]
          /\ presenter' = [presenter EXCEPT ![r] = "send"]
          /\ source' = [source EXCEPT ![r] = Tail(source[r])]
          /\ UNCHANGED <<task, cancelled, sent, output>>
      BY <1>7, <2>4 DEF Take
    <3>3. StreamTypeOK'
      BY <2>2, <3>1, <3>2 DEF StreamTypeOK
    <3>4. Typing'
      BY <3>2 DEF Typing, StreamTypeOK
    <3> QED BY <3>3, <3>4
  <2> QED BY <2>3, <2>4
<1>8. CASE Check(r)
  <2>1. <<>> \in Seq(Events) /\ Len(<<>>) <= Capacity
    BY TuiStreamAssumption
  <2>2. CASE ~cancelled[r]
    BY <1>8, <2>2 DEF Check, StreamTypeOK, Typing
  <2>3. CASE cancelled[r]
    <3>1. /\ typing' = [typing EXCEPT ![r] = <<>>]
          /\ presenter' = [presenter EXCEPT ![r] = "gone"]
          /\ source' = [source EXCEPT ![r] = <<>>]
          /\ UNCHANGED <<task, cancelled, sent, output>>
      BY <1>8, <2>3 DEF Check
    <3>2. StreamTypeOK'
      BY <2>1, <3>1 DEF StreamTypeOK
    <3>3. Typing'
      BY <3>1 DEF Typing, StreamTypeOK
    <3> QED BY <3>2, <3>3
  <2> QED BY <2>2, <2>3
<1>9. CASE TypeOne(r)
  <2>1. typing[r] \in Seq(Events) /\ output[r] \in Seq(Events) /\ Len(output[r]) < Capacity
        /\ Capacity \in Nat /\ typing[r] # <<>>
    BY <1>9, TuiStreamAssumption DEF TypeOne, OutputRoom, StreamTypeOK, Typing
  <2>2. Tail(typing[r]) \in Seq(Events) /\ Append(output[r], Head(typing[r])) \in Seq(Events)
        /\ Len(Append(output[r], Head(typing[r]))) <= Capacity
    BY <2>1
  <2>3. Len(typing[r]) # 1 => Tail(typing[r]) # <<>>
    <3>1. Len(typing[r]) \in Nat /\ Len(typing[r]) # 0
      BY <2>1
    <3>2. Tail(typing[r]) \in Seq(Events) /\ Len(Tail(typing[r])) = Len(typing[r]) - 1
      BY <2>1, <3>1
    <3>3. Len(typing[r]) # 1 => Len(Tail(typing[r])) # 0
      BY <3>1, <3>2
    <3> QED BY <3>2, <3>3
  <2> QED BY <1>9, <2>2, <2>3 DEF TypeOne, Type, StreamTypeOK, Typing
<1>10. CASE PresenterEnds(r)
  BY <1>10 DEF PresenterEnds, StreamTypeOK, Typing
<1> QED BY <1>1, <1>2, <1>3, <1>4, <1>5, <1>6, <1>7, <1>8, <1>9, <1>10 DEF TaskStep, PresenterStep

-----------------------------------------------------------------------------
(* The types of the chat *)

LEMMA NewMessages ==
    ASSUME NEW p \in Prompts
    PROVE  User(p) \in Messages /\ Assistant \in Messages
BY DEF User, Assistant, Messages

LEMMA LastMessage ==
    ASSUME NEW s \in Seq(Messages), s # <<>>
    PROVE  /\ Len(s) \in Nat /\ Len(s) # 0 /\ LastOf(s) = s[Len(s)] /\ LastOf(s) \in Messages
           /\ Front(s) \in Seq(Messages) /\ Len(Front(s)) = Len(s) - 1
           /\ \A i \in 1..(Len(s) - 1) : Front(s)[i] = s[i]
<1>1. Len(s) \in Nat /\ Len(s) # 0
  OBVIOUS
<1>2. LastOf(s) = s[Len(s)] /\ s[Len(s)] \in Messages
  BY <1>1 DEF LastOf
<1>3. Front(s) = SubSeq(s, 1, Len(s) - 1)
  BY DEF Front
<1>4. /\ Front(s) \in Seq(Messages) /\ Len(Front(s)) = Len(s) - 1
      /\ \A i \in 1..(Len(s) - 1) : Front(s)[i] = s[i]
  <2>1. Len(s) - 1 \in Nat /\ Len(s) - 1 <= Len(s)
    BY <1>1
  <2>2. Len(Front(s)) = Len(s) - 1
    <3>1. \A i \in 1..(Len(s) - 1) : s[i] \in Messages
      BY <1>1
    <3>2. Len(Front(s)) = IF 1 <= Len(s) - 1 THEN (Len(s) - 1) - 1 + 1 ELSE 0
      BY <1>3, <2>1, <3>1, SubSeqProperties
    <3>3. \A n \in Nat \ {0} : (IF 1 <= n - 1 THEN (n - 1) - 1 + 1 ELSE 0) = n - 1
      OBVIOUS
    <3> QED BY <1>1, <3>2, <3>3
  <2>3. \A i \in 1..(Len(s) - 1) : Front(s)[i] = s[i]
    BY <1>3, <2>1
  <2>4. Front(s) \in Seq(Messages)
    BY <1>3, <2>1
  <2> QED BY <2>2, <2>3, <2>4
<1> QED BY <1>1, <1>2, <1>4

LEMMA WithoutLastIs ==
    ASSUME messages \in Seq(Messages)
    PROVE  /\ WithoutLast \in Seq(Messages)
           /\ Settled(messages) => Settled(WithoutLast)
           /\ \A i \in 1..Len(WithoutLast) : i \in 1..Len(messages) /\ WithoutLast[i] = messages[i]
<1> DEFINE t == IF messages # <<>> /\ LastOf(messages).role = "assistant"
                THEN Front(messages) ELSE messages
<1>1. /\ t \in Seq(Messages)
      /\ \A i \in 1..Len(t) : i \in 1..Len(messages) /\ t[i] = messages[i]
  BY LastMessage
<1>2. CASE t # <<>> /\ LastOf(t).role = "user" /\ LastOf(t).prompt = last_user
  <2>1. WithoutLast = Front(t)
    BY <1>2 DEF WithoutLast
  <2> HIDE DEF t
  <2>2. /\ Front(t) \in Seq(Messages)
        /\ \A i \in 1..Len(Front(t)) : i \in 1..Len(t) /\ Front(t)[i] = t[i]
    BY <1>1, <1>2, LastMessage
  <2> QED BY <1>1, <2>1, <2>2 DEF Settled
<1>3. CASE ~(t # <<>> /\ LastOf(t).role = "user" /\ LastOf(t).prompt = last_user)
  <2>1. WithoutLast = t
    BY <1>3 DEF WithoutLast
  <2> HIDE DEF t
  <2> QED BY <1>1, <2>1 DEF Settled
<1> QED BY <1>2, <1>3

LEMMA Launched ==
    ASSUME StreamTypeOK, Typing, NEW r \in Requests, Launch(r)
    PROVE  StreamTypeOK' /\ Typing'
BY DEF Launch, StreamTypeOK, Typing

LEMMA SendTypes ==
    ASSUME TypeOK, Typing, NEW p \in Prompts, NEW t \in Seq(Messages), Send(p, t),
           unsaved' \in BOOLEAN
    PROVE  TypeOK' /\ Typing'
<1>1. next_id \in Requests /\ next_id + 1 \in 1..(MaxRequests + 1) /\ next_id \in 0..MaxRequests
  BY TuiStreamAssumption, SMTT(30) DEF TypeOK, ChatTypeOK, Send, Requests
<1>2. StreamTypeOK' /\ Typing'
  BY <1>1, Launched DEF Send, TypeOK
<1>3. messages' \in Seq(Messages)
  <2>1. <<User(p), Assistant>> \in Seq(Messages)
    BY NewMessages
  <2>2. t \o <<User(p), Assistant>> \in Seq(Messages)
    BY <2>1
  <2> QED BY <2>2 DEF Send
<1>4. generation' = [state |-> "connecting", id |-> next_id] /\ cancels' \subseteq Requests
  BY <1>1 DEF Send, Generation, TypeOK, ChatTypeOK
<1>5. last_user' \in Prompts /\ next_id' \in 1..(MaxRequests + 1)
      /\ asked' \in [Requests -> Prompts \cup {None}]
  BY <1>1 DEF Send, TypeOK, ChatTypeOK
<1>6. UNCHANGED <<session, listed, stored, ended>>
  BY DEF Send
<1>7. ChatTypeOK'
  <2>1. generation' \in [state : {"idle", "connecting", "streaming", "cancelling", "failed"},
                         id : 0..MaxRequests]
    BY <1>1, <1>4
  <2> QED BY <1>3, <1>4, <1>5, <1>6, <2>1 DEF TypeOK, ChatTypeOK
<1> QED BY <1>2, <1>7 DEF TypeOK

LEMMA ChangedTypes ==
    ASSUME TypeOK, Typing, NEW s \in Sessions, NEW h \in Seq(Messages), SessionChanged(s, h),
           UNCHANGED listed, stored' \in [Sessions -> Seq(Messages)]
    PROVE  TypeOK' /\ Typing'
<1>1. StreamTypeOK' /\ Typing'
  BY DEF SessionChanged, TypeOK, StreamTypeOK, Typing, streamVars
<1>2. last_user' \in Prompts \cup {None}
  BY PromptIsPrompt DEF SessionChanged
<1>3. generation' = [state |-> "idle", id |-> 0] /\ 0 \in 0..MaxRequests
  BY TuiStreamAssumption DEF SessionChanged, Idle, Generation
<1>4. ChatTypeOK'
  BY <1>2, <1>3 DEF SessionChanged, TypeOK, ChatTypeOK, logVars
<1> QED BY <1>1, <1>4 DEF TypeOK

LEMMA MarkTypes ==
    ASSUME messages \in Seq(Messages),
           NEW st \in {"complete", "streaming", "cancelled", "failed"}, Mark(st)
    PROVE  messages' \in Seq(Messages)
<1>1. CASE messages = <<>>
  BY <1>1 DEF Mark
<1>2. CASE messages # <<>>
  <2>1. Len(messages) \in 1..Len(messages) /\ messages[Len(messages)] \in Messages
    BY <1>2
  <2>2. [messages[Len(messages)] EXCEPT !.status = st] \in Messages
    BY <2>1 DEF Messages
  <2>3. messages' = [messages EXCEPT ![Len(messages)] = [messages[Len(messages)] EXCEPT !.status = st]]
    BY <1>2 DEF Mark
  <2> QED BY <2>1, <2>2, <2>3
<1> QED BY <1>1, <1>2

LEMMA Heard ==
    ASSUME TypeOK, Typing, NEW r \in Requests, StreamEvent(r)
    PROVE  /\ Head(output[r]) \in Events /\ Received(r, Head(output[r]))
           /\ StreamTypeOK' /\ Typing'
           /\ cancels' \subseteq Requests /\ ended' \in [Requests -> Nat]
<1>1. output[r] \in Seq(Events) /\ output[r] # <<>> /\ Received(r, Head(output[r]))
      /\ Len(output[r]) <= Capacity /\ Capacity \in Nat
  BY TuiStreamAssumption DEF TypeOK, StreamTypeOK, StreamEvent
<1>2. Head(output[r]) \in Events /\ Tail(output[r]) \in Seq(Events)
      /\ Len(Tail(output[r])) <= Capacity
  BY <1>1
<1>3. StreamTypeOK' /\ Typing'
  BY <1>1, <1>2 DEF Received, TypeOK, StreamTypeOK, Typing
<1> QED BY <1>1, <1>2, <1>3 DEF Received, TypeOK, ChatTypeOK

LEMMA ApplyTypes ==
    ASSUME TypeOK, NEW r \in Requests, NEW e \in Events, Apply(r, e), UNCHANGED session
    PROVE  /\ messages' \in Seq(Messages) /\ unsaved' \in BOOLEAN
           /\ stored' \in [Sessions -> Seq(Messages)]
           /\ generation' \in [state : {"idle", "connecting", "streaming", "cancelling", "failed"},
                               id : 0..MaxRequests]
<1>1. messages \in Seq(Messages) /\ unsaved \in BOOLEAN /\ session \in Sessions
      /\ stored \in [Sessions -> Seq(Messages)] /\ r \in 0..MaxRequests /\ 0 \in 0..MaxRequests
      /\ generation \in [state : {"idle", "connecting", "streaming", "cancelling", "failed"},
                         id : 0..MaxRequests]
  BY TuiStreamAssumption DEF TypeOK, ChatTypeOK, Requests
<1>2. CASE e.kind = "connected"
  BY <1>1, <1>2 DEF Apply, Generation, Terminal
<1>3. CASE e.kind = "delta"
  <2>1. UNCHANGED <<generation, unsaved, stored>> /\ Shown([of |-> r, piece |-> e.part])
    BY <1>3 DEF Apply
  <2>2. [of |-> r, piece |-> e.part] \in PieceIds
    BY <1>3, EventKinds DEF PieceIds
  <2>3. messages' \in Seq(Messages)
    <3>1. CASE messages # <<>> /\ LastOf(messages).status = "streaming"
      <4>1. messages[Len(messages)] \in Messages /\ Len(messages) \in 1..Len(messages)
        BY <1>1, <3>1
      <4>2. Append(messages[Len(messages)].pieces, [of |-> r, piece |-> e.part]) \in Seq(PieceIds)
        BY <2>2, <4>1 DEF Messages
      <4>3. [messages[Len(messages)] EXCEPT !.pieces = Append(@, [of |-> r, piece |-> e.part])] \in Messages
        BY <4>1, <4>2 DEF Messages
      <4> QED BY <1>1, <2>1, <3>1, <4>1, <4>3 DEF Shown
    <3>2. CASE ~(messages # <<>> /\ LastOf(messages).status = "streaming")
      BY <1>1, <2>1, <3>2 DEF Shown
    <3> QED BY <3>1, <3>2
  <2> QED BY <1>1, <2>1, <2>3
<1>4. CASE e.kind = "completed"
  <2>1. Completed
    BY <1>4 DEF Apply
  <2>2. messages' \in Seq(Messages)
    BY <1>1, <2>1, MarkTypes DEF Completed
  <2>3. Complete(messages') \in Seq(Messages)
    BY <2>2, CompleteSettles
  <2>4. stored' \in [Sessions -> Seq(Messages)] /\ unsaved' \in BOOLEAN
    BY <1>1, <2>1, <2>3 DEF Completed
  <2>5. generation' = [state |-> "idle", id |-> 0]
    BY <2>1 DEF Completed, Idle, Generation
  <2> QED BY <1>1, <2>2, <2>4, <2>5
<1>5. CASE e.kind = "failed"
  BY <1>1, <1>5, MarkTypes DEF Apply, Generation
<1>6. CASE e.kind = "cancelled"
  BY <1>1, <1>6, MarkTypes DEF Apply, Idle, Generation
<1> QED BY <1>2, <1>3, <1>4, <1>5, <1>6 DEF Apply

LEMMA UserTypes ==
    ASSUME TypeOK, Typing, UserStep
    PROVE  TypeOK' /\ Typing'
<1>1. messages \in Seq(Messages) /\ <<>> \in Seq(Messages)
  BY DEF TypeOK, ChatTypeOK
<1>2. ASSUME NEW p \in Prompts, Submit(p) PROVE TypeOK' /\ Typing'
  BY <1>1, <1>2, SendTypes DEF Submit, TypeOK, ChatTypeOK
<1>3. CASE Retry
  <2>1. last_user \in Prompts /\ WithoutLast \in Seq(Messages)
    BY <1>1, <1>3, WithoutLastIs DEF Retry, TypeOK, ChatTypeOK
  <2> QED BY <1>3, <2>1, SendTypes DEF Retry
<1>4. CASE EditLast
  <2>1. WithoutLast \in Seq(Messages)
    BY <1>1, WithoutLastIs
  <2> QED BY <1>4, <2>1 DEF EditLast, TypeOK, StreamTypeOK, ChatTypeOK, Typing, streamVars, logVars
<1>5. CASE Cancel
  <2>1. generation.id \in 0..MaxRequests /\ generation' = [state |-> "cancelling", id |-> generation.id]
    BY <1>5 DEF Cancel, Generation, TypeOK, ChatTypeOK
  <2>2. StreamTypeOK'
    <3>1. cancelled' \in [Requests -> BOOLEAN]
      BY <1>5 DEF Cancel, TypeOK, StreamTypeOK
    <3> QED BY <1>5, <3>1 DEF Cancel, TypeOK, StreamTypeOK
  <2>3. ChatTypeOK'
    BY <1>5, <2>1 DEF Cancel, TypeOK, ChatTypeOK, logVars
  <2> QED BY <1>5, <2>2, <2>3 DEF Cancel, TypeOK, Typing
<1>6. CASE LoadSessions
  BY <1>6 DEF LoadSessions, TypeOK, StreamTypeOK, ChatTypeOK, Typing, streamVars, chatVars, logVars
<1>7. CASE ClearHistory
  <2>1. stored' \in [Sessions -> Seq(Messages)] /\ session \in Sessions
    BY <1>1, <1>7 DEF ClearHistory, TypeOK, ChatTypeOK
  <2> QED BY <1>1, <1>7, <2>1, ChangedTypes DEF ClearHistory
<1>8. ASSUME NEW s \in Sessions, SwitchSession(s) PROVE TypeOK' /\ Typing'
  <2>1. (IF s \in DOMAIN listed THEN listed[s] ELSE stored[s]) \in Seq(Messages)
    BY DEF TypeOK, ChatTypeOK
  <2>2. stored' \in [Sessions -> Seq(Messages)]
    BY <1>8 DEF SwitchSession, TypeOK, ChatTypeOK
  <2> QED BY <1>8, <2>1, <2>2, ChangedTypes DEF SwitchSession
<1> QED BY <1>2, <1>3, <1>4, <1>5, <1>6, <1>7, <1>8 DEF UserStep

LEMMA TypeStep ==
    ASSUME TypeOK, Typing, Next
    PROVE  TypeOK' /\ Typing'
<1>1. CASE UserStep
  BY <1>1, UserTypes
<1>2. ASSUME NEW r \in Requests, StreamEvent(r) PROVE TypeOK' /\ Typing'
  <2>1. /\ Head(output[r]) \in Events /\ Received(r, Head(output[r]))
        /\ StreamTypeOK' /\ Typing'
        /\ cancels' \subseteq Requests /\ ended' \in [Requests -> Nat]
    BY <1>2, Heard
  <2>2. UNCHANGED <<last_user, session, listed, next_id, asked>>
    BY <2>1 DEF Received
  <2>3. /\ messages' \in Seq(Messages) /\ unsaved' \in BOOLEAN
        /\ stored' \in [Sessions -> Seq(Messages)]
        /\ generation' \in [state : {"idle", "connecting", "streaming", "cancelling", "failed"},
                            id : 0..MaxRequests]
    <3>1. CASE Current(r)
      <4>1. Apply(r, Head(output[r]))
        BY <1>2, <3>1 DEF StreamEvent
      <4> QED BY <2>1, <2>2, <4>1, ApplyTypes
    <3>2. CASE ~Current(r)
      BY <1>2, <3>2 DEF StreamEvent, TypeOK, ChatTypeOK
    <3> QED BY <3>1, <3>2
  <2>4. ChatTypeOK'
    BY <2>1, <2>2, <2>3 DEF TypeOK, ChatTypeOK
  <2> QED BY <2>1, <2>4 DEF TypeOK
<1>3. ASSUME NEW r \in Requests, Background(r) PROVE TypeOK' /\ Typing'
  <2>1. StreamTypeOK' /\ Typing'
    BY <1>3, StreamTypes DEF Background, TypeOK
  <2> QED BY <1>3, <2>1 DEF Background, TypeOK, ChatTypeOK, chatVars, logVars
<1> QED BY <1>1, <1>2, <1>3, Next DEF Next

LEMMA TypeInit == Init => TypeOK /\ Typing
<1> SUFFICES ASSUME Init PROVE TypeOK /\ Typing
  OBVIOUS
<1>1. StreamTypeOK /\ Typing
  BY TuiStreamAssumption DEF Init, StreamInit, StreamTypeOK, Typing
<1>2. ChatTypeOK
  <2>1. generation \in [state : {"idle", "connecting", "streaming", "cancelling", "failed"},
                        id : 0..MaxRequests]
    BY TuiStreamAssumption DEF Init
  <2>2. listed \in [DOMAIN listed -> Seq(Messages)] /\ DOMAIN listed \subseteq Sessions
    BY DEF Init
  <2>3. /\ messages \in Seq(Messages) /\ stored \in [Sessions -> Seq(Messages)]
        /\ next_id \in 1..(MaxRequests + 1) /\ session \in Sessions
    BY TuiStreamAssumption, TuiChatAssumption DEF Init
  <2>4. cancels \subseteq Requests /\ asked \in [Requests -> Prompts \cup {None}]
        /\ ended \in [Requests -> Nat] /\ unsaved \in BOOLEAN /\ last_user \in Prompts \cup {None}
    BY DEF Init
  <2> QED BY <2>1, <2>2, <2>3, <2>4 DEF ChatTypeOK
<1> QED BY <1>1, <1>2 DEF TypeOK

LEMMA TypeSame == TypeOK /\ Typing /\ UNCHANGED vars => TypeOK' /\ Typing'
BY DEF TypeOK, StreamTypeOK, ChatTypeOK, Typing, vars, streamVars, chatVars, logVars

\* The variables keep their types and the channels their capacities, whatever
\* the proxy sends and the user does (stream_chat, App::update).
THEOREM TypeCorrect == Spec => []TypeOK
<1>1. TypeOK /\ Typing /\ [Next]_vars => (TypeOK /\ Typing)'
  BY TypeStep, TypeSame
<1> QED BY <1>1, TypeInit, PTL DEF Spec

-----------------------------------------------------------------------------
(* Cancelling *)

IInv == TypeOK /\ Typing

\* An answer on its way is one whose token the event loop has, or which has been
\* cancelled: no event takes the token of the current request without ending it
\* (run, stream_action; Action::Cancel).
THEOREM CancelCorrect == Spec => []CanCancel
<1>1. Init => CanCancel
  BY DEF Init, CanCancel, Busy
<1>2. IInv /\ CanCancel /\ [Next]_vars => CanCancel'
  <2> SUFFICES ASSUME IInv, CanCancel, [Next]_vars PROVE CanCancel'
    OBVIOUS
  <2> USE DEF CanCancel, Busy
  <2>1. ASSUME NEW p, NEW t, Send(p, t) PROVE CanCancel'
    BY <2>1 DEF Send, Generation
  <2>2. ASSUME NEW s, NEW h, SessionChanged(s, h) PROVE CanCancel'
    BY <2>2 DEF SessionChanged, Idle, Generation
  <2>3. CASE UserStep
    <3>1. CASE Cancel
      <4>1. generation.id \in Requests \/ generation.id \notin cancels
        BY DEF IInv, TypeOK, ChatTypeOK
      <4>2. CASE generation.id \in cancels
        BY <3>1, <4>1, <4>2 DEF Cancel, Generation, IInv, TypeOK, StreamTypeOK
      <4>3. CASE generation.id \notin cancels
        <5>1. cancelled[generation.id]
          BY <3>1, <4>3 DEF Cancel
        <5>2. cancelled'[generation.id]
          BY <3>1, <5>1 DEF Cancel, IInv, TypeOK, StreamTypeOK
        <5> QED BY <3>1, <5>2 DEF Cancel, Generation
      <4> QED BY <4>2, <4>3
    <3>2. CASE EditLast
      BY <3>2 DEF EditLast
    <3>3. CASE LoadSessions
      BY <3>3 DEF LoadSessions, streamVars, chatVars
    <3> QED BY <2>1, <2>2, <2>3, <3>1, <3>2, <3>3 DEF UserStep, Submit, Retry, ClearHistory, SwitchSession
  <2>4. ASSUME NEW r \in Requests, StreamEvent(r) PROVE CanCancel'
    <3>1. Head(output[r]) \in Events /\ Received(r, Head(output[r]))
      BY <2>4, Heard DEF IInv
    <3>2. UNCHANGED cancelled
      BY <3>1 DEF Received
    <3>3. CASE Current(r)
      <4>1. Apply(r, Head(output[r]))
        BY <2>4, <3>3 DEF StreamEvent
      <4>2. CASE Head(output[r]).kind \in Terminal
        <5>1. generation'.state \in {"idle", "failed"}
          BY <4>1, <4>2 DEF Apply, Completed, Idle, Generation, Terminal
        <5> QED BY <5>1
      <4>3. CASE Head(output[r]).kind \notin Terminal
        <5>1. UNCHANGED cancels
          BY <3>1, <4>3 DEF Received
        <5>2. generation'.id = generation.id
          BY <3>3, <4>1, <4>3 DEF Apply, Generation, Current, Terminal
        <5> QED BY <3>2, <3>3, <5>1, <5>2 DEF Current
      <4> QED BY <4>2, <4>3
    <3>4. CASE ~Current(r)
      <4>1. UNCHANGED generation /\ cancels \ {r} \subseteq cancels'
        BY <2>4, <3>1, <3>4 DEF StreamEvent, Received
      <4> QED BY <3>2, <3>4, <4>1 DEF Current
    <3> QED BY <3>3, <3>4
  <2>5. ASSUME NEW r \in Requests, Background(r) PROVE CanCancel'
    BY <2>5 DEF Background, chatVars, TaskStep, PresenterStep, Respond, HearCancel, ReceiveDelta,
       ReceiveDone, ReceiveFails, Report, Take, Check, TypeOne, PresenterEnds
  <2>6. CASE UNCHANGED vars
    BY <2>6 DEF vars, streamVars, chatVars
  <2> QED BY <2>3, <2>4, <2>5, <2>6 DEF Next
<1>3. IInv /\ [Next]_vars => IInv'
  BY TypeStep, TypeSame DEF IInv
<1> QED BY <1>1, <1>2, <1>3, TypeInit, PTL DEF Spec, IInv

-----------------------------------------------------------------------------
(* One outcome *)

Over(s)     == \E i \in 1..Len(s) : s[i].kind \in Terminal
OnlyLast(s) == \A i \in 1..Len(s) : s[i].kind \in Terminal => i = Len(s)

\* A terminal event is the last on the way of its request, at every stage.
Fate(r) ==
    /\ OnlyLast(output[r]) /\ OnlyLast(typing[r]) /\ OnlyLast(source[r])
    /\ Over(source[r]) => task[r] = "over"
    /\ Over(typing[r]) => source[r] = <<>> /\ task[r] = "over"
    /\ Over(output[r]) => typing[r] = <<>> /\ source[r] = <<>> /\ task[r] = "over"
    /\ ended[r] > 0 => /\ ended[r] = 1 /\ task[r] = "over"
                       /\ output[r] = <<>> /\ typing[r] = <<>> /\ source[r] = <<>>
    /\ presenter[r] \notin {"check", "send"} => typing[r] = <<>>
    /\ presenter[r] = "gone" => source[r] = <<>>
    /\ task[r] = "none" <=> presenter[r] = "none"
    /\ task[r] \in {"none", "sending"} =>
          /\ presenter[r] \in {"none", "recv"}
          /\ output[r] = <<>> /\ typing[r] = <<>> /\ source[r] = <<>>

Fates == \A r \in Requests : Fate(r)

\* A request that has not been made has not been launched.
Unmade == \A r \in Requests : r >= next_id => task[r] = "none"

LEMMA EmptyIsFine == ~Over(<<>>) /\ OnlyLast(<<>>)
BY DEF Over, OnlyLast

LEMMA AddLast ==
    ASSUME NEW s \in Seq(Events), NEW e \in Events, ~Over(s)
    PROVE  /\ OnlyLast(Append(s, e)) /\ (Over(Append(s, e)) <=> e.kind \in Terminal)
           /\ Append(s, e) # <<>>
<1>1. /\ Len(s) \in Nat /\ Len(Append(s, e)) = Len(s) + 1 /\ Append(s, e)[Len(s) + 1] = e
      /\ \A i \in 1..Len(s) : Append(s, e)[i] = s[i]
  OBVIOUS
<1>2. \A i \in 1..(Len(s) + 1) : Append(s, e)[i].kind \in Terminal => i = Len(s) + 1
  BY <1>1 DEF Over
<1> QED BY <1>1, <1>2 DEF OnlyLast, Over

LEMMA TakeFirst ==
    ASSUME NEW s \in Seq(Events), s # <<>>, OnlyLast(s)
    PROVE  /\ Head(s) \in Events /\ Tail(s) \in Seq(Events) /\ OnlyLast(Tail(s))
           /\ Head(s).kind \in Terminal => Tail(s) = <<>> /\ Over(s)
           /\ Over(Tail(s)) => Over(s)
           /\ Over(s) => Head(s).kind \in Terminal \/ Over(Tail(s))
<1>1. /\ Len(s) \in Nat \ {0} /\ Head(s) = s[1] /\ Tail(s) \in Seq(Events)
      /\ Len(Tail(s)) = Len(s) - 1 /\ Head(s) \in Events
      /\ \A i \in 1..(Len(s) - 1) : Tail(s)[i] = s[i + 1]
  OBVIOUS
<1>2. ASSUME NEW i \in 1..(Len(s) - 1), s[i + 1].kind \in Terminal
      PROVE  i = Len(s) - 1
  <2>1. i + 1 \in 1..Len(s)
    BY <1>1
  <2>2. i + 1 = Len(s)
    BY <1>2, <2>1 DEF OnlyLast
  <2>3. Len(s) \in Int /\ i \in Int
    BY SMTT(30)
  <2> QED BY <2>2, <2>3
<1>3. OnlyLast(Tail(s))
  <2> SUFFICES ASSUME NEW i \in 1..Len(Tail(s)), Tail(s)[i].kind \in Terminal
               PROVE  i = Len(Tail(s))
    BY DEF OnlyLast
  <2>1. i \in 1..(Len(s) - 1) /\ s[i + 1].kind \in Terminal
    BY <1>1
  <2> QED BY <1>1, <1>2, <2>1
<1>4. ASSUME Head(s).kind \in Terminal PROVE Tail(s) = <<>> /\ Over(s)
  <2>1. 1 \in 1..Len(s) /\ s[1].kind \in Terminal
    BY <1>1, <1>4
  <2>2. Len(s) = 1
    BY <2>1 DEF OnlyLast
  <2>3. Over(s)
    BY <2>1 DEF Over
  <2>4. Tail(s) \in Seq(Events) /\ Len(Tail(s)) = 0
    BY <1>1, <2>2
  <2>5. Tail(s) = <<>>
    BY <2>4, EmptySeq
  <2> QED BY <2>3, <2>5
<1>5. ASSUME Over(Tail(s)) PROVE Over(s)
  <2>1. PICK i \in 1..(Len(s) - 1) : s[i + 1].kind \in Terminal
    BY <1>1, <1>5 DEF Over
  <2>2. i + 1 \in 1..Len(s)
    BY <1>1, <2>1
  <2> QED BY <2>1, <2>2 DEF Over
<1>6. ASSUME Over(s), Head(s).kind \notin Terminal PROVE Over(Tail(s))
  <2>1. PICK i \in 1..Len(s) : s[i].kind \in Terminal
    BY <1>6 DEF Over
  <2>2. i # 1 /\ i - 1 \in 1..(Len(s) - 1) /\ (i - 1) + 1 = i
    BY <1>1, <1>6, <2>1
  <2>3. Tail(s)[i - 1].kind \in Terminal
    BY <1>1, <2>1, <2>2
  <2> QED BY <1>1, <2>2, <2>3 DEF Over
<1> QED BY <1>1, <1>3, <1>4, <1>5, <1>6

\* A delta's graphemes are not terminal.
LEMMA PiecesGoOn ==
    ASSUME NEW n \in Nat \ {0}
    PROVE  ~Over(Pieces(n)) /\ OnlyLast(Pieces(n))
BY PiecesAre, TuiStreamAssumption DEF Over, OnlyLast, Terminal

LEMMA SingleFate ==
    ASSUME NEW e \in Events
    PROVE  OnlyLast(<<e>>) /\ (Over(<<e>>) <=> e.kind \in Terminal)
BY DEF OnlyLast, Over

\* What does not touch a request does not change its fate.
LEMMA FateFrame ==
    ASSUME NEW q \in Requests, Fate(q), source'[q] = source[q], typing'[q] = typing[q],
           output'[q] = output[q], task'[q] = task[q], presenter'[q] = presenter[q],
           ended'[q] = ended[q]
    PROVE  Fate(q)'
BY DEF Fate, Over, OnlyLast

Elsewhere(r) == \A q \in Requests \ {r} :
    /\ source'[q] = source[q] /\ typing'[q] = typing[q] /\ output'[q] = output[q]
    /\ task'[q] = task[q] /\ presenter'[q] = presenter[q]

LEMMA StepsAreLocal ==
    ASSUME StreamTypeOK, NEW r \in Requests, TaskStep(r) \/ PresenterStep(r)
    PROVE  Elsewhere(r)
BY DEF StreamTypeOK, Elsewhere, TaskStep, PresenterStep, Respond, HearCancel, ReceiveDelta,
   ReceiveDone, ReceiveFails, Report, Take, Check, TypeOne, PresenterEnds, Offer, Push, Goto,
   Present, Type

\* What the task may put into the channel, and with which sequel.
LEMMA OfferFate ==
    ASSUME StreamTypeOK, NEW r \in Requests, Fate(r), NEW e \in Events, Offer(r, e),
           NEW to \in {"reading", "failing", "over"}, Goto(r, to),
           task[r] \notin {"none", "over"}, e.kind \in Terminal => to = "over",
           UNCHANGED <<presenter, typing, output, ended>>
    PROVE  Fate(r)'
<1>1. /\ task'[r] = to /\ source[r] \in Seq(Events) /\ ~Over(source[r])
      /\ ~Over(typing[r]) /\ ~Over(output[r]) /\ ~(ended[r] > 0)
  BY DEF Goto, StreamTypeOK, Fate
<1>2. CASE source'[r] = source[r]
  BY <1>1, <1>2 DEF Fate, Over, OnlyLast
<1>3. CASE source'[r] = Append(source[r], e) /\ presenter[r] # "gone"
  <2>1. OnlyLast(Append(source[r], e)) /\ (Over(Append(source[r], e)) <=> e.kind \in Terminal)
    BY <1>1, AddLast
  <2>2. OnlyLast(source'[r]) /\ (Over(source'[r]) <=> e.kind \in Terminal)
    BY <1>3, <2>1
  <2> QED BY <1>1, <1>3, <2>2 DEF Fate, Over, OnlyLast
<1> QED BY <1>2, <1>3 DEF Offer, Push, Closed, StreamTypeOK

LEMMA TaskFate ==
    ASSUME StreamTypeOK, NEW r \in Requests, Fate(r), TaskStep(r), UNCHANGED ended
    PROVE  Fate(r)'
<1>1. CASE Respond(r)
  <2>1. CASE Offer(r, Event("connected", 0)) /\ Goto(r, "reading")
    BY <1>1, <2>1, OfferFate, EventKinds DEF Respond, Event, Terminal
  <2>2. CASE Goto(r, "failing") /\ UNCHANGED source
    BY <1>1, <2>2 DEF Respond, Goto, Fate, Over, OnlyLast, StreamTypeOK
  <2> QED BY <1>1, <2>1, <2>2 DEF Respond
<1>2. CASE HearCancel(r)
  BY <1>2, OfferFate, EventKinds DEF HearCancel, Terminal
<1>3. CASE ReceiveDelta(r)
  <2>1. CASE Closed(r)
    BY <1>3, <2>1 DEF ReceiveDelta, Closed, Goto, Fate, Over, OnlyLast, StreamTypeOK
  <2>2. CASE ~Closed(r)
    <3>1. sent[r] + 1 \in Nat \ {0}
      BY <1>3, TuiStreamAssumption DEF ReceiveDelta, StreamTypeOK
    <3>2. Event("delta", sent[r] + 1) \in Events /\ Event("delta", sent[r] + 1).kind \notin Terminal
      BY <3>1, EventKinds DEF Event, Terminal
    <3>3. Offer(r, Event("delta", sent[r] + 1)) /\ task[r] = "reading" /\ Goto(r, "reading")
      BY <1>3, <2>2 DEF ReceiveDelta, Offer, Goto, StreamTypeOK
    <3> QED BY <1>3, <3>2, <3>3, OfferFate DEF ReceiveDelta
  <2> QED BY <2>1, <2>2
<1>4. CASE ReceiveDone(r)
  <2>1. CASE Closed(r)
    BY <1>4, <2>1 DEF ReceiveDone, Closed, Goto, Fate, Over, OnlyLast, StreamTypeOK
  <2>2. CASE ~Closed(r)
    <3>1. Offer(r, Event("completed", 0)) /\ Goto(r, "over") /\ task[r] = "reading"
      BY <1>4, <2>2 DEF ReceiveDone, Offer
    <3>2. Event("completed", 0) \in Events
      BY EventKinds DEF Terminal
    <3> QED BY <1>4, <3>1, <3>2, OfferFate DEF ReceiveDone
  <2> QED BY <2>1, <2>2
<1>5. CASE ReceiveFails(r)
  BY <1>5 DEF ReceiveFails, Goto, Fate, Over, OnlyLast, StreamTypeOK
<1>6. CASE Report(r)
  BY <1>6, OfferFate, EventKinds DEF Report, Terminal
<1> QED BY <1>1, <1>2, <1>3, <1>4, <1>5, <1>6 DEF TaskStep

LEMMA PresenterFate ==
    ASSUME StreamTypeOK, Typing, NEW r \in Requests, Fate(r), PresenterStep(r), UNCHANGED ended
    PROVE  Fate(r)'
<1> DEFINE e == Head(source[r])
           f == Head(typing[r])
<1>1. CASE Take(r)
  <2>1. /\ source[r] \in Seq(Events) /\ source[r] # <<>> /\ OnlyLast(source[r])
        /\ presenter[r] = "recv" /\ typing[r] = <<>>
    BY <1>1 DEF Take, StreamTypeOK, Fate
  <2>2. /\ e \in Events /\ Tail(source[r]) \in Seq(Events) /\ OnlyLast(Tail(source[r]))
        /\ e.kind \in Terminal => Tail(source[r]) = <<>> /\ Over(source[r])
        /\ Over(Tail(source[r])) => Over(source[r])
    BY <2>1, TakeFirst
  <2>3. PICK s \in Seq(Events) :
           /\ typing' = [typing EXCEPT ![r] = s]
           /\ s # <<>> /\ OnlyLast(s) /\ (Over(s) <=> e.kind \in Terminal)
           /\ presenter'[r] \in {"check", "send"}
    <3>1. CASE e.kind = "delta"
      <4>1. e.part \in Nat \ {0}
        BY <2>2, <3>1, EventKinds
      <4> QED BY <1>1, <3>1, <4>1, PiecesAre, PiecesGoOn DEF Take, Present, StreamTypeOK, Terminal
    <3>2. CASE e.kind # "delta"
      <4>1. <<e>> \in Seq(Events) /\ <<e>> # <<>> /\ OnlyLast(<<e>>)
            /\ (Over(<<e>>) <=> e.kind \in Terminal)
        BY <2>2, SingleFate
      <4> HIDE DEF e
      <4>2. typing' = [typing EXCEPT ![r] = <<e>>] /\ presenter' = [presenter EXCEPT ![r] = "send"]
        BY <1>1, <3>2 DEF Take, Present, e
      <4> QED BY <4>1, <4>2 DEF StreamTypeOK
    <3> QED BY <3>1, <3>2
  <2>4. /\ source'[r] = Tail(source[r]) /\ typing'[r] = s
        /\ UNCHANGED <<task, output>>
    BY <1>1, <2>3 DEF Take, StreamTypeOK
  <2>5. task[r] # "none" /\ task[r] # "sending" /\ ~Over(output[r]) /\ ~(ended[r] > 0)
    BY <2>1 DEF Fate
  <2> HIDE DEF e
  <2> QED BY <2>1, <2>2, <2>3, <2>4, <2>5 DEF Fate, Over, OnlyLast
<1>2. CASE Check(r)
  <2>1. CASE ~cancelled[r]
    BY <1>2, <2>1 DEF Check, Present, Fate, Over, OnlyLast, StreamTypeOK
  <2>2. CASE cancelled[r]
    <3>1. /\ presenter[r] = "check" /\ presenter'[r] = "gone"
          /\ source'[r] = <<>> /\ typing'[r] = <<>> /\ UNCHANGED <<task, output>>
      BY <1>2, <2>2 DEF Check, Present, StreamTypeOK
    <3> QED BY <3>1, EmptyIsFine DEF Fate, Over, OnlyLast
  <2> QED BY <2>1, <2>2
<1>3. CASE TypeOne(r)
  <2>1. /\ typing[r] \in Seq(Events) /\ typing[r] # <<>> /\ OnlyLast(typing[r])
        /\ output[r] \in Seq(Events) /\ ~Over(output[r])
        /\ task[r] \notin {"none", "sending"} /\ presenter[r] = "send"
    BY <1>3 DEF TypeOne, StreamTypeOK, Fate, Typing
  <2>2. /\ f \in Events /\ Tail(typing[r]) \in Seq(Events) /\ OnlyLast(Tail(typing[r]))
        /\ f.kind \in Terminal => Tail(typing[r]) = <<>> /\ Over(typing[r])
        /\ Over(Tail(typing[r])) => Over(typing[r])
    BY <2>1, TakeFirst
  <2>3. OnlyLast(Append(output[r], f)) /\ (Over(Append(output[r], f)) <=> f.kind \in Terminal)
    <3> HIDE DEF f
    <3> QED BY <2>1, <2>2, AddLast
  <2>4. /\ output'[r] = Append(output[r], f) /\ typing'[r] = Tail(typing[r])
        /\ UNCHANGED <<task, source>>
    BY <1>3 DEF TypeOne, Type, StreamTypeOK
  <2>5. presenter'[r] \in {"check", "recv"} /\ (presenter'[r] = "recv" => Tail(typing[r]) = <<>>)
    <3>1. presenter'[r] = IF Len(typing[r]) = 1 THEN "recv" ELSE "check"
      BY <1>3 DEF TypeOne, Present, StreamTypeOK
    <3>2. ASSUME Len(typing[r]) = 1 PROVE Tail(typing[r]) = <<>>
      <4>1. Tail(typing[r]) \in Seq(Events) /\ Len(Tail(typing[r])) = 0
        BY <2>1, <3>2
      <4> QED BY <4>1, EmptySeq
    <3> QED BY <3>1, <3>2
  <2>6. ~(ended[r] > 0)
    BY <2>1 DEF Fate
  <2> HIDE DEF f
  <2> QED BY <2>1, <2>2, <2>3, <2>4, <2>5, <2>6 DEF Fate, Over, OnlyLast
<1>4. CASE PresenterEnds(r)
  BY <1>4 DEF PresenterEnds, Present, Fate, Over, OnlyLast, StreamTypeOK
<1> QED BY <1>1, <1>2, <1>3, <1>4 DEF PresenterStep

LEMMA EventFate ==
    ASSUME IInv, Fates, NEW r \in Requests, StreamEvent(r)
    PROVE  Fates'
<1> DEFINE e == Head(output[r])
<1>1. /\ Received(r, e) /\ output[r] \in Seq(Events) /\ output[r] # <<>> /\ OnlyLast(output[r])
      /\ Fate(r) /\ ended \in [Requests -> Nat]
  BY Heard DEF IInv, TypeOK, StreamTypeOK, ChatTypeOK, Fates, Fate, StreamEvent
<1>2. /\ OnlyLast(Tail(output[r])) /\ (Over(Tail(output[r])) => Over(output[r]))
      /\ e.kind \in Terminal => Tail(output[r]) = <<>> /\ Over(output[r])
  BY <1>1, TakeFirst
<1>3. /\ output'[r] = Tail(output[r]) /\ UNCHANGED <<task, source, typing, presenter>>
      /\ ended'[r] = IF e.kind \in Terminal THEN ended[r] + 1 ELSE ended[r]
      /\ \A q \in Requests \ {r} : output'[q] = output[q] /\ ended'[q] = ended[q]
  BY <1>1 DEF Received, IInv, TypeOK, StreamTypeOK
<1>4. ended[r] = 0
  BY <1>1 DEF Fate
<1>5. Fate(r)'
  <2> HIDE DEF e
  <2>1. CASE e.kind \in Terminal
    BY <1>1, <1>2, <1>3, <1>4, <2>1, EmptyIsFine DEF Fate, Over, OnlyLast
  <2>2. CASE e.kind \notin Terminal
    BY <1>1, <1>2, <1>3, <1>4, <2>2 DEF Fate, Over, OnlyLast
  <2> QED BY <2>1, <2>2
<1>6. ASSUME NEW q \in Requests \ {r} PROVE Fate(q)'
  BY <1>3, FateFrame DEF Fates
<1> QED BY <1>5, <1>6 DEF Fates

LEMMA LaunchFate ==
    ASSUME IInv, Fates, Unmade, NEW r \in Requests, r = next_id, Launch(r),
           next_id' = r + 1, UNCHANGED ended
    PROVE  Fates' /\ Unmade'
<1>1. task[r] = "none" /\ r = next_id /\ r \in Nat
  BY DEF Unmade, Requests
<1>2. Fate(r)'
  <2>1. /\ output[r] = <<>> /\ typing[r] = <<>> /\ source[r] = <<>>
        /\ ~(ended[r] > 0)
    BY <1>1 DEF Fates, Fate
  <2>2. task'[r] = "sending" /\ presenter'[r] = "recv"
        /\ UNCHANGED <<output, typing, source, ended>>
    BY DEF Launch, IInv, TypeOK, StreamTypeOK
  <2> QED BY <2>1, <2>2, EmptyIsFine DEF Fate, Over, OnlyLast
<1>3. ASSUME NEW q \in Requests \ {r} PROVE Fate(q)'
  BY FateFrame DEF Launch, Fates, IInv, TypeOK, StreamTypeOK
<1>4. Unmade'
  BY <1>1 DEF Unmade, Launch, IInv, TypeOK, StreamTypeOK, Requests
<1>5. ASSUME NEW q \in Requests PROVE Fate(q)'
  <2>1. CASE q = r
    BY <1>2, <2>1
  <2>2. CASE q # r
    BY <1>3, <2>2
  <2> QED BY <2>1, <2>2
<1> QED BY <1>4, <1>5 DEF Fates

LEMMA BackgroundFate ==
    ASSUME IInv, Fates, Unmade, NEW r \in Requests, Background(r)
    PROVE  Fates' /\ Unmade'
<1>1. StreamTypeOK /\ Typing /\ Fate(r) /\ UNCHANGED <<ended, next_id>>
  BY DEF IInv, TypeOK, Fates, Background, logVars
<1>2. Fate(r)'
  BY <1>1, TaskFate, PresenterFate DEF Background
<1>3. Elsewhere(r)
  BY <1>1, StepsAreLocal DEF Background
<1>4. ASSUME NEW q \in Requests \ {r} PROVE Fate(q)'
  BY <1>1, <1>3, FateFrame DEF Elsewhere, Fates
<1>5. Unmade'
  <2>1. CASE task[r] = "none"
    <3>1. PresenterStep(r)
      BY <2>1 DEF Background, TaskStep, Respond, HearCancel, ReceiveDelta, ReceiveDone,
         ReceiveFails, Report
    <3>2. UNCHANGED task
      BY <3>1 DEF PresenterStep, Take, Check, TypeOne, PresenterEnds
    <3> QED BY <1>1, <3>2 DEF Unmade
  <2>2. CASE task[r] # "none"
    BY <1>1, <1>3, <2>2 DEF Unmade, Elsewhere
  <2> QED BY <2>1, <2>2
<1> QED BY <1>2, <1>4, <1>5 DEF Fates

\* The rest changes neither the streams nor what has been heard of them.
Apart == UNCHANGED <<task, sent, source, presenter, typing, output, ended, next_id>>

LEMMA ApartFate ==
    ASSUME Fates, Unmade, Apart
    PROVE  Fates' /\ Unmade'
<1>1. ASSUME NEW q \in Requests PROVE Fate(q)'
  BY FateFrame DEF Apart, Fates
<1> QED BY <1>1 DEF Fates, Unmade, Apart

LEMMA UserIs ==
    ASSUME UserStep
    PROVE  Apart \/ (\E p, t : Send(p, t))
BY DEF UserStep, Submit, Retry, EditLast, Cancel, LoadSessions, ClearHistory, SwitchSession,
   SessionChanged, Apart, streamVars, logVars

LEMMA SendIs ==
    ASSUME IInv, NEW p, NEW t, Send(p, t)
    PROVE  next_id \in Requests /\ Launch(next_id) /\ next_id' = next_id + 1 /\ UNCHANGED ended
BY TuiStreamAssumption DEF Send, IInv, TypeOK, ChatTypeOK, Requests

LEMMA FateStep ==
    ASSUME IInv, Fates, Unmade, [Next]_vars
    PROVE  Fates' /\ Unmade'
<1>1. CASE UserStep
  <2>1. CASE Apart
    BY <2>1, ApartFate
  <2>2. ASSUME NEW p, NEW t, Send(p, t) PROVE Fates' /\ Unmade'
    <3>1. PICK r \in Requests : r = next_id /\ Launch(r) /\ next_id' = r + 1 /\ UNCHANGED ended
      BY <2>2, SendIs
    <3> QED BY <3>1, LaunchFate
  <2> QED BY <1>1, <2>1, <2>2, UserIs
<1>2. ASSUME NEW r \in Requests, StreamEvent(r) PROVE Fates' /\ Unmade'
  <2>1. UNCHANGED <<task, next_id>>
    BY <1>2, Heard DEF Received, IInv
  <2> QED BY <1>2, <2>1, EventFate DEF Unmade
<1>3. ASSUME NEW r \in Requests, Background(r) PROVE Fates' /\ Unmade'
  BY <1>3, BackgroundFate
<1>4. CASE UNCHANGED vars
  BY <1>4, ApartFate DEF vars, streamVars, logVars, Apart
<1> QED BY <1>1, <1>2, <1>3, <1>4 DEF Next

LEMMA FateInit == Init => Fates /\ Unmade
BY DEF Init, StreamInit, Fates, Fate, Unmade, Over, OnlyLast

\* A request tells one outcome at most, and nothing after it, although task and
\* presenter both see the token (run_stream, present_stream).
THEOREM OutcomeCorrect == Spec => []OutcomeIsLast
<1>1. IInv /\ Fates => OutcomeIsLast
  <2> SUFFICES ASSUME IInv, Fates, NEW r \in Requests
               PROVE  /\ \A i \in DOMAIN output[r] : output[r][i].kind \in Terminal => i = Len(output[r])
                      /\ ended[r] > 0 => ended[r] = 1 /\ output[r] = <<>>
    BY DEF OutcomeIsLast
  <2>1. output[r] \in Seq(Events)
    BY DEF IInv, TypeOK, StreamTypeOK
  <2>2. DOMAIN output[r] = 1..Len(output[r])
    BY <2>1
  <2> QED BY <2>2 DEF Fates, Fate, OnlyLast
<1>2. IInv /\ [Next]_vars => IInv'
  BY TypeStep, TypeSame DEF IInv
<1>3. IInv /\ Fates /\ Unmade /\ [Next]_vars => (Fates /\ Unmade)'
  BY FateStep
<1>4. Init => IInv
  BY TypeInit DEF IInv
<1> QED BY <1>1, <1>2, <1>3, <1>4, FateInit, PTL DEF Spec

-----------------------------------------------------------------------------
(* The order of the pieces *)

\* The first piece of a delta; the head of the answer is its piece 0.
First(d)     == IF d = 0 THEN 0 ELSE (d - 1) * Graphemes + 1
Counts(s, k) == \A i \in 1..Len(s) : s[i].kind \notin Terminal => s[i].part = k + i - 1

\* The next piece to be heard is q, the next to be typed t, and the next delta to
\* be taken d: they continue each other from stage to stage until an outcome.
Pipe(r, q, t, d) ==
    /\ Counts(output[r], q) /\ Counts(typing[r], t) /\ Counts(source[r], d)
    /\ presenter[r] # "gone" /\ ended[r] = 0 /\ ~Over(output[r]) =>
          /\ t = q + Len(output[r])
          /\ ~Over(typing[r]) => t + Len(typing[r]) = First(d)
    /\ presenter[r] # "gone" /\ task[r] = "reading" => d + Len(source[r]) = sent[r] + 1
    /\ task[r] \in {"none", "sending"} => q = 0 /\ t = 0 /\ d = 0 /\ sent[r] = 0

\* When the answer is done, what is still on its way is the rest of what was sent.
Ends(s) == \E i \in 1..Len(s) : s[i].kind = "completed"
Tally(r, q, t, d) ==
    /\ Ends(source[r]) => d + Len(source[r]) = sent[r] + 2
    /\ Ends(typing[r]) => d = sent[r] + 1 /\ t + Len(typing[r]) = First(d) + 1
    /\ Ends(output[r]) => q + Len(output[r]) = First(sent[r] + 1) + 1

\* Nothing is counted.
LEMMA CountsEmpty == \A k \in Nat : Counts(<<>>, k)
BY DEF Counts

\* An event more is counted.
LEMMA CountsAppend ==
    ASSUME NEW s \in Seq(Events), NEW k \in Nat, Counts(s, k), NEW e \in Events,
           e.kind \notin Terminal => e.part = k + Len(s)
    PROVE  Counts(Append(s, e), k)
<1>1. /\ Len(s) \in Nat /\ Len(Append(s, e)) = Len(s) + 1 /\ Append(s, e)[Len(s) + 1] = e
      /\ \A i \in 1..Len(s) : Append(s, e)[i] = s[i]
  OBVIOUS
<1> SUFFICES ASSUME NEW i \in 1..(Len(s) + 1), Append(s, e)[i].kind \notin Terminal
             PROVE  Append(s, e)[i].part = k + i - 1
  BY <1>1 DEF Counts
<1>2. CASE i = Len(s) + 1
  BY <1>1, <1>2
<1>3. CASE i \in 1..Len(s)
  BY <1>1, <1>3 DEF Counts
<1> QED BY <1>1, <1>2, <1>3

\* The first event is taken.
LEMMA CountsTail ==
    ASSUME NEW s \in Seq(Events), s # <<>>, NEW k \in Nat, Counts(s, k)
    PROVE  /\ Counts(Tail(s), k + 1) /\ Len(Tail(s)) = Len(s) - 1 /\ Len(s) \in Nat \ {0}
           /\ Head(s).kind \notin Terminal => Head(s).part = k
<1>1. /\ Len(s) \in Nat \ {0} /\ Head(s) = s[1] /\ Len(Tail(s)) = Len(s) - 1
      /\ \A i \in 1..(Len(s) - 1) : Tail(s)[i] = s[i + 1]
  OBVIOUS
<1>2. ASSUME NEW i \in 1..(Len(s) - 1), s[i + 1].kind \notin Terminal
      PROVE  s[i + 1].part = (k + 1) + i - 1
  <2>1. i + 1 \in 1..Len(s)
    BY <1>1
  <2>2. s[i + 1].part = k + (i + 1) - 1
    BY <1>2, <2>1 DEF Counts
  <2> QED BY <2>2
<1>3. Counts(Tail(s), k + 1)
  BY <1>1, <1>2 DEF Counts
<1>4. Head(s).kind \notin Terminal => Head(s).part = k
  <2>1. 1 \in 1..Len(s)
    BY <1>1
  <2>2. s[1].kind \notin Terminal => s[1].part = k + 1 - 1
    BY <2>1 DEF Counts
  <2> QED BY <1>1, <2>2
<1> QED BY <1>1, <1>3, <1>4

\* A delta's graphemes fill the gap to the next delta.
LEMMA CountsPieces ==
    ASSUME NEW d \in Nat \ {0}
    PROVE  /\ Counts(Pieces(d), First(d)) /\ First(d) \in Nat
           /\ First(d) + Len(Pieces(d)) = First(d + 1)
<1>1. Graphemes \in Nat /\ (d - 1) * Graphemes \in Nat
  BY TuiStreamAssumption
<1>2. /\ Len(Pieces(d)) = Graphemes
      /\ \A i \in 1..Graphemes : Pieces(d)[i].part = (d - 1) * Graphemes + i
  BY PiecesAre
<1>3. First(d) = (d - 1) * Graphemes + 1
  BY DEF First
<1>4. First(d + 1) = d * Graphemes + 1
  BY DEF First
<1>5. d * Graphemes = (d - 1) * Graphemes + Graphemes
  BY <1>1
<1>6. Counts(Pieces(d), First(d))
  BY <1>1, <1>2, <1>3 DEF Counts
<1> QED BY <1>1, <1>2, <1>3, <1>4, <1>5, <1>6

\* What does not touch a request leaves its pipe.
LEMMA PipeFrame ==
    ASSUME NEW r \in Requests, NEW q \in Nat, NEW t \in Nat, NEW d \in Nat, Pipe(r, q, t, d),
           source'[r] = source[r], typing'[r] = typing[r], output'[r] = output[r],
           task'[r] = task[r], presenter'[r] = presenter[r], ended'[r] = ended[r],
           sent'[r] = sent[r], Tally(r, q, t, d)
    PROVE  Pipe(r, q, t, d)' /\ Tally(r, q, t, d)'
<1>1. Pipe(r, q, t, d)'
  BY DEF Pipe, Over, Counts, First
<1>2. Tally(r, q, t, d)'
  BY DEF Tally, Ends, First
<1> QED BY <1>1, <1>2

\* An answer is done when one of its events says so: by the first, or by a later one.
LEMMA EndsFirst ==
    ASSUME NEW s \in Seq(Events), s # <<>>
    PROVE  /\ Ends(s) => Head(s).kind = "completed" \/ Ends(Tail(s))
           /\ Ends(Tail(s)) => Ends(s)
           /\ Head(s).kind = "completed" => Ends(s)
<1>1. /\ Len(s) \in Nat \ {0} /\ Head(s) = s[1] /\ Len(Tail(s)) = Len(s) - 1
      /\ \A i \in 1..(Len(s) - 1) : Tail(s)[i] = s[i + 1]
  OBVIOUS
<1>2. ASSUME Ends(s), Head(s).kind # "completed" PROVE Ends(Tail(s))
  <2>1. PICK i \in 1..Len(s) : s[i].kind = "completed"
    BY <1>2 DEF Ends
  <2>2. i # 1 /\ i - 1 \in 1..(Len(s) - 1) /\ (i - 1) + 1 = i
    BY <1>1, <1>2, <2>1
  <2>3. Tail(s)[i - 1].kind = "completed"
    BY <1>1, <2>1, <2>2
  <2> QED BY <1>1, <2>2, <2>3 DEF Ends
<1>3. ASSUME Ends(Tail(s)) PROVE Ends(s)
  <2>1. PICK i \in 1..(Len(s) - 1) : s[i + 1].kind = "completed"
    BY <1>1, <1>3 DEF Ends
  <2>2. i + 1 \in 1..Len(s)
    BY <1>1, <2>1
  <2> QED BY <2>1, <2>2 DEF Ends
<1>4. 1 \in 1..Len(s)
  BY <1>1
<1>5. Head(s).kind = "completed" => Ends(s)
  BY <1>1, <1>4 DEF Ends
<1> QED BY <1>2, <1>3, <1>5

\* An event is added: it is the one that says so, or one before it.
LEMMA EndsAppend ==
    ASSUME NEW s \in Seq(Events), NEW e \in Events
    PROVE  Ends(Append(s, e)) <=> Ends(s) \/ e.kind = "completed"
<1>1. /\ Len(s) \in Nat /\ Len(Append(s, e)) = Len(s) + 1 /\ Append(s, e)[Len(s) + 1] = e
      /\ \A i \in 1..Len(s) : Append(s, e)[i] = s[i]
  OBVIOUS
<1>2. ASSUME Ends(s) PROVE Ends(Append(s, e))
  <2>1. PICK i \in 1..Len(s) : s[i].kind = "completed"
    BY <1>2 DEF Ends
  <2>2. i \in 1..(Len(s) + 1)
    BY <1>1, <2>1
  <2> QED BY <1>1, <2>1, <2>2 DEF Ends
<1>3. ASSUME e.kind = "completed" PROVE Ends(Append(s, e))
  <2>1. Len(s) + 1 \in 1..(Len(s) + 1)
    BY <1>1
  <2> QED BY <1>1, <1>3, <2>1 DEF Ends
<1>4. ASSUME Ends(Append(s, e)), e.kind # "completed" PROVE Ends(s)
  <2>1. PICK i \in 1..(Len(s) + 1) : Append(s, e)[i].kind = "completed"
    BY <1>1, <1>4 DEF Ends
  <2>2. i \in 1..Len(s)
    BY <1>1, <1>4, <2>1
  <2> QED BY <1>1, <2>1, <2>2 DEF Ends
<1> QED BY <1>2, <1>3, <1>4

\* The event that says so is the last.
LEMMA EndsAlone ==
    ASSUME NEW s \in Seq(Events), s # <<>>, OnlyLast(s), Head(s).kind = "completed"
    PROVE  Ends(s) /\ Len(s) = 1
<1>1. Len(s) \in Nat \ {0} /\ Head(s) = s[1]
  OBVIOUS
<1>2. 1 \in 1..Len(s) /\ s[1].kind \in Terminal
  BY <1>1 DEF Terminal
<1>3. Len(s) = 1
  BY <1>2 DEF OnlyLast
<1> QED BY <1>3, EndsFirst

\* An answer that is done is over.
LEMMA EndsOver == \A s : Ends(s) => Over(s) /\ s # <<>>
BY DEF Ends, Over, Terminal

\* A single event.
LEMMA EndsOne == \A e : Ends(<<e>>) => e.kind = "completed"
BY DEF Ends

\* The task sends on, or says that the answer is done.
LEMMA TaskTally ==
    ASSUME StreamTypeOK, NEW r \in Requests, Fate(r), TaskStep(r),
           NEW q \in Nat, NEW t \in Nat, NEW d \in Nat, Pipe(r, q, t, d), Tally(r, q, t, d)
    PROVE  Tally(r, q, t, d)'
<1>1. /\ source[r] \in Seq(Events) /\ Len(source[r]) \in Nat /\ sent[r] \in Nat
      /\ UNCHANGED <<output, typing>> /\ task[r] # "over"
  BY DEF StreamTypeOK, TaskStep, Respond, HearCancel, ReceiveDelta, ReceiveDone, ReceiveFails, Report
<1>2. ~Ends(source[r]) /\ ~Ends(typing[r]) /\ ~Ends(output[r])
  BY <1>1, EndsOver DEF Fate
<1>3. SUFFICES Ends(source'[r]) => d + Len(source'[r]) = sent'[r] + 2
  BY <1>1, <1>2 DEF Tally, Ends
<1>4. CASE source'[r] = source[r]
  BY <1>2, <1>4
<1>5. ASSUME NEW e \in Events, source'[r] = Append(source[r], e), e.kind # "completed"
      PROVE  ~Ends(source'[r])
  BY <1>1, <1>2, <1>5, EndsAppend
<1>6. /\ \A k \in {"connected", "cancelled", "failed"} : Event(k, 0) \in Events /\ Event(k, 0).kind # "completed"
      /\ Event("delta", sent[r] + 1) \in Events /\ Event("delta", sent[r] + 1).kind # "completed"
  <2>1. sent[r] + 1 \in Nat \ {0}
    BY <1>1
  <2> QED BY <2>1, EventKinds DEF Event, Terminal
<1>7. \/ source'[r] = source[r]
      \/ \E k \in {"connected", "cancelled", "failed"} : source'[r] = Append(source[r], Event(k, 0))
      \/ source'[r] = Append(source[r], Event("delta", sent[r] + 1))
      \/ ReceiveDone(r)
  BY DEF StreamTypeOK, TaskStep, Respond, HearCancel, ReceiveDelta, ReceiveFails, Report, Offer, Push
<1>8. CASE ReceiveDone(r) /\ ~Closed(r)
  <2>1. /\ source'[r] = Append(source[r], Event("completed", 0)) /\ UNCHANGED sent
        /\ task[r] = "reading" /\ presenter[r] # "gone"
    BY <1>8 DEF ReceiveDone, Closed, Push, StreamTypeOK
  <2>2. d + Len(source[r]) = sent[r] + 1
    BY <2>1 DEF Pipe
  <2>3. Len(source'[r]) = Len(source[r]) + 1
    BY <1>1, <2>1
  <2> QED BY <1>1, <2>1, <2>2, <2>3, SMTT(30)
<1>9. CASE ReceiveDone(r) /\ Closed(r)
  BY <1>4, <1>9 DEF ReceiveDone
<1> QED BY <1>4, <1>5, <1>6, <1>7, <1>8, <1>9

\* The task puts the next piece, or an outcome, into the pipe.
LEMMA TaskPipe ==
    ASSUME StreamTypeOK, NEW r \in Requests, Fate(r), TaskStep(r), UNCHANGED ended,
           NEW q \in Nat, NEW t \in Nat, NEW d \in Nat, Pipe(r, q, t, d)
    PROVE  Pipe(r, q, t, d)'
<1>1. /\ source[r] \in Seq(Events) /\ sent[r] \in Nat
      /\ UNCHANGED <<output, typing, presenter, ended>>
  BY DEF StreamTypeOK, TaskStep, Respond, HearCancel, ReceiveDelta, ReceiveDone, ReceiveFails, Report
<1>2. CASE source'[r] = source[r] /\ sent'[r] = sent[r]
           /\ task'[r] \in {"reading", "failing", "over"}
           /\ (task'[r] = "reading" => task[r] = "reading" \/ presenter[r] = "gone")
  BY <1>1, <1>2 DEF Pipe, Over, Counts, First
<1>3. ASSUME NEW e \in Events, source'[r] = Append(source[r], e),
             e.kind \notin Terminal => /\ e.part = d + Len(source[r]) /\ task'[r] = "reading"
                                       /\ sent'[r] + 1 = d + Len(source[r]) + 1,
             e.kind \in Terminal => task'[r] = "over"
      PROVE  Pipe(r, q, t, d)'
  <2>1. Counts(source'[r], d)
    BY <1>1, <1>3, CountsAppend DEF Pipe
  <2>2. Len(source'[r]) = Len(source[r]) + 1 /\ Len(source[r]) \in Nat
    BY <1>1, <1>3
  <2>3. task'[r] \in {"reading", "over"} /\ (task'[r] = "reading" => d + Len(source'[r]) = sent'[r] + 1)
    BY <1>1, <1>3, <2>2
  <2> QED BY <1>1, <2>1, <2>3 DEF Pipe, Over, Counts, First
<1>4. CASE Respond(r)
  <2>1. /\ task[r] = "sending" /\ UNCHANGED sent /\ sent[r] = 0 /\ d = 0
        /\ source[r] = <<>> /\ presenter[r] # "gone"
    BY <1>4 DEF Respond, Pipe, Fate
  <2>2. CASE Goto(r, "failing") /\ UNCHANGED source
    BY <1>2, <2>1, <2>2 DEF Goto, StreamTypeOK
  <2>3. CASE Offer(r, Event("connected", 0)) /\ Goto(r, "reading")
    <3>1. source'[r] = Append(source[r], Event("connected", 0)) /\ task'[r] = "reading"
      BY <2>1, <2>3 DEF Offer, Closed, Push, Goto, StreamTypeOK
    <3>2. Event("connected", 0) \in Events /\ Event("connected", 0).part = 0
          /\ Event("connected", 0).kind \notin Terminal /\ Len(source[r]) = 0
      BY <2>1, EventKinds DEF Event, Terminal
    <3> QED BY <1>3, <2>1, <3>1, <3>2
  <2> QED BY <1>4, <2>2, <2>3 DEF Respond
<1>5. CASE ReceiveDelta(r)
  <2>1. CASE Closed(r)
    BY <1>2, <1>5, <2>1 DEF ReceiveDelta, Closed, Goto, StreamTypeOK
  <2>2. CASE ~Closed(r)
    <3>1. /\ source'[r] = Append(source[r], Event("delta", sent[r] + 1))
          /\ sent'[r] = sent[r] + 1 /\ task[r] = "reading" /\ task'[r] = "reading"
          /\ presenter[r] # "gone"
      BY <1>5, <2>2 DEF ReceiveDelta, Closed, Push, StreamTypeOK
    <3>2. d + Len(source[r]) = sent[r] + 1 /\ Len(source[r]) \in Nat
      BY <1>1, <3>1 DEF Pipe
    <3>3. sent[r] + 1 \in Nat \ {0}
      BY <1>1
    <3>4. Event("delta", sent[r] + 1) \in Events /\ Event("delta", sent[r] + 1).part = sent[r] + 1
          /\ Event("delta", sent[r] + 1).kind \notin Terminal
      BY <3>3, EventKinds DEF Event, Terminal
    <3> QED BY <1>3, <3>1, <3>2, <3>4
  <2> QED BY <2>1, <2>2
<1>6. ASSUME NEW e \in Events, e.kind \in Terminal, Offer(r, e), Goto(r, "over"), UNCHANGED sent
      PROVE  Pipe(r, q, t, d)'
  <2>1. task'[r] = "over"
    BY <1>6 DEF Goto, StreamTypeOK
  <2>2. source'[r] = source[r] \/ source'[r] = Append(source[r], e)
    BY <1>6 DEF Offer, Push, StreamTypeOK
  <2> QED BY <1>2, <1>3, <1>6, <2>1, <2>2
<1>7. CASE HearCancel(r)
  <2>1. Event("cancelled", 0) \in Events /\ Event("cancelled", 0).kind \in Terminal
    BY EventKinds DEF Event, Terminal
  <2> QED BY <1>6, <1>7, <2>1 DEF HearCancel
<1>8. CASE ReceiveDone(r)
  <2>1. Event("completed", 0) \in Events /\ Event("completed", 0).kind \in Terminal
    BY EventKinds DEF Event, Terminal
  <2>2. CASE Closed(r)
    BY <1>2, <1>8, <2>2 DEF ReceiveDone, Closed, Goto, StreamTypeOK
  <2>3. CASE ~Closed(r)
    BY <1>6, <1>8, <2>1, <2>3 DEF ReceiveDone, Offer
  <2> QED BY <2>2, <2>3
<1>9. CASE ReceiveFails(r)
  BY <1>2, <1>9 DEF ReceiveFails, Goto, StreamTypeOK
<1>10. CASE Report(r)
  <2>1. Event("failed", 0) \in Events /\ Event("failed", 0).kind \in Terminal
    BY EventKinds DEF Event, Terminal
  <2> QED BY <1>6, <1>10, <2>1 DEF Report
<1> QED BY <1>4, <1>5, <1>7, <1>8, <1>9, <1>10 DEF TaskStep

\* The presenter moves pieces from channel to channel, or drops what is left.
LEMMA PresenterPipe ==
    ASSUME StreamTypeOK, Typing, NEW r \in Requests, Fate(r), PresenterStep(r), UNCHANGED ended,
           ended[r] \in Nat, NEW q \in Nat, NEW t \in Nat, NEW d \in Nat, Pipe(r, q, t, d),
           Tally(r, q, t, d)
    PROVE  \E t1, d1 \in Nat : Pipe(r, q, t1, d1)' /\ Tally(r, q, t1, d1)'
<1> DEFINE e == Head(source[r])
           f == Head(typing[r])
<1>1. UNCHANGED <<task, sent, ended>>
  BY DEF PresenterStep, Take, Check, TypeOne, PresenterEnds
<1>2. CASE Take(r)
  <2>1. /\ source[r] \in Seq(Events) /\ source[r] # <<>> /\ OnlyLast(source[r])
        /\ presenter[r] = "recv" /\ typing[r] = <<>> /\ ~Over(output[r]) /\ ~(ended[r] > 0)
        /\ task[r] \notin {"none", "sending"} /\ ended[r] \in Nat
    BY <1>2 DEF Take, StreamTypeOK, Fate, Pipe
  <2>2. /\ e \in Events /\ Tail(source[r]) \in Seq(Events)
        /\ e.kind \in Terminal => Tail(source[r]) = <<>> /\ Over(source[r])
    BY <2>1, TakeFirst
  <2>3. /\ Counts(Tail(source[r]), d + 1) /\ Len(Tail(source[r])) = Len(source[r]) - 1
        /\ Len(source[r]) \in Nat \ {0} /\ (e.kind \notin Terminal => e.part = d)
    BY <2>1, CountsTail DEF Pipe
  <2>4. /\ source'[r] = Tail(source[r]) /\ output'[r] = output[r]
        /\ presenter'[r] \in {"check", "send"}
    BY <1>2 DEF Take, Present, StreamTypeOK
  <2>5. t = q + Len(output[r]) /\ t = First(d)
    <3>1. ~Over(typing[r]) /\ Len(typing[r]) = 0 /\ ended[r] = 0
      BY <2>1, EmptyIsFine
    <3> QED BY <2>1, <3>1 DEF Pipe
  <2>6. ASSUME NEW s, typing'[r] = s, Counts(s, t), ~Over(s), t + Len(s) = First(d + 1)
        PROVE  Pipe(r, q, t, d + 1)'
    <3>1. task[r] = "reading" => (d + 1) + Len(Tail(source[r])) = sent[r] + 1
      <4>1. (d + 1) + (Len(source[r]) - 1) = d + Len(source[r])
        <5>1. PICK n \in Nat : n = Len(source[r])
          BY <2>3
        <5>2. (d + 1) + (n - 1) = d + n
          OBVIOUS
        <5> QED BY <5>1, <5>2
      <4> QED BY <2>1, <2>3, <4>1 DEF Pipe
    <3> HIDE DEF e
    <3> QED BY <1>1, <2>1, <2>3, <2>4, <2>5, <2>6, <3>1 DEF Pipe, Over, Counts, First
  <2>10. ~Ends(output[r]) /\ sent[r] \in Nat
    BY <2>1, EndsOver DEF StreamTypeOK
  <2>11. ASSUME NEW s, typing'[r] = s, ~Ends(s), e.kind # "completed"
         PROVE  Tally(r, q, t, d + 1)'
    <3>1. Ends(Tail(source[r])) => d + Len(source[r]) = sent[r] + 2
      BY <2>1, EndsFirst DEF Tally
    <3>2. Ends(Tail(source[r])) => (d + 1) + Len(Tail(source[r])) = sent[r] + 2
      <4>1. PICK n \in Nat : n = Len(source[r])
        BY <2>3
      <4>2. (d + 1) + (n - 1) = d + n
        OBVIOUS
      <4> QED BY <2>3, <3>1, <4>1, <4>2
    <3> HIDE DEF e
    <3> QED BY <1>1, <2>4, <2>10, <2>11, <3>2 DEF Tally, Ends
  <2>7. CASE e.kind = "delta"
    <3>1. d \in Nat \ {0} /\ e.part = d
      BY <2>2, <2>3, <2>7, EventKinds DEF Terminal
    <3>2. typing'[r] = Pieces(d)
      BY <1>2, <2>7, <3>1 DEF Take, StreamTypeOK
    <3>3. Pipe(r, q, t, d + 1)'
      BY <2>5, <2>6, <3>1, <3>2, CountsPieces, PiecesGoOn
    <3>4. Tally(r, q, t, d + 1)'
      BY <2>7, <2>11, <3>1, <3>2, PiecesGoOn, EndsOver
    <3> QED BY <3>3, <3>4
  <2>8. CASE e.kind = "connected"
    <3>1. d = 0 /\ e.part = 0 /\ e.kind \notin Terminal
      BY <2>2, <2>3, <2>8, EventKinds DEF Terminal
    <3>2. typing'[r] = <<e>>
      BY <1>2, <2>8 DEF Take, StreamTypeOK
    <3>3. t = 0 /\ First(d + 1) = 1
      <4>1. First(1) = (1 - 1) * Graphemes + 1 /\ Graphemes \in Nat
        BY TuiStreamAssumption DEF First
      <4> QED BY <2>5, <3>1, <4>1 DEF First
    <3>4. Counts(<<e>>, t) /\ ~Over(<<e>>) /\ t + Len(<<e>>) = First(d + 1)
      <4> HIDE DEF e
      <4> QED BY <3>1, <3>3 DEF Counts, Over
    <3>5. Pipe(r, q, t, d + 1)'
      <4> HIDE DEF e
      <4> QED BY <2>6, <3>2, <3>4
    <3>6. Tally(r, q, t, d + 1)'
      <4> HIDE DEF e
      <4> QED BY <2>8, <2>11, <3>2, EndsOne
    <3> QED BY <3>5, <3>6
  <2>9. CASE e.kind \in Terminal
    <3>1. typing'[r] = <<e>>
      BY <1>2, <2>9 DEF Take, StreamTypeOK, Terminal
    <3>2. Over(source[r]) /\ source'[r] = <<>> /\ task[r] = "over"
      BY <2>2, <2>4, <2>9 DEF Fate
    <3>3. Counts(<<e>>, t) /\ Over(<<e>>)
      <4> HIDE DEF e
      <4> QED BY <2>9, <2>2, SingleFate DEF Counts
    <3>4. Pipe(r, q, t, d)'
      <4> HIDE DEF e
      <4>1. Counts(output'[r], q) /\ Counts(typing'[r], t) /\ Counts(source'[r], d)
        BY <2>4, <3>1, <3>2, <3>3, CountsEmpty DEF Pipe
      <4>2. Over(typing'[r]) /\ task'[r] = "over" /\ t = q + Len(output'[r])
        BY <1>1, <2>4, <2>5, <3>1, <3>2, <3>3
      <4> QED BY <4>1, <4>2 DEF Pipe, Over, Counts, First
    <3>5. Tally(r, q, t, d)'
      <4>1. e.kind = "completed" => Ends(source[r]) /\ Len(source[r]) = 1
        BY <2>1, EndsAlone
      <4>2. e.kind = "completed" => d = sent[r] + 1
        <5>1. Ends(source[r]) => d + Len(source[r]) = sent[r] + 2
          BY DEF Tally
        <5>2. ASSUME NEW n \in Nat, d + 1 = n + 2 PROVE d = n + 1
          BY <5>2
        <5> QED BY <2>10, <4>1, <5>1, <5>2
      <4>3. Len(<<e>>) = 1 /\ (Ends(<<e>>) => e.kind = "completed")
        <5> HIDE DEF e
        <5> QED BY EndsOne
      <4>4. ~Ends(source'[r])
        BY <3>2, EndsOver
      <4> HIDE DEF e
      <4> QED BY <1>1, <2>4, <2>5, <2>10, <3>1, <4>2, <4>3, <4>4 DEF Tally, Ends, First
    <3> QED BY <3>4, <3>5
  <2> QED BY <2>2, <2>7, <2>8, <2>9, EventKinds
<1>3. CASE Check(r)
  <2>1. CASE ~cancelled[r]
    <3>1. /\ UNCHANGED <<source, typing, output>> /\ presenter'[r] = "send" /\ presenter[r] = "check"
      BY <1>3, <2>1 DEF Check, Present, StreamTypeOK
    <3>2. Pipe(r, q, t, d)'
      BY <1>1, <3>1 DEF Pipe, Over, Counts, First
    <3>3. Tally(r, q, t, d)'
      BY <1>1, <3>1 DEF Tally, Ends, First
    <3> QED BY <3>2, <3>3
  <2>2. CASE cancelled[r]
    <3>1. /\ source'[r] = <<>> /\ typing'[r] = <<>> /\ UNCHANGED output /\ presenter'[r] = "gone"
          /\ presenter[r] = "check"
      BY <1>3, <2>2 DEF Check, Present, StreamTypeOK
    <3>2. task[r] \notin {"none", "sending"}
      BY <3>1 DEF Fate
    <3>3. Pipe(r, q, t, d)'
      BY <1>1, <3>1, <3>2 DEF Pipe, Over, Counts, First
    <3>4. ~Ends(source'[r]) /\ ~Ends(typing'[r])
      BY <3>1, EndsOver
    <3>5. Tally(r, q, t, d)'
      BY <1>1, <3>1, <3>4 DEF Tally, Ends, First
    <3> QED BY <3>3, <3>5
  <2> QED BY <2>1, <2>2
<1>4. CASE TypeOne(r)
  <2>1. /\ typing[r] \in Seq(Events) /\ typing[r] # <<>> /\ OnlyLast(typing[r])
        /\ output[r] \in Seq(Events) /\ ~Over(output[r])
        /\ task[r] \notin {"none", "sending"} /\ presenter[r] = "send" /\ ~(ended[r] > 0)
    BY <1>4 DEF TypeOne, StreamTypeOK, Fate, Typing
  <2>2. /\ f \in Events /\ Tail(typing[r]) \in Seq(Events)
        /\ Over(typing[r]) => f.kind \in Terminal \/ Over(Tail(typing[r]))
    BY <2>1, TakeFirst
  <2>3. /\ Counts(Tail(typing[r]), t + 1) /\ Len(Tail(typing[r])) = Len(typing[r]) - 1
        /\ Len(typing[r]) \in Nat \ {0} /\ (f.kind \notin Terminal => f.part = t)
    BY <2>1, CountsTail DEF Pipe
  <2>4. /\ output'[r] = Append(output[r], f) /\ typing'[r] = Tail(typing[r])
        /\ UNCHANGED source
    BY <1>4 DEF TypeOne, Type, StreamTypeOK
  <2>5. Over(Append(output[r], f)) <=> f.kind \in Terminal
    <3> HIDE DEF f
    <3> QED BY <2>1, <2>2, AddLast
  <2>6. ended[r] = 0 => t = q + Len(output[r]) /\ (~Over(typing[r]) => t + Len(typing[r]) = First(d))
    BY <2>1 DEF Pipe
  <2>7. Counts(Append(output[r], f), q) /\ Len(Append(output[r], f)) = Len(output[r]) + 1
        /\ Len(output[r]) \in Nat
    <3>1. ended[r] = 0
      BY <2>1
    <3>2. f.kind \notin Terminal => f.part = q + Len(output[r])
      BY <2>3, <2>6, <3>1
    <3>3. Counts(output[r], q)
      BY DEF Pipe
    <3> HIDE DEF f
    <3>4. Counts(Append(output[r], f), q)
      BY <2>1, <2>2, <3>2, <3>3, CountsAppend
    <3>5. Len(Append(output[r], f)) = Len(output[r]) + 1 /\ Len(output[r]) \in Nat
      BY <2>1, <2>2
    <3> QED BY <3>4, <3>5
  <2>8. Pipe(r, q, t + 1, d)'
    <3>1. presenter'[r] # "gone" /\ UNCHANGED <<task, sent, ended, source>>
      BY <1>1, <1>4, <2>4 DEF TypeOne, Present, StreamTypeOK
    <3>2. ended[r] = 0 /\ f.kind \notin Terminal => t + 1 = q + Len(output'[r])
      BY <2>4, <2>6, <2>7
    <3>3. ended[r] = 0 /\ ~Over(typing[r]) => (t + 1) + Len(typing'[r]) = First(d)
      <4>1. Len(typing'[r]) = Len(typing[r]) - 1 /\ Len(typing[r]) \in Nat
        BY <2>3, <2>4
      <4>2. (t + 1) + (Len(typing[r]) - 1) = t + Len(typing[r])
        <5>1. PICK n \in Nat : n = Len(typing[r])
          BY <4>1
        <5>2. (t + 1) + (n - 1) = t + n
          OBVIOUS
        <5> QED BY <5>1, <5>2
      <4> QED BY <2>6, <4>1, <4>2
    <3>4. ~Over(output'[r]) /\ ~Over(typing'[r]) => ~Over(typing[r])
      BY <2>2, <2>4, <2>5
    <3>5. Counts(output'[r], q) /\ Counts(typing'[r], t + 1) /\ Counts(source[r], d)
          /\ (~Over(output'[r]) => f.kind \notin Terminal)
      BY <2>3, <2>4, <2>5, <2>7 DEF Pipe
    <3> HIDE DEF f
    <3> QED BY <2>1, <3>1, <3>2, <3>3, <3>4, <3>5 DEF Pipe, Over, Counts, First
  <2>9. Tally(r, q, t + 1, d)'
    <3>1. sent[r] \in Nat /\ ~Ends(output[r])
      BY <2>1, EndsOver DEF StreamTypeOK
    <3>2. Ends(typing[r]) => d = sent[r] + 1 /\ t + Len(typing[r]) = First(d) + 1
      BY DEF Tally
    <3>3. Ends(Tail(typing[r])) => d = sent[r] + 1 /\ (t + 1) + Len(Tail(typing[r])) = First(d) + 1
      <4>1. PICK n \in Nat : n = Len(typing[r])
        BY <2>3
      <4>2. (t + 1) + (n - 1) = t + n
        OBVIOUS
      <4> QED BY <2>1, <2>3, <3>2, <4>1, <4>2, EndsFirst
    <3>4. f.kind = "completed" => q + Len(Append(output[r], f)) = First(sent[r] + 1) + 1
      <4> SUFFICES ASSUME f.kind = "completed"
                   PROVE  q + Len(Append(output[r], f)) = First(sent[r] + 1) + 1
        OBVIOUS
      <4>1. Ends(typing[r]) /\ Len(typing[r]) = 1
        BY <2>1, EndsAlone
      <4>2. d = sent[r] + 1 /\ t + 1 = First(d) + 1
        BY <3>2, <4>1
      <4>3. t = q + Len(output[r])
        BY <2>1, <2>6
      <4> QED BY <2>7, <4>2, <4>3
    <3>5. Ends(Append(output[r], f)) <=> f.kind = "completed"
      <4> HIDE DEF f
      <4> QED BY <2>1, <2>2, <3>1, EndsAppend
    <3> HIDE DEF f
    <3> QED BY <1>1, <2>4, <3>1, <3>3, <3>4, <3>5 DEF Tally, Ends, First
  <2> QED BY <2>8, <2>9
<1>5. CASE PresenterEnds(r)
  <2>1. /\ UNCHANGED <<source, typing, output>> /\ presenter'[r] = "gone" /\ task[r] = "over"
    BY <1>5 DEF PresenterEnds, Present, StreamTypeOK
  <2>2. Pipe(r, q, t, d)'
    BY <1>1, <2>1 DEF Pipe, Over, Counts, First
  <2>3. Tally(r, q, t, d)'
    BY <1>1, <2>1 DEF Tally, Ends, First
  <2> QED BY <2>2, <2>3
<1> QED BY <1>2, <1>3, <1>4, <1>5 DEF PresenterStep

-----------------------------------------------------------------------------
(* What the transcript shows *)

\* The current request's next piece is the next of the transcript.
Matches(q) == Len(LastOf(messages).pieces) = IF q = 0 THEN 0 ELSE q - 1
Order(r)   == \E q, t, d \in Nat : Pipe(r, q, t, d) /\ Tally(r, q, t, d) /\ (Current(r) => Matches(q))
Orders     == \A r \in Requests : Order(r)

\* No history waits for an answer.
Histories == \A s \in Sessions : Settled(stored[s]) /\ (s \in DOMAIN listed => Settled(listed[s]))

ShowInv == ShowsCurrentAnswer /\ Orders /\ Histories

\* A transcript in which nothing streams, with no answer on its way.
LEMMA IdleShows ==
    ASSUME IInv', ~Busy', \A i \in 1..Len(messages') : messages'[i].status # "streaming"
    PROVE  ShowsCurrentAnswer'
<1>1. messages' \in Seq(Messages)
  BY DEF IInv, TypeOK, ChatTypeOK
<1>2. DOMAIN messages' = 1..Len(messages')
  BY <1>1
<1> QED BY <1>2 DEF ShowsCurrentAnswer

\* Without an answer on its way nothing streams.
LEMMA NotBusy ==
    ASSUME IInv, ShowsCurrentAnswer, ~Busy
    PROVE  \A i \in 1..Len(messages) : messages[i].status # "streaming"
<1>1. DOMAIN messages = 1..Len(messages)
  BY DEF IInv, TypeOK, ChatTypeOK
<1> QED BY <1>1 DEF ShowsCurrentAnswer

\* A new prompt: nothing of its answer is shown yet.
LEMMA SendShows ==
    ASSUME IInv, NEW p, NEW t \in Seq(Messages), Send(p, t), p \in Prompts,
           \A i \in 1..Len(t) : t[i].status # "streaming"
    PROVE  ShowsCurrentAnswer' /\ LastOf(messages)' = Assistant
<1>1. /\ messages' = t \o <<User(p), Assistant>> /\ Busy'
      /\ User(p) \in Messages /\ Assistant \in Messages
  BY NewMessages DEF Send, Generation, Busy
<1>2. /\ messages' \in Seq(Messages) /\ Len(messages') = Len(t) + 2 /\ Len(t) \in Nat
      /\ \A i \in 1..Len(t) : messages'[i] = t[i]
      /\ messages'[Len(t) + 1] = User(p) /\ messages'[Len(t) + 2] = Assistant
  BY <1>1
<1>3. LastOf(messages)' = Assistant
  BY <1>2 DEF LastOf
<1>4. ASSUME NEW i \in DOMAIN messages', messages'[i].status = "streaming" PROVE i = Len(messages')
  <2>1. i \in 1..(Len(t) + 2)
    BY <1>2
  <2>2. i \notin 1..Len(t)
    BY <1>2, <1>4
  <2>3. i # Len(t) + 1
    BY <1>2, <1>4 DEF User
  <2> QED BY <1>2, <2>1, <2>2, <2>3
<1>5. Assistant.status = "streaming" /\ Assistant.pieces = <<>>
  BY DEF Assistant
<1>6. \A r : <<>> = Upto(r, Len(<<>>))
  BY DEF Upto
<1>7. messages' # <<>>
  BY <1>2
<1> QED BY <1>1, <1>3, <1>4, <1>5, <1>6, <1>7 DEF ShowsCurrentAnswer

\* A new request has an empty pipe.
LEMMA SendOrders ==
    ASSUME IInv, Fates, Unmade, Orders, NEW p, NEW t, Send(p, t), LastOf(messages)' = Assistant
    PROVE  Orders'
<1>1. PICK r \in Requests : r = next_id /\ Launch(r) /\ next_id' = r + 1 /\ UNCHANGED ended
  BY SendIs
<1>2. \A q \in Requests : Current(q)' => q = r
  BY <1>1 DEF Send, Generation, Current
<1>3. Order(r)'
  <2>1. /\ task[r] = "none" /\ output[r] = <<>> /\ typing[r] = <<>> /\ source[r] = <<>>
    BY <1>1 DEF Unmade, Fates, Fate, Requests
  <2>2. PICK q, t0, d \in Nat : Pipe(r, q, t0, d)
    BY DEF Orders, Order
  <2>3. q = 0 /\ t0 = 0 /\ d = 0 /\ sent[r] = 0
    BY <2>1, <2>2 DEF Pipe
  <2>4. /\ task'[r] = "sending" /\ presenter'[r] = "recv"
        /\ UNCHANGED <<output, typing, source, sent>>
    BY <1>1 DEF Launch, IInv, TypeOK, StreamTypeOK
  <2>5. Pipe(r, 0, 0, 0)' /\ Tally(r, 0, 0, 0)'
    <3>1. Pipe(r, 0, 0, 0)'
      BY <2>1, <2>3, <2>4 DEF Pipe, Over, Counts, First
    <3>2. ~Ends(output'[r]) /\ ~Ends(typing'[r]) /\ ~Ends(source'[r])
      BY <2>1, <2>4, EndsOver
    <3>3. Tally(r, 0, 0, 0)'
      BY <3>2 DEF Tally, Ends
    <3> QED BY <3>1, <3>3
  <2>6. Matches(0)'
    BY DEF Matches, Assistant
  <2> QED BY <2>5, <2>6 DEF Order
<1>4. ASSUME NEW q \in Requests \ {r} PROVE Order(q)'
  <2>1. PICK a, b, c \in Nat : Pipe(q, a, b, c) /\ Tally(q, a, b, c)
    BY DEF Orders, Order
  <2>2. Pipe(q, a, b, c)' /\ Tally(q, a, b, c)'
    BY <1>1, <2>1, PipeFrame DEF Launch, IInv, TypeOK, StreamTypeOK
  <2> QED BY <1>2, <2>2 DEF Order
<1> QED BY <1>3, <1>4 DEF Orders

\* A step apart from the streams leaves the order.
LEMMA ApartOrders ==
    ASSUME Orders, Apart, \/ ~Busy'
                          \/ UNCHANGED messages /\ Busy /\ generation'.id = generation.id
    PROVE  Orders'
<1> SUFFICES ASSUME NEW r \in Requests PROVE Order(r)'
  BY DEF Orders
<1>1. PICK q, t, d \in Nat : Pipe(r, q, t, d) /\ Tally(r, q, t, d) /\ (Current(r) => Matches(q))
  BY DEF Orders, Order
<1>2. Pipe(r, q, t, d)' /\ Tally(r, q, t, d)'
  BY <1>1, PipeFrame DEF Apart
<1>3. Current(r)' => Matches(q)'
  BY <1>1 DEF Current, Matches
<1> QED BY <1>2, <1>3 DEF Order

\* Another transcript is shown, with nothing streaming.
LEMMA ChangedShows ==
    ASSUME IInv', NEW s, NEW h \in Seq(Messages), SessionChanged(s, h), Settled(h)
    PROVE  ShowsCurrentAnswer' /\ ~Busy'
<1>1. ~Busy' /\ messages' = h
  BY DEF SessionChanged, Idle, Generation, Busy
<1> QED BY <1>1, IdleShows DEF Settled

\* What the user does.
LEMMA UserShows ==
    ASSUME IInv, IInv', Fates, Unmade, ShowInv, UserStep
    PROVE  ShowInv'
<1>1. /\ messages \in Seq(Messages) /\ session \in Sessions /\ last_user \in Prompts \cup {None}
      /\ stored \in [Sessions -> Seq(Messages)] /\ listed \in [DOMAIN listed -> Seq(Messages)]
      /\ DOMAIN listed \subseteq Sessions
  BY DEF IInv, TypeOK, ChatTypeOK
<1>2. ASSUME NEW p \in Prompts, NEW t \in Seq(Messages), Send(p, t),
             \A i \in 1..Len(t) : t[i].status # "streaming"
      PROVE  ShowInv'
  <2>1. UNCHANGED <<stored, listed>>
    BY <1>2 DEF Send
  <2> QED BY <1>2, <2>1, SendShows, SendOrders DEF ShowInv, Histories, Settled
<1>3. ~Busy => \A i \in 1..Len(WithoutLast) : WithoutLast[i].status # "streaming"
  BY <1>1, NotBusy, WithoutLastIs DEF ShowInv
<1>4. ASSUME NEW p \in Prompts, Submit(p) PROVE ShowInv'
  <2>1. \A i \in 1..Len(messages) : messages[i].status # "streaming"
    BY <1>4, NotBusy DEF Submit, ShowInv
  <2> QED BY <1>1, <1>2, <1>4, <2>1 DEF Submit
<1>5. CASE Retry
  BY <1>1, <1>2, <1>3, <1>5, WithoutLastIs DEF Retry
<1>6. CASE EditLast
  <2>1. ~Busy' /\ Apart /\ UNCHANGED <<stored, listed>>
    BY <1>6 DEF EditLast, Busy, Apart, streamVars, logVars
  <2>2. ShowsCurrentAnswer'
    BY <1>3, <1>6, <2>1, IdleShows DEF EditLast
  <2> QED BY <2>1, <2>2, ApartOrders DEF ShowInv, Histories, Settled
<1>7. CASE Cancel
  <2>1. /\ Busy /\ Busy' /\ Apart /\ generation'.id = generation.id
        /\ UNCHANGED <<stored, listed, messages>>
    BY <1>7 DEF Cancel, Busy, Apart, Generation, logVars
  <2>2. ShowsCurrentAnswer'
    BY <2>1 DEF ShowInv, ShowsCurrentAnswer
  <2> QED BY <2>1, <2>2, ApartOrders DEF ShowInv, Histories, Settled
<1>8. CASE LoadSessions
  <2>1. Apart /\ UNCHANGED <<generation, messages, stored>> /\ listed' = stored
    BY <1>8 DEF LoadSessions, Apart, streamVars, chatVars, logVars
  <2>2. ShowsCurrentAnswer'
    BY <2>1 DEF ShowInv, ShowsCurrentAnswer, Busy
  <2>3. Orders'
    BY <2>1, ApartOrders DEF ShowInv, Busy
  <2>4. Histories'
    BY <2>1 DEF ShowInv, Histories, Settled
  <2> QED BY <2>2, <2>3, <2>4 DEF ShowInv
<1>9. CASE ClearHistory
  <2>1. SessionChanged(session, <<>>) /\ UNCHANGED listed
        /\ stored' = [stored EXCEPT ![session] = <<>>]
    BY <1>9 DEF ClearHistory
  <2>2. Settled(<<>>) /\ <<>> \in Seq(Messages)
    BY DEF Settled
  <2>3. ShowsCurrentAnswer' /\ ~Busy' /\ Apart
    BY <2>1, <2>2, ChangedShows DEF SessionChanged, Apart, streamVars, logVars
  <2>4. Histories'
    BY <1>1, <2>1, <2>2 DEF ShowInv, Histories, Settled
  <2> QED BY <2>3, <2>4, ApartOrders DEF ShowInv
<1>10. ASSUME NEW s \in Sessions, SwitchSession(s) PROVE ShowInv'
  <2> DEFINE h == IF s \in DOMAIN listed THEN listed[s] ELSE stored[s]
  <2>1. SessionChanged(s, h) /\ UNCHANGED <<stored, listed>>
    BY <1>10 DEF SwitchSession
  <2>2. h \in Seq(Messages) /\ Settled(h)
    BY <1>1 DEF ShowInv, Histories
  <2> HIDE DEF h
  <2>3. ShowsCurrentAnswer' /\ ~Busy' /\ Apart
    BY <2>1, <2>2, ChangedShows DEF SessionChanged, Apart, streamVars, logVars
  <2>4. Histories'
    BY <2>1 DEF ShowInv, Histories, Settled
  <2> QED BY <2>3, <2>4, ApartOrders DEF ShowInv
<1> QED BY <1>4, <1>5, <1>6, <1>7, <1>8, <1>9, <1>10 DEF UserStep

\* An event takes the pipe one further, and is the piece that was next.
LEMMA EventPipe ==
    ASSUME IInv, Fates, NEW r \in Requests, StreamEvent(r),
           NEW q \in Nat, NEW t \in Nat, NEW d \in Nat, Pipe(r, q, t, d)
    PROVE  /\ Pipe(r, q + 1, t, d)'
           /\ Head(output[r]).kind \notin Terminal => Head(output[r]).part = q
<1> DEFINE e == Head(output[r])
<1>1. /\ Received(r, e) /\ output[r] \in Seq(Events) /\ output[r] # <<>> /\ OnlyLast(output[r])
      /\ Fate(r) /\ ended \in [Requests -> Nat]
  BY Heard DEF IInv, TypeOK, StreamTypeOK, ChatTypeOK, Fates, Fate, StreamEvent
<1>2. /\ e.kind \in Terminal => Over(output[r])
      /\ Over(output[r]) => e.kind \in Terminal \/ Over(Tail(output[r]))
  BY <1>1, TakeFirst
<1>3. /\ output'[r] = Tail(output[r]) /\ UNCHANGED <<task, source, typing, presenter, sent>>
      /\ ended'[r] = IF e.kind \in Terminal THEN ended[r] + 1 ELSE ended[r]
  BY <1>1 DEF Received, IInv, TypeOK, StreamTypeOK
<1>4. /\ Counts(Tail(output[r]), q + 1) /\ Len(Tail(output[r])) = Len(output[r]) - 1
      /\ Len(output[r]) \in Nat \ {0}
      /\ e.kind \notin Terminal => e.part = q
  BY <1>1, CountsTail DEF Pipe
<1>5. ended[r] = 0 /\ task[r] \notin {"none", "sending"}
  BY <1>1 DEF Fate
<1>6. CASE e.kind \in Terminal
  <2>1. ended'[r] # 0
    BY <1>3, <1>5, <1>6
  <2>2. task[r] = "over"
    BY <1>1, <1>2, <1>6 DEF Fate
  <2> HIDE DEF e
  <2>3. Pipe(r, q + 1, t, d)'
    BY <1>3, <1>4, <2>1, <2>2 DEF Pipe, Over, Counts, First
  <2> QED BY <1>6, <2>3 DEF e
<1>7. CASE e.kind \notin Terminal
  <2>1. ~Over(output'[r]) => ~Over(output[r])
    BY <1>2, <1>3, <1>7
  <2>2. ended'[r] = 0
    BY <1>3, <1>5, <1>7
  <2>3. (q + 1) + Len(output'[r]) = q + Len(output[r])
    <3>1. PICK n \in Nat : n = Len(output[r])
      BY <1>4
    <3>2. (q + 1) + (n - 1) = q + n
      OBVIOUS
    <3> QED BY <1>3, <1>4, <3>1, <3>2
  <2> HIDE DEF e
  <2>4. Pipe(r, q + 1, t, d)'
    BY <1>3, <1>4, <1>5, <2>1, <2>2, <2>3 DEF Pipe, Over, Counts, First
  <2> QED BY <1>4, <2>4 DEF e
<1> QED BY <1>6, <1>7

\* An event is taken: the tally is of the rest.  After the last one nothing is left.
LEMMA EventTally ==
    ASSUME IInv, Fates, NEW r \in Requests, StreamEvent(r),
           NEW q \in Nat, NEW t \in Nat, NEW d \in Nat, Tally(r, q, t, d)
    PROVE  /\ Tally(r, q + 1, t, d)'
           /\ Head(output[r]).kind = "completed" => task[r] = "over" /\ q = sent[r] * Graphemes + 1
<1> DEFINE e == Head(output[r])
<1>1. /\ Received(r, e) /\ output[r] \in Seq(Events) /\ output[r] # <<>> /\ OnlyLast(output[r])
      /\ Fate(r) /\ sent[r] \in Nat /\ e \in Events
  BY Heard, SMTT(30) DEF IInv, TypeOK, StreamTypeOK, ChatTypeOK, Fates, Fate, StreamEvent
<1>2. /\ output'[r] = Tail(output[r]) /\ UNCHANGED <<source, typing, sent>>
      /\ Len(Tail(output[r])) = Len(output[r]) - 1 /\ Len(output[r]) \in Nat \ {0}
  BY <1>1 DEF Received, IInv, TypeOK, StreamTypeOK
<1>3. Ends(Tail(output[r])) => (q + 1) + Len(Tail(output[r])) = First(sent[r] + 1) + 1
  <2>1. PICK n \in Nat : n = Len(output[r])
    BY <1>2
  <2>2. (q + 1) + (n - 1) = q + n
    OBVIOUS
  <2> QED BY <1>1, <1>2, <2>1, <2>2, EndsFirst DEF Tally
<1>4. Tally(r, q + 1, t, d)'
  BY <1>2, <1>3 DEF Tally, Ends, First
<1>5. ASSUME e.kind = "completed" PROVE task[r] = "over" /\ q = sent[r] * Graphemes + 1
  <2>1. Ends(output[r]) /\ Len(output[r]) = 1
    BY <1>1, <1>5, EndsAlone
  <2>4. task[r] = "over"
    BY <1>1, <2>1, EndsOver DEF Fate
  <2>5. First(sent[r] + 1) = sent[r] * Graphemes + 1
    <3>1. sent[r] + 1 # 0 /\ (sent[r] + 1) - 1 = sent[r]
      BY <1>1
    <3> QED BY <3>1 DEF First
  <2>6. q + 1 = First(sent[r] + 1) + 1
    BY <2>1 DEF Tally
  <2>7. sent[r] * Graphemes \in Nat
    BY <1>1, TuiStreamAssumption
  <2> QED BY <2>4, <2>5, <2>6, <2>7
<1> QED BY <1>4, <1>5

\* The message that waits for an answer is the last.
LEMMA StreamingIsLast ==
    ASSUME IInv, ShowsCurrentAnswer, Busy
    PROVE  /\ messages \in Seq(Messages) /\ messages # <<>> /\ Len(messages) \in Nat \ {0}
           /\ messages[Len(messages)] = LastOf(messages) /\ LastOf(messages) \in Messages
           /\ LastOf(messages).status = "streaming"
           /\ LastOf(messages).pieces = Upto(generation.id, Len(LastOf(messages).pieces))
           /\ \A i \in 1..(Len(messages) - 1) : messages[i].status # "streaming"
<1>1. messages \in Seq(Messages) /\ messages # <<>>
  BY DEF IInv, TypeOK, ChatTypeOK, ShowsCurrentAnswer
<1>2. /\ Len(messages) \in Nat \ {0} /\ LastOf(messages) = messages[Len(messages)]
      /\ LastOf(messages) \in Messages /\ DOMAIN messages = 1..Len(messages)
  BY <1>1, LastMessage
<1> QED BY <1>1, <1>2 DEF ShowsCurrentAnswer

\* The transcript ends with an outcome.
LEMMA MarkShows ==
    ASSUME IInv, IInv', ShowsCurrentAnswer, Busy, ~Busy',
           NEW st \in {"complete", "cancelled", "failed"}, Mark(st)
    PROVE  ShowsCurrentAnswer'
<1>1. /\ messages \in Seq(Messages) /\ messages # <<>> /\ Len(messages) \in Nat \ {0}
      /\ messages[Len(messages)] \in Messages
      /\ \A i \in 1..(Len(messages) - 1) : messages[i].status # "streaming"
  BY StreamingIsLast
<1>2. messages' = [messages EXCEPT ![Len(messages)] = [messages[Len(messages)] EXCEPT !.status = st]]
  BY <1>1 DEF Mark
<1>3. [messages[Len(messages)] EXCEPT !.status = st].status = st
  BY <1>1 DEF Messages
<1>4. \A i \in 1..Len(messages') : messages'[i].status # "streaming"
  <2>1. Len(messages') = Len(messages)
    BY <1>1, <1>2
  <2>2. messages'[Len(messages)].status = st
    BY <1>1, <1>2, <1>3
  <2>3. \A i \in 1..(Len(messages) - 1) : messages'[i] = messages[i]
    BY <1>1, <1>2
  <2> SUFFICES ASSUME NEW i \in 1..Len(messages) PROVE messages'[i].status # "streaming"
    BY <2>1
  <2>4. CASE i = Len(messages)
    BY <2>2, <2>4
  <2>5. CASE i # Len(messages)
    <3>1. i \in 1..(Len(messages) - 1)
      BY <1>1, <2>5
    <3> QED BY <1>1, <2>3, <3>1
  <2> QED BY <2>4, <2>5
<1> QED BY <1>4, IdleShows

\* A piece is added to the answer it is the next of.
LEMMA PieceShows ==
    ASSUME IInv, ShowsCurrentAnswer, Busy, UNCHANGED generation,
           NEW q \in Nat \ {0}, Matches(q), Shown([of |-> generation.id, piece |-> q])
    PROVE  ShowsCurrentAnswer' /\ Matches(q + 1)'
<1> DEFINE m    == LastOf(messages)
           next == [of |-> generation.id, piece |-> q]
           n    == [m EXCEPT !.pieces = Append(m.pieces, next)]
<1>1. /\ messages \in Seq(Messages) /\ messages # <<>> /\ Len(messages) \in Nat \ {0}
      /\ messages[Len(messages)] = m /\ m \in Messages /\ m.status = "streaming"
      /\ m.pieces = Upto(generation.id, Len(m.pieces))
      /\ \A i \in 1..(Len(messages) - 1) : messages[i].status # "streaming"
  BY StreamingIsLast
<1>2. messages' = [messages EXCEPT ![Len(messages)] = n]
  BY <1>1 DEF Shown
<1>3. /\ n.pieces = Append(m.pieces, next) /\ n.status = "streaming"
      /\ m.pieces \in Seq(PieceIds) /\ Len(m.pieces) = q - 1
  BY <1>1 DEF Messages, Matches
<1>4. /\ DOMAIN messages' = 1..Len(messages) /\ Len(messages') = Len(messages)
      /\ messages'[Len(messages)] = n
      /\ \A i \in 1..(Len(messages) - 1) : messages'[i] = messages[i]
  <2> HIDE DEF n, m
  <2> QED BY <1>1, <1>2
<1>5. LastOf(messages)' = n /\ messages' # <<>>
  <2> HIDE DEF n, m
  <2>1. Len(messages') # 0
    BY <1>1, <1>4
  <2> QED BY <1>4, <2>1 DEF LastOf
<1>6. n.pieces = Upto(generation.id, q) /\ Len(n.pieces) = q
  <2>1. m.pieces = [i \in 1..(q - 1) |-> [of |-> generation.id, piece |-> i]]
    BY <1>1, <1>3 DEF Upto
  <2>2. Append(m.pieces, next) = [i \in 1..q |-> [of |-> generation.id, piece |-> i]]
    <3> HIDE DEF m
    <3>1. Len(m.pieces) = q - 1 /\ m.pieces \in Seq(PieceIds)
      BY <1>3
    <3>2. /\ Append(m.pieces, next) = [i \in 1..(Len(m.pieces) + 1) |->
                IF i <= Len(m.pieces) THEN m.pieces[i] ELSE next]
      BY <3>1
    <3>3. ASSUME NEW i \in 1..q
          PROVE  (IF i <= q - 1 THEN m.pieces[i] ELSE next) = [of |-> generation.id, piece |-> i]
      <4>1. CASE i <= q - 1
        BY <2>1, <4>1
      <4>2. CASE ~(i <= q - 1)
        <5>1. i = q
          BY <4>2
        <5> QED BY <4>2, <5>1
      <4> QED BY <4>1, <4>2
    <3>4. Len(m.pieces) + 1 = q
      BY <3>1
    <3>5. Append(m.pieces, next) = [i \in 1..q |-> IF i <= q - 1 THEN m.pieces[i] ELSE next]
      BY <3>1, <3>2, <3>4
    <3> HIDE DEF next
    <3> QED BY <3>3, <3>5
  <2>3. Len(Upto(generation.id, q)) = q
    BY DEF Upto
  <2> QED BY <1>3, <2>2, <2>3 DEF Upto
<1>7. Matches(q + 1)'
  <2> HIDE DEF n
  <2> QED BY <1>5, <1>6 DEF Matches
<1>8. ASSUME NEW i \in DOMAIN messages', messages'[i].status = "streaming" PROVE i = Len(messages')
  <2> HIDE DEF n
  <2>1. i \in 1..Len(messages) /\ i \notin 1..(Len(messages) - 1)
    BY <1>1, <1>4, <1>8
  <2> QED BY <1>1, <1>4, <2>1
<1> HIDE DEF n
<1> QED BY <1>3, <1>5, <1>6, <1>7, <1>8 DEF ShowsCurrentAnswer, Busy

\* What an event of the current request does to the transcript.
LEMMA ApplyShows ==
    ASSUME IInv, IInv', ShowsCurrentAnswer, NEW r \in Requests, Current(r), NEW e \in Events,
           Apply(r, e), NEW q \in Nat, Matches(q), e.kind \notin Terminal => e.part = q
    PROVE  /\ ShowsCurrentAnswer'
           /\ e.kind \in Terminal => ~Busy'
           /\ e.kind \notin Terminal => Matches(q + 1)' /\ generation'.id = generation.id
<1>1. Busy /\ generation.id = r
  BY DEF Current
<1>2. CASE e.kind = "connected"
  <2>1. q = 0 /\ e.kind \notin Terminal
    BY <1>2, EventKinds DEF Terminal
  <2>2. generation' = [state |-> "streaming", id |-> r] /\ UNCHANGED messages
    BY <1>2 DEF Apply, Generation, Terminal
  <2>3. ShowsCurrentAnswer'
    BY <1>1, <2>2 DEF ShowsCurrentAnswer, Busy
  <2>4. Matches(q + 1)'
    BY <2>1, <2>2 DEF Matches
  <2> QED BY <1>1, <2>1, <2>2, <2>3, <2>4
<1>3. CASE e.kind = "delta"
  <2>1. q # 0 /\ e.part = q /\ e.kind \notin Terminal
    BY <1>3, EventKinds DEF Terminal
  <2>2. UNCHANGED generation /\ Shown([of |-> generation.id, piece |-> q])
    BY <1>1, <1>3, <2>1 DEF Apply, Terminal
  <2> QED BY <1>1, <2>1, <2>2, PieceShows
<1>4. CASE e.kind \in Terminal
  <2>1. PICK st \in {"complete", "cancelled", "failed"} : Mark(st)
    BY <1>4 DEF Apply, Completed, Terminal
  <2>2. ~Busy'
    BY <1>4 DEF Apply, Completed, Terminal, Idle, Generation, Busy
  <2> QED BY <1>1, <1>4, <2>1, <2>2, MarkShows
<1> QED BY <1>2, <1>3, <1>4, EventKinds

\* What is saved is settled.
LEMMA ApplyHistories ==
    ASSUME IInv, IInv', Histories, NEW r, NEW e, Apply(r, e), UNCHANGED <<listed, session>>
    PROVE  Histories'
<1>1. CASE UNCHANGED stored
  BY <1>1 DEF Histories, Settled
<1>2. CASE stored' = [stored EXCEPT ![session] = Complete(messages')]
  <2>1. messages' \in Seq(Messages)
    BY DEF IInv, TypeOK, ChatTypeOK
  <2>2. Settled(Complete(messages'))
    BY <2>1, CompleteSettles
  <2>3. stored \in [Sessions -> Seq(Messages)]
    BY DEF IInv, TypeOK, ChatTypeOK
  <2> QED BY <1>2, <2>2, <2>3 DEF Histories, Settled
<1> QED BY <1>1, <1>2 DEF Apply, Completed

\* The event loop hears from a stream.
LEMMA EventShows ==
    ASSUME IInv, IInv', Fates, ShowInv, NEW r \in Requests, StreamEvent(r)
    PROVE  ShowInv'
<1> DEFINE e == Head(output[r])
<1>1. e \in Events /\ Received(r, e)
  BY Heard DEF IInv
<1>2. PICK q, t, d \in Nat : Pipe(r, q, t, d) /\ Tally(r, q, t, d) /\ (Current(r) => Matches(q))
  BY DEF ShowInv, Orders, Order
<1>3. Pipe(r, q + 1, t, d)' /\ Tally(r, q + 1, t, d)' /\ (e.kind \notin Terminal => e.part = q)
  BY <1>2, EventPipe, EventTally
<1>4. ASSUME NEW p \in Requests \ {r}
      PROVE  \E a, b, c \in Nat : Pipe(p, a, b, c)' /\ Tally(p, a, b, c)' /\ (Current(p) => Matches(a))
  <2>1. PICK a, b, c \in Nat : Pipe(p, a, b, c) /\ Tally(p, a, b, c) /\ (Current(p) => Matches(a))
    BY DEF ShowInv, Orders, Order
  <2>2. /\ UNCHANGED <<task, sent, source, presenter, typing>> /\ output'[p] = output[p]
        /\ ended'[p] = ended[p]
    BY <1>1 DEF Received, IInv, TypeOK, StreamTypeOK, ChatTypeOK
  <2>3. Pipe(p, a, b, c)' /\ Tally(p, a, b, c)'
    BY <2>1, <2>2, PipeFrame
  <2> QED BY <2>1, <2>3
<1>5. UNCHANGED <<listed, session>>
  BY <1>1 DEF Received
<1>6. CASE Current(r)
  <2>1. Apply(r, e)
    BY <1>6 DEF StreamEvent
  <2>2. /\ ShowsCurrentAnswer'
        /\ e.kind \in Terminal => ~Busy'
        /\ e.kind \notin Terminal => Matches(q + 1)' /\ generation'.id = generation.id
    <3> HIDE DEF e
    <3> QED BY <1>1, <1>2, <1>3, <1>6, <2>1, ApplyShows DEF ShowInv
  <2>3. Histories'
    BY <1>5, <2>1, ApplyHistories DEF ShowInv
  <2>4. Order(r)'
    <3>1. Current(r)' => Matches(q + 1)'
      BY <2>2 DEF Current
    <3> QED BY <1>3, <3>1 DEF Order
  <2>5. ASSUME NEW p \in Requests \ {r} PROVE Order(p)'
    <3>1. ~Current(p)'
      BY <1>6, <2>2 DEF Current
    <3> QED BY <1>4, <3>1 DEF Order
  <2>6. Orders'
    BY <2>4, <2>5 DEF Orders
  <2> QED BY <2>2, <2>3, <2>6 DEF ShowInv
<1>7. CASE ~Current(r)
  <2>1. UNCHANGED <<generation, messages, stored>>
    BY <1>7 DEF StreamEvent
  <2>2. ShowsCurrentAnswer' /\ Histories'
    BY <1>5, <2>1 DEF ShowInv, ShowsCurrentAnswer, Busy, Histories, Settled
  <2>3. Order(r)'
    BY <1>3, <1>7, <2>1 DEF Order, Current, Busy
  <2>4. ASSUME NEW p \in Requests \ {r} PROVE Order(p)'
    BY <1>4, <2>1 DEF Order, Current, Busy, Matches
  <2>5. Orders'
    BY <2>3, <2>4 DEF Orders
  <2> QED BY <2>2, <2>5 DEF ShowInv
<1> QED BY <1>6, <1>7

\* A task or a presenter goes on.
LEMMA BackgroundShows ==
    ASSUME IInv, Fates, ShowInv, NEW r \in Requests, Background(r)
    PROVE  ShowInv'
<1>1. UNCHANGED <<generation, messages, stored, listed, ended>> /\ (TaskStep(r) \/ PresenterStep(r))
      /\ StreamTypeOK /\ Typing /\ Fate(r) /\ ended[r] \in Nat
  BY DEF Background, chatVars, logVars, IInv, TypeOK, ChatTypeOK, Fates
<1>2. ShowsCurrentAnswer' /\ Histories'
  BY <1>1 DEF ShowInv, ShowsCurrentAnswer, Busy, Histories, Settled
<1>3. \A p \in Requests, q \in Nat : (Current(p)' <=> Current(p)) /\ (Matches(q)' <=> Matches(q))
  BY <1>1 DEF Current, Busy, Matches
<1>4. Order(r)'
  <2>1. PICK q, t, d \in Nat : Pipe(r, q, t, d) /\ Tally(r, q, t, d) /\ (Current(r) => Matches(q))
    BY DEF ShowInv, Orders, Order
  <2>2. \E t1, d1 \in Nat : Pipe(r, q, t1, d1)' /\ Tally(r, q, t1, d1)'
    BY <1>1, <2>1, TaskPipe, TaskTally, PresenterPipe
  <2> QED BY <1>3, <2>1, <2>2 DEF Order
<1>5. ASSUME NEW p \in Requests \ {r} PROVE Order(p)'
  <2>1. PICK q, t, d \in Nat : Pipe(p, q, t, d) /\ Tally(p, q, t, d) /\ (Current(p) => Matches(q))
    BY DEF ShowInv, Orders, Order
  <2>2. Elsewhere(r) /\ sent'[p] = sent[p]
    BY <1>1, StepsAreLocal DEF StreamTypeOK, TaskStep, PresenterStep, Respond, HearCancel,
       ReceiveDelta, ReceiveDone, ReceiveFails, Report, Take, Check, TypeOne, PresenterEnds
  <2>3. Pipe(p, q, t, d)' /\ Tally(p, q, t, d)'
    BY <1>1, <2>1, <2>2, PipeFrame DEF Elsewhere
  <2> QED BY <1>3, <2>1, <2>3 DEF Order
<1>6. Orders'
  BY <1>4, <1>5 DEF Orders
<1> QED BY <1>2, <1>6 DEF ShowInv

\* At the start nothing is shown.
LEMMA ShowInit == Init => ShowInv
<1> SUFFICES ASSUME Init PROVE ShowInv
  OBVIOUS
<1>1. ShowsCurrentAnswer
  BY DEF Init, ShowsCurrentAnswer, Busy
<1>2. ASSUME NEW r \in Requests PROVE Order(r)
  <2>1. Pipe(r, 0, 0, 0) /\ Tally(r, 0, 0, 0)
    BY DEF Init, StreamInit, Pipe, Counts, First, Over, Tally, Ends
  <2>2. ~Current(r)
    BY DEF Init, Current, Busy
  <2> QED BY <2>1, <2>2 DEF Order
<1>3. Histories
  BY DEF Init, Histories, Settled
<1> QED BY <1>1, <1>2, <1>3 DEF ShowInv, Orders

\* Each step keeps what the transcript shows.
LEMMA ShowStep ==
    ASSUME IInv, IInv', Fates, Unmade, ShowInv, [Next]_vars
    PROVE  ShowInv'
<1>1. CASE UserStep
  BY <1>1, UserShows
<1>2. ASSUME NEW r \in Requests, StreamEvent(r) PROVE ShowInv'
  BY <1>2, EventShows
<1>3. ASSUME NEW r \in Requests, Background(r) PROVE ShowInv'
  BY <1>3, BackgroundShows
<1>4. CASE UNCHANGED vars
  <2>1. /\ UNCHANGED <<generation, messages, stored, listed>>
        /\ UNCHANGED <<task, sent, source, presenter, typing, output, ended>>
    BY <1>4 DEF vars, streamVars, chatVars, logVars
  <2>2. ShowsCurrentAnswer' /\ Histories'
    BY <2>1 DEF ShowInv, ShowsCurrentAnswer, Busy, Histories, Settled
  <2>3. ASSUME NEW r \in Requests PROVE Order(r)'
    <3>1. PICK q, t, d \in Nat : Pipe(r, q, t, d) /\ Tally(r, q, t, d) /\ (Current(r) => Matches(q))
      BY DEF ShowInv, Orders, Order
    <3>2. Pipe(r, q, t, d)' /\ Tally(r, q, t, d)'
      BY <2>1, <3>1, PipeFrame
    <3> QED BY <2>1, <3>1, <3>2 DEF Order, Current, Busy, Matches
  <2> QED BY <2>2, <2>3 DEF ShowInv, Orders
<1> QED BY <1>1, <1>2, <1>3, <1>4 DEF Next

\* While an answer is on its way the transcript ends with it and shows a
\* beginning of it, whatever is still queued of earlier requests and wherever
\* the user has been in between (App::update, stream_action).
THEOREM ShowCorrect == Spec => []ShowsCurrentAnswer
<1>1. IInv /\ [Next]_vars => IInv'
  BY TypeStep, TypeSame DEF IInv
<1>2. IInv /\ Fates /\ Unmade /\ [Next]_vars => (Fates /\ Unmade)'
  BY FateStep
<1>3. IInv /\ IInv' /\ Fates /\ Unmade /\ ShowInv /\ [Next]_vars => ShowInv'
  BY ShowStep
<1>4. Init => IInv
  BY TypeInit DEF IInv
<1>5. ShowInv => ShowsCurrentAnswer
  BY DEF ShowInv
<1> QED BY <1>1, <1>2, <1>3, <1>4, <1>5, FateInit, ShowInit, PTL DEF Spec

-----------------------------------------------------------------------------
(* What is saved *)

\* The message is the whole answer of a request to the prompt.
Whole(m, p) == \E r \in Requests :
    task[r] = "over" /\ asked[r] = p /\ m.pieces = Upto(r, sent[r] * Graphemes)

\* In a history every answer follows its prompt, and is whole if it is complete.
Fit(h) == \A i \in 1..Len(h) :
    /\ h[i].role = "user" => h[i].status = "complete"
    /\ h[i].role = "assistant" =>
          /\ i > 1 /\ h[i - 1].role = "user"
          /\ h[i].status = "complete" => Whole(h[i], h[i - 1].prompt)

\* The answer on its way is that to the prompt before it.
Awaits ==
    Busy => /\ Len(messages) > 1 /\ LastOf(messages).role = "assistant"
            /\ asked[generation.id] = messages[Len(messages) - 1].prompt

SavedInv ==
    /\ Fit(messages) /\ Awaits
    /\ \A s \in Sessions : Fit(stored[s]) /\ (s \in DOMAIN listed => Fit(listed[s]))

\* What has been answered is not changed.
Past == \A r \in Requests :
    task[r] = "over" => task'[r] = "over" /\ asked'[r] = asked[r] /\ sent'[r] = sent[r]

\* A history that fits goes on fitting.
LEMMA FitStays ==
    ASSUME Past, NEW h, Fit(h)
    PROVE  Fit(h)'
BY DEF Past, Fit, Whole

\* A history without its last messages.
LEMMA FitPrefix ==
    ASSUME NEW h \in Seq(Messages), NEW g \in Seq(Messages), Fit(h),
           \A i \in 1..Len(g) : i \in 1..Len(h) /\ g[i] = h[i]
    PROVE  Fit(g)
<1> SUFFICES ASSUME NEW i \in 1..Len(g)
             PROVE  /\ g[i].role = "user" => g[i].status = "complete"
                    /\ g[i].role = "assistant" =>
                          /\ i > 1 /\ g[i - 1].role = "user"
                          /\ g[i].status = "complete" => Whole(g[i], g[i - 1].prompt)
  BY DEF Fit
<1>1. i \in 1..Len(h) /\ g[i] = h[i] /\ (i > 1 => g[i - 1] = h[i - 1])
  <2>1. i > 1 => i - 1 \in 1..Len(g)
    OBVIOUS
  <2> QED BY <2>1
<1> QED BY <1>1 DEF Fit

\* A history with a prompt and an answer that has not come yet.
LEMMA FitSend ==
    ASSUME NEW t \in Seq(Messages), Fit(t), NEW p \in Prompts,
           NEW m, m = t \o <<User(p), Assistant>>
    PROVE  /\ Fit(m) /\ Len(m) > 1 /\ LastOf(m).role = "assistant"
           /\ m[Len(m) - 1].prompt = p
<1>1. /\ User(p) \in Messages /\ Assistant \in Messages /\ Len(t) \in Nat
      /\ Len(m) = Len(t) + 2 /\ \A i \in 1..Len(t) : m[i] = t[i]
      /\ m[Len(t) + 1] = User(p) /\ m[Len(t) + 2] = Assistant
  BY NewMessages
<1>2. /\ User(p).role = "user" /\ User(p).status = "complete" /\ User(p).prompt = p
      /\ Assistant.role = "assistant" /\ Assistant.status = "streaming"
  BY DEF User, Assistant
<1>3. ASSUME NEW i \in 1..Len(m)
      PROVE  /\ m[i].role = "user" => m[i].status = "complete"
             /\ m[i].role = "assistant" =>
                   /\ i > 1 /\ m[i - 1].role = "user"
                   /\ m[i].status = "complete" => Whole(m[i], m[i - 1].prompt)
  <2>1. CASE i \in 1..Len(t)
    <3>1. i > 1 => i - 1 \in 1..Len(t)
      BY <1>1, <2>1
    <3>2. m[i] = t[i] /\ (i > 1 => m[i - 1] = t[i - 1])
      BY <1>1, <2>1, <3>1
    <3> QED BY <2>1, <3>2 DEF Fit
  <2>2. CASE i = Len(t) + 1
    BY <1>1, <1>2, <2>2
  <2>3. CASE i = Len(t) + 2
    <3>1. i > 1 /\ i - 1 = Len(t) + 1
      BY <1>1, <2>3
    <3>2. m[i] = Assistant /\ m[i - 1] = User(p)
      BY <1>1, <2>3, <3>1
    <3> QED BY <1>2, <3>1, <3>2
  <2>4. i \in 1..Len(t) \/ i = Len(t) + 1 \/ i = Len(t) + 2
    BY <1>1
  <2> QED BY <2>1, <2>2, <2>3, <2>4, Zenon
<1>4. Len(m) - 1 = Len(t) + 1 /\ Len(m) > 1
  BY <1>1
<1> QED BY <1>1, <1>2, <1>3, <1>4 DEF Fit, LastOf

\* The last message is changed, but not its role.
LEMMA FitLast ==
    ASSUME NEW h \in Seq(Messages), Fit(h), NEW n, Len(h) > 1, LastOf(h).role = "assistant",
           n.role = "assistant", NEW g, g = [h EXCEPT ![Len(h)] = n],
           n.status = "complete" => Whole(n, h[Len(h) - 1].prompt)
    PROVE  /\ Fit(g) /\ Len(g) = Len(h) /\ LastOf(g) = n /\ g[Len(g) - 1] = h[Len(h) - 1]
<1>1. /\ Len(h) \in Nat /\ Len(g) = Len(h) /\ g[Len(h)] = n
      /\ \A i \in 1..(Len(h) - 1) : g[i] = h[i]
  OBVIOUS
<1>2. Len(h) - 1 \in 1..(Len(h) - 1) /\ Len(h) \in 1..Len(h)
  BY <1>1
<1>3. h[Len(h) - 1].role = "user"
  BY <1>2 DEF Fit, LastOf
<1>4. ASSUME NEW i \in 1..Len(h)
      PROVE  /\ g[i].role = "user" => g[i].status = "complete"
             /\ g[i].role = "assistant" =>
                   /\ i > 1 /\ g[i - 1].role = "user"
                   /\ g[i].status = "complete" => Whole(g[i], g[i - 1].prompt)
  <2>1. CASE i = Len(h)
    BY <1>1, <1>2, <1>3, <2>1
  <2>2. CASE i # Len(h)
    <3>1. i \in 1..(Len(h) - 1) /\ (i > 1 => i - 1 \in 1..(Len(h) - 1))
      BY <1>1, <2>2
    <3>2. g[i] = h[i] /\ (i > 1 => g[i - 1] = h[i - 1])
      BY <1>1, <3>1
    <3> QED BY <3>2 DEF Fit
  <2> QED BY <2>1, <2>2, ZenonT(60)
<1> QED BY <1>1, <1>2, <1>4 DEF Fit, LastOf

\* The complete messages: no prompt is dropped, so each answer still follows its own.
LEMMA FitComplete ==
    ASSUME NEW s \in Seq(Messages), Fit(s)
    PROVE  Fit(Complete(s))
<1> DEFINE K == {i \in 1..Len(s) : s[i].status = "complete"}
           c == Complete(s)
           Upon(i) == {j \in K : j <= i}
<1>1. /\ K \in SUBSET Nat /\ IsFiniteSet(K) /\ Cardinality(K) \in Nat /\ Len(s) \in Nat
  <2>1. Len(s) \in Nat /\ IsFiniteSet(1..Len(s)) /\ K \in SUBSET (1..Len(s))
    BY FS_Interval
  <2>2. IsFiniteSet(K)
    <3> HIDE DEF K
    <3> QED BY <2>1, FS_Subset
  <2>3. Cardinality(K) \in Nat
    <3> HIDE DEF K
    <3> QED BY <2>2, FS_CardinalityType
  <2> QED BY <2>1, <2>2, <2>3
<1>2. c = [n \in 1..Cardinality(K) |-> s[Nth(K, n)]]
  BY DEF Complete, Only
<1>3. Len(c) = Cardinality(K) /\ \A n \in 1..Len(c) : c[n] = s[Nth(K, n)]
  <2> HIDE DEF K, c
  <2> QED BY <1>1, <1>2
<1>4. ASSUME NEW n \in 1..Len(c)
      PROVE  /\ c[n].role = "user" => c[n].status = "complete"
             /\ c[n].role = "assistant" =>
                   /\ n > 1 /\ c[n - 1].role = "user"
                   /\ c[n].status = "complete" => Whole(c[n], c[n - 1].prompt)
  <2>1. PICK i \in K : i = Nth(K, n) /\ Cardinality(Upon(i)) = n
    <3> HIDE DEF K, c
    <3> QED BY <1>1, <1>3, NthIsIn
  <2>2. /\ i \in 1..Len(s) /\ s[i].status = "complete" /\ c[n] = s[i]
    <3>1. c[n] = s[i]
      <4> HIDE DEF K, c
      <4> QED BY <1>3, <2>1
    <3> QED BY <3>1
  <2>3. ASSUME c[n].role = "assistant"
        PROVE  n > 1 /\ c[n - 1] = s[i - 1]
    <3>1. i > 1 /\ s[i - 1].role = "user"
      <4> HIDE DEF c, K
      <4> QED BY <2>2, <2>3 DEF Fit
    <3>2. i - 1 \in 1..Len(s)
      BY <2>2, <3>1
    <3>3. i - 1 \in K
      BY <3>1, <3>2 DEF Fit
    <3>4. Upon(i) = Upon(i - 1) \cup {i} /\ i \notin Upon(i - 1)
      BY <2>2, <3>1
    <3>5. IsFiniteSet(Upon(i - 1))
      <4>1. Upon(i - 1) \in SUBSET K
        OBVIOUS
      <4> HIDE DEF K, Upon
      <4> QED BY <1>1, <4>1, FS_Subset
    <3>6. Cardinality(Upon(i)) = Cardinality(Upon(i - 1)) + 1 /\ Cardinality(Upon(i - 1)) \in Nat
      <4> HIDE DEF Upon, K
      <4> QED BY <3>4, <3>5, FS_AddElement, FS_CardinalityType
    <3>7. Cardinality(Upon(i - 1)) # 0
      <4>1. i - 1 \in Upon(i - 1)
        BY <3>2, <3>3
      <4> HIDE DEF Upon, K
      <4> QED BY <3>5, <4>1, FS_EmptySet
    <3>8. n > 1 /\ Cardinality(Upon(i - 1)) = n - 1 /\ n - 1 \in 1..Cardinality(K)
      <4> HIDE DEF Upon, K, c
      <4> QED BY <1>1, <1>3, <2>1, <3>6, <3>7
    <3>9. PICK j \in K : j = Nth(K, n - 1) /\ Cardinality(Upon(j)) = n - 1
      <4> HIDE DEF K
      <4> QED BY <1>1, <3>8, NthIsIn
    <3>10. j = i - 1
      <4>1. j \in Nat /\ i - 1 \in Nat
        BY <1>1, <3>3
      <4>2. ~(j < i - 1) /\ ~(i - 1 < j)
        <5> HIDE DEF K
        <5> QED BY <1>1, <3>3, <3>8, <3>9, RanksDiffer
      <4> QED BY <4>1, <4>2
    <3> HIDE DEF K, c
    <3> QED BY <1>1, <1>3, <3>8, <3>9, <3>10
  <2> HIDE DEF K, c
  <2> QED BY <2>2, <2>3 DEF Fit
<1> HIDE DEF c
<1>5. Fit(c)
  BY <1>4 DEF Fit
<1> QED BY <1>5 DEF c

\* No step changes what has been answered.
LEMMA PastStays ==
    ASSUME IInv, Unmade, [Next]_vars
    PROVE  Past
<1>1. CASE UNCHANGED <<task, asked, sent>>
  BY <1>1 DEF Past
<1>2. ASSUME NEW p, NEW t, Send(p, t) PROVE Past
  <2>1. PICK r \in Requests : r = next_id /\ task[r] = "none" /\ Launch(r)
    BY <1>2, SendIs DEF Unmade, Requests
  <2>2. /\ UNCHANGED sent /\ asked' = [asked EXCEPT ![r] = p]
        /\ task' = [task EXCEPT ![r] = "sending"]
    BY <1>2, <2>1 DEF Send, Launch
  <2> QED BY <2>1, <2>2 DEF Past, IInv, TypeOK, StreamTypeOK, ChatTypeOK
<1>3. ASSUME UserStep PROVE Past
  <2>1. CASE UNCHANGED <<streamVars, logVars>>
    BY <1>1, <2>1 DEF streamVars, logVars
  <2> QED BY <1>1, <1>2, <1>3, <2>1 DEF UserStep, Submit, Retry, EditLast, Cancel, LoadSessions,
          ClearHistory, SwitchSession, SessionChanged, logVars
<1>4. ASSUME NEW r \in Requests, StreamEvent(r) PROVE Past
  BY <1>1, <1>4 DEF StreamEvent, Received
<1>5. ASSUME NEW r \in Requests, Background(r) PROVE Past
  <2>1. UNCHANGED asked /\ Elsewhere(r)
    BY <1>5, StepsAreLocal DEF Background, logVars, IInv, TypeOK
  <2>2. \A q \in Requests \ {r} : sent'[q] = sent[q]
    BY <1>5 DEF Background, TaskStep, PresenterStep, Respond, HearCancel, ReceiveDelta, ReceiveDone,
       ReceiveFails, Report, Take, Check, TypeOne, PresenterEnds, IInv, TypeOK, StreamTypeOK
  <2>3. task[r] = "over" => UNCHANGED <<task, sent>>
    BY <1>5 DEF Background, TaskStep, PresenterStep, Respond, HearCancel, ReceiveDelta, ReceiveDone,
       ReceiveFails, Report, Take, Check, TypeOne, PresenterEnds
  <2> QED BY <2>1, <2>2, <2>3 DEF Past, Elsewhere
<1>6. CASE UNCHANGED vars
  BY <1>1, <1>6 DEF vars, streamVars, logVars
<1> QED BY <1>3, <1>4, <1>5, <1>6 DEF Next

\* The histories that are kept, as they are and in what follows.
LEMMA KeptFits ==
    ASSUME SavedInv, Past, NEW s \in Sessions
    PROVE  /\ Fit(stored[s]) /\ \A h : h = stored[s] => Fit(h)'
           /\ s \in DOMAIN listed => Fit(listed[s]) /\ \A h : h = listed[s] => Fit(h)'
BY FitStays DEF SavedInv

\* An empty history fits.
LEMMA FitEmpty == Fit(<<>>) /\ Fit(<<>>)'
BY DEF Fit

\* The invariant from the values of the histories in the next state.
LEMMA SavedFrom ==
    ASSUME \A m : m = messages' => Fit(m)', Awaits',
           \A s \in Sessions : \A h : h = stored'[s] => Fit(h)',
           \A s \in Sessions : s \in DOMAIN listed' => \A h : h = listed'[s] => Fit(h)'
    PROVE  SavedInv'
BY DEF SavedInv, Fit, Whole

\* A prompt is sent.
LEMMA SendSaved ==
    ASSUME IInv, SavedInv, Past, NEW p \in Prompts, NEW t \in Seq(Messages), Fit(t), Send(p, t)
    PROVE  SavedInv'
<1>1. PICK m : m = t \o <<User(p), Assistant>>
  OBVIOUS
<1>2. /\ messages' = m /\ UNCHANGED <<stored, listed>> /\ next_id \in Requests
      /\ asked' = [asked EXCEPT ![next_id] = p] /\ generation'.id = next_id
      /\ asked \in [Requests -> Prompts \cup {None}]
  BY <1>1, SendIs DEF Send, Generation, IInv, TypeOK, ChatTypeOK
<1>3. Fit(m) /\ Len(m) > 1 /\ LastOf(m).role = "assistant" /\ m[Len(m) - 1].prompt = p
  <2>1. \A x : x = t \o <<User(p), Assistant>> =>
          Fit(x) /\ Len(x) > 1 /\ LastOf(x).role = "assistant" /\ x[Len(x) - 1].prompt = p
    BY FitSend
  <2> QED BY <1>1, <2>1
<1>4. Fit(m)'
  BY <1>3, FitStays
<1>5. Awaits'
  BY <1>2, <1>3 DEF Awaits, LastOf
<1> QED BY <1>2, <1>4, <1>5, SavedFrom, KeptFits

\* The transcript and the histories are kept.
LEMMA SameSaved ==
    ASSUME SavedInv, Past, UNCHANGED <<messages, stored, listed>>, Awaits'
    PROVE  SavedInv'
<1>1. \A m : m = messages' => Fit(m)'
  BY FitStays DEF SavedInv
<1> QED BY <1>1, SavedFrom, KeptFits

\* What the user does.
LEMMA UserSaved ==
    ASSUME IInv, ShowInv, SavedInv, Past, UserStep
    PROVE  SavedInv'
<1>1. /\ messages \in Seq(Messages) /\ session \in Sessions /\ Fit(messages)
      /\ last_user \in Prompts \cup {None} /\ stored \in [Sessions -> Seq(Messages)]
      /\ WithoutLast \in Seq(Messages) /\ Fit(WithoutLast)
  <2>1. /\ messages \in Seq(Messages) /\ session \in Sessions /\ last_user \in Prompts \cup {None}
        /\ stored \in [Sessions -> Seq(Messages)] /\ Fit(messages)
    BY DEF IInv, TypeOK, ChatTypeOK, SavedInv
  <2> QED BY <2>1, WithoutLastIs, FitPrefix
<1>2. ASSUME NEW p \in Prompts, Submit(p) PROVE SavedInv'
  BY <1>1, <1>2, SendSaved DEF Submit
<1>3. CASE Retry
  BY <1>1, <1>3, SendSaved DEF Retry
<1>4. CASE EditLast
  <2>1. PICK m : m = WithoutLast
    OBVIOUS
  <2>2. messages' = m /\ UNCHANGED <<stored, listed>> /\ ~Busy'
    BY <1>4, <2>1 DEF EditLast, Busy
  <2>3. Fit(m)'
    BY <1>1, <2>1, FitStays
  <2>4. Awaits'
    BY <2>2 DEF Awaits
  <2> QED BY <2>2, <2>3, <2>4, SavedFrom, KeptFits
<1>5. CASE Cancel
  <2>1. /\ UNCHANGED <<messages, stored, listed, asked>> /\ Busy /\ generation'.id = generation.id
    BY <1>5 DEF Cancel, Generation, logVars
  <2>2. Awaits'
    BY <2>1 DEF SavedInv, Awaits
  <2> QED BY <2>1, <2>2, SameSaved
<1>6. CASE LoadSessions
  <2>1. UNCHANGED <<messages, stored, generation, asked>> /\ listed' = stored
    BY <1>6 DEF LoadSessions, chatVars, logVars
  <2>2. Awaits'
    BY <2>1 DEF SavedInv, Awaits, Busy
  <2>3. \A m : m = messages' => Fit(m)'
    BY <1>1, <2>1, FitStays
  <2> QED BY <2>1, <2>2, <2>3, SavedFrom, KeptFits
<1>7. CASE ClearHistory
  <2>1. /\ UNCHANGED listed /\ ~Busy' /\ messages' = <<>>
        /\ stored' = [stored EXCEPT ![session] = <<>>]
    BY <1>7 DEF ClearHistory, SessionChanged, Idle, Generation, Busy
  <2>2. Awaits'
    BY <2>1 DEF Awaits
  <2>3. \A s \in Sessions : stored'[s] = <<>> \/ stored'[s] = stored[s]
    BY <1>1, <2>1
  <2> QED BY <2>1, <2>2, <2>3, FitEmpty, SavedFrom, KeptFits
<1>8. ASSUME NEW s \in Sessions, SwitchSession(s) PROVE SavedInv'
  <2>1. PICK h : h = IF s \in DOMAIN listed THEN listed[s] ELSE stored[s]
    OBVIOUS
  <2>2. UNCHANGED <<stored, listed>> /\ ~Busy' /\ messages' = h
    BY <1>8, <2>1 DEF SwitchSession, SessionChanged, Idle, Generation, Busy
  <2>3. Fit(h)'
    BY <2>1, KeptFits
  <2>4. Awaits'
    BY <2>2, SMTT(30) DEF Awaits
  <2> QED BY <2>2, <2>3, <2>4, SavedFrom, KeptFits
<1> QED BY <1>2, <1>3, <1>4, <1>5, <1>6, <1>7, <1>8 DEF UserStep

\* The transcript with its last message changed.
LEMMA LastSaved ==
    ASSUME IInv, SavedInv, Past, Busy, messages # <<>>,
           NEW n, n.role = "assistant", messages' = [messages EXCEPT ![Len(messages)] = n],
           n.status = "complete" => Whole(n, asked[generation.id])
    PROVE  \E g : /\ g = messages' /\ Fit(g) /\ Fit(g)' /\ Len(g) > 1
                  /\ LastOf(g).role = "assistant"
                  /\ asked[generation.id] = g[Len(g) - 1].prompt
<1>1. PICK g : g = messages'
  OBVIOUS
<1>2. /\ messages \in Seq(Messages) /\ Fit(messages) /\ Len(messages) > 1
      /\ LastOf(messages).role = "assistant"
      /\ asked[generation.id] = messages[Len(messages) - 1].prompt
  BY DEF IInv, TypeOK, ChatTypeOK, SavedInv, Awaits
<1>5. n.status = "complete" => Whole(n, messages[Len(messages) - 1].prompt)
  BY <1>2
<1>6. g = [messages EXCEPT ![Len(messages)] = n]
  BY <1>1
<1>3. Fit(g) /\ Len(g) = Len(messages) /\ LastOf(g) = n
      /\ g[Len(g) - 1] = messages[Len(messages) - 1]
  <2>1. \A x : x = [messages EXCEPT ![Len(messages)] = n] =>
          Fit(x) /\ Len(x) = Len(messages) /\ LastOf(x) = n
          /\ x[Len(x) - 1] = messages[Len(messages) - 1]
    BY <1>2, <1>5, FitLast
  <2> QED BY <1>6, <2>1
<1>4. Fit(g)'
  BY <1>3, FitStays
<1> QED BY <1>1, <1>2, <1>3, <1>4

\* What an event of the current request does.
LEMMA ApplySaved ==
    ASSUME IInv, IInv', ShowInv, SavedInv, Past, NEW r \in Requests, Current(r),
           NEW e \in Events, Apply(r, e), UNCHANGED <<listed, session, asked>>,
           e.kind = "completed" => task[r] = "over"
                                   /\ Len(LastOf(messages).pieces) = sent[r] * Graphemes
    PROVE  SavedInv'
<1> DEFINE last == LastOf(messages)
<1>1. /\ messages \in Seq(Messages) /\ messages # <<>> /\ Len(messages) \in Nat \ {0}
      /\ messages[Len(messages)] = last /\ last \in Messages /\ last.status = "streaming"
      /\ last.pieces = Upto(r, Len(last.pieces)) /\ Busy /\ generation.id = r
  BY StreamingIsLast DEF ShowInv, Current
<1>2. last.role = "assistant"
  BY <1>1 DEF SavedInv, Awaits
<1>3. CASE e.kind = "connected"
  <2>1. UNCHANGED <<messages, stored>> /\ generation'.id = r
    BY <1>3 DEF Apply, Generation, Terminal
  <2>2. Awaits'
    BY <1>1, <2>1 DEF SavedInv, Awaits
  <2> QED BY <2>1, <2>2, SameSaved
<1>4. CASE e.kind = "delta"
  <2>1. PICK n : n = [last EXCEPT !.pieces = Append(@, [of |-> r, piece |-> e.part])]
    OBVIOUS
  <2>2. /\ messages' = [messages EXCEPT ![Len(messages)] = n] /\ UNCHANGED <<generation, stored>>
    BY <1>1, <1>4, <2>1 DEF Apply, Shown, Terminal
  <2>3. n.role = "assistant" /\ n.status = "streaming"
    BY <1>1, <1>2, <2>1 DEF Messages
  <2>4. PICK g : /\ g = messages' /\ Fit(g)' /\ Len(g) > 1 /\ LastOf(g).role = "assistant"
                 /\ asked[generation.id] = g[Len(g) - 1].prompt
    BY <1>1, <2>2, <2>3, LastSaved
  <2>5. Awaits'
    BY <2>2, <2>4 DEF Awaits, LastOf
  <2> QED BY <2>2, <2>4, <2>5, SavedFrom, KeptFits
<1>5. CASE e.kind \in Terminal
  <2>1. PICK st \in {"complete", "cancelled", "failed"} :
          Mark(st) /\ (st = "complete" => e.kind = "completed")
    BY <1>5 DEF Apply, Completed, Terminal
  <2>2. ~Busy'
    BY <1>5 DEF Apply, Completed, Terminal, Idle, Generation, Busy
  <2>3. PICK n : n = [last EXCEPT !.status = st]
    OBVIOUS
  <2>4. messages' = [messages EXCEPT ![Len(messages)] = n]
    BY <1>1, <2>1, <2>3 DEF Mark
  <2>5. n.role = "assistant" /\ n.status = st /\ n.pieces = last.pieces
    BY <1>1, <1>2, <2>3 DEF Messages
  <2>6. PICK g : g = messages' /\ Fit(g) /\ Fit(g)'
    <3>1. n.status = "complete" => Whole(n, asked[r])
      BY <1>1, <2>1, <2>5 DEF Whole
    <3> QED BY <1>1, <2>4, <2>5, <3>1, LastSaved
  <2>7. Awaits'
    BY <2>2 DEF Awaits
  <2>8. \A s \in Sessions : \A h : h = stored'[s] => Fit(h)'
    <3>1. CASE UNCHANGED stored
      BY <3>1, KeptFits
    <3>2. CASE stored' = [stored EXCEPT ![session] = Complete(messages')]
      <4>1. PICK c : c = Complete(g)
        OBVIOUS
      <4>2. Fit(c)'
        <5>1. g \in Seq(Messages)
          BY <2>6 DEF IInv, TypeOK, ChatTypeOK
        <5> QED BY <2>6, <4>1, <5>1, FitComplete, FitStays
      <4>3. \A s \in Sessions : stored'[s] = c \/ stored'[s] = stored[s]
        BY <2>6, <3>2, <4>1 DEF IInv, TypeOK, ChatTypeOK
      <4> QED BY <4>2, <4>3, KeptFits
    <3> QED BY <3>1, <3>2 DEF Apply, Completed
  <2> QED BY <2>6, <2>7, <2>8, SavedFrom, KeptFits
<1> QED BY <1>3, <1>4, <1>5, EventKinds

\* The event loop hears from a stream.
LEMMA EventSaved ==
    ASSUME IInv, IInv', Fates, ShowInv, SavedInv, Past, NEW r \in Requests, StreamEvent(r)
    PROVE  SavedInv'
<1> DEFINE e == Head(output[r])
<1>1. e \in Events /\ Received(r, e)
  BY Heard DEF IInv
<1>2. UNCHANGED <<listed, session, asked>>
  BY <1>1 DEF Received
<1>3. CASE Current(r)
  <2>1. Apply(r, e)
    BY <1>3 DEF StreamEvent
  <2>2. PICK q, t, d \in Nat : Tally(r, q, t, d) /\ Matches(q)
    BY <1>3 DEF ShowInv, Orders, Order
  <2>3. e.kind = "completed" => task[r] = "over" /\ q = sent[r] * Graphemes + 1
    BY <2>2, EventTally
  <2>4. sent[r] * Graphemes \in Nat
    BY TuiStreamAssumption DEF IInv, TypeOK, StreamTypeOK
  <2>5. q = sent[r] * Graphemes + 1 => Len(LastOf(messages).pieces) = sent[r] * Graphemes
    <3>1. ASSUME NEW x \in Nat, q = x + 1 PROVE Len(LastOf(messages).pieces) = x
      BY <2>2, <3>1 DEF Matches
    <3> QED BY <2>4, <3>1
  <2> HIDE DEF e
  <2> QED BY <1>1, <1>2, <1>3, <2>1, <2>3, <2>5, ApplySaved
<1>4. CASE ~Current(r)
  <2>1. UNCHANGED <<generation, messages, stored>>
    BY <1>4 DEF StreamEvent
  <2>2. Awaits'
    BY <1>2, <2>1 DEF SavedInv, Awaits, Busy
  <2> QED BY <1>2, <2>1, <2>2, SameSaved
<1> QED BY <1>3, <1>4

\* Every answer that is saved is the whole answer of a request and follows the
\* prompt of that request, whatever was cancelled, retried, edited or switched in
\* between (App::update, Effect::SaveTranscript).
THEOREM SavedCorrect == Spec => []SavedAnswersWhole
<1>1. IInv /\ [Next]_vars => IInv'
  BY TypeStep, TypeSame DEF IInv
<1>2. IInv /\ Fates /\ Unmade /\ [Next]_vars => (Fates /\ Unmade)'
  BY FateStep
<1>3. IInv /\ IInv' /\ Fates /\ Unmade /\ ShowInv /\ [Next]_vars => ShowInv'
  BY ShowStep
<1>4. IInv /\ IInv' /\ Fates /\ Unmade /\ ShowInv /\ SavedInv /\ [Next]_vars => SavedInv'
  <2> SUFFICES ASSUME IInv, IInv', Fates, Unmade, ShowInv, SavedInv, [Next]_vars PROVE SavedInv'
    OBVIOUS
  <2>1. Past
    BY PastStays
  <2>2. CASE UserStep
    BY <2>1, <2>2, UserSaved
  <2>3. ASSUME NEW r \in Requests, StreamEvent(r) PROVE SavedInv'
    BY <2>1, <2>3, EventSaved
  <2>4. CASE UNCHANGED <<generation, messages, stored, listed, asked>>
    <3>1. Awaits'
      BY <2>4 DEF SavedInv, Awaits, Busy
    <3> QED BY <2>1, <2>4, <3>1, SameSaved
  <2>5. ASSUME NEW r \in Requests, Background(r) PROVE SavedInv'
    BY <2>4, <2>5 DEF Background, chatVars, logVars
  <2>6. CASE UNCHANGED vars
    BY <2>4, <2>6 DEF vars, chatVars, logVars
  <2> QED BY <2>2, <2>3, <2>5, <2>6 DEF Next
<1>5. Init => IInv
  BY TypeInit DEF IInv
<1>6. Init => SavedInv
  BY DEF Init, SavedInv, Fit, Awaits, Busy
<1>7. IInv /\ ShowInv /\ SavedInv => SavedAnswersWhole
  <2> SUFFICES ASSUME IInv, ShowInv, SavedInv, NEW s \in Sessions, NEW i \in DOMAIN stored[s],
                      stored[s][i].role = "assistant"
               PROVE  /\ i > 1 /\ stored[s][i - 1].role = "user"
                      /\ \E r \in Requests :
                            /\ task[r] = "over" /\ asked[r] = stored[s][i - 1].prompt
                            /\ stored[s][i].pieces = Upto(r, sent[r] * Graphemes)
    BY DEF SavedAnswersWhole
  <2>1. i \in 1..Len(stored[s])
    BY DEF IInv, TypeOK, ChatTypeOK
  <2> QED BY <2>1 DEF ShowInv, Histories, Settled, SavedInv, Fit, Whole
<1> QED BY <1>1, <1>2, <1>3, <1>4, <1>5, <1>6, <1>7, FateInit, ShowInit, PTL DEF Spec
=============================================================================
