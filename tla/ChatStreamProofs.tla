--------------------------- MODULE ChatStreamProofs ---------------------------
(***************************************************************************)
(* Proofs about ChatStream: what the client is told implements             *)
(* CompletionStream, and, of a direct stream, amounts to what the upstream *)
(* has sent, wherever that is cut.  Split and Kinds are recursive: what is *)
(* shown of them is shown by induction over sequences, which rests on the  *)
(* library's theorem that < is well-founded.                               *)
(***************************************************************************)
EXTENDS ChatStream, WellFoundedInduction, SequenceTheorems, TLAPS

Items == {"chunk", "finish"} \cup Outcomes

\* An outcome is the last that is told, and ends the handler.
OutcomeEnds ==
    /\ sent \in Seq(Items)
    /\ \A i \in 1..(Len(sent) - 1) : sent[i] \notin Outcomes
    /\ phase # "over" => ~Ended

\* A completion marker is not told to a client that has got nothing before.
FinishTold ==
    /\ saw_terminal => sent # <<>>
    /\ phase = "finish" => sent # <<>>

IInv ==
    /\ source \in {"direct", "acp"} /\ streaming \in BOOLEAN
    /\ client \in {"reading", "gone"}
    /\ phase # "over" => client = "reading"
    /\ OutcomeEnds
    /\ FinishTold

-----------------------------------------------------------------------------
(* What a step does to what the client has got *)

Keeps  == UNCHANGED <<source, streaming, client>>
Quiet  == UNCHANGED sent /\ (phase' # "over" \/ UNCHANGED phase) /\ phase # "over"
Chunk  == phase # "over" /\ (\E k \in {"chunk", "finish"} : Tell(k)) /\ phase' # "over"
Marker == phase # "over" /\ sent # <<>> /\ Tell("done") /\ phase' = "over"
Failure == phase # "over" /\ Fail
Answered == phase # "over" /\ ~streaming /\ Tell("answer") /\ phase' = "over"

\* A step tells at most one thing, and after an outcome there is none.
Step ==
    \/ Keeps /\ (Quiet \/ Chunk \/ Marker \/ Failure \/ Answered)
    \/ HangUp

LEMMA EveryStep ==
    ASSUME FinishTold, Next
    PROVE  Step
<1>1. CASE Call
  BY <1>1 DEF Call, Step, Keeps, Quiet, Failure
<1>2. CASE Send
  BY <1>2 DEF Send, Step, Keeps, Quiet, Failure
<1>3. CASE HangUp
  BY <1>3 DEF Step
<1>4. ASSUME NEW chunk \in Chunks, Arrive(chunk) PROVE Step
  BY <1>4 DEF Arrive, At, Push, Take, Step, Keeps, Quiet, Failure
<1>5. CASE Line
  <2>1. Keeps /\ phase # "over" /\ phase = "lines"
    BY <1>5 DEF Line, Keeps
  <2>2. PICK kind : Check(kind)
    BY <1>5 DEF Line
  <2>3. Quiet \/ Chunk \/ Marker \/ Failure
    BY <2>1, <2>2, FinishTold DEF Check, Quiet, Chunk, Marker, Failure, FinishTold
  <2> QED BY <2>1, <2>3 DEF Step
<1>6. CASE NoLines
  BY <1>6 DEF NoLines, Step, Keeps, Quiet, Failure
<1>7. CASE Close
  BY <1>7 DEF Close, At, Step, Keeps, Quiet
<1>8. CASE Break
  BY <1>8 DEF Break, Step, Keeps, Failure
<1>9. CASE Collect
  BY <1>9 DEF Collect, Step, Keeps, Quiet, Failure
<1>10. CASE Collected
  BY <1>10 DEF Collected, Step, Keeps, Answered, Failure
<1>11. CASE AcpText
  BY <1>11 DEF AcpText, At, Step, Keeps, Chunk, Failure
<1>12. CASE AcpCompleted
  BY <1>12 DEF AcpCompleted, At, Step, Keeps, Chunk
<1>13. CASE AcpDone
  BY <1>13, FinishTold DEF AcpDone, FinishTold, Step, Keeps, Marker
<1>14. CASE AcpFails
  BY <1>14 DEF AcpFails, At, Step, Keeps, Failure
<1> QED BY <1>1, <1>2, <1>3, <1>4, <1>5, <1>6, <1>7, <1>8, <1>9, <1>10, <1>11,
           <1>12, <1>13, <1>14, Next DEF Next

\* The one more that is told.
LEMMA Telling ==
    ASSUME NEW item \in Items, Tell(item), OutcomeEnds, phase # "over"
    PROVE  /\ sent' \in Seq(Items) /\ sent' # <<>>
           /\ Len(sent') = Len(sent) + 1
           /\ sent'[Len(sent')] = item
           /\ \A i \in 1..(Len(sent') - 1) : sent'[i] \notin Outcomes
           /\ Ended' <=> item \in Outcomes
<1>1. /\ sent' = Append(sent, item) /\ sent \in Seq(Items)
      /\ \A i \in 1..(Len(sent) - 1) : sent[i] \notin Outcomes
      /\ ~Ended
  BY DEF Tell, OutcomeEnds
<1>2. /\ sent' \in Seq(Items) /\ sent' # <<>> /\ Len(sent') = Len(sent) + 1
      /\ sent'[Len(sent) + 1] = item /\ Len(sent) \in Nat
      /\ \A i \in 1..Len(sent) : sent'[i] = sent[i]
  BY <1>1
<1>3. ASSUME NEW i \in 1..Len(sent) PROVE sent[i] \notin Outcomes
  <2>1. CASE i = Len(sent)
    <3>1. sent # <<>>
      BY <2>1, <1>1
    <3> QED BY <3>1, <2>1, <1>1 DEF Ended
  <2>2. CASE i < Len(sent)
    BY <2>2, <1>1, <1>2
  <2> QED BY <2>1, <2>2, <1>2
<1>4. Ended' <=> item \in Outcomes
  BY <1>2 DEF Ended
<1> QED BY <1>2, <1>3, <1>4

-----------------------------------------------------------------------------
LEMMA InitInv == Init => IInv
BY DEF Init, IInv, OutcomeEnds, FinishTold, Ended

LEMMA FinishKept ==
    ASSUME IInv, Next
    PROVE  FinishTold'
<1>1. CASE \E item \in Items : Tell(item)
  <2>1. PICK item \in Items : sent' = Append(sent, item)
    BY <1>1 DEF Tell
  <2>2. sent' # <<>>
    BY <2>1, IInv DEF IInv, OutcomeEnds
  <2> QED BY <2>2 DEF FinishTold
<1>2. CASE ~ \E item \in Items : Tell(item)
  <2>1. ~Tell("chunk") /\ ~Tell("finish") /\ ~Tell("done") /\ ~Tell("failed") /\ ~Tell("answer")
    BY <1>2 DEF Items, Outcomes
  <2>2. UNCHANGED <<sent, saw_terminal>> /\ (phase' = "finish" => phase = "finish")
    <3>1. CASE Line
      BY <3>1, <2>1 DEF Line, Check, Fail
    <3>2. ASSUME NEW chunk \in Chunks, Arrive(chunk) 
                 PROVE  UNCHANGED <<sent, saw_terminal>> /\ phase' # "finish"
      BY <3>2, <2>1 DEF Arrive, Push, Take, Fail
    <3> QED BY <3>1, <3>2, <2>1, Next DEF Next, Call, Send, HangUp, NoLines, Close, Break,
               Collect, Collected, AcpText, AcpCompleted, AcpDone, AcpFails, Fail
  <2> QED BY <2>2, IInv DEF IInv, FinishTold
<1> QED BY <1>1, <1>2

LEMMA NextInv == IInv /\ [Next]_vars => IInv'
<1> SUFFICES ASSUME IInv, [Next]_vars PROVE IInv'
  OBVIOUS
<1>1. CASE UNCHANGED vars
  BY <1>1, IInv DEF vars, IInv, OutcomeEnds, FinishTold, Ended
<1>2. CASE Next
  <2>1. Step /\ FinishTold'
    BY <1>2, IInv, EveryStep, FinishKept DEF IInv
  <2>2. CASE HangUp
    BY <2>1, <2>2, IInv DEF HangUp, IInv, OutcomeEnds, Ended
  <2>3. CASE Keeps /\ Quiet
    BY <2>1, <2>3, IInv DEF Keeps, Quiet, IInv, OutcomeEnds, Ended
  <2>4. CASE Keeps /\ (Chunk \/ Marker \/ Failure \/ Answered)
    <3>1. PICK item \in Items : Tell(item) /\ phase # "over" /\ (item \in Outcomes => phase' = "over")
      BY <2>4 DEF Chunk, Marker, Failure, Answered, Fail, Items, Outcomes
    <3>2. OutcomeEnds /\ OutcomeEnds'
      BY <3>1, Telling, IInv DEF OutcomeEnds, IInv
    <3>3. /\ source' \in {"direct", "acp"} /\ streaming' \in BOOLEAN
          /\ client' = "reading"
      BY <2>4, <3>1, IInv DEF Keeps, IInv
    <3> QED BY <2>1, <3>2, <3>3 DEF IInv
  <2> QED BY <2>1, <2>2, <2>3, <2>4 DEF Step
<1> QED BY <1>1, <1>2

-----------------------------------------------------------------------------
(* The refinement *)

LEMMA InitRefines == Init => Stream!Init
<1> SUFFICES ASSUME Init PROVE Stream!Init
  OBVIOUS
<1>1. sent = <<>> /\ Len(sent) = 0 /\ ~Ended /\ client = "reading" /\ streaming \in BOOLEAN
  BY DEF Init, Ended
<1>2. Told = <<>> /\ State = "open"
  BY <1>1 DEF Told, State
<1> QED BY <1>2 DEF Stream!Init

\* More than a chunk is told to none but a stream.
LEMMA ChunkRefines ==
    ASSUME IInv, streaming, Keeps, Chunk
    PROVE  Stream!Deliver(1, source)
<1>1. PICK k \in {"chunk", "finish"} : Tell(k)
  BY DEF Chunk
<1>2. k \in Items /\ k \notin Outcomes /\ ~Ended /\ client = "reading" /\ OutcomeEnds
      /\ phase # "over" /\ sent \in Seq(Items) /\ source' = source /\ streaming' /\ client' = client
  BY IInv DEF Items, Outcomes, Chunk, IInv, OutcomeEnds, Keeps
<1>3. ~Ended' /\ Len(sent') = Len(sent) + 1 /\ Len(sent) \in Nat
  BY <1>1, <1>2, Telling
<1>4. /\ Told = [i \in 1..Len(sent) |-> [answer |-> source, index |-> i]]
      /\ Told' = [i \in 1..(Len(sent) + 1) |-> [answer |-> source, index |-> i]]
      /\ State = "open" /\ State' = "open"
  BY <1>2, <1>3 DEF Told, State
<1>5. Len(Told) = Len(sent)
  BY <1>3, <1>4
<1>6. Told' = Append(Told, [answer |-> source, index |-> Len(Told) + 1])
  BY <1>3, <1>4, <1>5
<1>7. Told # <<>> => source = Told[1].answer
  BY <1>3, <1>4
<1> QED BY <1>4, <1>6, <1>7 DEF Stream!Deliver, Stream!Next_Chunk

LEMMA EndRefines ==
    ASSUME IInv, streaming, Keeps, Marker \/ Failure
    PROVE  Stream!Complete(1) \/ Stream!Fail(1)
<1>1. PICK item \in {"done", "failed"} : Tell(item) /\ (item = "done" => sent # <<>>)
  BY DEF Marker, Failure, Fail
<1>2. item \in Items /\ item \in Outcomes /\ ~Ended /\ client = "reading" /\ OutcomeEnds
      /\ phase # "over" /\ sent \in Seq(Items) /\ source' = source /\ streaming' /\ client' = client
  BY IInv DEF Items, Outcomes, Marker, Failure, IInv, OutcomeEnds, Keeps
<1>3. Ended' /\ Len(sent') = Len(sent) + 1 /\ Len(sent) \in Nat /\ sent'[Len(sent')] = item
  BY <1>1, <1>2, Telling
<1>4. /\ Told = [i \in 1..Len(sent) |-> [answer |-> source, index |-> i]]
      /\ Told' = Told
      /\ State = "open" /\ State' = (IF item = "done" THEN "completed" ELSE "failed")
  BY <1>2, <1>3 DEF Told, State
<1>5. item = "done" => Told # <<>>
  <2> SUFFICES ASSUME item = "done" PROVE Told # <<>>
    OBVIOUS
  <2>1. Len(sent) # 0
    BY <1>1, <1>2
  <2>2. Len(Told) = Len(sent)
    BY <1>3, <1>4
  <2> QED BY <2>1, <2>2
<1> QED BY <1>1, <1>4, <1>5 DEF Stream!Complete, Stream!Fail

LEMMA StepRefines ==
    ASSUME IInv, Step
    PROVE  [Stream!Next]_<<[r \in {1} |-> Told], [r \in {1} |-> State]>>
<1>1. CASE HangUp
  <2>1. client = "reading" /\ client' = "gone" /\ ~Ended /\ ~Ended' /\ UNCHANGED <<source, streaming, sent>>
    BY <1>1, IInv DEF HangUp, IInv, OutcomeEnds, Ended
  <2>2. Told' = Told
    BY <2>1 DEF Told
  <2>3. CASE streaming
    BY <2>1, <2>2, <2>3 DEF State, Stream!Next, Stream!Abandon
  <2>4. CASE ~streaming
    BY <2>1, <2>2, <2>4 DEF State
  <2> QED BY <2>3, <2>4
<1>2. CASE Keeps /\ Quiet
  BY <1>2 DEF Keeps, Quiet, Told, State, Ended
<1>3. CASE Keeps /\ ~streaming
  BY <1>3 DEF Keeps, Told, State
<1>4. CASE Keeps /\ streaming /\ Chunk
  BY <1>4, ChunkRefines, IInv DEF Stream!Next, IInv
<1>5. CASE Keeps /\ streaming /\ (Marker \/ Failure)
  BY <1>5, EndRefines, IInv DEF Stream!Next
<1> QED BY <1>1, <1>2, <1>3, <1>4, <1>5, Step DEF Step, Answered

\* Every stream of a chat completion, direct or over the agent transport, is a
\* CompletionStream: chunks of one source, at most one outcome, none after it,
\* and no completion of nothing (direct_chat and chat, ChatSseValidator).
THEOREM StreamCorrect == Spec => StreamSpec
<1>1. IInv /\ [Next]_vars => [Stream!Next]_<<[r \in {1} |-> Told], [r \in {1} |-> State]>>
  <2> SUFFICES ASSUME IInv, [Next]_vars
               PROVE  [Stream!Next]_<<[r \in {1} |-> Told], [r \in {1} |-> State]>>
    OBVIOUS
  <2>1. CASE Next
    BY <2>1, IInv, EveryStep, StepRefines DEF IInv
  <2>2. CASE UNCHANGED vars
    BY <2>2 DEF vars, Told, State, Ended
  <2> QED BY <2>1, <2>2
<1> QED BY <1>1, InitInv, NextInv, InitRefines, PTL DEF Spec, StreamSpec, Stream!Spec
-----------------------------------------------------------------------------
(* Induction and recursion *)

\* Every set of naturals has a least element.
LEMMA LeastElement ==
    ASSUME NEW S, S \subseteq Nat, S # {}
    PROVE  \E n \in S : \A m \in S : n <= m
<1> DEFINE R == {p \in Nat \X Nat : p[1] < p[2]}
<1>1. IsWellFoundedOn(R, Nat)
  BY NatLessThanWellFounded DEF OpToRel
<1>2. PICK n \in S : \A m \in S : <<m, n>> \notin R
  <2> HIDE DEF R
  <2> QED BY <1>1, WFMin
<1>3. ASSUME NEW m \in S, m < n PROVE FALSE
  <2>1. <<m, n>> \in R
    BY <1>3
  <2> HIDE DEF R
  <2> QED BY <1>2, <2>1
<1> QED BY <1>3

\* Induction over the naturals, from the least counterexample.
LEMMA Induction ==
    ASSUME NEW S, 0 \in S, \A i \in Nat : i \in S => i + 1 \in S
    PROVE  Nat \subseteq S
<1> SUFFICES ASSUME Nat \ S # {} PROVE FALSE
  OBVIOUS
<1>1. PICK n \in Nat \ S : \A m \in Nat \ S : n <= m
  BY LeastElement
<1>2. n # 0 /\ n - 1 \in Nat
  BY <1>1
<1>3. n - 1 \in S
  BY <1>1, <1>2
<1> QED BY <1>1, <1>2, <1>3

\* Induction over the sequences, by what is appended last.
LEMMA SequenceInduction ==
    ASSUME NEW X, NEW S, <<>> \in S,
           \A s \in Seq(X), x \in X : s \in S => Append(s, x) \in S
    PROVE  Seq(X) \subseteq S
<1> DEFINE N == {n \in Nat : \A s \in Seq(X) : Len(s) = n => s \in S}
<1>1. 0 \in N
  BY EmptySeq
<1>2. ASSUME NEW n \in Nat, n \in N PROVE n + 1 \in N
  <2>1. ASSUME NEW s \in Seq(X), Len(s) = n + 1 PROVE s \in S
    <3> DEFINE front == [i \in 1..n |-> s[i]]
    <3>1. front \in Seq(X) /\ Len(front) = n /\ s[n + 1] \in X
      BY <2>1
    <3>2. s = Append(front, s[n + 1])
      BY <2>1, <3>1
    <3>3. front \in S
      BY <1>2, <3>1
    <3> HIDE DEF front
    <3> QED BY <3>1, <3>2, <3>3
  <2> QED BY <2>1
<1>3. Nat \subseteq N
  <2> HIDE DEF N
  <2> QED BY <1>1, <1>2, Induction
<1>4. ASSUME NEW s \in Seq(X) PROVE s \in S
  <2>1. Len(s) \in N
    BY <1>3
  <2> QED BY <2>1
<1> QED BY <1>4

\* What T makes of d, one step after another.
Follows(f, d, T, D, n) == f \in [0..n -> D] /\ f[0] = d /\ \A i \in 1..n : f[i] = T[i][f[i - 1]]

\* A recursion that goes from each value on has a solution.
LEMMA Recursion ==
    ASSUME NEW D, NEW d \in D, NEW m \in Nat, NEW T \in [1..m -> [D -> D]]
    PROVE  \E f : Follows(f, d, T, D, m)
<1> DEFINE Solves(f, n) == Follows(f, d, T, D, n)
           S == {n \in Nat : n <= m => \E f : Solves(f, n)}
<1>1. 0 \in S
  <2>1. Solves([i \in 0..0 |-> d], 0)
    BY DEF Follows
  <2> HIDE DEF Solves
  <2> QED BY <2>1
<1>2. ASSUME NEW n \in Nat, n \in S PROVE n + 1 \in S
  <2> SUFFICES ASSUME n + 1 <= m PROVE \E f : Solves(f, n + 1)
    OBVIOUS
  <2>1. PICK f : Solves(f, n)
    BY <1>2
  <2>2. f \in [0..n -> D] /\ f[0] = d /\ (\A i \in 1..n : f[i] = T[i][f[i - 1]]) /\ T[n + 1][f[n]] \in D
    BY <2>1 DEF Follows
  <2> DEFINE g == [i \in 0..(n + 1) |-> IF i = n + 1 THEN T[n + 1][f[n]] ELSE f[i]]
  <2>3. g \in [0..(n + 1) -> D] /\ g[0] = d
    BY <2>2
  <2>4. ASSUME NEW i \in 1..(n + 1) PROVE g[i] = T[i][g[i - 1]]
    <3>1. CASE i = n + 1
      BY <3>1
    <3>2. CASE i \in 1..n
      <4>1. i - 1 # n + 1 /\ i # n + 1 /\ i \in 0..(n + 1) /\ i - 1 \in 0..(n + 1)
        BY <3>2
      <4> QED BY <2>2, <3>2, <4>1
    <3> QED BY <3>1, <3>2
  <2>5. Solves(g, n + 1)
    BY <2>3, <2>4 DEF Follows
  <2> HIDE DEF Solves, g
  <2> QED BY <2>5
<1>3. m \in S
  <2> HIDE DEF S
  <2> QED BY <1>1, <1>2, Induction
<1> QED BY <1>3

\* Two functions that begin alike and go on alike are alike.
LEMMA Alike ==
    ASSUME NEW f, NEW g, NEW m \in Nat, f[0] = g[0],
           \A i \in 1..m : f[i - 1] = g[i - 1] => f[i] = g[i]
    PROVE  f[m] = g[m]
<1> DEFINE S == {n \in Nat : n <= m => f[n] = g[n]}
<1>1. 0 \in S
  OBVIOUS
<1>2. ASSUME NEW n \in Nat, n \in S PROVE n + 1 \in S
  <2> SUFFICES ASSUME n + 1 <= m PROVE f[n + 1] = g[n + 1]
    OBVIOUS
  <2>1. n + 1 \in 1..m /\ f[(n + 1) - 1] = g[(n + 1) - 1]
    BY <1>2
  <2> QED BY <2>1
<1>3. m \in S
  <2> HIDE DEF S
  <2> QED BY <1>1, <1>2, Induction
<1> QED BY <1>3

\* What is appended to the second of two sequences is appended to both.
Appended(a, b, x) == Append(a \o b, x) = a \o Append(b, x)

LEMMA AppendLast ==
    ASSUME NEW X, NEW a \in Seq(X), NEW b \in Seq(X), NEW x \in X
    PROVE  Appended(a, b, x)
BY DEF Appended

-----------------------------------------------------------------------------
(* Lines out of bytes *)

Cuts == [lines : Seq(Seq(Tokens)), rest : Seq(Tokens)]

\* One byte more.
Cut(c, t) ==
    IF t = "nl" THEN [lines |-> Append(c.lines, c.rest), rest |-> <<>>]
    ELSE [lines |-> c.lines, rest |-> Append(c.rest, t)]

NoBytes == [lines |-> <<>>, rest |-> <<>>]

LEMMA CutType == ASSUME NEW c \in Cuts, NEW t \in Tokens PROVE Cut(c, t) \in Cuts
BY DEF Cut, Cuts

Splits(f, b) ==
    /\ f \in [0..Len(b) -> Cuts] /\ f[0] = NoBytes
    /\ \A i \in 1..Len(b) : f[i] = Cut(f[i - 1], b[i])

\* The recursion of Split has a solution.
LEMMA SplitDef ==
    ASSUME NEW b \in Seq(Tokens)
    PROVE  \E f : Splits(f, b) /\ Split(b) = f[Len(b)]
<1> DEFINE T == [i \in 1..Len(b) |-> [c \in Cuts |-> Cut(c, b[i])]]
           Solves(f) == f = [n \in 0..Len(b) |->
                               IF n = 0 THEN [lines |-> <<>>, rest |-> <<>>]
                               ELSE IF b[n] = "nl"
                               THEN [lines |-> Append(f[n - 1].lines, f[n - 1].rest), rest |-> <<>>]
                               ELSE [lines |-> f[n - 1].lines, rest |-> Append(f[n - 1].rest, b[n])]]
<1>1. NoBytes \in Cuts /\ Len(b) \in Nat
  BY DEF NoBytes, Cuts
<1>2. T \in [1..Len(b) -> [Cuts -> Cuts]]
  <2>1. \A i \in 1..Len(b) : b[i] \in Tokens
    OBVIOUS
  <2> QED BY <2>1, CutType
<1>3. \E f : Follows(f, NoBytes, T, Cuts, Len(b))
  <2> HIDE DEF T
  <2> QED BY <1>1, <1>2, Recursion
<1>3a. PICK f \in [0..Len(b) -> Cuts] : f[0] = NoBytes /\ \A i \in 1..Len(b) : f[i] = T[i][f[i - 1]]
  <2> HIDE DEF T
  <2> QED BY <1>3 DEF Follows
<1>4. ASSUME NEW i \in 1..Len(b) PROVE f[i] = Cut(f[i - 1], b[i])
  <2>1. f[i - 1] \in Cuts
    BY <1>3a
  <2> QED BY <1>3a, <2>1
<1>5. Solves(f)
  <2>1. f = [n \in 0..Len(b) |-> f[n]]
    BY <1>3a
  <2>2. ASSUME NEW n \in 0..Len(b), n # 0 PROVE n \in 1..Len(b)
    BY <1>1, <2>2
  <2>3. \A n \in 0..Len(b) : f[n] = 
              IF n = 0 THEN [lines |-> <<>>, rest |-> <<>>]
              ELSE IF b[n] = "nl"
              THEN [lines |-> Append(f[n - 1].lines, f[n - 1].rest), rest |-> <<>>]
              ELSE [lines |-> f[n - 1].lines, rest |-> Append(f[n - 1].rest, b[n])]
    BY <1>3a, <1>4, <2>2 DEF Cut, NoBytes
  <2> QED BY <2>1, <2>3
<1>6. PICK g : Solves(g) /\ Split(b) = g[Len(b)]
  <2>1. \E g : Solves(g)
    <3> HIDE DEF Solves
    <3> QED BY <1>5
  <2>2. Split(b) = (CHOOSE g : Solves(g))[Len(b)]
    BY DEF Split
  <2> HIDE DEF Solves
  <2> QED BY <2>1, <2>2
<1>7. g[0] = NoBytes
  BY <1>1, <1>6, SMTT(30) DEF NoBytes
<1>8. ASSUME NEW i \in 1..Len(b) PROVE g[i] = Cut(g[i - 1], b[i])
  <2>1. i \in 0..Len(b) /\ i # 0
    BY <1>1
  <2> QED BY <1>6, <2>1 DEF Cut, NoBytes
<1>9. g[Len(b)] = f[Len(b)]
  <2>1. g[0] = f[0] /\ \A i \in 1..Len(b) : g[i - 1] = f[i - 1] => g[i] = f[i]
    BY <1>3a, <1>4, <1>7, <1>8
  <2> HIDE DEF Solves
  <2> QED BY <1>1, <2>1, Alike
<1> QED BY <1>3a, <1>4, <1>6, <1>9 DEF Splits

LEMMA SplitAppend ==
    ASSUME NEW b \in Seq(Tokens), NEW t \in Tokens
    PROVE  /\ Split(b) \in Cuts
           /\ Split(Append(b, t)) = Cut(Split(b), t)
<1> DEFINE bt == Append(b, t)
<1>1. bt \in Seq(Tokens) /\ Len(bt) = Len(b) + 1 /\ Len(b) \in Nat /\ bt[Len(b) + 1] = t
      /\ \A i \in 1..Len(b) : bt[i] = b[i]
  OBVIOUS
<1>2. PICK f : Splits(f, b) /\ Split(b) = f[Len(b)]
  BY SplitDef
<1> HIDE DEF bt
<1>3. PICK g : Splits(g, bt) /\ Split(bt) = g[Len(bt)]
  BY <1>1, SplitDef
<1>4. f[0] = g[0] /\ \A i \in 1..Len(b) : f[i - 1] = g[i - 1] => f[i] = g[i]
  BY <1>1, <1>2, <1>3 DEF Splits
<1>5. f[Len(b)] = g[Len(b)]
  BY <1>1, <1>4, Alike
<1>6. g[Len(b) + 1] = Cut(g[Len(b)], t)
  BY <1>1, <1>3 DEF Splits
<1> QED BY <1>1, <1>2, <1>3, <1>5, <1>6 DEF Splits, bt

LEMMA SplitNothing == Split(<<>>) = NoBytes
<1>1. PICK f : Splits(f, <<>>) /\ Split(<<>>) = f[0]
  <2>1. <<>> \in Seq(Tokens) /\ Len(<<>>) = 0
    OBVIOUS
  <2> QED BY <2>1, SplitDef
<1> QED BY <1>1 DEF Splits

\* An unfinished line has no end in it.
LEMMA RestUnfinished ==
    ASSUME NEW b \in Seq(Tokens)
    PROVE  Split(Split(b).rest) = [lines |-> <<>>, rest |-> Split(b).rest]
<1> DEFINE S == {s \in Seq(Tokens) : Split(Split(s).rest) = [lines |-> <<>>, rest |-> Split(s).rest]}
<1>1. <<>> \in S
  BY SplitNothing, EmptySeq DEF NoBytes
<1>2. ASSUME NEW s \in Seq(Tokens), NEW t \in Tokens, s \in S PROVE Append(s, t) \in S
  <2>1. /\ Split(Append(s, t)) = Cut(Split(s), t) /\ Split(s) \in Cuts
        /\ Append(s, t) \in Seq(Tokens)
    BY SplitAppend
  <2>2. CASE t = "nl"
    BY <2>1, <2>2, SplitNothing DEF Cut, NoBytes
  <2>3. CASE t # "nl"
    <3>1. Split(s).rest \in Seq(Tokens)
      BY <2>1 DEF Cuts
    <3>2. Split(Append(Split(s).rest, t)) = Cut(Split(Split(s).rest), t)
      BY <3>1, SplitAppend
    <3>3. Split(Append(s, t)).rest = Append(Split(s).rest, t)
      BY <2>1, <2>3 DEF Cut
    <3>4. Split(Split(s).rest) = [lines |-> <<>>, rest |-> Split(s).rest]
      BY <1>2
    <3>5. Cut(Split(Split(s).rest), t) = [lines |-> <<>>, rest |-> Append(Split(s).rest, t)]
      BY <2>3, <3>4 DEF Cut
    <3> QED BY <2>1, <3>2, <3>3, <3>5
  <2> QED BY <2>2, <2>3
<1>3. Seq(Tokens) \subseteq S
  <2> HIDE DEF S
  <2> QED BY <1>1, <1>2, SequenceInduction
<1> QED BY <1>3

\* What is kept of an unfinished line stands for all the bytes before.
LEMMA SplitOn ==
    ASSUME NEW a \in Seq(Tokens), NEW b \in Seq(Tokens)
    PROVE  Split(a \o b) = [lines |-> Split(a).lines \o Split(Split(a).rest \o b).lines,
                            rest |-> Split(Split(a).rest \o b).rest]
<1> DEFINE r == Split(a).rest
           l == Split(a).lines
           On(x) == Split(a \o x) = [lines |-> l \o Split(r \o x).lines, rest |-> Split(r \o x).rest]
           S == {x \in Seq(Tokens) : On(x)}
<1>1. r \in Seq(Tokens) /\ l \in Seq(Seq(Tokens)) /\ Split(a) = [lines |-> l, rest |-> r]
  BY SplitAppend DEF Cuts, Tokens
<1>2. Split(r) = [lines |-> <<>>, rest |-> r]
  BY RestUnfinished
<1> HIDE DEF r, l
<1>3. <<>> \in S
  <2>1. a \o <<>> = a /\ r \o <<>> = r /\ l \o <<>> = l
    BY <1>1
  <2> QED BY <1>1, <1>2, <2>1, EmptySeq
<1>4. ASSUME NEW x \in Seq(Tokens), NEW t \in Tokens, x \in S PROVE Append(x, t) \in S
  <2>1. a \o Append(x, t) = Append(a \o x, t) /\ r \o Append(x, t) = Append(r \o x, t)
        /\ a \o x \in Seq(Tokens) /\ r \o x \in Seq(Tokens)
    BY <1>1
  <2>2. PICK y \in Cuts : y = Split(r \o x)
    BY <2>1, SplitAppend
  <2>3. Split(a \o x) = [lines |-> l \o y.lines, rest |-> y.rest]
    BY <1>4, <2>2
  <2>4. Split(a \o Append(x, t)) = Cut([lines |-> l \o y.lines, rest |-> y.rest], t)
        /\ Split(r \o Append(x, t)) = Cut(y, t)
    BY <2>1, <2>2, <2>3, SplitAppend
  <2>5. Append(l \o y.lines, y.rest) = l \o Append(y.lines, y.rest)
    <3>1. y.lines \in Seq(Seq(Tokens)) /\ y.rest \in Seq(Tokens)
      BY DEF Cuts
    <3>2. Appended(l, y.lines, y.rest)
      BY <3>1, <1>1, AppendLast
    <3> QED BY <3>2 DEF Appended
  <2>6. Cut([lines |-> l \o y.lines, rest |-> y.rest], t)
          = [lines |-> l \o Cut(y, t).lines, rest |-> Cut(y, t).rest]
    BY <2>5 DEF Cut
  <2>7. On(Append(x, t))
    BY <2>4, <2>6, Zenon
  <2> QED BY <2>7
<1>5. Seq(Tokens) \subseteq S
  <2> HIDE DEF S
  <2> QED BY <1>3, <1>4, SequenceInduction
<1> QED BY <1>1, <1>5 DEF r, l

-----------------------------------------------------------------------------
(* Kinds out of lines *)

KindsOf == Tokens \cup {"blank", "malformed"}

LEMMA KindType == ASSUME NEW line \in Seq(Tokens) PROVE Kind(line) \in KindsOf
<1> DEFINE said == {i \in DOMAIN line : line[i] # "cr"}
<1>1. CASE said # {}
  <2>1. (CHOOSE i \in said : TRUE) \in said
    BY <1>1
  <2>2. line[CHOOSE i \in said : TRUE] \in Tokens
    BY <2>1
  <2> QED BY <2>2 DEF Kind, KindsOf
<1>2. CASE said = {}
  BY <1>2 DEF Kind, KindsOf
<1> QED BY <1>1, <1>2

\* One line more.
Heard(told, kind) == IF kind = "blank" THEN told ELSE Append(told, kind)

Hears(f, ls) ==
    /\ f \in [0..Len(ls) -> Seq(KindsOf)] /\ f[0] = <<>>
    /\ \A i \in 1..Len(ls) : f[i] = Heard(f[i - 1], Kind(ls[i]))

\* The recursion of Kinds has a solution.
LEMMA KindsDef ==
    ASSUME NEW ls \in Seq(Seq(Tokens))
    PROVE  \E f : Hears(f, ls) /\ Kinds(ls) = f[Len(ls)]
<1> DEFINE T == [i \in 1..Len(ls) |-> [c \in Seq(KindsOf) |-> Heard(c, Kind(ls[i]))]]
           Solves(f) == f = [n \in 0..Len(ls) |->
                               IF n = 0 THEN <<>>
                               ELSE IF Kind(ls[n]) = "blank" THEN f[n - 1]
                               ELSE Append(f[n - 1], Kind(ls[n]))]
<1>1. <<>> \in Seq(KindsOf) /\ Len(ls) \in Nat
  OBVIOUS
<1>2. T \in [1..Len(ls) -> [Seq(KindsOf) -> Seq(KindsOf)]]
  <2>1. \A i \in 1..Len(ls) : Kind(ls[i]) \in KindsOf
    BY KindType
  <2>2. \A i \in 1..Len(ls), c \in Seq(KindsOf) : Heard(c, Kind(ls[i])) \in Seq(KindsOf)
    BY <2>1 DEF Heard
  <2> QED BY <2>2
<1>3. \E f : Follows(f, <<>>, T, Seq(KindsOf), Len(ls))
  <2> HIDE DEF T
  <2> QED BY <1>1, <1>2, Recursion
<1>3a. PICK f \in [0..Len(ls) -> Seq(KindsOf)] : f[0] = <<>> /\ \A i \in 1..Len(ls) : f[i] = T[i][f[i - 1]]
  <2> HIDE DEF T
  <2> QED BY <1>3 DEF Follows
<1>4. ASSUME NEW i \in 1..Len(ls) PROVE f[i] = Heard(f[i - 1], Kind(ls[i]))
  <2>1. i - 1 \in 0..Len(ls)
    BY <1>1
  <2>2. f[i - 1] \in Seq(KindsOf)
    BY <1>3a, <2>1
  <2> QED BY <1>3a, <2>2
<1>5. Solves(f)
  <2>1. f = [n \in 0..Len(ls) |-> f[n]]
    BY <1>3a
  <2>2. ASSUME NEW n \in 0..Len(ls), n # 0 PROVE n \in 1..Len(ls)
    BY <1>1, <2>2
  <2>3. \A n \in 0..Len(ls) : f[n] = 
              IF n = 0 THEN <<>>
              ELSE IF Kind(ls[n]) = "blank" THEN f[n - 1]
              ELSE Append(f[n - 1], Kind(ls[n]))
    BY <1>3a, <1>4, <2>2 DEF Heard
  <2> QED BY <2>1, <2>3
<1>6. PICK g : Solves(g) /\ Kinds(ls) = g[Len(ls)]
  <2>1. \E g : Solves(g)
    <3> HIDE DEF Solves
    <3> QED BY <1>5
  <2>2. Kinds(ls) = (CHOOSE g : Solves(g))[Len(ls)]
    BY DEF Kinds
  <2> HIDE DEF Solves
  <2> QED BY <2>1, <2>2
<1>7. g[0] = <<>>
  BY <1>1, <1>6
<1>8. ASSUME NEW i \in 1..Len(ls) PROVE g[i] = Heard(g[i - 1], Kind(ls[i]))
  <2>1. i \in 0..Len(ls) /\ i # 0
    BY <1>1
  <2> QED BY <1>6, <2>1 DEF Heard
<1>9. g[Len(ls)] = f[Len(ls)]
  <2>1. g[0] = f[0] /\ \A i \in 1..Len(ls) : g[i - 1] = f[i - 1] => g[i] = f[i]
    BY <1>3a, <1>4, <1>7, <1>8
  <2> HIDE DEF Solves
  <2> QED BY <1>1, <2>1, Alike
<1> QED BY <1>3a, <1>4, <1>6, <1>9 DEF Hears

LEMMA KindsAppend ==
    ASSUME NEW ls \in Seq(Seq(Tokens)), NEW l \in Seq(Tokens)
    PROVE  Kinds(ls) \in Seq(KindsOf) /\ Kinds(Append(ls, l)) = Heard(Kinds(ls), Kind(l))
<1> DEFINE more == Append(ls, l)
<1>1. more \in Seq(Seq(Tokens)) /\ Len(more) = Len(ls) + 1 /\ Len(ls) \in Nat /\ more[Len(ls) + 1] = l
      /\ \A i \in 1..Len(ls) : more[i] = ls[i]
  OBVIOUS
<1>2. PICK f : Hears(f, ls) /\ Kinds(ls) = f[Len(ls)]
  BY KindsDef
<1> HIDE DEF more
<1>3. PICK g : Hears(g, more) /\ Kinds(more) = g[Len(more)]
  BY <1>1, KindsDef
<1>4. f[0] = g[0] /\ \A i \in 1..Len(ls) : f[i - 1] = g[i - 1] => f[i] = g[i]
  BY <1>1, <1>2, <1>3 DEF Hears
<1>5. f[Len(ls)] = g[Len(ls)]
  BY <1>1, <1>4, Alike
<1>6. g[Len(ls) + 1] = Heard(g[Len(ls)], Kind(l))
  <2>1. Len(ls) + 1 \in 1..Len(more) /\ (Len(ls) + 1) - 1 = Len(ls)
    BY <1>1
  <2>2. \A i \in 1..Len(more) : g[i] = Heard(g[i - 1], Kind(more[i]))
    BY <1>3 DEF Hears
  <2>3. g[Len(ls) + 1] = Heard(g[(Len(ls) + 1) - 1], Kind(more[Len(ls) + 1]))
    BY <2>1, <2>2, Zenon
  <2> QED BY <1>1, <2>1, <2>3
<1> QED BY <1>1, <1>2, <1>3, <1>5, <1>6 DEF Hears, more

LEMMA KindsNothing == Kinds(<<>>) = <<>>
<1>1. PICK f : Hears(f, <<>>) /\ Kinds(<<>>) = f[0]
  <2>1. <<>> \in Seq(Seq(Tokens)) /\ Len(<<>>) = 0
    OBVIOUS
  <2> QED BY <2>1, KindsDef
<1> QED BY <1>1 DEF Hears

LEMMA KindsOn ==
    ASSUME NEW a \in Seq(Seq(Tokens)), NEW b \in Seq(Seq(Tokens))
    PROVE  Kinds(a \o b) = Kinds(a) \o Kinds(b)
<1> DEFINE S == {x \in Seq(Seq(Tokens)) : Kinds(a \o x) = Kinds(a) \o Kinds(x)}
<1>1. Kinds(a) \in Seq(KindsOf)
  BY KindsAppend, EmptySeq
<1>2. <<>> \in S
  <2>1. a \o <<>> = a /\ Kinds(a) \o <<>> = Kinds(a)
    BY <1>1
  <2> QED BY <2>1, KindsNothing, EmptySeq
<1>3. ASSUME NEW x \in Seq(Seq(Tokens)), NEW l \in Seq(Tokens), x \in S PROVE Append(x, l) \in S
  <2>1. a \o Append(x, l) = Append(a \o x, l) /\ a \o x \in Seq(Seq(Tokens))
    OBVIOUS
  <2>2. PICK ks \in Seq(KindsOf) : ks = Kinds(a)
    BY <1>1
  <2>3. PICK xs \in Seq(KindsOf) : xs = Kinds(x)
    BY KindsAppend, EmptySeq
  <2>4. PICK k \in KindsOf : k = Kind(l)
    BY KindType
  <2>5. Kinds(a \o Append(x, l)) = Heard(ks \o xs, k) /\ Kinds(Append(x, l)) = Heard(xs, k)
    BY <2>1, <2>2, <2>3, <2>4, <1>3, KindsAppend
  <2>6. Heard(ks \o xs, k) = ks \o Heard(xs, k)
    <3>1. Appended(ks, xs, k)
      BY AppendLast
    <3> QED BY <3>1 DEF Appended, Heard
  <2> QED BY <2>2, <2>5, <2>6
<1>4. Seq(Seq(Tokens)) \subseteq S
  <2> HIDE DEF S
  <2> QED BY <1>2, <1>3, SequenceInduction
<1> QED BY <1>4

-----------------------------------------------------------------------------
(* What kinds of lines amount to *)

Stops(k) == k \in {"done", "error", "malformed"}
Goes(ks) == \A i \in DOMAIN ks : ~Stops(ks[i])
HasFinish(ks) == \E i \in DOMAIN ks : ks[i] = "finish"

LEMMA VerdictGoes ==
    ASSUME NEW ks \in Seq(KindsOf), Goes(ks), NEW end
    PROVE  Verdict(ks, end) = IF end THEN Append(ks, "failed") ELSE ks
BY DEF Verdict, Goes, Stops

\* The first that ends the stream.
FirstStop(ks, i) == i \in DOMAIN ks /\ Stops(ks[i]) /\ \A j \in 1..(i - 1) : ~Stops(ks[j])

LEMMA FirstStopExists ==
    ASSUME NEW ks \in Seq(KindsOf), ~Goes(ks)
    PROVE  \E i : FirstStop(ks, i)
<1> DEFINE S == {i \in DOMAIN ks : Stops(ks[i])}
<1>1. S \subseteq Nat /\ S # {}
  BY DEF Goes
<1>2. PICK i \in S : \A j \in S : i <= j
  <2> HIDE DEF S
  <2> QED BY <1>1, LeastElement
<1>3. \A j \in 1..(i - 1) : ~Stops(ks[j])
  BY <1>1, <1>2
<1> QED BY <1>2, <1>3 DEF FirstStop

LEMMA VerdictStops ==
    ASSUME NEW ks \in Seq(KindsOf), NEW n, FirstStop(ks, n), NEW end
    PROVE  Verdict(ks, end) =
             Append(SubSeq(ks, 1, n - 1),
                    IF ks[n] = "done" /\ (\E i \in 1..(n - 1) : ks[i] = "finish") THEN "done" ELSE "failed")
<1> DEFINE last == CHOOSE i \in DOMAIN ks : Stops(ks[i]) /\ \A j \in 1..(i - 1) : ~Stops(ks[j])
<1>1. FirstStop(ks, last)
  BY DEF FirstStop
<1>2. ASSUME NEW m, FirstStop(ks, m) PROVE m = n
  <2>1. m \in 1..Len(ks) /\ n \in 1..Len(ks) /\ Len(ks) \in Nat
    BY <1>2 DEF FirstStop
  <2>2. ~(m < n) /\ ~(n < m)
    BY <1>2, <2>1 DEF FirstStop
  <2> QED BY <2>1, <2>2
<1>3. last = n
  <2> HIDE DEF last
  <2> QED BY <1>1, <1>2
<1>4. \E i \in DOMAIN ks : Stops(ks[i])
  BY DEF FirstStop
<1>5. Verdict(ks, end) =
             Append(SubSeq(ks, 1, last - 1),
                    IF ks[last] = "done" /\ (\E i \in 1..(last - 1) : ks[i] = "finish") THEN "done" ELSE "failed")
  BY <1>4 DEF Verdict, Stops
<1> QED BY <1>3, <1>5

\* A line that ends the stream decides, whatever comes after it.
LEMMA VerdictAt ==
    ASSUME NEW ks \in Seq(KindsOf), Goes(ks), NEW k \in KindsOf, Stops(k),
           NEW more \in Seq(KindsOf), NEW end
    PROVE  Verdict(Append(ks, k) \o more, end)
             = Append(ks, IF k = "done" /\ HasFinish(ks) THEN "done" ELSE "failed")
<1> DEFINE all == Append(ks, k) \o more
<1>1. PICK n \in Nat : n = Len(ks)
  OBVIOUS
<1>2. /\ all \in Seq(KindsOf) /\ n + 1 \in DOMAIN all /\ all[n + 1] = k
      /\ \A i \in 1..n : all[i] = ks[i] /\ i \in DOMAIN ks
      /\ Len(all) \in Nat /\ n + 1 <= Len(all)
  BY <1>1
<1>3. SubSeq(all, 1, n) = ks
  BY <1>1, <1>2
<1> HIDE DEF all
<1>4. FirstStop(all, n + 1)
  BY <1>2 DEF FirstStop, Goes
<1>5. Verdict(all, end) = Append(SubSeq(all, 1, (n + 1) - 1),
          IF all[n + 1] = "done" /\ (\E i \in 1..((n + 1) - 1) : all[i] = "finish") THEN "done" ELSE "failed")
  BY <1>2, <1>4, VerdictStops
<1>6. (\E i \in 1..n : all[i] = "finish") <=> HasFinish(ks)
  BY <1>1, <1>2, SMTT(30) DEF HasFinish
<1>7. (n + 1) - 1 = n
  OBVIOUS
<1> QED BY <1>2, <1>3, <1>5, <1>6, <1>7 DEF all

\* What is told while the stream goes on stays told.
LEMMA VerdictKeeps ==
    ASSUME NEW ks \in Seq(KindsOf), Goes(ks), NEW more \in Seq(KindsOf), NEW end, NEW i \in DOMAIN ks
    PROVE  i \in DOMAIN Verdict(ks \o more, end) /\ Verdict(ks \o more, end)[i] = ks[i]
<1> DEFINE all == ks \o more
<1>1. /\ all \in Seq(KindsOf) /\ Len(all) \in Nat /\ Len(ks) \in Nat /\ Len(ks) <= Len(all)
      /\ \A j \in 1..Len(ks) : all[j] = ks[j]
      /\ i \in 1..Len(ks)
  OBVIOUS
<1> HIDE DEF all
<1>2. CASE Goes(all)
  <2>1. Verdict(all, end) = IF end THEN Append(all, "failed") ELSE all
    BY <1>1, <1>2, VerdictGoes
  <2>2. i \in DOMAIN all /\ i \in DOMAIN Append(all, "failed") /\ Append(all, "failed")[i] = all[i]
    BY <1>1
  <2> QED BY <1>1, <2>1, <2>2 DEF all
<1>3. CASE ~Goes(all)
  <2>1. PICK n : FirstStop(all, n)
    BY <1>1, <1>3, FirstStopExists
  <2>2. n \in 1..Len(all) /\ ~(n <= Len(ks))
    BY <1>1, <2>1 DEF FirstStop, Goes
  <2>3. SubSeq(all, 1, n - 1) \in Seq(KindsOf) /\ Len(SubSeq(all, 1, n - 1)) = n - 1
        /\ SubSeq(all, 1, n - 1)[i] = all[i] /\ i \in 1..(n - 1) /\ n - 1 \in Nat
    BY <1>1, <2>2
  <2>4. PICK o : Verdict(all, end) = Append(SubSeq(all, 1, n - 1), o)
    BY <1>1, <2>1, VerdictStops
  <2> QED BY <1>1, <2>3, <2>4 DEF all
<1> QED BY <1>2, <1>3

-----------------------------------------------------------------------------
(* The types *)

\* TypeOK without what IInv says.
Types ==
    /\ phase \in {"call", "send", "read", "lines", "finish", "over"}
    /\ buffer \in Seq(Tokens) /\ Len(buffer) <= MaxBuffer
    /\ lines \in Seq(Seq(Tokens)) /\ bytes \in Seq(Tokens)
    /\ closed \in BOOLEAN /\ saw_terminal \in BOOLEAN
    /\ output \in 0..MaxOutput

LEMMA TypesNext == Types /\ [Next]_vars => Types'
<1> SUFFICES ASSUME Types, [Next]_vars PROVE Types'
  OBVIOUS
<1> USE ChatAssumption
<1>1. CASE Call \/ Send \/ Break \/ AcpFails
  BY <1>1 DEF Call, Send, Break, AcpFails, Fail, Types
<1>2. CASE HangUp \/ NoLines \/ AcpCompleted \/ AcpDone
  BY <1>2 DEF HangUp, NoLines, AcpCompleted, AcpDone, Fail, Types
<1>3. CASE Collect \/ Collected \/ AcpText
  <2>1. output \in Nat /\ output <= MaxOutput /\ MaxOutput \in Nat
    BY DEF Types
  <2>2. output' \in 0..MaxOutput
    <3>1. output' = output \/ (output' = output + 1 /\ output # MaxOutput)
      <4>1. CASE Collect \/ Collected
        BY <4>1 DEF Collect, Collected
      <4>2. CASE AcpText
        BY <2>1, <4>2 DEF AcpText
      <4> QED BY <1>3, <4>1, <4>2
    <3> QED BY <2>1, <3>1
  <2> QED BY <1>3, <2>2 DEF Collect, Collected, AcpText, Fail, Types
<1>4. ASSUME NEW chunk \in Chunks, Arrive(chunk) PROVE Types'
  <2>1. chunk \in Seq(Tokens)
    BY DEF Chunks
  <2>2. buffer \o chunk \in Seq(Tokens) /\ bytes \o chunk \in Seq(Tokens)
    BY <2>1 DEF Types
  <2>3. PICK c \in Cuts : c = Split(buffer \o chunk)
    BY <2>2, SplitAppend DEF Tokens
  <2>4. Take(c) /\ bytes' \in Seq(Tokens) /\ UNCHANGED <<closed, saw_terminal, output>>
    BY <1>4, <2>2, <2>3 DEF Arrive, Push
  <2>5. CASE TooLong(c)
    <3>1. phase' = "over" /\ buffer' = <<>> /\ lines' = lines
      BY <2>4, <2>5 DEF Take, Fail
    <3> QED BY <2>4, <3>1 DEF Types
  <2>6. CASE ~TooLong(c)
    BY <2>4, <2>6 DEF Take, TooLong, Cuts, Types
  <2> QED BY <2>5, <2>6
<1>5. CASE Line
  <2>1. PICK kind : Check(kind) /\ lines # <<>> /\ lines' = Tail(lines)
                    /\ UNCHANGED <<buffer, closed, output, bytes>>
    BY <1>5 DEF Line
  <2>2. lines' \in Seq(Seq(Tokens))
    BY <2>1 DEF Types
  <2>3. /\ phase' \in {"call", "send", "read", "lines", "finish", "over"}
        /\ saw_terminal' \in BOOLEAN
    BY <2>1 DEF Check, Fail, Types
  <2> QED BY <2>1, <2>2, <2>3 DEF Types
<1>6. CASE Close
  <2>1. lines' \in Seq(Seq(Tokens)) /\ buffer' \in Seq(Tokens) /\ Len(buffer') = 0
    BY <1>6 DEF Close, Types
  <2> QED BY <1>6, <2>1 DEF Close, Types
<1>7. CASE UNCHANGED vars
  BY <1>7 DEF vars, Types
<1> QED BY <1>1, <1>2, <1>3, <1>4, <1>5, <1>6, <1>7 DEF Next

LEMMA TypesInit == Init => Types
<1>1. <<>> \in Seq(Tokens) /\ <<>> \in Seq(Seq(Tokens)) /\ Len(<<>>) = 0
  OBVIOUS
<1>2. 0 <= MaxBuffer /\ 0 \in 0..MaxOutput
  BY ChatAssumption
<1> SUFFICES ASSUME Init PROVE Types
  OBVIOUS
<1> QED BY <1>1, <1>2 DEF Init, Types

\* TypeOK: whatever arrives, the decoder's buffer keeps to MAX_SSE_BUFFER_BYTES
\* whenever the generator waits, and what is collected or streamed to its own
\* limit (SseDecoder::push, bounded_upstream_bytes).
THEOREM TypeCorrect == Spec => []TypeOK
<1>1. IInv /\ Types => TypeOK
  BY DEF IInv, OutcomeEnds, Types, TypeOK, Items
<1> QED BY <1>1, InitInv, NextInv, TypesInit, TypesNext, PTL DEF Spec

-----------------------------------------------------------------------------
(* However the bytes are cut *)

Direct == source = "direct" /\ streaming

\* What has been told is what the lines before those at hand amount to, and the
\* stream goes on.
Untold == phase \in {"call", "send"} => bytes = <<>> /\ sent = <<>> /\ buffer = <<>> /\ ~closed
Waits  == phase = "read" => ~closed /\ buffer = Split(bytes).rest /\ sent = Kinds(Split(bytes).lines)
InLines ==
    phase = "lines" =>
       /\ ~closed => buffer = Split(bytes).rest
       /\ \E before \in Seq(Seq(Tokens)) :
             AllLines(bytes, closed) = before \o lines /\ sent = Kinds(before)
GoesOn ==
    phase # "over" => /\ Goes(sent) /\ sent \in Seq(KindsOf) /\ phase # "finish"
                      /\ saw_terminal <=> HasFinish(sent)

CutInv ==
    Direct => /\ Untold /\ Waits /\ InLines /\ GoesOn
              /\ phase = "over" => CutAnywhere

LEMMA CutInit == Init => CutInv
<1>1. Goes(<<>>) /\ ~HasFinish(<<>>)
  BY DEF Goes, HasFinish
<1> QED BY <1>1 DEF Init, CutInv, Untold, Waits, InLines, GoesOn

\* One more that is told goes on, or does not.
LEMMA GoesOnWith ==
    ASSUME NEW ks \in Seq(KindsOf), Goes(ks), NEW k \in KindsOf, ~Stops(k)
    PROVE  Goes(Append(ks, k)) /\ (HasFinish(Append(ks, k)) <=> HasFinish(ks) \/ k = "finish")
<1>1. PICK n \in Nat : n = Len(ks)
  OBVIOUS
<1>2. /\ DOMAIN Append(ks, k) = 1..(n + 1) /\ Append(ks, k)[n + 1] = k /\ DOMAIN ks = 1..n
      /\ \A i \in 1..n : Append(ks, k)[i] = ks[i]
  BY <1>1
<1>3. \A i \in 1..(n + 1) : i \in 1..n \/ i = n + 1
  OBVIOUS
<1> QED BY <1>2, <1>3 DEF Goes, HasFinish

LEMMA LinesType ==
    ASSUME NEW b \in Seq(Tokens), NEW end
    PROVE  /\ Split(b) \in Cuts /\ AllLines(b, end) \in Seq(Seq(Tokens))
           /\ Kinds(AllLines(b, end)) \in Seq(KindsOf)
<1>1. PICK c \in Cuts : c = Split(b)
  BY SplitAppend DEF Tokens
<1>2. AllLines(b, end) \in Seq(Seq(Tokens))
  BY <1>1 DEF AllLines, Cuts
<1> QED BY <1>1, <1>2, KindsAppend, EmptySeq

\* What goes on is told for good, and a failure after it breaks it off.
LEMMA CutWhile ==
    ASSUME NEW b \in Seq(Tokens), NEW end \in BOOLEAN, NEW before \in Seq(Seq(Tokens)),
           NEW after \in Seq(Seq(Tokens)),
           AllLines(b, end) = before \o after, Goes(Kinds(before))
    PROVE  /\ Whole(b, end) = Verdict(Kinds(before) \o Kinds(after), end)
           /\ \A i \in DOMAIN Kinds(before) :
                 i \in DOMAIN Whole(b, end) /\ Kinds(before)[i] = Whole(b, end)[i]
<1>1. Kinds(before) \in Seq(KindsOf) /\ Kinds(after) \in Seq(KindsOf)
  BY KindsAppend, EmptySeq
<1>2. Whole(b, end) = Verdict(Kinds(before) \o Kinds(after), end)
  BY KindsOn DEF Whole
<1> QED BY <1>1, <1>2, VerdictKeeps

LEMMA LinesOpen ==
    ASSUME NEW b \in Seq(Tokens)
    PROVE  AllLines(b, FALSE) = Split(b).lines
BY DEF AllLines

\* Wherever a stream that goes on stands, it has told the first of the lines.
LEMMA StillGoing ==
    ASSUME Types, CutInv, Direct, phase # "over"
    PROVE  \E before, after \in Seq(Seq(Tokens)) :
              /\ AllLines(bytes, closed) = before \o after
              /\ sent = Kinds(before) /\ Goes(Kinds(before))
<1>1. CASE phase \in {"call", "send"}
  <2>1. Split(<<>>).lines = <<>> /\ <<>> \in Seq(Tokens)
    BY SplitNothing DEF NoBytes
  <2>2. AllLines(bytes, closed) = <<>> /\ sent = <<>>
    BY <1>1, <2>1, LinesOpen DEF CutInv, Untold, Types
  <2>3. <<>> \in Seq(Seq(Tokens)) /\ <<>> = <<>> \o <<>>
    OBVIOUS
  <2> QED BY <1>1, <2>2, <2>3, KindsNothing DEF CutInv, GoesOn
<1>2. CASE phase = "read"
  <2>1. PICK before \in Seq(Seq(Tokens)) : before = Split(bytes).lines
    BY LinesType DEF Types, Cuts
  <2>2. AllLines(bytes, closed) = before /\ sent = Kinds(before)
    BY <1>2, <2>1, LinesOpen DEF CutInv, Waits, Types
  <2>3. <<>> \in Seq(Seq(Tokens)) /\ before = before \o <<>>
    OBVIOUS
  <2> QED BY <1>2, <2>2, <2>3 DEF CutInv, GoesOn
<1>3. CASE phase = "lines"
  <2>1. PICK before \in Seq(Seq(Tokens)) :
          AllLines(bytes, closed) = before \o lines /\ sent = Kinds(before)
    BY <1>3 DEF CutInv, InLines
  <2> QED BY <1>3, <2>1 DEF CutInv, GoesOn, Types
<1> QED BY <1>1, <1>2, <1>3 DEF Types, CutInv, GoesOn

\* What goes on may break off at any time.
LEMMA BreaksOff ==
    ASSUME Types, CutInv, Direct, phase # "over", sent' = sent \/ sent' = Append(sent, "failed"),
           UNCHANGED <<source, streaming, bytes, closed>>, phase' = "over",
           ~closed \/ client' # "reading"
    PROVE  CutInv'
<1>1. PICK before, after \in Seq(Seq(Tokens)) :
              /\ AllLines(bytes, closed) = before \o after
              /\ sent = Kinds(before) /\ Goes(Kinds(before))
  BY StillGoing
<1>2. sent \in Seq(KindsOf)
  BY <1>1, KindsAppend, EmptySeq
<1>3. \A i \in DOMAIN sent : i \in DOMAIN Whole(bytes, closed) /\ sent[i] = Whole(bytes, closed)[i]
  BY <1>1, CutWhile DEF Types
<1>4. ASSUME NEW i \in DOMAIN sent', sent'[i] # "failed" PROVE i \in DOMAIN sent /\ sent'[i] = sent[i]
  <2>1. CASE sent' = Append(sent, "failed")
    BY <1>2, <1>4, <2>1, SMTT(30)
  <2> QED BY <1>4, <2>1
<1>5. \A i \in DOMAIN sent' : sent'[i] # "failed"
         => i \in DOMAIN Whole(bytes, closed) /\ sent'[i] = Whole(bytes, closed)[i]
  BY <1>3, <1>4
<1>6. CutAnywhere'
  BY <1>5 DEF CutAnywhere
<1> QED BY <1>6 DEF CutInv, Untold, Waits, InLines, GoesOn

LEMMA CutArrive ==
    ASSUME Types, CutInv, Direct, NEW chunk \in Chunks, Arrive(chunk)
    PROVE  CutInv'
<1>1. /\ phase = "read" /\ ~closed /\ buffer = Split(bytes).rest /\ sent = Kinds(Split(bytes).lines)
      /\ GoesOn /\ bytes' = bytes \o chunk
      /\ UNCHANGED <<source, streaming, closed, saw_terminal, client>>
  BY DEF Arrive, At, CutInv, Waits
<1>2. chunk \in Seq(Tokens) /\ bytes \in Seq(Tokens) /\ bytes' \in Seq(Tokens) /\ closed = FALSE
  <2>1. chunk \in Seq(Tokens)
    BY DEF Chunks
  <2>2. bytes \in Seq(Tokens) /\ closed = FALSE
    BY <1>1 DEF Types
  <2> QED BY <1>1, <2>1, <2>2
<1>3. buffer \o chunk \in Seq(Tokens)
  BY <1>2 DEF Types
<1>4. PICK c \in Cuts : c = Split(buffer \o chunk)
  BY <1>3, LinesType
<1>5. PICK before \in Seq(Seq(Tokens)) : before = Split(bytes).lines
  BY <1>2, LinesType DEF Cuts
<1>6. Split(bytes') = [lines |-> before \o c.lines, rest |-> c.rest]
  BY <1>1, <1>2, <1>4, <1>5, SplitOn
<1>7. AllLines(bytes', FALSE) = before \o c.lines /\ c.lines \in Seq(Seq(Tokens)) /\ closed' = FALSE
  <2>1. AllLines(bytes', FALSE) = Split(bytes').lines
    BY <1>2, LinesOpen
  <2>2. c.lines \in Seq(Seq(Tokens))
    BY DEF Cuts
  <2>3. Split(bytes').lines = before \o c.lines
    BY <1>6
  <2>4. closed' = FALSE
    BY <1>1, <1>2
  <2> QED BY <2>1, <2>2, <2>3, <2>4
<1>8. Take(c) /\ Goes(Kinds(before)) /\ sent = Kinds(before) /\ sent \in Seq(KindsOf)
  BY <1>1, <1>4, <1>5 DEF Arrive, Push, GoesOn
<1>9. CASE TooLong(c)
  <2>1. sent' = Append(sent, "failed") /\ phase' = "over"
    BY <1>8, <1>9 DEF Take, Fail, Tell
  <2>2. \A i \in DOMAIN sent : i \in DOMAIN Whole(bytes', FALSE) /\ sent[i] = Whole(bytes', FALSE)[i]
    <3>1. AllLines(bytes', FALSE) = before \o c.lines /\ Goes(Kinds(before)) /\ FALSE \in BOOLEAN
      BY <1>7, <1>8
    <3>2. \A i \in DOMAIN Kinds(before) :
             i \in DOMAIN Whole(bytes', FALSE) /\ Kinds(before)[i] = Whole(bytes', FALSE)[i]
      BY <1>2, <1>7, <3>1, CutWhile
    <3> QED BY <1>8, <3>2
  <2>3. ASSUME NEW i \in DOMAIN sent', sent'[i] # "failed" PROVE i \in DOMAIN sent /\ sent'[i] = sent[i]
    BY <1>8, <2>1, <2>3
  <2>4. CutAnywhere'
    BY <1>7, <2>1, <2>2, <2>3 DEF CutAnywhere
  <2> QED BY <2>1, <2>4 DEF CutInv, Untold, Waits, InLines, GoesOn
<1>10. CASE ~TooLong(c)
  <2>1. phase' = "lines" /\ lines' = c.lines /\ buffer' = c.rest /\ sent' = sent
    BY <1>8, <1>10 DEF Take
  <2>2. InLines'
    <3>1. buffer' = Split(bytes').rest
      BY <1>6, <2>1
    <3>2. AllLines(bytes', closed') = before \o lines' /\ sent' = Kinds(before)
      BY <1>7, <1>8, <2>1
    <3> QED BY <3>1, <3>2 DEF InLines
  <2>3. GoesOn'
    BY <1>1, <1>8, <2>1 DEF GoesOn
  <2> QED BY <2>1, <2>2, <2>3 DEF CutInv, Untold, Waits
<1> QED BY <1>9, <1>10

LEMMA CutLine ==
    ASSUME Types, CutInv, Direct, Line
    PROVE  CutInv'
<1>1. /\ phase = "lines" /\ lines # <<>> /\ lines' = Tail(lines) /\ Check(Kind(Head(lines)))
      /\ UNCHANGED <<source, streaming, buffer, closed, client, bytes>>
      /\ InLines /\ GoesOn
  BY DEF Line, CutInv
<1>2. PICK before \in Seq(Seq(Tokens)) :
        AllLines(bytes, closed) = before \o lines /\ sent = Kinds(before)
  BY <1>1 DEF InLines
<1>3. PICK line \in Seq(Tokens), after \in Seq(Seq(Tokens)) :
        line = Head(lines) /\ after = Tail(lines)
  <2>1. lines \in Seq(Seq(Tokens))
    BY DEF Types
  <2> QED BY <1>1, <2>1, HeadTailProperties
<1>4. before \o lines = Append(before, line) \o after /\ Append(before, line) \in Seq(Seq(Tokens))
  <2>1. lines \in Seq(Seq(Tokens)) /\ <<line>> \in Seq(Seq(Tokens))
    <3>1. lines \in Seq(Seq(Tokens))
      BY DEF Types
    <3>2. <<line>> \in Seq(Seq(Tokens))
      OBVIOUS
    <3> QED BY <3>1, <3>2
  <2>2. lines = <<line>> \o after
    BY <1>1, <1>3, <2>1, SMTT(30)
  <2>3. before \o (<<line>> \o after) = (before \o <<line>>) \o after
    BY <2>1, ConcatAssociative, SMTT(30)
  <2>4. Append(before, line) = before \o <<line>>
    BY AppendIsConcat
  <2> QED BY <2>2, <2>3, <2>4
<1>5. PICK kind \in KindsOf : kind = Kind(line)
  BY KindType
<1>6. PICK ks \in Seq(KindsOf) : ks = Kinds(before) /\ Goes(ks) /\ sent = ks
  BY <1>1, <1>2 DEF GoesOn
<1>7. Kinds(Append(before, line)) = Heard(ks, kind)
  BY <1>5, <1>6, KindsAppend
<1>8. CASE ~Stops(kind)
  <2>1. \/ kind = "blank" /\ UNCHANGED <<sent, phase, saw_terminal>>
        \/ /\ kind \in {"chunk", "finish"} /\ sent' = Append(ks, kind) /\ phase' = phase
           /\ saw_terminal' = (saw_terminal \/ kind = "finish")
    BY <1>1, <1>3, <1>5, <1>6, <1>8 DEF Check, Stops, Tell
  <2>2. sent' = Heard(ks, kind) /\ phase' = "lines"
    BY <1>1, <1>6, <2>1 DEF Heard
  <2>3. InLines'
    BY <1>1, <1>2, <1>3, <1>4, <1>7, <2>2 DEF InLines
  <2>4. GoesOn'
    <3>1. CASE kind = "blank"
      BY <1>1, <2>1, <3>1 DEF GoesOn
    <3>2. CASE kind # "blank"
      <4>1. sent' = Append(ks, kind) /\ saw_terminal' = (saw_terminal \/ kind = "finish")
        BY <2>1, <3>2
      <4>2. Goes(sent') /\ (HasFinish(sent') <=> HasFinish(ks) \/ kind = "finish") /\ sent' \in Seq(KindsOf)
        BY <1>6, <1>8, <4>1, GoesOnWith
      <4> QED BY <1>1, <1>6, <2>2, <4>1, <4>2 DEF GoesOn
    <3> QED BY <3>1, <3>2
  <2> QED BY <2>2, <2>3, <2>4 DEF CutInv, Untold, Waits
<1>9. CASE Stops(kind)
  <2>1. PICK later \in Seq(KindsOf) : later = Kinds(after)
    BY KindsAppend, EmptySeq
  <2>2. Whole(bytes, closed) = Verdict(Append(ks, kind) \o later, closed)
    <3>1. Kinds(before \o lines) = Kinds(Append(before, line)) \o Kinds(after)
      BY <1>4, KindsOn
    <3>2. Heard(ks, kind) = Append(ks, kind)
      BY <1>9 DEF Heard, Stops
    <3> QED BY <1>2, <1>7, <2>1, <3>1, <3>2 DEF Whole
  <2>3. Whole(bytes, closed) = Append(ks, IF kind = "done" /\ HasFinish(ks) THEN "done" ELSE "failed")
    BY <1>6, <1>9, <2>1, <2>2, VerdictAt
  <2>4. sent' = Append(ks, IF kind = "done" /\ HasFinish(ks) THEN "done" ELSE "failed") /\ phase' = "over"
    BY <1>1, <1>3, <1>5, <1>6, <1>9 DEF Check, Stops, Tell, Fail, GoesOn
  <2>5. CutAnywhere'
    BY <1>1, <2>3, <2>4 DEF CutAnywhere
  <2> QED BY <2>4, <2>5 DEF CutInv, Untold, Waits, InLines, GoesOn
<1> QED BY <1>8, <1>9

LEMMA CutNoLines ==
    ASSUME Types, CutInv, Direct, NoLines
    PROVE  CutInv'
<1>1. /\ phase = "lines" /\ lines = <<>> /\ InLines /\ GoesOn
      /\ IF closed THEN Fail ELSE phase' = "read" /\ UNCHANGED sent
      /\ UNCHANGED <<source, streaming, buffer, closed, saw_terminal, client, bytes>>
  BY DEF NoLines, CutInv
<1>2. PICK before \in Seq(Seq(Tokens)) :
        AllLines(bytes, closed) = before \o <<>> /\ sent = Kinds(before)
  BY <1>1 DEF InLines
<1>3. AllLines(bytes, closed) = before
  BY <1>2
<1>4. PICK ks \in Seq(KindsOf) : ks = sent /\ Goes(ks) /\ ks = Kinds(AllLines(bytes, closed))
  BY <1>1, <1>2, <1>3 DEF GoesOn
<1>5. CASE closed
  <2>1. sent' = Append(ks, "failed") /\ phase' = "over"
    BY <1>1, <1>4, <1>5 DEF Fail, Tell
  <2>2. Whole(bytes, closed) = Append(ks, "failed")
    BY <1>4, <1>5, VerdictGoes DEF Whole
  <2>3. CutAnywhere'
    BY <1>1, <2>1, <2>2 DEF CutAnywhere
  <2> QED BY <2>1, <2>3 DEF CutInv, Untold, Waits, InLines, GoesOn
<1>6. CASE ~closed
  <2>1. phase' = "read" /\ sent' = sent /\ buffer = Split(bytes).rest
    BY <1>1, <1>6 DEF InLines
  <2>2. sent = Kinds(Split(bytes).lines)
    <3>1. closed = FALSE
      BY <1>6 DEF Types
    <3> QED BY <1>4, <3>1, LinesOpen DEF Types
  <2>3. Waits' /\ GoesOn'
    BY <1>1, <1>6, <2>1, <2>2 DEF Waits, GoesOn
  <2> QED BY <2>1, <2>3 DEF CutInv, Untold, InLines
<1> QED BY <1>5, <1>6

LEMMA CutClose ==
    ASSUME Types, CutInv, Direct, Close
    PROVE  CutInv'
<1>1. /\ phase = "read" /\ buffer = Split(bytes).rest /\ sent = Kinds(Split(bytes).lines) /\ GoesOn
      /\ closed' = TRUE /\ lines' = (IF buffer = <<>> THEN <<>> ELSE <<buffer>>)
      /\ phase' = "lines"
      /\ UNCHANGED <<source, streaming, saw_terminal, sent, bytes>>
  BY DEF Close, At, CutInv, Waits
<1>2. PICK c \in Cuts : c = Split(bytes)
  BY LinesType DEF Types
<1>3. PICK before \in Seq(Seq(Tokens)) : before = c.lines
  BY DEF Cuts
<1>4. AllLines(bytes, TRUE) = before \o lines'
  <2>1. CASE buffer = <<>>
    BY <1>1, <1>2, <1>3, <2>1 DEF AllLines
  <2>2. CASE buffer # <<>>
    <3>1. AllLines(bytes, TRUE) = Append(before, buffer) /\ lines' = <<buffer>> /\ buffer \in Seq(Tokens)
      BY <1>1, <1>2, <1>3, <2>2 DEF AllLines, Types
    <3> QED BY <3>1, AppendIsConcat
  <2> QED BY <2>1, <2>2
<1>5. InLines' /\ GoesOn'
  BY <1>1, <1>2, <1>3, <1>4 DEF InLines, GoesOn
<1> QED BY <1>1, <1>5 DEF CutInv, Untold, Waits

LEMMA CutNext == Types /\ CutInv /\ [Next]_vars => CutInv'
<1> SUFFICES ASSUME Types, CutInv, [Next]_vars, Direct' PROVE CutInv'
  BY DEF CutInv
<1>1. Direct
  <2>1. ASSUME NEW chunk, Arrive(chunk) PROVE UNCHANGED <<source, streaming>>
    BY <2>1 DEF Arrive
  <2>2. Line => UNCHANGED <<source, streaming>>
    BY DEF Line
  <2>3. UNCHANGED <<source, streaming>>
    BY <2>1, <2>2 DEF Next, Call, Send, HangUp, NoLines, Close, Break, Collect, Collected,
                      AcpText, AcpCompleted, AcpDone, AcpFails, vars, Line
  <2> QED BY <2>3 DEF Direct
<1>2. CASE Call
  <2>1. CASE Fail
    BY <1>1, <1>2, <2>1, BreaksOff DEF Call, Fail, Tell, CutInv, Untold
  <2>2. CASE phase' = "send" /\ UNCHANGED sent
    BY <1>1, <1>2, <2>2 DEF Call, CutInv, Untold, Waits, InLines, GoesOn
  <2> QED BY <1>2, <2>1, <2>2 DEF Call
<1>3. CASE Send
  <2>1. CASE Fail
    BY <1>1, <1>3, <2>1, BreaksOff DEF Send, Fail, Tell, CutInv, Untold
  <2>2. CASE phase' = "read" /\ UNCHANGED sent
    <3>1. Waits'
      BY <1>1, <1>3, <2>2, SplitNothing, KindsNothing DEF Send, CutInv, Untold, Waits, NoBytes
    <3> QED BY <1>1, <1>3, <2>2, <3>1 DEF Send, CutInv, Untold, InLines, GoesOn
  <2> QED BY <1>3, <2>1, <2>2 DEF Send
<1>4. CASE HangUp
  BY <1>1, <1>4, BreaksOff DEF HangUp
<1>5. CASE Break
  BY <1>1, <1>5, BreaksOff DEF Break, Fail, Tell, CutInv, Waits
<1>6. ASSUME NEW chunk \in Chunks, Arrive(chunk) PROVE CutInv'
  BY <1>1, <1>6, CutArrive
<1>7. CASE Line \/ NoLines \/ Close
  BY <1>1, <1>7, CutLine, CutNoLines, CutClose
<1>8. CASE Collect \/ Collected \/ AcpText \/ AcpCompleted \/ AcpDone \/ AcpFails
  BY <1>1, <1>8 DEF Collect, Collected, AcpText, AcpCompleted, AcpDone, AcpFails, At, Direct,
                    CutInv, GoesOn
<1>9. CASE UNCHANGED vars
  BY <1>9 DEF vars, CutInv, Untold, Waits, InLines, GoesOn, CutAnywhere, Direct
<1> QED BY <1>2, <1>3, <1>4, <1>5, <1>6, <1>7, <1>8, <1>9 DEF Next

LEMMA CutHolds == Types /\ CutInv => CutAnywhere
<1> SUFFICES ASSUME Types, CutInv, Direct, phase # "over" PROVE CutAnywhere
  BY DEF CutInv, CutAnywhere, Direct
<1>1. PICK before, after \in Seq(Seq(Tokens)) :
              /\ AllLines(bytes, closed) = before \o after
              /\ sent = Kinds(before) /\ Goes(Kinds(before))
  BY StillGoing
<1>2. \A i \in DOMAIN sent : i \in DOMAIN Whole(bytes, closed) /\ sent[i] = Whole(bytes, closed)[i]
  BY <1>1, CutWhile DEF Types
<1>3. phase = "read" => sent = Whole(bytes, closed)
  <2> SUFFICES ASSUME phase = "read" PROVE sent = Whole(bytes, closed)
    OBVIOUS
  <2>1. closed = FALSE /\ sent = Kinds(Split(bytes).lines) /\ GoesOn
    BY DEF CutInv, Waits, Types
  <2>2. Whole(bytes, closed) = Verdict(sent, FALSE)
    BY <2>1, LinesOpen DEF Whole, Types
  <2> QED BY <2>1, <2>2, VerdictGoes DEF GoesOn
<1> QED BY <1>2, <1>3 DEF CutAnywhere

\* CutAnywhere: however the upstream's bytes are cut into chunks, the client
\* gets what the whole of them amounts to (SseDecoder::push and finish,
\* ChatSseValidator::line, direct_chat).
THEOREM CutCorrect == Spec => []CutAnywhere
BY TypesInit, TypesNext, CutInit, CutNext, CutHolds, PTL DEF Spec

=============================================================================
