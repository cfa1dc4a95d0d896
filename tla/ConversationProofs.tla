--------------------------- MODULE ConversationProofs ---------------------------
(***************************************************************************)
(* Proofs about Conversation: what the upstream is told of a conversation  *)
(* is what has been said, and the conversation keeps its session.  Both    *)
(* are shown by what one item more adds to a request: to its messages, to  *)
(* what they say, to the calls in it and to its part for an agent.  These  *)
(* are all made by flattening sequences, which is defined by recursion;    *)
(* what is shown of it is shown by induction, which rests on the library's *)
(* theorem that < is well-founded.                                         *)
(***************************************************************************)
EXTENDS Conversation, WellFoundedInduction, SequenceTheorems, TLAPS

-----------------------------------------------------------------------------
(* The inductive invariant *)

ItemRecords ==
    {item \in [type : {"message", "function_call", "function_call_output", "reasoning"},
               role : {"user", "system", "developer", "assistant", None}, content : Seq(Parts),
               call_id : Ids \cup {None}, name : {"tool", None}, arguments : {"args", None}] :
        item.type = "message" => item.role \in {"user", "system", "developer", "assistant"}}
MessageRecords ==
    [role : {"user", "system", "assistant", "tool"}, content : Seq(Parts),
     tool_calls : Seq(CallRecords) \cup {None}, tool_call_id : Ids \cup {None}]
UnitRecords ==
    [kind : {"text", "call", "result"}, role : {"user", "system", "assistant", "tool"},
     content : Seq(Parts), call : {None} \cup ({"tool", None} \X {"args", None}), result : Nat]

Types ==
    /\ source \in {"direct", "acp"} /\ instructions \in Contents \cup {None}
    /\ items \in Seq(ItemRecords) /\ said \in Seq(UnitRecords)
    /\ phase \in {"client", "upstream", "refused"} /\ turn \in Nat
    /\ phase = "upstream" => turn > 0

\* A request made of the items tells what has been said.
Tells(ins, list, units) == UnitsIn(InputMessages(ins, list)) = units

\* The calls in it are those the client knows, each with an id of its own and
\* made in the first t requests.
CallsAgree(ins, list) ==
    /\ Len(CallsIn(InputMessages(ins, list))) = Len(CallsAmong(list))
    /\ \A k \in DOMAIN CallsAmong(list) :
          CallsIn(InputMessages(ins, list))[k].id = CallsAmong(list)[k].call_id
Distinct(list) ==
    \A j, k \in DOMAIN CallsAmong(list) :
        CallsAmong(list)[j].call_id = CallsAmong(list)[k].call_id => j = k
MadeBy(list, t) ==
    \A k \in DOMAIN CallsAmong(list) :
        CallsAmong(list)[k].call_id \in Ids /\ CallsAmong(list)[k].call_id[1] <= t

\* An agent, who makes no calls, is told its part.
TellsAgent(ins, list, units) ==
    /\ CallsAmong(list) = <<>>
    /\ UnitsIn(SerializeMessages(InputMessages(ins, list))) = ForAgent(units)

\* t goes on where s ends.
Begins(s, t) == Len(s) <= Len(t) /\ \A i \in 1..Len(s) : s[i] = t[i]

\* The last request is about the conversation so far, of which the session is.
Asked ==
    /\ phase = "upstream" => payload.messages = ResponsesInputToMessages(instructions, items)
    /\ payload # None => /\ payload.messages \in Seq(MessageRecords)
                         /\ context = StableContextText(payload.messages)
    /\ UserHeard => Begins(payload.messages, InputMessages(instructions, items))

LastAnswer == IF phase = "upstream" THEN turn - 1 ELSE turn

Inv ==
    /\ Types
    /\ Tells(instructions, items, said)
    /\ CallsAgree(instructions, items) /\ Distinct(items) /\ MadeBy(items, LastAnswer)
    /\ source = "acp" => TellsAgent(instructions, items, said)
    /\ Asked

-----------------------------------------------------------------------------
(* Induction and recursion *)

\* Every set of naturals has a least element.
LEMMA LeastElement ==
    ASSUME NEW S, S \subseteq Nat, S # {}
    PROVE  \E n \in S : \A m \in S : n <= m
<1> DEFINE R == {p \in Nat \X Nat : p[1] < p[2]}
<1>1. IsWellFoundedOn(R, Nat)
  BY NatLessThanWellFounded DEF OpToRel
<1>2. PICK n \in S : \A m \in S : <<m, n>> \notin R
  <2> HIDE DEF R
  <2> QED BY <1>1, WFMin
<1>3. ASSUME NEW m \in S, m < n PROVE FALSE
  <2>1. <<m, n>> \in R
    BY <1>3
  <2> HIDE DEF R
  <2> QED BY <1>2, <2>1
<1> QED BY <1>3

\* Induction over the naturals, from the least counterexample.
LEMMA Induction ==
    ASSUME NEW S, 0 \in S, \A i \in Nat : i \in S => i + 1 \in S
    PROVE  Nat \subseteq S
<1> SUFFICES ASSUME Nat \ S # {} PROVE FALSE
  OBVIOUS
<1>1. PICK n \in Nat \ S : \A m \in Nat \ S : n <= m
  BY LeastElement
<1>2. n # 0 /\ n - 1 \in Nat
  BY <1>1
<1>3. n - 1 \in S
  BY <1>1, <1>2
<1> QED BY <1>1, <1>2, <1>3

\* Induction over the sequences, by what is appended last.
LEMMA SequenceInduction ==
    ASSUME NEW X, NEW S, <<>> \in S,
           \A s \in Seq(X), x \in X : s \in S => Append(s, x) \in S
    PROVE  Seq(X) \subseteq S
<1> DEFINE N == {n \in Nat : \A s \in Seq(X) : Len(s) = n => s \in S}
<1>1. 0 \in N
  BY EmptySeq
<1>2. ASSUME NEW n \in Nat, n \in N PROVE n + 1 \in N
  <2>1. ASSUME NEW s \in Seq(X), Len(s) = n + 1 PROVE s \in S
    <3> DEFINE front == [i \in 1..n |-> s[i]]
    <3>1. front \in Seq(X) /\ Len(front) = n /\ s[n + 1] \in X
      BY <2>1
    <3>2. s = Append(front, s[n + 1])
      BY <2>1, <3>1
    <3>3. front \in S
      BY <1>2, <3>1
    <3> HIDE DEF front
    <3> QED BY <3>1, <3>2, <3>3
  <2> QED BY <2>1
<1>3. Nat \subseteq N
  <2> HIDE DEF N
  <2> QED BY <1>1, <1>2, Induction
<1>4. ASSUME NEW s \in Seq(X) PROVE s \in S
  <2>1. Len(s) \in N
    BY <1>3
  <2> QED BY <2>1
<1> QED BY <1>4

\* What T makes of d, one step after another.
Follows(f, d, T, D, n) == f \in [0..n -> D] /\ f[0] = d /\ \A i \in 1..n : f[i] = T[i][f[i - 1]]

\* A recursion that goes from each value on has a solution.
LEMMA Recursion ==
    ASSUME NEW D, NEW d \in D, NEW m \in Nat, NEW T \in [1..m -> [D -> D]]
    PROVE  \E f : Follows(f, d, T, D, m)
<1> DEFINE Solves(f, n) == Follows(f, d, T, D, n)
           S == {n \in Nat : n <= m => \E f : Solves(f, n)}
<1>1. 0 \in S
  <2>1. Solves([i \in 0..0 |-> d], 0)
    BY DEF Follows
  <2> HIDE DEF Solves
  <2> QED BY <2>1
<1>2. ASSUME NEW n \in Nat, n \in S PROVE n + 1 \in S
  <2> SUFFICES ASSUME n + 1 <= m PROVE \E f : Solves(f, n + 1)
    OBVIOUS
  <2>1. PICK f : Solves(f, n)
    BY <1>2
  <2>2. f \in [0..n -> D] /\ f[0] = d /\ (\A i \in 1..n : f[i] = T[i][f[i - 1]]) /\ T[n + 1][f[n]] \in D
    BY <2>1 DEF Follows
  <2> DEFINE g == [i \in 0..(n + 1) |-> IF i = n + 1 THEN T[n + 1][f[n]] ELSE f[i]]
  <2>3. g \in [0..(n + 1) -> D] /\ g[0] = d
    BY <2>2
  <2>4. ASSUME NEW i \in 1..(n + 1) PROVE g[i] = T[i][g[i - 1]]
    <3>1. CASE i = n + 1
      BY <3>1
    <3>2. CASE i \in 1..n
      <4>1. i - 1 # n + 1 /\ i # n + 1 /\ i \in 0..(n + 1) /\ i - 1 \in 0..(n + 1)
        BY <3>2
      <4> QED BY <2>2, <3>2, <4>1
    <3> QED BY <3>1, <3>2
  <2>5. Solves(g, n + 1)
    BY <2>3, <2>4 DEF Follows
  <2> HIDE DEF Solves, g
  <2> QED BY <2>5
<1>3. m \in S
  <2> HIDE DEF S
  <2> QED BY <1>1, <1>2, Induction
<1> QED BY <1>3

\* Two functions that begin alike and go on alike are alike.
LEMMA Alike ==
    ASSUME NEW f, NEW g, NEW m \in Nat, f[0] = g[0],
           \A i \in 1..m : f[i - 1] = g[i - 1] => f[i] = g[i]
    PROVE  f[m] = g[m]
<1> DEFINE S == {n \in Nat : n <= m => f[n] = g[n]}
<1>1. 0 \in S
  OBVIOUS
<1>2. ASSUME NEW n \in Nat, n \in S PROVE n + 1 \in S
  <2> SUFFICES ASSUME n + 1 <= m PROVE f[n + 1] = g[n + 1]
    OBVIOUS
  <2>1. n + 1 \in 1..m /\ f[(n + 1) - 1] = g[(n + 1) - 1]
    BY <1>2
  <2> QED BY <2>1
<1>3. m \in S
  <2> HIDE DEF S
  <2> QED BY <1>1, <1>2, Induction
<1> QED BY <1>3

\* What is appended to the second of two sequences is appended to both.
Appended(a, b, x) == Append(a \o b, x) = a \o Append(b, x)

LEMMA AppendLast ==
    ASSUME NEW X, NEW a \in Seq(X), NEW b \in Seq(X), NEW x \in X
    PROVE  Appended(a, b, x)
BY DEF Appended

-----------------------------------------------------------------------------
(* Sequences that are flattened *)

\* f goes through what FlattenSeq makes of the first sequences of ss.
Flattens(f, ss, X) ==
    /\ f \in [0..Len(ss) -> Seq(X)] /\ f[0] = <<>>
    /\ \A i \in 1..Len(ss) : f[i] = f[i - 1] \o ss[i]

\* FlattenSeq is defined by a recursion on the sequences there are.
LEMMA FlattenDef ==
    ASSUME NEW X, NEW ss \in Seq(Seq(X))
    PROVE  \E f : Flattens(f, ss, X) /\ FlattenSeq(ss) = f[Len(ss)]
<1> DEFINE T == [i \in 1..Len(ss) |-> [c \in Seq(X) |-> c \o ss[i]]]
           Solves(f) == f = [i \in 1..Len(ss) |-> IF i = 1 THEN ss[i] ELSE f[i - 1] \o ss[i]]
<1>1. <<>> \in Seq(X) /\ Len(ss) \in Nat /\ \A i \in 1..Len(ss) : ss[i] \in Seq(X)
  OBVIOUS
<1>2. T \in [1..Len(ss) -> [Seq(X) -> Seq(X)]]
  BY <1>1
<1>3. \E f : Follows(f, <<>>, T, Seq(X), Len(ss))
  <2> HIDE DEF T
  <2> QED BY <1>1, <1>2, Recursion
<1>4. PICK f \in [0..Len(ss) -> Seq(X)] : f[0] = <<>> /\ \A i \in 1..Len(ss) : f[i] = T[i][f[i - 1]]
  <2> HIDE DEF T
  <2> QED BY <1>3 DEF Follows
<1>5. ASSUME NEW i \in 1..Len(ss) PROVE f[i] = f[i - 1] \o ss[i] /\ f[i - 1] \in Seq(X)
  <2>1. i - 1 \in 0..Len(ss)
    BY <1>1
  <2>2. f[i - 1] \in Seq(X)
    BY <1>4, <2>1
  <2> QED BY <1>4, <2>2
<1>6. Flattens(f, ss, X)
  BY <1>4, <1>5 DEF Flattens
<1>7. CASE Len(ss) = 0
  <2>1. FlattenSeq(ss) = ss /\ ss = <<>>
    BY <1>7 DEF FlattenSeq
  <2> QED BY <1>4, <1>6, <1>7, <2>1
<1>8. CASE Len(ss) # 0
  <2> DEFINE h == [i \in 1..Len(ss) |-> f[i]]
  <2>1. Solves(h)
    <3>1. ASSUME NEW i \in 1..Len(ss)
          PROVE  h[i] = IF i = 1 THEN ss[i] ELSE h[i - 1] \o ss[i]
      <4>1. CASE i = 1
        <5>1. f[i] = f[i - 1] \o ss[i] /\ f[i - 1] = <<>> /\ ss[i] \in Seq(X)
          <6>1. i - 1 = 0
            BY <4>1
          <6> HIDE DEF T, h
          <6> QED BY <1>1, <1>4, <1>5, <6>1
        <5>2. f[i] = ss[i] /\ h[i] = f[i]
          BY <5>1
        <5> QED BY <4>1, <5>2
      <4>2. CASE i # 1
        <5>1. i - 1 \in 1..Len(ss)
          BY <1>1, <4>2
        <5> QED BY <1>5, <4>2, <5>1
      <4> QED BY <4>1, <4>2
    <3> QED BY <3>1
  <2>2. PICK g : Solves(g) /\ FlattenSeq(ss) = g[Len(ss)]
    <3>1. \E g : Solves(g)
      <4> HIDE DEF Solves, h
      <4> QED BY <2>1
    <3>2. FlattenSeq(ss) = (CHOOSE g : Solves(g))[Len(ss)]
      BY <1>8 DEF FlattenSeq
    <3> HIDE DEF Solves
    <3> QED BY <3>1, <3>2
  <2> DEFINE k == [i \in 0..Len(ss) |-> IF i = 0 THEN <<>> ELSE g[i]]
  <2>3. ASSUME NEW i \in 1..Len(ss) PROVE k[i] = k[i - 1] \o ss[i]
    <3>1. CASE i = 1
      <4>1. g[1] = ss[1] /\ k[0] = <<>> /\ k[1] = g[1]
        BY <1>1, <1>8, <2>2
      <4> QED BY <1>1, <3>1, <4>1
    <3>2. CASE i # 1
      <4>1. i - 1 \in 1..Len(ss) /\ i - 1 \in 0..Len(ss) /\ i \in 0..Len(ss) /\ i # 0 /\ i - 1 # 0
        BY <1>1, <3>2
      <4>2. g[i] = g[i - 1] \o ss[i]
        <5> HIDE DEF k
        <5> QED BY <2>2, <3>2
      <4> QED BY <4>1, <4>2
    <3> QED BY <3>1, <3>2
  <2>4. k[Len(ss)] = f[Len(ss)]
    <3>1. k[0] = f[0]
      BY <1>4, <1>1
    <3> HIDE DEF k, T
    <3>2. \A i \in 1..Len(ss) : k[i - 1] = f[i - 1] => k[i] = f[i]
      BY <1>5, <2>3
    <3> HIDE DEF Solves
    <3> QED BY <1>1, <3>1, <3>2, Alike
  <2>5. k[Len(ss)] = g[Len(ss)]
    BY <1>1, <1>8
  <2> QED BY <1>6, <2>2, <2>4, <2>5
<1> QED BY <1>7, <1>8

\* One sequence more is flattened by appending its elements.
LEMMA FlattenAppend ==
    ASSUME NEW X, NEW ss \in Seq(Seq(X)), NEW s \in Seq(X)
    PROVE  /\ FlattenSeq(ss) \in Seq(X)
           /\ FlattenSeq(Append(ss, s)) = FlattenSeq(ss) \o s
<1> DEFINE more == Append(ss, s)
<1>1. more \in Seq(Seq(X)) /\ Len(more) = Len(ss) + 1 /\ Len(ss) \in Nat /\ more[Len(ss) + 1] = s
      /\ \A i \in 1..Len(ss) : more[i] = ss[i]
  OBVIOUS
<1>2. PICK f : Flattens(f, ss, X) /\ FlattenSeq(ss) = f[Len(ss)]
  BY FlattenDef
<1> HIDE DEF more
<1>3. PICK g : Flattens(g, more, X) /\ FlattenSeq(more) = g[Len(more)]
  BY <1>1, FlattenDef
<1>4. f[0] = g[0] /\ \A i \in 1..Len(ss) : f[i - 1] = g[i - 1] => f[i] = g[i]
  <2>1. ASSUME NEW i \in 1..Len(ss), f[i - 1] = g[i - 1] PROVE f[i] = g[i]
    <3>1. i \in 1..Len(more) /\ more[i] = ss[i]
      BY <1>1
    <3>2. f[i] = f[i - 1] \o ss[i]
      BY <1>2 DEF Flattens
    <3>3. g[i] = g[i - 1] \o more[i]
      BY <1>3, <3>1 DEF Flattens
    <3> QED BY <2>1, <3>1, <3>2, <3>3
  <2> QED BY <1>2, <1>3, <2>1 DEF Flattens
<1>5. f[Len(ss)] = g[Len(ss)]
  BY <1>1, <1>4, Alike
<1>6. g[Len(ss) + 1] = g[Len(ss)] \o s
  <2>1. Len(ss) + 1 \in 1..Len(more) /\ (Len(ss) + 1) - 1 = Len(ss)
    BY <1>1
  <2>2. \A i \in 1..Len(more) : g[i] = g[i - 1] \o more[i]
    BY <1>3 DEF Flattens
  <2>3. g[Len(ss) + 1] = g[(Len(ss) + 1) - 1] \o more[Len(ss) + 1]
    BY <2>1, <2>2, Zenon
  <2> QED BY <1>1, <2>1, <2>3
<1> QED BY <1>1, <1>2, <1>3, <1>5, <1>6 DEF Flattens, more

LEMMA FlattenNothing == FlattenSeq(<<>>) = <<>>
<1>1. Len(<<>>) = 0
  OBVIOUS
<1> QED BY <1>1 DEF FlattenSeq

\* The same, of sequences given as functions.
LEMMA FlattenMore ==
    ASSUME NEW X, NEW n \in Nat, NEW f \in [1..n -> Seq(X)], NEW g \in [1..(n + 1) -> Seq(X)],
           \A i \in 1..n : g[i] = f[i]
    PROVE  FlattenSeq(f) \in Seq(X) /\ FlattenSeq(g) = FlattenSeq(f) \o g[n + 1]
<1>1. f \in Seq(Seq(X)) /\ Len(f) = n /\ g \in Seq(Seq(X)) /\ Len(g) = n + 1
  OBVIOUS
<1>2. g[n + 1] \in Seq(X)
  OBVIOUS
<1>3. g = Append(f, g[n + 1])
  BY <1>1, <1>2
<1> QED BY <1>1, <1>2, <1>3, FlattenAppend

LEMMA FlattenType ==
    ASSUME NEW X, NEW ss \in Seq(Seq(X))
    PROVE  FlattenSeq(ss) \in Seq(X)
BY FlattenAppend, EmptySeq

LEMMA OneIfType ==
    ASSUME NEW X, NEW test, NEW x, test => x \in X
    PROVE  OneIf(test, x) \in Seq(X)
BY DEF OneIf

\* One element of each.
LEMMA FlattenSingles ==
    ASSUME NEW X, NEW s \in Seq(X)
    PROVE  FlattenSeq([i \in DOMAIN s |-> <<s[i]>>]) = s
<1> DEFINE Singles(a) == [i \in DOMAIN a |-> <<a[i]>>]
           S == {a \in Seq(X) : FlattenSeq(Singles(a)) = a}
<1>1. <<>> \in S
  <2>1. Singles(<<>>) = <<>> /\ <<>> \in Seq(X)
    OBVIOUS
  <2> QED BY <2>1, FlattenNothing
<1>2. ASSUME NEW a \in Seq(X), NEW x \in X, a \in S PROVE Append(a, x) \in S
  <2> DEFINE b == Append(a, x)
  <2>1. b \in Seq(X) /\ DOMAIN a = 1..Len(a) /\ DOMAIN b = 1..(Len(a) + 1) /\ Len(a) \in Nat
        /\ b[Len(a) + 1] = x /\ \A i \in 1..Len(a) : a[i] = b[i] /\ a[i] \in X
    OBVIOUS
  <2> HIDE DEF b
  <2>2. Singles(a) \in [1..Len(a) -> Seq(X)] /\ Singles(b) \in [1..(Len(a) + 1) -> Seq(X)]
        /\ Singles(b)[Len(a) + 1] = <<x>> /\ \A i \in 1..Len(a) : Singles(b)[i] = Singles(a)[i]
    BY <2>1
  <2> HIDE DEF Singles
  <2>3. FlattenSeq(Singles(b)) = FlattenSeq(Singles(a)) \o <<x>>
    BY <2>1, <2>2, FlattenMore
  <2>4. FlattenSeq(Singles(a)) = a
    BY <1>2
  <2> QED BY <2>1, <2>3, <2>4 DEF b
<1>3. Seq(X) \subseteq S
  <2> HIDE DEF S
  <2> QED BY <1>1, <1>2, SequenceInduction
<1> QED BY <1>3

LEMMA GreatestElement ==
    ASSUME NEW n \in Nat, NEW S, S \subseteq 0..n, S # {}
    PROVE  Max(S) \in S /\ \A m \in S : m <= Max(S)
<1>1. PICK d \in {e \in 0..n : n - e \in S} : \A e \in {c \in 0..n : n - c \in S} : d <= e
  <2>1. {e \in 0..n : n - e \in S} # {}
    <3>1. PICK m \in S : TRUE
      OBVIOUS
    <3>2. m \in 0..n /\ n - m \in 0..n /\ n - (n - m) = m
      BY <3>1
    <3> QED BY <3>1, <3>2
  <2>2. {e \in 0..n : n - e \in S} \subseteq Nat
    OBVIOUS
  <2> QED BY <2>1, <2>2, LeastElement
<1>2. \A m \in S : n - m \in 0..n /\ n - (n - m) = m
  OBVIOUS
<1>3. n - d \in S /\ \A m \in S : n - d >= m
  BY <1>1, <1>2
<1>4. \E x \in S : \A y \in S : x >= y
  BY <1>3
<1>5. Max(S) \in S /\ \A y \in S : Max(S) >= y
  BY <1>4, Zenon DEF Max
<1> QED BY <1>5

LEMMA SmallestElement ==
    ASSUME NEW S, S \subseteq Nat, S # {}
    PROVE  Min(S) \in S /\ \A m \in S : Min(S) <= m
<1>1. \E x \in S : \A y \in S : x =< y
  BY LeastElement
<1> QED BY <1>1, Zenon DEF Min

-----------------------------------------------------------------------------
(* What the operators make of one element more *)

LEMMA LastAdded ==
    ASSUME NEW Y, NEW s \in Seq(Y), NEW y \in Y
    PROVE  /\ Append(s, y) \in Seq(Y) /\ Len(s) \in Nat
           /\ DOMAIN s = 1..Len(s) /\ DOMAIN Append(s, y) = 1..(Len(s) + 1)
           /\ Append(s, y)[Len(s) + 1] = y
           /\ \A i \in 1..Len(s) : s[i] \in Y /\ Append(s, y)[i] = s[i]
OBVIOUS

LEMMA TextType ==
    ASSUME NEW c \in Seq(Parts)
    PROVE  TextFromContent(c) \in Seq(Words)
<1> DEFINE f == [i \in DOMAIN c |-> OneIf(Textual(c[i]), c[i].say)]
<1>0. \A part \in Parts : part.say \in Words
  BY DEF Parts
<1>1. DOMAIN c = 1..Len(c) /\ Len(c) \in Nat /\ \A i \in DOMAIN c : c[i].say \in Words
  BY <1>0
<1>2. \A i \in DOMAIN c : OneIf(Textual(c[i]), c[i].say) \in Seq(Words)
  BY <1>1 DEF OneIf
<1>3. f \in [1..Len(c) -> Seq(Words)]
  BY <1>1, <1>2
<1>4. f \in Seq(Seq(Words))
  <2> HIDE DEF f
  <2> QED BY <1>1, <1>3
<1>5. TextFromContent(c) = FlattenSeq(f)
  BY DEF TextFromContent
<1> HIDE DEF f
<1> QED BY <1>4, <1>5, FlattenType

\* The text of a text as a content is the text.
LEMMA AsContentType ==
    ASSUME NEW t \in Seq(Words)
    PROVE  /\ AsContent(t) \in Seq(Parts)
           /\ TextFromContent(AsContent(t)) = t
           /\ ChatContentFromResponses(AsContent(t)) = AsContent(t)
           /\ AsContent(t) = <<>> <=> t = <<>>
<1>1. DOMAIN t = 1..Len(t) /\ Len(t) \in Nat /\ \A i \in DOMAIN t : t[i] \in Words
  OBVIOUS
<1>2. \A i \in DOMAIN t : Part("text", t[i]) \in Parts
  BY <1>1 DEF Part, Parts
<1>3. AsContent(t) \in [1..Len(t) -> Parts]
  BY <1>1, <1>2 DEF AsContent
<1>4. AsContent(t) \in Seq(Parts) /\ Len(AsContent(t)) = Len(t)
  BY <1>1, <1>3
<1>5. DOMAIN AsContent(t) = DOMAIN t /\ \A i \in DOMAIN t : AsContent(t)[i] = Part("text", t[i])
  BY DEF AsContent
<1>6. TextFromContent(AsContent(t)) = FlattenSeq([i \in DOMAIN t |-> <<t[i]>>])
  BY <1>5 DEF TextFromContent, Textual, OneIf, Part
<1>7. TextFromContent(AsContent(t)) = t
  BY <1>6, FlattenSingles
<1>8. ChatContentFromResponses(AsContent(t)) = AsContent(t)
  BY <1>5 DEF ChatContentFromResponses, AsContent, Part
<1>9. AsContent(t) = <<>> <=> t = <<>>
  <2>1. AsContent(t) = <<>> <=> Len(AsContent(t)) = 0
    <3> HIDE DEF AsContent
    <3> QED BY <1>4
  <2>2. t = <<>> <=> Len(t) = 0
    OBVIOUS
  <2> QED BY <1>4, <2>1, <2>2
<1> QED BY <1>4, <1>7, <1>8, <1>9

LEMMA ChatContentType ==
    ASSUME NEW c \in Seq(Parts)
    PROVE  ChatContentFromResponses(c) \in Seq(Parts)
<1>1. DOMAIN c = 1..Len(c) /\ Len(c) \in Nat /\ \A i \in DOMAIN c : c[i] \in Parts
  OBVIOUS
<1>2. \A i \in DOMAIN c : Part("text", c[i].say) \in Parts
  BY <1>1 DEF Part, Parts
<1>3. ChatContentFromResponses(c) \in [1..Len(c) -> Parts]
  BY <1>1, <1>2 DEF ChatContentFromResponses
<1> QED BY <1>1, <1>3

LEMMA MessageType ==
    ASSUME NEW item \in ItemRecords, Known(item)
    PROVE  MessageOf(item) \in MessageRecords
<1>1. item.content \in Seq(Parts) /\ item.call_id \in Ids \cup {None}
      /\ item.name \in {"tool", None} /\ item.arguments \in {"args", None}
  BY DEF ItemRecords
<1>2. CASE item.type = "message"
  <2>1. item.role \in {"user", "system", "developer", "assistant"}
    BY <1>2 DEF ItemRecords
  <2> QED BY <1>1, <1>2, <2>1, ChatContentType DEF MessageOf, Message, MessageRecords
<1>3. CASE item.type = "function_call"
  <2>1. <<ToolCall(item.call_id, item.name, item.arguments)>> \in Seq(CallRecords)
    BY <1>1 DEF ToolCall, CallRecords
  <2> QED BY <1>3, <2>1, EmptySeq DEF MessageOf, Message, MessageRecords
<1>4. CASE item.type = "function_call_output"
  <2>1. AsContent(TextFromContent(item.content)) \in Seq(Parts)
    BY <1>1, TextType, AsContentType
  <2> QED BY <1>1, <1>4, <2>1 DEF MessageOf, Message, MessageRecords
<1> QED BY <1>2, <1>3, <1>4 DEF Known

\* The instructions as a message, if there are any.
SystemMessage(ins) ==
    OneIf(ins # None, Message("system", AsContent(TextFromContent(ins)), None, None))

LEMMA SystemType ==
    ASSUME NEW ins \in Contents \cup {None}
    PROVE  SystemMessage(ins) \in Seq(MessageRecords)
<1>1. CASE ins # None
  <2>1. ins \in Seq(Parts)
    BY <1>1, ConversationAssumption
  <2>2. AsContent(TextFromContent(ins)) \in Seq(Parts)
    BY <2>1, TextType, AsContentType
  <2>3. Message("system", AsContent(TextFromContent(ins)), None, None) \in MessageRecords
    BY <2>2 DEF Message, MessageRecords
  <2> QED BY <2>3 DEF SystemMessage, OneIf
<1>2. CASE ins = None
  BY <1>2, EmptySeq DEF SystemMessage, OneIf
<1> QED BY <1>1, <1>2

\* One item more is its message more, if it has one.
LEMMA InputAppend ==
    ASSUME NEW ins \in Contents \cup {None}, NEW list \in Seq(ItemRecords), NEW item \in ItemRecords
    PROVE  /\ InputMessages(ins, list) \in Seq(MessageRecords)
           /\ InputMessages(ins, Append(list, item))
                = InputMessages(ins, list) \o OneIf(Known(item), MessageOf(item))
<1> DEFINE M(x) == OneIf(Known(x), MessageOf(x))
           more == Append(list, item)
           f == [i \in DOMAIN list |-> M(list[i])]
           g == [i \in DOMAIN more |-> M(more[i])]
<1>1. /\ more \in Seq(ItemRecords) /\ Len(list) \in Nat
      /\ DOMAIN list = 1..Len(list) /\ DOMAIN more = 1..(Len(list) + 1)
      /\ more[Len(list) + 1] = item
      /\ \A i \in 1..Len(list) : list[i] \in ItemRecords /\ more[i] = list[i]
  BY LastAdded
<1>2. \A x \in ItemRecords : M(x) \in Seq(MessageRecords)
  BY MessageType, OneIfType
<1>3. InputMessages(ins, list) = SystemMessage(ins) \o FlattenSeq(f)
      /\ InputMessages(ins, more) = SystemMessage(ins) \o FlattenSeq(g)
  BY DEF InputMessages, SystemMessage
<1> HIDE DEF M, more
<1>4. f \in [1..Len(list) -> Seq(MessageRecords)] /\ g \in [1..(Len(list) + 1) -> Seq(MessageRecords)]
      /\ \A i \in 1..Len(list) : g[i] = f[i]
  <2>1. \A i \in 1..(Len(list) + 1) : more[i] \in ItemRecords
    BY <1>1
  <2> QED BY <1>1, <1>2, <2>1
<1>5. g[Len(list) + 1] = M(item)
  BY <1>1
<1> HIDE DEF f, g
<1>6. FlattenSeq(f) \in Seq(MessageRecords) /\ FlattenSeq(g) = FlattenSeq(f) \o M(item)
  BY <1>1, <1>4, <1>5, FlattenMore
<1>7. PICK a \in Seq(MessageRecords) : a = SystemMessage(ins)
  BY SystemType
<1>8. PICK b \in Seq(MessageRecords) : b = FlattenSeq(f)
  BY <1>6
<1>9. PICK c \in Seq(MessageRecords) : c = M(item)
  BY <1>2
<1>10. a \o (b \o c) = (a \o b) \o c
  BY ConcatAssociative, SMTT(30)
<1>11. InputMessages(ins, list) = a \o b /\ InputMessages(ins, more) = (a \o b) \o c
  BY <1>3, <1>6, <1>7, <1>8, <1>9, <1>10
<1> QED BY <1>9, <1>11 DEF more, M

LEMMA InputNothing ==
    ASSUME NEW ins \in Contents \cup {None}
    PROVE  InputMessages(ins, <<>>) = SystemMessage(ins)
<1>1. [i \in DOMAIN <<>> |-> OneIf(Known(<<>>[i]), MessageOf(<<>>[i]))] = <<>>
  OBVIOUS
<1>2. InputMessages(ins, <<>>) = SystemMessage(ins) \o <<>>
  BY <1>1, FlattenNothing DEF InputMessages, SystemMessage
<1> QED BY <1>2, SystemType

LEMMA SomeItem == MessageItem("user", <<>>) \in ItemRecords
BY EmptySeq DEF MessageItem, ItemRecords

LEMMA InputType ==
    ASSUME NEW ins \in Contents \cup {None}, NEW list \in Seq(ItemRecords)
    PROVE  InputMessages(ins, list) \in Seq(MessageRecords)
BY SomeItem, InputAppend

LEMMA ToolCallsType ==
    ASSUME NEW m \in MessageRecords
    PROVE  ToolCalls(m) \in Seq(CallRecords)
BY EmptySeq DEF MessageRecords, ToolCalls

LEMMA CallsInAppend ==
    ASSUME NEW chat \in Seq(MessageRecords), NEW m \in MessageRecords
    PROVE  /\ CallsIn(chat) \in Seq(CallRecords)
           /\ CallsIn(Append(chat, m)) = CallsIn(chat) \o ToolCalls(m)
<1> DEFINE more == Append(chat, m)
           f == [i \in DOMAIN chat |-> ToolCalls(chat[i])]
           g == [i \in DOMAIN more |-> ToolCalls(more[i])]
<1>1. /\ more \in Seq(MessageRecords) /\ Len(chat) \in Nat
      /\ DOMAIN chat = 1..Len(chat) /\ DOMAIN more = 1..(Len(chat) + 1)
      /\ more[Len(chat) + 1] = m
      /\ \A i \in 1..Len(chat) : chat[i] \in MessageRecords /\ more[i] = chat[i]
  BY LastAdded
<1>2. CallsIn(chat) = FlattenSeq(f) /\ CallsIn(more) = FlattenSeq(g)
  BY DEF CallsIn
<1> HIDE DEF more
<1>3. f \in [1..Len(chat) -> Seq(CallRecords)] /\ g \in [1..(Len(chat) + 1) -> Seq(CallRecords)]
      /\ (\A i \in 1..Len(chat) : g[i] = f[i]) /\ g[Len(chat) + 1] = ToolCalls(m)
  <2>1. \A i \in 1..(Len(chat) + 1) : more[i] \in MessageRecords
    BY <1>1
  <2> QED BY <1>1, <2>1, ToolCallsType
<1> HIDE DEF f, g
<1>4. FlattenSeq(f) \in Seq(CallRecords) /\ FlattenSeq(g) = FlattenSeq(f) \o ToolCalls(m)
  BY <1>1, <1>3, FlattenMore
<1> QED BY <1>2, <1>4 DEF more

LEMMA CallsInType ==
    ASSUME NEW chat \in Seq(MessageRecords)
    PROVE  CallsIn(chat) \in Seq(CallRecords)
<1>1. MessageOf(MessageItem("user", <<>>)) \in MessageRecords
  BY SomeItem, MessageType DEF Known, MessageItem
<1> QED BY <1>1, CallsInAppend

LEMMA CallsAmongAppend ==
    ASSUME NEW list \in Seq(ItemRecords), NEW item \in ItemRecords
    PROVE  /\ CallsAmong(list) \in Seq(ItemRecords)
           /\ CallsAmong(Append(list, item))
                = CallsAmong(list) \o OneIf(item.type = "function_call", item)
<1> DEFINE more == Append(list, item)
           C(x) == OneIf(x.type = "function_call", x)
           f == [i \in DOMAIN list |-> C(list[i])]
           g == [i \in DOMAIN more |-> C(more[i])]
<1>1. /\ more \in Seq(ItemRecords) /\ Len(list) \in Nat
      /\ DOMAIN list = 1..Len(list) /\ DOMAIN more = 1..(Len(list) + 1)
      /\ more[Len(list) + 1] = item
      /\ \A i \in 1..Len(list) : list[i] \in ItemRecords /\ more[i] = list[i]
  BY LastAdded
<1>2. CallsAmong(list) = FlattenSeq(f) /\ CallsAmong(more) = FlattenSeq(g)
  BY DEF CallsAmong
<1>3. \A x \in ItemRecords : C(x) \in Seq(ItemRecords)
  BY OneIfType
<1> HIDE DEF more, C
<1>4. f \in [1..Len(list) -> Seq(ItemRecords)] /\ g \in [1..(Len(list) + 1) -> Seq(ItemRecords)]
      /\ (\A i \in 1..Len(list) : g[i] = f[i]) /\ g[Len(list) + 1] = C(item)
  <2>1. \A i \in 1..(Len(list) + 1) : more[i] \in ItemRecords
    BY <1>1
  <2> QED BY <1>1, <1>3, <2>1
<1> HIDE DEF f, g
<1>5. FlattenSeq(f) \in Seq(ItemRecords) /\ FlattenSeq(g) = FlattenSeq(f) \o C(item)
  BY <1>1, <1>4, FlattenMore
<1> QED BY <1>2, <1>5 DEF more, C

LEMMA CallsAmongType ==
    ASSUME NEW list \in Seq(ItemRecords)
    PROVE  CallsAmong(list) \in Seq(ItemRecords)
BY SomeItem, CallsAmongAppend

LEMMA ResultForType ==
    ASSUME NEW calls \in Seq(CallRecords), NEW id
    PROVE  /\ ResultFor(calls, id) \in {k \in DOMAIN calls : calls[k].id = id} \cup {0}
           /\ ResultFor(calls, id) \in Nat
<1> DEFINE S == {k \in DOMAIN calls : calls[k].id = id} \cup {0}
<1>1. Len(calls) \in Nat /\ S \subseteq 0..Len(calls) /\ S # {}
  OBVIOUS
<1>2. Max(S) \in S
  <2> HIDE DEF S
  <2> QED BY <1>1, GreatestElement
<1> QED BY <1>1, <1>2 DEF ResultFor

LEMMA CalledType ==
    ASSUME NEW call \in CallRecords
    PROVE  Called(call) \in UnitRecords
BY EmptySeq DEF Called, Unit, UnitRecords, CallRecords

LEMMA UnitsOfType ==
    ASSUME NEW before \in Seq(MessageRecords), NEW m \in MessageRecords
    PROVE  UnitsOf(before, m) \in Seq(UnitRecords)
<1>1. m.role \in {"user", "system", "assistant", "tool"} /\ m.content \in Seq(Parts)
  BY DEF MessageRecords
<1>2. CASE m.role = "tool"
  <2>1. ResultFor(CallsIn(before), m.tool_call_id) \in Nat
    BY CallsInAppend, ResultForType
  <2>2. Result(m.content, ResultFor(CallsIn(before), m.tool_call_id)) \in UnitRecords
    BY <1>1, <2>1 DEF Result, Unit, UnitRecords
  <2> QED BY <1>2, <2>2 DEF UnitsOf
<1>3. CASE m.role # "tool"
  <2>1. Spoken(m.role, m.content) \in UnitRecords
    BY <1>1 DEF Spoken, Unit, UnitRecords
  <2>2. PICK calls \in Seq(CallRecords) : calls = ToolCalls(m)
    BY ToolCallsType
  <2>3. DOMAIN calls = 1..Len(calls) /\ Len(calls) \in Nat /\ \A p \in DOMAIN calls : calls[p] \in CallRecords
    OBVIOUS
  <2>4. [p \in DOMAIN calls |-> Called(calls[p])] \in [1..Len(calls) -> UnitRecords]
    BY <2>3, CalledType
  <2>5. [p \in DOMAIN calls |-> Called(calls[p])] \in Seq(UnitRecords)
    BY <2>3, <2>4
  <2>6. OneIf(m.role # "assistant" \/ m.content # <<>>, Spoken(m.role, m.content)) \in Seq(UnitRecords)
    BY <2>1, OneIfType
  <2>7. UnitsOf(before, m) = OneIf(m.role # "assistant" \/ m.content # <<>>, Spoken(m.role, m.content))
                             \o [p \in DOMAIN calls |-> Called(calls[p])]
    BY <1>3, <2>2 DEF UnitsOf
  <2> QED BY <2>5, <2>6, <2>7
<1> QED BY <1>2, <1>3

\* One message more says its units more.
LEMMA UnitsInAppend ==
    ASSUME NEW chat \in Seq(MessageRecords), NEW m \in MessageRecords
    PROVE  /\ UnitsIn(chat) \in Seq(UnitRecords)
           /\ UnitsIn(Append(chat, m)) = UnitsIn(chat) \o UnitsOf(chat, m)
<1> DEFINE more == Append(chat, m)
           f == [i \in DOMAIN chat |-> UnitsOf(SubSeq(chat, 1, i - 1), chat[i])]
           g == [i \in DOMAIN more |-> UnitsOf(SubSeq(more, 1, i - 1), more[i])]
<1>1. /\ more \in Seq(MessageRecords) /\ Len(chat) \in Nat
      /\ DOMAIN chat = 1..Len(chat) /\ DOMAIN more = 1..(Len(chat) + 1)
      /\ more[Len(chat) + 1] = m
      /\ \A i \in 1..Len(chat) : chat[i] \in MessageRecords /\ more[i] = chat[i]
  BY LastAdded
<1>2. ASSUME NEW i \in 1..(Len(chat) + 1)
      PROVE  SubSeq(more, 1, i - 1) = SubSeq(chat, 1, i - 1) /\ SubSeq(chat, 1, i - 1) \in Seq(MessageRecords)
  OBVIOUS
<1>3. SubSeq(chat, 1, (Len(chat) + 1) - 1) = chat
  OBVIOUS
<1>4. UnitsIn(chat) = FlattenSeq(f) /\ UnitsIn(more) = FlattenSeq(g)
  BY DEF UnitsIn
<1> HIDE DEF more
<1>5. f \in [1..Len(chat) -> Seq(UnitRecords)] /\ g \in [1..(Len(chat) + 1) -> Seq(UnitRecords)]
      /\ (\A i \in 1..Len(chat) : g[i] = f[i]) /\ g[Len(chat) + 1] = UnitsOf(chat, m)
  <2>1. \A i \in 1..(Len(chat) + 1) : more[i] \in MessageRecords
    BY <1>1
  <2>2. \A i \in 1..(Len(chat) + 1) : UnitsOf(SubSeq(more, 1, i - 1), more[i]) \in Seq(UnitRecords)
    BY <1>2, <2>1, UnitsOfType
  <2>3. \A i \in 1..Len(chat) :
           /\ i \in 1..(Len(chat) + 1)
           /\ UnitsOf(SubSeq(more, 1, i - 1), more[i]) = UnitsOf(SubSeq(chat, 1, i - 1), chat[i])
    <3>1. ASSUME NEW i \in 1..Len(chat)
          PROVE  /\ i \in 1..(Len(chat) + 1)
                 /\ more[i] = chat[i] /\ SubSeq(more, 1, i - 1) = SubSeq(chat, 1, i - 1)
      <4>1. i \in 1..(Len(chat) + 1)
        BY <1>1
      <4> QED BY <1>1, <1>2, <4>1
    <3> QED BY <3>1
  <2>4. Len(chat) + 1 \in 1..(Len(chat) + 1) /\ SubSeq(more, 1, (Len(chat) + 1) - 1) = chat
    BY <1>1, <1>2, <1>3
  <2>5. f \in [1..Len(chat) -> Seq(UnitRecords)]
    BY <1>1, <2>2, <2>3
  <2>6. g \in [1..(Len(chat) + 1) -> Seq(UnitRecords)]
    BY <1>1, <2>2
  <2>7. \A i \in 1..Len(chat) : g[i] = f[i]
    BY <1>1, <2>3
  <2>8. g[Len(chat) + 1] = UnitsOf(chat, m)
    BY <1>1, <2>4
  <2> QED BY <2>5, <2>6, <2>7, <2>8
<1> HIDE DEF f, g
<1>6. FlattenSeq(f) \in Seq(UnitRecords) /\ FlattenSeq(g) = FlattenSeq(f) \o UnitsOf(chat, m)
  BY <1>1, <1>5, FlattenMore
<1> QED BY <1>4, <1>6 DEF more

\* What an agent is told of a unit.
AgentUnit(u) == OneIf(u.role # "system", [u EXCEPT !.content = AsContent(TextFromContent(@))])

LEMMA ForAgentAppend ==
    ASSUME NEW units \in Seq(UnitRecords), NEW u \in UnitRecords
    PROVE  /\ ForAgent(units) \in Seq(UnitRecords)
           /\ ForAgent(Append(units, u)) = ForAgent(units) \o AgentUnit(u)
<1> DEFINE more == Append(units, u)
           f == [i \in DOMAIN units |-> AgentUnit(units[i])]
           g == [i \in DOMAIN more |-> AgentUnit(more[i])]
<1>1. /\ more \in Seq(UnitRecords) /\ Len(units) \in Nat
      /\ DOMAIN units = 1..Len(units) /\ DOMAIN more = 1..(Len(units) + 1)
      /\ more[Len(units) + 1] = u
      /\ \A i \in 1..Len(units) : units[i] \in UnitRecords /\ more[i] = units[i]
  BY LastAdded
<1>2. ForAgent(units) = FlattenSeq(f) /\ ForAgent(more) = FlattenSeq(g)
  BY DEF ForAgent, AgentUnit
<1>3. ASSUME NEW x \in UnitRecords PROVE AgentUnit(x) \in Seq(UnitRecords)
  <2>1. x.content \in Seq(Parts)
    BY DEF UnitRecords
  <2>2. AsContent(TextFromContent(x.content)) \in Seq(Parts)
    BY <2>1, TextType, AsContentType
  <2>3. [x EXCEPT !.content = AsContent(TextFromContent(@))] \in UnitRecords
    BY <2>2 DEF UnitRecords
  <2> QED BY <2>3, OneIfType DEF AgentUnit
<1> HIDE DEF more
<1>4. f \in [1..Len(units) -> Seq(UnitRecords)] /\ g \in [1..(Len(units) + 1) -> Seq(UnitRecords)]
      /\ (\A i \in 1..Len(units) : g[i] = f[i]) /\ g[Len(units) + 1] = AgentUnit(u)
  <2>1. \A i \in 1..(Len(units) + 1) : more[i] \in UnitRecords
    BY <1>1
  <2> QED BY <1>1, <1>3, <2>1
<1> HIDE DEF f, g
<1>5. FlattenSeq(f) \in Seq(UnitRecords) /\ FlattenSeq(g) = FlattenSeq(f) \o AgentUnit(u)
  BY <1>1, <1>4, FlattenMore
<1> QED BY <1>2, <1>5 DEF more

LEMMA SerializeAppend ==
    ASSUME NEW chat \in Seq(MessageRecords), NEW m \in MessageRecords
    PROVE  /\ SerializeMessages(chat) \in Seq(MessageRecords)
           /\ SerializeMessages(Append(chat, m)) = SerializeMessages(chat) \o Serialized(m)
           /\ Serialized(m) \in Seq(MessageRecords)
<1> DEFINE more == Append(chat, m)
           f == [i \in DOMAIN chat |-> Serialized(chat[i])]
           g == [i \in DOMAIN more |-> Serialized(more[i])]
<1>1. /\ more \in Seq(MessageRecords) /\ Len(chat) \in Nat
      /\ DOMAIN chat = 1..Len(chat) /\ DOMAIN more = 1..(Len(chat) + 1)
      /\ more[Len(chat) + 1] = m
      /\ \A i \in 1..Len(chat) : chat[i] \in MessageRecords /\ more[i] = chat[i]
  BY LastAdded
<1>2. SerializeMessages(chat) = FlattenSeq(f) /\ SerializeMessages(more) = FlattenSeq(g)
  BY DEF SerializeMessages
<1>3. ASSUME NEW x \in MessageRecords PROVE Serialized(x) \in Seq(MessageRecords)
  <2>1. x.content \in Seq(Parts)
    BY DEF MessageRecords
  <2>2. AsContent(TextFromContent(x.content)) \in Seq(Parts)
    BY <2>1, TextType, AsContentType
  <2>3. [x EXCEPT !.content = AsContent(TextFromContent(@))] \in MessageRecords
    BY <2>2 DEF MessageRecords
  <2> QED BY <2>3, OneIfType DEF Serialized
<1> HIDE DEF more
<1>4. f \in [1..Len(chat) -> Seq(MessageRecords)] /\ g \in [1..(Len(chat) + 1) -> Seq(MessageRecords)]
      /\ (\A i \in 1..Len(chat) : g[i] = f[i]) /\ g[Len(chat) + 1] = Serialized(m)
  <2>1. \A i \in 1..(Len(chat) + 1) : more[i] \in MessageRecords
    BY <1>1
  <2> QED BY <1>1, <1>3, <2>1
<1> HIDE DEF f, g
<1>5. FlattenSeq(f) \in Seq(MessageRecords) /\ FlattenSeq(g) = FlattenSeq(f) \o Serialized(m)
  BY <1>1, <1>4, FlattenMore
<1> QED BY <1>2, <1>3, <1>5 DEF more

-----------------------------------------------------------------------------
(* What an item more tells *)

Told(ins, list, units) == Tells(ins, list, units) /\ CallsAgree(ins, list) /\ Distinct(list)

\* An item of a type the proxy does not know tells nothing.
LEMMA NothingTold ==
    ASSUME NEW ins \in Contents \cup {None}, NEW list \in Seq(ItemRecords),
           NEW item \in ItemRecords, ~Known(item)
    PROVE  /\ InputMessages(ins, Append(list, item)) = InputMessages(ins, list)
           /\ CallsAmong(Append(list, item)) = CallsAmong(list)
<1>1. InputMessages(ins, Append(list, item)) = InputMessages(ins, list) \o <<>>
  BY InputAppend DEF OneIf
<1>2. CallsAmong(Append(list, item)) = CallsAmong(list) \o <<>>
  BY CallsAmongAppend DEF OneIf, Known
<1>3. InputMessages(ins, list) \in Seq(MessageRecords) /\ CallsAmong(list) \in Seq(ItemRecords)
  BY InputAppend, CallsAmongAppend
<1> QED BY <1>1, <1>2, <1>3

\* A known item is a message more.
LEMMA KnownTold ==
    ASSUME NEW ins \in Contents \cup {None}, NEW list \in Seq(ItemRecords),
           NEW item \in ItemRecords, Known(item)
    PROVE  /\ MessageOf(item) \in MessageRecords
           /\ InputMessages(ins, list) \in Seq(MessageRecords)
           /\ InputMessages(ins, Append(list, item)) = Append(InputMessages(ins, list), MessageOf(item))
<1>1. MessageOf(item) \in MessageRecords /\ InputMessages(ins, list) \in Seq(MessageRecords)
  BY MessageType, InputAppend
<1>2. InputMessages(ins, Append(list, item)) = InputMessages(ins, list) \o <<MessageOf(item)>>
  BY InputAppend DEF OneIf
<1>3. InputMessages(ins, list) \o <<MessageOf(item)>> = Append(InputMessages(ins, list), MessageOf(item))
  BY <1>1, AppendIsConcat
<1> QED BY <1>1, <1>2, <1>3

\* The unit of a message, if it says anything.
Uttered(m) == OneIf(m.role # "assistant" \/ m.content # <<>>, Spoken(m.role, m.content))

LEMMA MessageTold ==
    ASSUME NEW ins \in Contents \cup {None}, NEW list \in Seq(ItemRecords),
           NEW units \in Seq(UnitRecords), NEW item \in ItemRecords, item.type = "message",
           Told(ins, list, units)
    PROVE  /\ Told(ins, Append(list, item), units \o Uttered(MessageOf(item)))
           /\ Uttered(MessageOf(item)) \in Seq(UnitRecords)
           /\ CallsAmong(Append(list, item)) = CallsAmong(list)
<1> DEFINE m == MessageOf(item)
           more == Append(list, item)
<1>1. Known(item)
  BY DEF Known
<1>2. PICK chat \in Seq(MessageRecords) : chat = InputMessages(ins, list)
  BY InputType
<1>3. m \in MessageRecords /\ InputMessages(ins, more) = Append(chat, m)
  BY <1>1, <1>2, KnownTold
<1>4. ToolCalls(m) = <<>> /\ m.role # "tool"
  <2>1. item.role \in {"user", "system", "developer", "assistant"}
    BY DEF ItemRecords
  <2> QED BY <2>1 DEF MessageOf, Message, ToolCalls
<1> HIDE DEF m
<1>5. PICK calls \in Seq(CallRecords) : calls = CallsIn(chat)
  BY CallsInType
<1>6. CallsIn(Append(chat, m)) = calls
  <2>1. CallsIn(Append(chat, m)) = calls \o <<>>
    BY <1>3, <1>4, <1>5, CallsInAppend
  <2> QED BY <2>1
<1>7. CallsAmong(more) = CallsAmong(list)
  <2>1. PICK among \in Seq(ItemRecords) : among = CallsAmong(list)
    BY CallsAmongType
  <2>2. CallsAmong(more) = among \o <<>>
    BY <2>1, CallsAmongAppend DEF OneIf
  <2> QED BY <2>1, <2>2
<1>8. UnitsOf(chat, m) = Uttered(m) /\ Uttered(m) \in Seq(UnitRecords)
  <2>1. UnitsOf(chat, m) = Uttered(m) \o [p \in DOMAIN <<>> |-> Called(<<>>[p])]
    BY <1>4 DEF UnitsOf, Uttered
  <2>2. [p \in DOMAIN <<>> |-> Called(<<>>[p])] = <<>>
    OBVIOUS
  <2>3. m.role \in {"user", "system", "assistant", "tool"} /\ m.content \in Seq(Parts)
    BY <1>3 DEF MessageRecords
  <2>4. Spoken(m.role, m.content) \in UnitRecords
    BY <2>3 DEF Spoken, Unit, UnitRecords
  <2>5. Uttered(m) \in Seq(UnitRecords)
    BY <2>4, OneIfType DEF Uttered
  <2> QED BY <2>1, <2>2, <2>5
<1>9. UnitsIn(Append(chat, m)) = units \o Uttered(m)
  BY <1>2, <1>3, <1>8, UnitsInAppend DEF Told, Tells
<1>10. Told(ins, more, units \o Uttered(m))
  BY <1>2, <1>3, <1>5, <1>6, <1>7, <1>9 DEF Told, Tells, CallsAgree, Distinct
<1> QED BY <1>7, <1>8, <1>10 DEF m

\* The item is the last of the calls.
LastCall(list, item) == CallsAmong(Append(list, item)) = Append(CallsAmong(list), item)

\* No call has the id.
NewId(list, id) == \A k \in DOMAIN CallsAmong(list) : CallsAmong(list)[k].call_id # id

\* A call with an id of its own.
LEMMA CallTold ==
    ASSUME NEW ins \in Contents \cup {None}, NEW list \in Seq(ItemRecords),
           NEW units \in Seq(UnitRecords), Told(ins, list, units),
           NEW id \in Ids, NEW name \in {"tool", None}, NEW arguments \in {"args", None},
           NewId(list, id)
    PROVE  /\ CallItem(id, name, arguments) \in ItemRecords
           /\ Told(ins, Append(list, CallItem(id, name, arguments)),
                   Append(units, Called(ToolCall(id, name, arguments))))
           /\ LastCall(list, CallItem(id, name, arguments))
<1> DEFINE item == CallItem(id, name, arguments)
           call == ToolCall(id, name, arguments)
           m    == MessageOf(item)
           more == Append(list, item)
<1>1. item \in ItemRecords /\ item.type = "function_call" /\ item.call_id = id
  BY EmptySeq DEF CallItem, ItemRecords
<1>2. call \in CallRecords /\ call.id = id
  BY DEF ToolCall, CallRecords
<1>3. Called(call) \in UnitRecords
  BY <1>2, CalledType
<1>4. PICK chat \in Seq(MessageRecords) : chat = InputMessages(ins, list)
  BY InputType
<1>5. m \in MessageRecords /\ InputMessages(ins, more) = Append(chat, m)
  <2>1. Known(item)
    BY <1>1 DEF Known
  <2> HIDE DEF item
  <2> QED BY <1>1, <1>4, <2>1, KnownTold
<1>6. m.tool_calls = <<call>> /\ m.role = "assistant" /\ m.content = <<>>
  BY DEF MessageOf, Message, CallItem
<1>7. ToolCalls(m) = <<call>>
  <2>1. <<call>> \in Seq(CallRecords)
    BY <1>2
  <2>2. m.tool_calls # None
    BY <1>6, <2>1, ConversationAssumption
  <2> QED BY <1>6, <2>2 DEF ToolCalls
<1> HIDE DEF m, item, call
<1>8. PICK calls \in Seq(CallRecords) : calls = CallsIn(chat)
  BY CallsInType
<1>9. CallsIn(Append(chat, m)) = Append(calls, call)
  <2>1. CallsIn(Append(chat, m)) = calls \o <<call>>
    BY <1>5, <1>7, <1>8, CallsInAppend
  <2>2. calls \o <<call>> = Append(calls, call)
    BY <1>2, AppendIsConcat
  <2> QED BY <2>1, <2>2
<1>10. PICK among \in Seq(ItemRecords) : among = CallsAmong(list)
  BY CallsAmongType
<1>11. CallsAmong(more) = Append(among, item)
  <2>1. CallsAmong(more) = among \o <<item>>
    BY <1>1, <1>10, CallsAmongAppend DEF OneIf
  <2>2. among \o <<item>> = Append(among, item)
    BY <1>1, AppendIsConcat
  <2> QED BY <2>1, <2>2
<1>12. UnitsIn(Append(chat, m)) = Append(units, Called(call))
  <2>1. UnitsOf(chat, m) = <<Called(call)>>
    <3>1. UnitsOf(chat, m) = <<>> \o [p \in DOMAIN <<call>> |-> Called(<<call>>[p])]
      BY <1>6, <1>7 DEF UnitsOf, OneIf
    <3>2. [p \in DOMAIN <<call>> |-> Called(<<call>>[p])] = <<Called(call)>>
      OBVIOUS
    <3>3. <<Called(call)>> \in Seq(UnitRecords)
      BY <1>3
    <3> QED BY <3>1, <3>2, <3>3
  <2>2. UnitsIn(Append(chat, m)) = units \o <<Called(call)>>
    BY <1>4, <1>5, <2>1, UnitsInAppend DEF Told, Tells
  <2>3. units \o <<Called(call)>> = Append(units, Called(call))
    BY <1>3, AppendIsConcat
  <2> QED BY <2>2, <2>3
<1>13. CallsAgree(ins, more)
  <2>1. Len(calls) = Len(among) /\ \A k \in DOMAIN among : calls[k].id = among[k].call_id
    BY <1>4, <1>8, <1>10 DEF Told, CallsAgree
  <2>2. Len(Append(calls, call)) = Len(Append(among, item))
        /\ \A k \in DOMAIN Append(among, item) : Append(calls, call)[k].id = Append(among, item)[k].call_id
    BY <1>1, <1>2, <2>1
  <2> QED BY <1>5, <1>9, <1>11, <2>2 DEF CallsAgree
<1>14. Distinct(more)
  <2>1. \A j, k \in DOMAIN among : among[j].call_id = among[k].call_id => j = k
    BY <1>10 DEF Told, Distinct
  <2>2. \A k \in DOMAIN among : among[k].call_id # id
    BY <1>10 DEF NewId
  <2>3. \A j, k \in DOMAIN Append(among, item) :
           Append(among, item)[j].call_id = Append(among, item)[k].call_id => j = k
    BY <1>1, <2>1, <2>2
  <2> QED BY <1>11, <2>3 DEF Distinct
<1>15. Told(ins, more, Append(units, Called(call)))
  BY <1>5, <1>12, <1>13, <1>14 DEF Told, Tells
<1> QED BY <1>1, <1>10, <1>11, <1>15 DEF item, call, LastCall

\* The result of the k-th call.
LEMMA ResultTold ==
    ASSUME NEW ins \in Contents \cup {None}, NEW list \in Seq(ItemRecords),
           NEW units \in Seq(UnitRecords), Told(ins, list, units),
           NEW k \in DOMAIN CallsAmong(list), NEW content \in Seq(Parts),
           CallsAmong(list)[k].call_id \in Ids
    PROVE  LET item   == OutputItem(CallsAmong(list)[k].call_id, content)
               result == Result(AsContent(TextFromContent(content)), k)
           IN  /\ Told(ins, Append(list, item), Append(units, result))
               /\ result \in UnitRecords /\ item \in ItemRecords
               /\ CallsAmong(Append(list, item)) = CallsAmong(list)
<1> DEFINE id     == CallsAmong(list)[k].call_id
           item   == OutputItem(id, content)
           text   == AsContent(TextFromContent(content))
           result == Result(text, k)
           m      == MessageOf(item)
           more   == Append(list, item)
<1>1. item \in ItemRecords /\ item.type = "function_call_output"
  BY DEF OutputItem, ItemRecords
<1>2. text \in Seq(Parts)
  BY TextType, AsContentType
<1>3. PICK among \in Seq(ItemRecords) : among = CallsAmong(list)
  BY CallsAmongType
<1>4. k \in Nat /\ k \in 1..Len(among)
  BY <1>3
<1>5. result \in UnitRecords
  BY <1>2, <1>4 DEF Result, Unit, UnitRecords
<1>6. PICK chat \in Seq(MessageRecords) : chat = InputMessages(ins, list)
  BY InputType
<1>7. m \in MessageRecords /\ InputMessages(ins, more) = Append(chat, m)
  <2>1. Known(item)
    BY <1>1 DEF Known
  <2> HIDE DEF item
  <2> QED BY <1>1, <1>6, <2>1, KnownTold
<1>8. m.tool_calls = None /\ m.role = "tool" /\ m.content = text /\ m.tool_call_id = id
  BY DEF MessageOf, Message, OutputItem
<1>9. ToolCalls(m) = <<>>
  BY <1>8 DEF ToolCalls
<1> HIDE DEF m, item, text
<1>10. PICK calls \in Seq(CallRecords) : calls = CallsIn(chat)
  BY CallsInType
<1>11. CallsIn(Append(chat, m)) = calls
  <2>1. CallsIn(Append(chat, m)) = calls \o <<>>
    BY <1>7, <1>9, <1>10, CallsInAppend
  <2> QED BY <2>1
<1>12. CallsAmong(more) = among
  <2>1. CallsAmong(more) = among \o <<>>
    BY <1>1, <1>3, CallsAmongAppend DEF OneIf
  <2> QED BY <2>1
<1>13. ResultFor(calls, id) = k
  <2>1. Len(calls) = Len(among) /\ \A j \in DOMAIN among : calls[j].id = among[j].call_id
    BY <1>3, <1>6, <1>10 DEF Told, CallsAgree
  <2>2. \A j \in DOMAIN among : among[j].call_id = id => j = k
    BY <1>3 DEF Told, Distinct
  <2>3. {j \in DOMAIN calls : calls[j].id = id} = {k}
    <3>1. DOMAIN calls = DOMAIN among
      BY <2>1
    <3>2. k \in DOMAIN among /\ among[k].call_id = id
      BY <1>3
    <3> HIDE DEF id
    <3> QED BY <2>1, <2>2, <3>1, <3>2
  <2>4. {k} \cup {0} \subseteq 0..k /\ {k} \cup {0} # {}
    BY <1>4
  <2>5. Max({k} \cup {0}) \in {k} \cup {0} /\ \A j \in {k} \cup {0} : j <= Max({k} \cup {0})
    BY <1>4, <2>4, GreatestElement
  <2>6. Max({k} \cup {0}) = k
    <3>1. PICK x \in {k} \cup {0} : x = Max({k} \cup {0}) /\ k <= x
      BY <2>5
    <3>2. k # 0
      BY <1>4
    <3>3. x = k
      BY <1>4, <3>1, <3>2
    <3> QED BY <3>1, <3>3
  <2> QED BY <2>3, <2>6 DEF ResultFor
<1>14. UnitsIn(Append(chat, m)) = Append(units, result)
  <2>1. UnitsOf(chat, m) = <<result>>
    BY <1>8, <1>10, <1>13 DEF UnitsOf
  <2> HIDE DEF result
  <2>2. UnitsIn(Append(chat, m)) = units \o <<result>>
    BY <1>6, <1>7, <2>1, UnitsInAppend DEF Told, Tells
  <2>3. units \o <<result>> = Append(units, result)
    BY <1>5, AppendIsConcat
  <2> QED BY <2>2, <2>3
<1>15. Told(ins, more, Append(units, result))
  BY <1>3, <1>6, <1>7, <1>10, <1>11, <1>12, <1>14 DEF Told, Tells, CallsAgree, Distinct
<1> QED BY <1>1, <1>3, <1>5, <1>12, <1>15 DEF item, text

\* An agent is told the text of a message, or of one that instructs nothing.
LEMMA AgentTold ==
    ASSUME NEW ins \in Contents \cup {None}, NEW list \in Seq(ItemRecords),
           NEW units \in Seq(UnitRecords), NEW item \in ItemRecords, item.type = "message",
           item.role = "assistant" => \E t \in Seq(Words) : item.content = AsContent(t),
           Told(ins, list, units), TellsAgent(ins, list, units)
    PROVE  TellsAgent(ins, Append(list, item), units \o Uttered(MessageOf(item)))
<1> DEFINE m    == MessageOf(item)
           more == Append(list, item)
           m2   == [m EXCEPT !.content = AsContent(TextFromContent(@))]
           u    == Spoken(m.role, m.content)
<1>1. Known(item)
  BY DEF Known
<1>2. PICK chat \in Seq(MessageRecords) : chat = InputMessages(ins, list)
  BY InputAppend
<1>3. m \in MessageRecords /\ InputMessages(ins, more) = Append(chat, m)
  BY <1>1, <1>2, KnownTold
<1>4. m.tool_calls = None /\ m.role # "tool"
      /\ m.role = (IF item.role = "developer" THEN "system" ELSE item.role)
      /\ m.content = ChatContentFromResponses(item.content)
  <2>1. item.role \in {"user", "system", "developer", "assistant"}
    BY DEF ItemRecords
  <2> QED BY <2>1 DEF MessageOf, Message
<1> HIDE DEF m
<1>5. m.role \in {"user", "system", "assistant", "tool"} /\ m.content \in Seq(Parts)
  BY <1>3 DEF MessageRecords
<1>6. CallsAmong(more) = <<>>
  BY MessageTold DEF TellsAgent
<1>7. PICK told \in Seq(MessageRecords) : told = SerializeMessages(chat)
  BY <1>3, SerializeAppend
<1>8. SerializeMessages(Append(chat, m)) = told \o Serialized(m)
  BY <1>3, <1>7, SerializeAppend
<1>9. UnitsIn(told) = ForAgent(units)
  BY <1>2, <1>7 DEF TellsAgent
<1>10. u \in UnitRecords /\ u.role = m.role /\ u.content = m.content
  BY <1>5 DEF Spoken, Unit, UnitRecords
<1>11. PICK units2 \in Seq(UnitRecords) : units2 = ForAgent(units)
  BY <1>10, ForAgentAppend
<1>12. CASE m.role = "system"
  <2>1. Serialized(m) = <<>>
    BY <1>12 DEF Serialized, OneIf
  <2>2. Uttered(m) = <<u>>
    BY <1>12 DEF Uttered, OneIf
  <2>3. AgentUnit(u) = <<>>
    BY <1>10, <1>12 DEF AgentUnit, OneIf
  <2> HIDE DEF u
  <2>4. units \o Uttered(m) = Append(units, u)
    BY <1>10, <2>2, AppendIsConcat
  <2>5. ForAgent(Append(units, u)) = units2 \o <<>>
    BY <1>10, <1>11, <2>3, ForAgentAppend
  <2>6. UnitsIn(told \o <<>>) = units2 /\ units2 \o <<>> = units2
    BY <1>7, <1>9, <1>11
  <2> QED BY <1>3, <1>6, <1>8, <2>1, <2>4, <2>5, <2>6 DEF TellsAgent, m
<1>13. CASE m.role # "system"
  <2>1. Serialized(m) = <<m2>>
    BY <1>4, <1>5, <1>13 DEF Serialized, OneIf
  <2>2. AsContent(TextFromContent(m.content)) \in Seq(Parts)
    BY <1>5, TextType, AsContentType
  <2>3. /\ m2 \in MessageRecords /\ m2.role = m.role /\ m2.tool_calls = None
        /\ m2.content = AsContent(TextFromContent(m.content))
    BY <1>3, <1>4, <2>2 DEF MessageRecords
  <2> HIDE DEF m2
  <2>4. m.role = "assistant" => (m2.content = <<>> <=> m.content = <<>>)
    <3> SUFFICES ASSUME m.role = "assistant" PROVE m2.content = <<>> <=> m.content = <<>>
      OBVIOUS
    <3>1. PICK t \in Seq(Words) : item.content = AsContent(t)
      BY <1>4
    <3>2. m.content = AsContent(t) /\ TextFromContent(m.content) = t
      BY <1>4, <3>1, AsContentType
    <3> QED BY <2>3, <3>2
  <2>5. UnitsIn(told \o <<m2>>) = units2 \o Uttered(m2)
    <3>1. told \o <<m2>> = Append(told, m2)
      BY <2>3, AppendIsConcat
    <3>2. UnitsOf(told, m2) = Uttered(m2) \o [p \in DOMAIN <<>> |-> Called(<<>>[p])]
      BY <1>4, <2>3 DEF UnitsOf, Uttered, ToolCalls
    <3>3. [p \in DOMAIN <<>> |-> Called(<<>>[p])] = <<>>
      OBVIOUS
    <3>4. Spoken(m2.role, m2.content) \in UnitRecords
      BY <1>5, <2>2, <2>3 DEF Spoken, Unit, UnitRecords
    <3>5. Uttered(m2) \in Seq(UnitRecords)
      BY <3>4, OneIfType DEF Uttered
    <3>6. UnitsOf(told, m2) = Uttered(m2)
      BY <3>2, <3>3, <3>5
    <3> QED BY <1>7, <1>9, <1>11, <2>3, <3>1, <3>6, UnitsInAppend
  <2>6. AgentUnit(u) = <<Spoken(m2.role, m2.content)>>
    <3>1. [u EXCEPT !.content = AsContent(TextFromContent(@))] = Spoken(m2.role, m2.content)
      BY <2>3, SMTT(30) DEF Spoken, Unit
    <3> QED BY <1>10, <1>13, <3>1 DEF AgentUnit, OneIf
  <2> HIDE DEF u
  <2>7. ForAgent(units \o Uttered(m)) = units2 \o Uttered(m2)
    <3>1. CASE m.role # "assistant" \/ m.content # <<>>
      <4>1. Uttered(m) = <<u>> /\ Uttered(m2) = <<Spoken(m2.role, m2.content)>>
        BY <2>3, <2>4, <3>1 DEF Uttered, OneIf, u
      <4>2. units \o Uttered(m) = Append(units, u)
        BY <1>10, <4>1, AppendIsConcat
      <4> QED BY <1>10, <1>11, <2>6, <4>1, <4>2, ForAgentAppend
    <3>2. CASE ~(m.role # "assistant" \/ m.content # <<>>)
      <4>1. Uttered(m) = <<>> /\ Uttered(m2) = <<>>
        BY <2>3, <2>4, <3>2 DEF Uttered, OneIf
      <4> QED BY <1>11, <4>1
    <3> QED BY <3>1, <3>2
  <2> QED BY <1>3, <1>6, <1>8, <2>1, <2>5, <2>7 DEF TellsAgent, m
<1> QED BY <1>12, <1>13

-----------------------------------------------------------------------------
(* The calls of an answer *)

NewItem(call, id) == CallItem(IF call.id = None THEN id ELSE call.id, call.name, call.arguments)

LEMMA NewItemType ==
    ASSUME NEW call \in CallRecords, NEW id \in Ids
    PROVE  NewItem(call, id) \in ItemRecords
<1>1. call.id \in Ids \cup {None} /\ call.name \in {"tool", None} /\ call.arguments \in {"args", None}
  BY DEF CallRecords
<1> QED BY <1>1, EmptySeq DEF NewItem, CallItem, ItemRecords

LEMMA CallItemsAppend ==
    ASSUME NEW calls \in Seq(CallRecords), NEW call \in CallRecords, NEW made,
           \A p \in 1..(Len(calls) + 1) : made[p] \in Ids
    PROVE  /\ CallItems(calls, made) \in Seq(ItemRecords)
           /\ CallItems(Append(calls, call), made)
                = CallItems(calls, made) \o OneIf(call.name # None, NewItem(call, made[Len(calls) + 1]))
<1> DEFINE more == Append(calls, call)
           C(x, p) == OneIf(x.name # None, NewItem(x, made[p]))
           f == [p \in DOMAIN calls |-> C(calls[p], p)]
           g == [p \in DOMAIN more |-> C(more[p], p)]
<1>1. /\ more \in Seq(CallRecords) /\ Len(calls) \in Nat
      /\ DOMAIN calls = 1..Len(calls) /\ DOMAIN more = 1..(Len(calls) + 1)
      /\ more[Len(calls) + 1] = call
      /\ \A i \in 1..Len(calls) : calls[i] \in CallRecords /\ more[i] = calls[i]
  BY LastAdded
<1>2. CallItems(calls, made) = FlattenSeq(f) /\ CallItems(more, made) = FlattenSeq(g)
  BY DEF CallItems, NewItem
<1>3. \A p \in 1..(Len(calls) + 1), x \in CallRecords : C(x, p) \in Seq(ItemRecords)
  BY NewItemType, OneIfType
<1>4. C(call, Len(calls) + 1) = OneIf(call.name # None, NewItem(call, made[Len(calls) + 1]))
  OBVIOUS
<1> HIDE DEF more, C
<1>5. f \in [1..Len(calls) -> Seq(ItemRecords)] /\ g \in [1..(Len(calls) + 1) -> Seq(ItemRecords)]
      /\ (\A i \in 1..Len(calls) : g[i] = f[i]) /\ g[Len(calls) + 1] = C(call, Len(calls) + 1)
  <2>1. \A i \in 1..(Len(calls) + 1) : more[i] \in CallRecords
    BY <1>1
  <2>2. \A i \in 1..Len(calls) : i \in 1..(Len(calls) + 1)
    BY <1>1
  <2> QED BY <1>1, <1>3, <2>1, <2>2
<1> HIDE DEF f, g
<1>6. FlattenSeq(f) \in Seq(ItemRecords) /\ FlattenSeq(g) = FlattenSeq(f) \o C(call, Len(calls) + 1)
  BY <1>1, <1>5, FlattenMore
<1> QED BY <1>2, <1>4, <1>6 DEF more

LEMMA CalledInAppend ==
    ASSUME NEW calls \in Seq(CallRecords), NEW call \in CallRecords
    PROVE  /\ CalledIn(calls) \in Seq(UnitRecords)
           /\ CalledIn(Append(calls, call)) = CalledIn(calls) \o OneIf(call.name # None, Called(call))
<1> DEFINE more == Append(calls, call)
           C(x) == OneIf(x.name # None, Called(x))
           f == [p \in DOMAIN calls |-> C(calls[p])]
           g == [p \in DOMAIN more |-> C(more[p])]
<1>1. /\ more \in Seq(CallRecords) /\ Len(calls) \in Nat
      /\ DOMAIN calls = 1..Len(calls) /\ DOMAIN more = 1..(Len(calls) + 1)
      /\ more[Len(calls) + 1] = call
      /\ \A i \in 1..Len(calls) : calls[i] \in CallRecords /\ more[i] = calls[i]
  BY LastAdded
<1>2. CalledIn(calls) = FlattenSeq(f) /\ CalledIn(more) = FlattenSeq(g)
  BY DEF CalledIn
<1>3. \A x \in CallRecords : C(x) \in Seq(UnitRecords)
  BY CalledType, OneIfType
<1>4. C(call) = OneIf(call.name # None, Called(call))
  OBVIOUS
<1> HIDE DEF more, C
<1>5. f \in [1..Len(calls) -> Seq(UnitRecords)] /\ g \in [1..(Len(calls) + 1) -> Seq(UnitRecords)]
      /\ (\A i \in 1..Len(calls) : g[i] = f[i]) /\ g[Len(calls) + 1] = C(call)
  <2>1. \A i \in 1..(Len(calls) + 1) : more[i] \in CallRecords
    BY <1>1
  <2> QED BY <1>1, <1>3, <2>1
<1> HIDE DEF f, g
<1>6. FlattenSeq(f) \in Seq(UnitRecords) /\ FlattenSeq(g) = FlattenSeq(f) \o C(call)
  BY <1>1, <1>5, FlattenMore
<1> QED BY <1>2, <1>4, <1>6 DEF more

\* An id of the t-th answer, of one of its first n calls, or of an answer before.
ByThen(id, t, n) == id \in Ids /\ (id[1] < t \/ (id[1] = t /\ id[2] <= n))

\* The calls of the t-th answer: each tells one call if it has a name, with an
\* id that no call has had.
LEMMA CallsTold ==
    ASSUME NEW ins \in Contents \cup {None}, NEW list \in Seq(ItemRecords),
           NEW units \in Seq(UnitRecords), NEW t \in Nat, NEW n \in Nat, NEW made,
           Told(ins, list, units), MadeBy(list, t - 1),
           \A p \in 1..n : made[p] = <<t, p, "proxy">>,
           NEW calls \in Seq(CallRecords), Len(calls) = n,
           \A p \in 1..n : calls[p].id \in {None, <<t, p, "upstream">>}
    PROVE  /\ Told(ins, list \o CallItems(calls, made), units \o CalledIn(calls))
           /\ list \o CallItems(calls, made) \in Seq(ItemRecords)
           /\ units \o CalledIn(calls) \in Seq(UnitRecords)
           /\ MadeBy(list \o CallItems(calls, made), t)
<1> DEFINE Proper(cs) == Len(cs) <= n /\ \A p \in 1..Len(cs) : cs[p].id \in {None, <<t, p, "upstream">>}
           L(cs) == list \o CallItems(cs, made)
           U(cs) == units \o CalledIn(cs)
           Good(cs) == /\ Told(ins, L(cs), U(cs))
                       /\ L(cs) \in Seq(ItemRecords) /\ U(cs) \in Seq(UnitRecords)
                       /\ \A k \in DOMAIN CallsAmong(L(cs)) :
                             ByThen(CallsAmong(L(cs))[k].call_id, t, Len(cs))
           S == {cs \in Seq(CallRecords) : Proper(cs) => Good(cs)}
<1>1. <<>> \in S
  <2>1. CallItems(<<>>, made) = <<>> /\ CalledIn(<<>>) = <<>>
    <3>1. [p \in DOMAIN <<>> |-> OneIf(<<>>[p].name # None,
             CallItem(IF <<>>[p].id = None THEN made[p] ELSE <<>>[p].id,
                      <<>>[p].name, <<>>[p].arguments))] = <<>>
          /\ [p \in DOMAIN <<>> |-> OneIf(<<>>[p].name # None, Called(<<>>[p]))] = <<>>
      OBVIOUS
    <3> QED BY <3>1, FlattenNothing DEF CallItems, CalledIn
  <2>2. L(<<>>) = list /\ U(<<>>) = units
    BY <2>1
  <2>3. ASSUME NEW k \in DOMAIN CallsAmong(list) PROVE ByThen(CallsAmong(list)[k].call_id, t, 0)
    <3>1. PICK id \in Ids : id = CallsAmong(list)[k].call_id /\ id[1] <= t - 1
      BY DEF MadeBy
    <3>2. id[1] \in Nat
      BY DEF Ids
    <3> QED BY <3>1, <3>2 DEF ByThen
  <2>4. Len(<<>>) = 0 /\ <<>> \in Seq(CallRecords)
    OBVIOUS
  <2> HIDE DEF L, U
  <2> QED BY <2>2, <2>3, <2>4
<1>2. ASSUME NEW cs \in Seq(CallRecords), NEW c \in CallRecords, cs \in S PROVE Append(cs, c) \in S
  <2> SUFFICES ASSUME Proper(Append(cs, c)) PROVE Good(Append(cs, c))
    BY LastAdded
  <2>1. /\ Len(cs) \in Nat /\ Len(cs) + 1 <= n /\ Len(Append(cs, c)) = Len(cs) + 1
        /\ c.id \in {None, <<t, Len(cs) + 1, "upstream">>}
        /\ Proper(cs)
    <3>1. Len(cs) \in Nat /\ Len(Append(cs, c)) = Len(cs) + 1 /\ Append(cs, c)[Len(cs) + 1] = c
          /\ \A p \in 1..Len(cs) : Append(cs, c)[p] = cs[p]
      OBVIOUS
    <3>2. Len(cs) + 1 \in 1..Len(Append(cs, c)) /\ \A p \in 1..Len(cs) : p \in 1..Len(Append(cs, c))
      BY <3>1
    <3> QED BY <3>1, <3>2
  <2> HIDE DEF Proper
  <2>2. Good(cs)
    BY <1>2, <2>1
  <2>3. ASSUME NEW p \in 1..(Len(cs) + 1) PROVE made[p] \in Ids /\ made[p] = <<t, p, "proxy">>
    <3>1. p \in 1..n /\ p \in Nat
      BY <2>1
    <3>2. made[p] = <<t, p, "proxy">>
      BY <3>1
    <3> QED BY <3>1, <3>2 DEF Ids
  <2> DEFINE q == Len(cs) + 1
             id == IF c.id = None THEN made[q] ELSE c.id
             item == NewItem(c, made[q])
  <2>11. q \in 1..(Len(cs) + 1) /\ made[q] \in Ids /\ made[q] = <<t, q, "proxy">>
    BY <2>1, <2>3
  <2>4. id \in Ids /\ id[1] = t /\ id[2] = q
    <3>1. id \in {<<t, q, "proxy">>, <<t, q, "upstream">>}
      BY <2>1, <2>11
    <3> HIDE DEF id
    <3> QED BY <2>1, <3>1 DEF Ids
  <2>5. c.name \in {"tool", None} /\ c.arguments \in {"args", None}
    BY DEF CallRecords
  <2>6. CallItems(cs, made) \in Seq(ItemRecords) /\ CalledIn(cs) \in Seq(UnitRecords)
        /\ CallItems(Append(cs, c), made) = CallItems(cs, made) \o OneIf(c.name # None, item)
        /\ CalledIn(Append(cs, c)) = CalledIn(cs) \o OneIf(c.name # None, Called(c))
    BY <2>3, CallItemsAppend, CalledInAppend
  <2>7. item = CallItem(id, c.name, c.arguments) /\ item.call_id = id
        /\ Called(c) = Called(ToolCall(id, c.name, c.arguments))
    BY DEF NewItem, CallItem, Called, ToolCall
  <2>8. item \in ItemRecords /\ Called(c) \in UnitRecords
    BY <2>11, NewItemType, CalledType
  <2> HIDE DEF id, item
  <2>9. CASE c.name = None
    <3>1. CallItems(Append(cs, c), made) = CallItems(cs, made) \o <<>>
          /\ CalledIn(Append(cs, c)) = CalledIn(cs) \o <<>>
      BY <2>6, <2>9 DEF OneIf
    <3>2. CallItems(Append(cs, c), made) = CallItems(cs, made) /\ CalledIn(Append(cs, c)) = CalledIn(cs)
      BY <2>6, <3>1
    <3>3. L(Append(cs, c)) = L(cs) /\ U(Append(cs, c)) = U(cs)
      BY <3>2
    <3> HIDE DEF L, U
    <3>4. ASSUME NEW k \in DOMAIN CallsAmong(L(cs))
          PROVE  ByThen(CallsAmong(L(cs))[k].call_id, t, Len(cs) + 1)
      <4>1. ByThen(CallsAmong(L(cs))[k].call_id, t, Len(cs))
        BY <2>2
      <4> QED BY <2>1, <4>1 DEF ByThen, Ids
    <3> QED BY <2>1, <2>2, <3>3, <3>4
  <2>10. CASE c.name # None
    <3>1. CallItems(Append(cs, c), made) = Append(CallItems(cs, made), item)
          /\ CalledIn(Append(cs, c)) = Append(CalledIn(cs), Called(c))
      BY <2>6, <2>8, <2>10, AppendIsConcat DEF OneIf
    <3>2. L(Append(cs, c)) = Append(L(cs), item) /\ U(Append(cs, c)) = Append(U(cs), Called(c))
      <4>1. Appended(list, CallItems(cs, made), item) /\ Appended(units, CalledIn(cs), Called(c))
        BY <2>6, <2>8, AppendLast
      <4> QED BY <3>1, <4>1 DEF Appended
    <3> HIDE DEF L, U
    <3>3. NewId(L(cs), id)
      <4>1. ASSUME NEW k \in DOMAIN CallsAmong(L(cs)) PROVE CallsAmong(L(cs))[k].call_id # id
        <5>1. PICK old : old = CallsAmong(L(cs))[k].call_id /\ ByThen(old, t, Len(cs))
          BY <2>2
        <5>2. old[1] < t \/ old[2] <= Len(cs)
          BY <5>1 DEF ByThen
        <5> QED BY <2>1, <2>4, <5>1, <5>2
      <4> QED BY <4>1 DEF NewId
    <3>4. /\ Told(ins, Append(L(cs), item), Append(U(cs), Called(c)))
          /\ CallsAmong(Append(L(cs), item)) = Append(CallsAmong(L(cs)), item)
      <4>1. PICK l \in Seq(ItemRecords) : l = L(cs)
        BY <2>2
      <4>2. PICK v \in Seq(UnitRecords) : v = U(cs)
        BY <2>2
      <4>3. Told(ins, l, v) /\ id \in Ids /\ NewId(l, id)
        BY <2>2, <2>4, <3>3, <4>1, <4>2
      <4>4. /\ Told(ins, Append(l, CallItem(id, c.name, c.arguments)),
                     Append(v, Called(ToolCall(id, c.name, c.arguments))))
            /\ LastCall(l, CallItem(id, c.name, c.arguments))
        <5> HIDE DEF Good
        <5> QED BY <2>5, <4>3, CallTold
      <4> QED BY <2>7, <4>1, <4>2, <4>4 DEF LastCall
    <3>5. Append(L(cs), item) \in Seq(ItemRecords) /\ Append(U(cs), Called(c)) \in Seq(UnitRecords)
      BY <2>2, <2>8
    <3>6. PICK among \in Seq(ItemRecords) : among = CallsAmong(L(cs))
      BY <2>2, CallsAmongType
    <3>7. ASSUME NEW k \in DOMAIN Append(among, item)
          PROVE  ByThen(Append(among, item)[k].call_id, t, Len(cs) + 1)
      <4>1. CASE k \in DOMAIN among
        <5>1. ByThen(among[k].call_id, t, Len(cs)) /\ Append(among, item)[k] = among[k]
          BY <2>2, <2>8, <3>6, <4>1
        <5> QED BY <2>1, <5>1, SMTT(30) DEF ByThen, Ids
      <4>2. CASE k \notin DOMAIN among
        <5>1. Append(among, item)[k] = item
          BY <2>8, <4>2
        <5> QED BY <2>1, <2>4, <2>7, <5>1 DEF ByThen
      <4> QED BY <4>1, <4>2
    <3> QED BY <2>1, <3>2, <3>4, <3>5, <3>6, <3>7
  <2> QED BY <2>9, <2>10
<1>3. calls \in S
  <2>1. Seq(CallRecords) \subseteq S
    <3> HIDE DEF S
    <3> QED BY <1>1, <1>2, SequenceInduction
  <2> HIDE DEF S
  <2> QED BY <2>1
<1>4. Good(calls)
  BY <1>3
<1>5. MadeBy(L(calls), t)
  <2> HIDE DEF L, U
  <2>1. ASSUME NEW k \in DOMAIN CallsAmong(L(calls))
        PROVE  CallsAmong(L(calls))[k].call_id \in Ids /\ CallsAmong(L(calls))[k].call_id[1] <= t
    <3>1. PICK id \in Ids : id = CallsAmong(L(calls))[k].call_id /\ ByThen(id, t, n)
      BY <1>4 DEF ByThen
    <3>2. id[1] \in Nat
      BY DEF Ids
    <3> QED BY <3>1, <3>2 DEF ByThen
  <2> QED BY <2>1 DEF MadeBy
<1> QED BY <1>4, <1>5

-----------------------------------------------------------------------------
(* A conversation that goes on *)

LEMMA BeginsMore ==
    ASSUME NEW X, NEW a \in Seq(X), NEW b \in Seq(X)
    PROVE  Begins(a, a \o b)
BY DEF Begins

LEMMA BeginsTrans ==
    ASSUME NEW X, NEW a \in Seq(X), NEW b \in Seq(X), NEW c \in Seq(X), Begins(a, b), Begins(b, c)
    PROVE  Begins(a, c)
<1>1. Len(a) \in Nat /\ Len(b) \in Nat /\ Len(c) \in Nat
  OBVIOUS
<1> QED BY <1>1 DEF Begins

LEMMA InputGrows ==
    ASSUME NEW ins \in Contents \cup {None}, NEW list \in Seq(ItemRecords), NEW item \in ItemRecords
    PROVE  Begins(InputMessages(ins, list), InputMessages(ins, Append(list, item)))
<1>1. PICK chat \in Seq(MessageRecords) : chat = InputMessages(ins, list)
  BY InputType
<1>2. PICK more \in Seq(MessageRecords) : more = OneIf(Known(item), MessageOf(item))
  BY MessageType, OneIfType
<1>3. InputMessages(ins, Append(list, item)) = chat \o more
  BY <1>1, <1>2, InputAppend
<1> QED BY <1>1, <1>3, BeginsMore

LEMMA InputGoesOn ==
    ASSUME NEW ins \in Contents \cup {None}, NEW list \in Seq(ItemRecords), NEW more \in Seq(ItemRecords)
    PROVE  Begins(InputMessages(ins, list), InputMessages(ins, list \o more))
<1> DEFINE S == {x \in Seq(ItemRecords) : Begins(InputMessages(ins, list), InputMessages(ins, list \o x))}
<1>1. <<>> \in S
  <2>1. list \o <<>> = list /\ <<>> \in Seq(ItemRecords)
    OBVIOUS
  <2>2. InputMessages(ins, list) \in Seq(MessageRecords)
    BY InputType
  <2>3. Begins(InputMessages(ins, list), InputMessages(ins, list))
    BY <2>2 DEF Begins
  <2> QED BY <2>1, <2>3
<1>2. ASSUME NEW x \in Seq(ItemRecords), NEW item \in ItemRecords, x \in S PROVE Append(x, item) \in S
  <2>1. Append(x, item) \in Seq(ItemRecords) /\ list \o x \in Seq(ItemRecords)
    OBVIOUS
  <2>2. Append(list \o x, item) = list \o Append(x, item) /\ Append(list \o x, item) \in Seq(ItemRecords)
    <3>1. Appended(list, x, item)
      BY AppendLast
    <3> QED BY <2>1, <3>1 DEF Appended
  <2>3. Begins(InputMessages(ins, list), InputMessages(ins, list \o x))
    BY <1>2
  <2>4. Begins(InputMessages(ins, list \o x), InputMessages(ins, Append(list \o x, item)))
    BY <2>1, InputGrows
  <2>5. Begins(InputMessages(ins, list), InputMessages(ins, Append(list \o x, item)))
    <3>1. /\ InputMessages(ins, list) \in Seq(MessageRecords)
          /\ InputMessages(ins, list \o x) \in Seq(MessageRecords)
          /\ InputMessages(ins, Append(list \o x, item)) \in Seq(MessageRecords)
      BY <2>1, <2>2, InputType
    <3> QED BY <2>3, <2>4, <3>1, BeginsTrans
  <2> QED BY <2>1, <2>2, <2>5
<1>3. Seq(ItemRecords) \subseteq S
  <2> HIDE DEF S
  <2> QED BY <1>1, <1>2, SequenceInduction
<1> QED BY <1>3

\* The identity of a conversation with a message of the user does not depend
\* on what comes later.
LEMMA SessionStays ==
    ASSUME NEW X, NEW s \in Seq(X), NEW t \in Seq(X), Begins(s, t),
           \E i \in DOMAIN s : s[i].role = "user"
    PROVE  StableContextText(t) = StableContextText(s)
<1> DEFINE Users(m) == {i \in DOMAIN m : m[i].role = "user"}
           Tell(m, n) == [i \in 1..n |-> OneIf(m[i].role \in {"system", "developer", "user"},
                                              <<m[i].role, ContentIdentity(m[i].content)>>)]
<1>1. /\ Len(s) \in Nat /\ Len(t) \in Nat /\ Len(s) <= Len(t) /\ DOMAIN s = 1..Len(s) /\ DOMAIN t = 1..Len(t)
      /\ \A i \in DOMAIN s : i \in DOMAIN t /\ t[i] = s[i]
  BY DEF Begins
<1>2. Users(s) \subseteq Users(t) /\ Users(s) # {} /\ Users(s) \subseteq Nat /\ Users(t) \subseteq Nat
  BY <1>1
<1>3. PICK n \in Users(s) : n = Min(Users(s)) /\ \A m \in Users(s) : n <= m
  <2> HIDE DEF Users
  <2> QED BY <1>2, SmallestElement
<1>4. PICK k \in Users(t) : k = Min(Users(t)) /\ \A m \in Users(t) : k <= m
  <2> HIDE DEF Users
  <2>1. Users(t) # {}
    BY <1>2
  <2> QED BY <1>2, <2>1, SmallestElement
<1>5. k = n
  <2>1. k <= n /\ k \in Nat /\ n \in Nat
    BY <1>2, <1>3, <1>4
  <2>2. k \in Users(s)
    <3>1. k \in DOMAIN t /\ t[k].role = "user" /\ n \in DOMAIN s
      BY <1>3, <1>4
    <3>2. k \in DOMAIN s
      BY <1>1, <2>1, <3>1
    <3> QED BY <1>1, <3>1, <3>2
  <2>3. n <= k
    BY <1>3, <2>2
  <2> QED BY <2>1, <2>3
<1>6. Tell(s, n) = Tell(t, n)
  <2>1. \A i \in 1..n : t[i] = s[i]
    BY <1>1, <1>2, <1>3
  <2> QED BY <2>1
<1>7. StableContextText(s) = FlattenSeq(Tell(s, n))
  BY <1>2, <1>3 DEF StableContextText
<1>8. StableContextText(t) = FlattenSeq(Tell(t, n))
  BY <1>2, <1>4, <1>5 DEF StableContextText
<1> QED BY <1>6, <1>7, <1>8

-----------------------------------------------------------------------------
(* The invariant holds *)

LEMMA InitInv == Init => Inv
<1> SUFFICES ASSUME Init PROVE Inv
  OBVIOUS
<1>1. /\ source \in {"direct", "acp"} /\ instructions \in Contents \cup {None}
      /\ items = <<>> /\ phase = "client" /\ payload = None /\ turn = 0
      /\ said = IF instructions = None THEN <<>>
                ELSE <<Spoken("system", AsContent(TextFromContent(instructions)))>>
  BY DEF Init
<1> DEFINE text == AsContent(TextFromContent(instructions))
           m    == Message("system", text, None, None)
           u    == Spoken("system", text)
           chat == InputMessages(instructions, items)
<1>2. chat = SystemMessage(instructions) /\ chat \in Seq(MessageRecords)
  BY <1>1, InputNothing, SystemType
<1>3. items \in Seq(ItemRecords) /\ CallsAmong(items) = <<>>
  <2>1. [i \in DOMAIN <<>> |-> OneIf(<<>>[i].type = "function_call", <<>>[i])] = <<>>
    OBVIOUS
  <2> QED BY <1>1, <2>1, FlattenNothing DEF CallsAmong
<1>4. UnitsIn(<<>>) = <<>> /\ CallsIn(<<>>) = <<>> /\ ForAgent(<<>>) = <<>> /\ SerializeMessages(<<>>) = <<>>
  <2>1. /\ [i \in DOMAIN <<>> |-> UnitsOf(SubSeq(<<>>, 1, i - 1), <<>>[i])] = <<>>
        /\ [i \in DOMAIN <<>> |-> ToolCalls(<<>>[i])] = <<>>
        /\ [i \in DOMAIN <<>> |-> OneIf(<<>>[i].role # "system",
              [<<>>[i] EXCEPT !.content = AsContent(TextFromContent(@))])] = <<>>
        /\ [i \in DOMAIN <<>> |-> Serialized(<<>>[i])] = <<>>
    OBVIOUS
  <2> QED BY <2>1, FlattenNothing DEF UnitsIn, CallsIn, ForAgent, SerializeMessages
<1>5. /\ said \in Seq(UnitRecords) /\ UnitsIn(chat) = said /\ CallsIn(chat) = <<>>
      /\ UnitsIn(SerializeMessages(chat)) = ForAgent(said)
  <2>1. CASE instructions = None
    <3>1. chat = <<>> /\ said = <<>>
      BY <1>1, <1>2, <2>1 DEF SystemMessage, OneIf
    <3> QED BY <1>4, <3>1
  <2>2. CASE instructions # None
    <3>1. text \in Seq(Parts)
      BY <1>1, <2>2, ConversationAssumption, TextType, AsContentType
    <3>2. m \in MessageRecords /\ m.role = "system" /\ m.tool_calls = None /\ m.content = text
      BY <3>1 DEF Message, MessageRecords
    <3>3. u \in UnitRecords /\ u.role = "system"
      BY <3>1 DEF Spoken, Unit, UnitRecords
    <3>4. chat = <<m>> /\ said = <<u>>
      BY <1>1, <1>2, <2>2 DEF SystemMessage, OneIf
    <3>5. UnitsOf(<<>>, m) = <<u>>
      <4>1. UnitsOf(<<>>, m) = <<u>> \o [p \in DOMAIN <<>> |-> Called(<<>>[p])]
        BY <3>2 DEF UnitsOf, OneIf, ToolCalls
      <4>2. [p \in DOMAIN <<>> |-> Called(<<>>[p])] = <<>>
        OBVIOUS
      <4> HIDE DEF u
      <4> QED BY <3>3, <4>1, <4>2
    <3>6. AgentUnit(u) = <<>> /\ Serialized(m) = <<>> /\ ToolCalls(m) = <<>>
      BY <3>2, <3>3 DEF AgentUnit, Serialized, OneIf, ToolCalls
    <3> HIDE DEF m, u, text, chat
    <3>7. chat = Append(<<>>, m) /\ said = Append(<<>>, u)
          /\ <<>> \in Seq(MessageRecords) /\ <<>> \in Seq(UnitRecords)
      BY <3>4
    <3>8. UnitsIn(chat) = <<>> \o <<u>> /\ CallsIn(chat) = <<>> \o <<>>
      BY <1>4, <3>2, <3>5, <3>6, <3>7, UnitsInAppend, CallsInAppend
    <3>9. SerializeMessages(chat) = <<>> \o <<>> /\ ForAgent(said) = <<>> \o <<>>
      BY <1>4, <3>2, <3>3, <3>6, <3>7, SerializeAppend, ForAgentAppend
    <3> QED BY <1>4, <3>3, <3>4, <3>8, <3>9
  <2> QED BY <2>1, <2>2
<1> HIDE DEF chat
<1>6. Types
  BY <1>1, <1>3, <1>5 DEF Types
<1>7. Tells(instructions, items, said) /\ (source = "acp" => TellsAgent(instructions, items, said))
  BY <1>3, <1>5 DEF Tells, TellsAgent, chat
<1>8. CallsAgree(instructions, items) /\ Distinct(items) /\ MadeBy(items, LastAnswer)
  BY <1>3, <1>5 DEF CallsAgree, Distinct, MadeBy, chat
<1>9. Asked
  BY <1>1 DEF Asked, UserHeard
<1> QED BY <1>6, <1>7, <1>8, <1>9 DEF Inv

\* Only the items and what has been said change.
Same == UNCHANGED <<source, instructions, tools, phase, payload, context, turn>>

\* What is left to show when items are added and the request stays as it is.
LEMMA Adds ==
    ASSUME Inv, items' \in Seq(ItemRecords), said' \in Seq(UnitRecords),
           UNCHANGED <<source, instructions, tools, payload, context, turn>>,
           phase = phase' \/ phase' = "client", phase' # "upstream" \/ items' = items,
           Begins(InputMessages(instructions, items), InputMessages(instructions, items')),
           Told(instructions, items', said'), MadeBy(items', LastAnswer'),
           source = "acp" => TellsAgent(instructions, items', said')
    PROVE  Inv'
<1>1. Types'
  BY DEF Inv, Types
<1>2. Tells(instructions, items, said)' /\ CallsAgree(instructions, items)' /\ Distinct(items)'
      /\ MadeBy(items, LastAnswer)' /\ (source = "acp" => TellsAgent(instructions, items, said))'
  BY DEF Told, Tells, CallsAgree, Distinct, MadeBy, TellsAgent
<1>3. Asked'
  <2>1. (phase = "upstream" => payload.messages = ResponsesInputToMessages(instructions, items))'
    BY DEF Inv, Asked
  <2>2. (payload # None => /\ payload.messages \in Seq(MessageRecords)
                           /\ context = StableContextText(payload.messages))'
    BY DEF Inv, Asked
  <2>3. ASSUME UserHeard' PROVE Begins(payload.messages, InputMessages(instructions, items))'
    <3>1. UserHeard /\ payload # None
      BY <2>3 DEF UserHeard
    <3>2. Begins(payload.messages, InputMessages(instructions, items)) /\ payload.messages \in Seq(MessageRecords)
      BY <3>1 DEF Inv, Asked
    <3>3. InputMessages(instructions, items) \in Seq(MessageRecords)
          /\ InputMessages(instructions, items') \in Seq(MessageRecords)
      BY InputType DEF Inv, Types
    <3> QED BY <3>2, <3>3, BeginsTrans
  <2> QED BY <2>1, <2>2, <2>3 DEF Asked
<1> QED BY <1>1, <1>2, <1>3 DEF Inv

LEMMA SayInv ==
    ASSUME Inv, NEW role \in Roles, NEW content \in Contents, Say(role, content)
    PROVE  Inv'
<1> DEFINE item == MessageItem(role, content)
           m    == MessageOf(item)
<1>1. content \in Seq(Parts) /\ role \in {"user", "system", "developer"}
  BY ConversationAssumption
<1>2. item \in ItemRecords /\ item.type = "message" /\ item.role # "assistant"
  BY <1>1 DEF MessageItem, ItemRecords
<1>3. instructions \in Contents \cup {None} /\ items \in Seq(ItemRecords) /\ said \in Seq(UnitRecords)
      /\ Told(instructions, items, said)
  BY DEF Inv, Types, Told
<1>4. Uttered(m) = <<Spoken(IF role = "developer" THEN "system" ELSE role,
                          ChatContentFromResponses(content))>>
  BY <1>1 DEF MessageOf, MessageItem, Message, Uttered, OneIf
<1> HIDE DEF item
<1>5. /\ Told(instructions, Append(items, item), said \o Uttered(m))
      /\ Uttered(m) \in Seq(UnitRecords)
      /\ CallsAmong(Append(items, item)) = CallsAmong(items)
  BY <1>2, <1>3, MessageTold
<1>6. TellsAgent(instructions, items, said)
        => TellsAgent(instructions, Append(items, item), said \o Uttered(m))
  BY <1>2, <1>3, AgentTold
<1>7. items' = Append(items, item) /\ said' = said \o Uttered(m) /\ Same /\ phase = "client"
  <2>1. said' = Append(said, Spoken(IF role = "developer" THEN "system" ELSE role,
                                    ChatContentFromResponses(content)))
    BY DEF Say
  <2>2. Spoken(IF role = "developer" THEN "system" ELSE role, ChatContentFromResponses(content))
          \in UnitRecords
    BY <1>1, ChatContentType DEF Spoken, Unit, UnitRecords
  <2>3. said' = said \o Uttered(m)
    BY <1>3, <1>4, <2>1, <2>2, AppendIsConcat
  <2> QED BY <2>3 DEF Say, Same, item
<1>8. Begins(InputMessages(instructions, items), InputMessages(instructions, items'))
  BY <1>2, <1>3, <1>7, InputGrows
<1>9. items' \in Seq(ItemRecords) /\ said' \in Seq(UnitRecords)
  BY <1>2, <1>3, <1>5, <1>7
<1>10. MadeBy(items', LastAnswer') /\ (source = "acp" => TellsAgent(instructions, items', said'))
  BY <1>5, <1>6, <1>7 DEF Inv, MadeBy, LastAnswer, Same
<1> QED BY <1>5, <1>7, <1>8, <1>9, <1>10, Adds DEF Same

LEMMA ThinkInv == ASSUME Inv, Think PROVE Inv'
<1> DEFINE item == [MessageItem("assistant", <<>>) EXCEPT !.type = "reasoning"]
<1>1. item \in ItemRecords /\ ~Known(item)
  BY EmptySeq DEF MessageItem, ItemRecords, Known
<1>2. instructions \in Contents \cup {None} /\ items \in Seq(ItemRecords) /\ said \in Seq(UnitRecords)
  BY DEF Inv, Types
<1>3. items' = Append(items, item) /\ said' = said /\ Same /\ phase = "client"
  BY DEF Think, Same
<1> HIDE DEF item
<1>4. /\ InputMessages(instructions, items') = InputMessages(instructions, items)
      /\ CallsAmong(items') = CallsAmong(items)
  BY <1>1, <1>2, <1>3, NothingTold
<1>5. Begins(InputMessages(instructions, items), InputMessages(instructions, items'))
  BY <1>1, <1>2, <1>3, InputGrows
<1>6. items' \in Seq(ItemRecords) /\ said' \in Seq(UnitRecords)
  BY <1>1, <1>2, <1>3
<1>7. /\ Told(instructions, items', said') /\ MadeBy(items', LastAnswer')
      /\ source = "acp" => TellsAgent(instructions, items', said')
  BY <1>3, <1>4 DEF Inv, Told, Tells, CallsAgree, Distinct, MadeBy, TellsAgent, LastAnswer, Same
<1> QED BY <1>3, <1>5, <1>6, <1>7, Adds DEF Same

LEMMA AnswerInv ==
    ASSUME Inv, NEW k \in DOMAIN Calls, NEW content \in Outputs, Answer(k, content)
    PROVE  Inv'
<1> DEFINE item   == OutputItem(CallsAmong(items)[k].call_id, content)
           result == Result(AsContent(TextFromContent(content)), k)
<1>1. content \in Seq(Parts)
  BY ConversationAssumption
<1>2. instructions \in Contents \cup {None} /\ items \in Seq(ItemRecords) /\ said \in Seq(UnitRecords)
      /\ Told(instructions, items, said)
  BY DEF Inv, Types, Told
<1>3. k \in DOMAIN CallsAmong(items) /\ CallsAmong(items)[k].call_id \in Ids
  BY DEF Calls, Inv, MadeBy
<1>4. /\ Told(instructions, Append(items, item), Append(said, result))
      /\ result \in UnitRecords /\ item \in ItemRecords
      /\ CallsAmong(Append(items, item)) = CallsAmong(items)
  BY <1>1, <1>2, <1>3, ResultTold
<1>5. items' = Append(items, item) /\ said' = Append(said, result) /\ Same /\ phase = "client"
  BY DEF Answer, Calls, Same
<1>6. source # "acp"
  <2>1. source = "acp" => CallsAmong(items) = <<>>
    BY DEF Inv, TellsAgent
  <2> QED BY <1>3, <2>1
<1> HIDE DEF item, result
<1>7. Begins(InputMessages(instructions, items), InputMessages(instructions, items'))
  BY <1>2, <1>4, <1>5, InputGrows
<1>8. items' \in Seq(ItemRecords) /\ said' \in Seq(UnitRecords)
  BY <1>2, <1>4, <1>5
<1>9. MadeBy(items', LastAnswer')
  BY <1>4, <1>5 DEF Inv, MadeBy, LastAnswer, Same
<1> QED BY <1>4, <1>5, <1>6, <1>7, <1>8, <1>9, Adds DEF Same

LEMMA AskInv == ASSUME Inv, Ask PROVE Inv'
<1>1. /\ instructions \in Contents \cup {None} /\ items \in Seq(ItemRecords) /\ turn \in Nat
      /\ phase = "client" /\ turn' = turn + 1
      /\ UNCHANGED <<source, instructions, tools, items, said>>
  BY DEF Inv, Types, Ask
<1>2. PICK chat \in Seq(MessageRecords) : chat = InputMessages(instructions, items)
  BY <1>1, InputType
<1>3. \/ /\ phase' = "upstream" /\ payload' = BuildChatPayload(instructions, items, tools)
         /\ context' = StableContextText(payload'.messages)
      \/ phase' = "refused" /\ UNCHANGED <<payload, context>>
  BY DEF Ask
<1>4. Types'
  BY <1>1, <1>3 DEF Inv, Types
<1>5. MadeBy(items, LastAnswer)'
  <2>1. MadeBy(items, turn)
    BY <1>1 DEF Inv, LastAnswer
  <2>2. ASSUME NEW k \in DOMAIN CallsAmong(items)
        PROVE  CallsAmong(items)[k].call_id \in Ids /\ CallsAmong(items)[k].call_id[1] <= LastAnswer'
    <3>1. PICK id \in Ids : id = CallsAmong(items)[k].call_id /\ id[1] <= turn
      BY <2>1 DEF MadeBy
    <3>2. id[1] \in Nat
      BY DEF Ids
    <3>3. LastAnswer' = turn \/ LastAnswer' = turn + 1
      BY <1>1, <1>3 DEF LastAnswer
    <3> QED BY <1>1, <3>1, <3>2, <3>3
  <2> QED BY <1>1, <2>2 DEF MadeBy
<1>6. Tells(instructions, items, said)' /\ CallsAgree(instructions, items)' /\ Distinct(items)'
      /\ (source = "acp" => TellsAgent(instructions, items, said))'
  BY <1>1 DEF Inv, Tells, CallsAgree, Distinct, TellsAgent
<1>7. Asked'
  <2>1. CASE phase' = "refused" /\ UNCHANGED <<payload, context>>
    BY <1>1, <2>1 DEF Inv, Asked, UserHeard
  <2>2. CASE /\ phase' = "upstream" /\ payload' = BuildChatPayload(instructions, items, tools)
             /\ context' = StableContextText(payload'.messages)
    <3> DEFINE nothing == Message("user", <<>>, None, None)
    <3>1. payload'.messages = ResponsesInputToMessages(instructions, items)
      BY <2>2 DEF BuildChatPayload
    <3>2. payload'.messages = IF chat = <<>> THEN <<nothing>> ELSE chat
      BY <1>2, <3>1 DEF ResponsesInputToMessages
    <3>3. nothing \in MessageRecords /\ nothing.content = <<>>
      BY EmptySeq DEF Message, MessageRecords
    <3> HIDE DEF nothing
    <3>4. payload'.messages \in Seq(MessageRecords)
      BY <3>2, <3>3
    <3>5. ASSUME UserHeard' PROVE payload'.messages = chat
      <4>1. PICK i \in DOMAIN payload'.messages : payload'.messages[i].content # <<>>
        BY <3>5 DEF UserHeard
      <4> QED BY <3>2, <3>3, <4>1
    <3>6. Begins(chat, chat)
      BY DEF Begins
    <3>7. UserHeard' => Begins(payload'.messages, InputMessages(instructions, items))
      BY <1>2, <3>5, <3>6
    <3> QED BY <1>1, <2>2, <3>1, <3>4, <3>7 DEF Asked
  <2> QED BY <1>3, <2>1, <2>2
<1> QED BY <1>4, <1>5, <1>6, <1>7 DEF Inv

LEMMA NoReplyInv == ASSUME Inv, NoReply PROVE Inv'
<1>1. /\ instructions \in Contents \cup {None} /\ items \in Seq(ItemRecords) /\ turn \in Nat
      /\ phase = "upstream" /\ phase' = "client" /\ said \in Seq(UnitRecords)
      /\ UNCHANGED <<source, instructions, tools, items, payload, context, turn, said>>
  BY DEF Inv, Types, NoReply
<1>2. InputMessages(instructions, items) \in Seq(MessageRecords)
  BY <1>1, InputType
<1>3. Begins(InputMessages(instructions, items), InputMessages(instructions, items'))
  BY <1>1, <1>2 DEF Begins
<1>4. MadeBy(items', LastAnswer')
  <2>1. MadeBy(items, turn - 1)
    BY <1>1 DEF Inv, LastAnswer
  <2>2. ASSUME NEW k \in DOMAIN CallsAmong(items)
        PROVE  CallsAmong(items)[k].call_id \in Ids /\ CallsAmong(items)[k].call_id[1] <= turn
    <3>1. PICK id \in Ids : id = CallsAmong(items)[k].call_id /\ id[1] <= turn - 1
      BY <2>1 DEF MadeBy
    <3>2. id[1] \in Nat
      BY DEF Ids
    <3> QED BY <1>1, <3>1, <3>2
  <2> QED BY <1>1, <2>2 DEF MadeBy, LastAnswer
<1> QED BY <1>1, <1>3, <1>4, Adds DEF Inv, Told

\* What an upstream may answer.
LEMMA ReplyType ==
    ASSUME NEW message \in Replies, turn \in Nat
    PROVE  /\ message.content \in Seq(Parts)
           /\ ToolCalls(message) \in Seq(CallRecords)
           /\ \A p \in 1..Len(ToolCalls(message)) :
                 ToolCalls(message)[p].id \in {None, <<turn, p, "upstream">>}
<1> DEFINE Some == UNION {NewCalls(n) : n \in 0..MaxCalls}
<1>1. PICK content \in Says, calls \in {None} \cup Some :
         message = Message("assistant", content, calls, None)
  <2>1. Replies = {Message("assistant", content, calls, None) :
                     content \in Says, calls \in {None} \cup Some}
    BY DEF Replies
  <2> HIDE DEF Some
  <2> QED BY <2>1
<1>2. message.content = content /\ message.tool_calls = calls
  BY <1>1 DEF Message
<1>3. content \in Seq(Parts)
  BY ConversationAssumption
<1>4. ASSUME calls # None
      PROVE  calls \in Seq(CallRecords) /\ \A p \in 1..Len(calls) : calls[p].id \in {None, <<turn, p, "upstream">>}
  <2>1. PICK n \in 0..MaxCalls : calls \in NewCalls(n)
    <3>1. calls \in Some
      <4> HIDE DEF Some
      <4> QED BY <1>1, <1>4
    <3>2. PICK some \in {NewCalls(n) : n \in 0..MaxCalls} : calls \in some
      BY <3>1
    <3>3. \E n \in 0..MaxCalls : some = NewCalls(n)
      OBVIOUS
    <3> QED BY <3>2, <3>3
  <2>2. PICK ids \in SUBSET (1..n), named \in SUBSET (1..n) :
           calls = [p \in 1..n |-> ToolCall(IF p \in ids THEN <<turn, p, "upstream">> ELSE None,
                                            IF p \in named THEN "tool" ELSE None, "args")]
    <3> DEFINE F(ids, named) ==
                 [p \in 1..n |-> ToolCall(IF p \in ids THEN <<turn, p, "upstream">> ELSE None,
                                          IF p \in named THEN "tool" ELSE None, "args")]
    <3>1. NewCalls(n) = {F(ids, named) : ids \in SUBSET (1..n), named \in SUBSET (1..n)}
      BY DEF NewCalls
    <3>2. calls \in {F(ids, named) : ids \in SUBSET (1..n), named \in SUBSET (1..n)}
      <4> HIDE DEF F
      <4> QED BY <2>1, <3>1
    <3>3. \E ids \in SUBSET (1..n), named \in SUBSET (1..n) : calls = F(ids, named)
      <4> HIDE DEF F
      <4> QED BY <3>2
    <3> QED BY <3>3
  <2>3. n \in Nat
    BY ConversationAssumption
  <2>4. ASSUME NEW p \in 1..n
        PROVE  calls[p] \in CallRecords /\ calls[p].id \in {None, <<turn, p, "upstream">>}
    <3>1. calls[p] = ToolCall(IF p \in ids THEN <<turn, p, "upstream">> ELSE None,
                              IF p \in named THEN "tool" ELSE None, "args")
      BY <2>2
    <3>2. <<turn, p, "upstream">> \in Ids
      BY <2>3 DEF Ids
    <3> QED BY <3>1, <3>2 DEF ToolCall, CallRecords
  <2>5. calls \in [1..n -> CallRecords]
    BY <2>2, <2>4
  <2>6. calls \in Seq(CallRecords) /\ Len(calls) = n
    BY <2>3, <2>5
  <2> QED BY <2>4, <2>6
<1>5. CASE calls = None
  BY <1>2, <1>3, <1>5, EmptySeq DEF ToolCalls
<1>6. CASE calls # None
  BY <1>2, <1>3, <1>4, <1>6 DEF ToolCalls
<1> QED BY <1>5, <1>6

LEMMA ReplyInv ==
    ASSUME Inv, NEW message \in Replies, Reply(message)
    PROVE  Inv'
<1> DEFINE text  == TextFromContent(message.content)
           item  == MessageItem("assistant", AsContent(text))
           spoke == OneIf(text # <<>>, Spoken("assistant", AsContent(text)))
           head  == OneIf(text # <<>> \/ message.tool_calls = None, item)
           calls == ToolCalls(message)
           made  == Made(Len(calls))
           new   == CallItems(calls, made)
           list  == items \o head
           units == said \o spoke
<1>1. instructions \in Contents \cup {None} /\ items \in Seq(ItemRecords) /\ said \in Seq(UnitRecords)
      /\ turn \in Nat /\ turn > 0 /\ phase = "upstream" /\ Told(instructions, items, said)
  BY DEF Inv, Types, Told, Reply
<1>2. message.content \in Seq(Parts) /\ calls \in Seq(CallRecords)
      /\ \A p \in 1..Len(calls) : calls[p].id \in {None, <<turn, p, "upstream">>}
  BY <1>1, ReplyType
<1>3. text \in Seq(Words)
  BY <1>2, TextType
<1>4. /\ item \in ItemRecords /\ item.type = "message"
      /\ item.role = "assistant" /\ item.content = AsContent(text)
  BY <1>3, AsContentType DEF MessageItem, ItemRecords
<1>5. \A p \in 1..Len(calls) : made[p] = <<turn, p, "proxy">>
  BY DEF Made
<1>6. items' = items \o (head \o new) /\ said' = units \o CalledIn(calls)
  BY DEF Reply, ResponseOutputItems
<1>7. /\ phase' = "client" /\ (source = "acp" => message.tool_calls = None)
      /\ UNCHANGED <<source, instructions, tools, payload, context, turn>>
  BY DEF Reply
<1>8. source = "acp" => calls = <<>>
  BY <1>7 DEF ToolCalls
<1>9. Uttered(MessageOf(item)) = spoke
  <2>1. MessageOf(item) = Message("assistant", AsContent(text), None, None)
    BY <1>3, AsContentType DEF MessageOf, MessageItem
  <2>2. AsContent(text) # <<>> <=> text # <<>>
    BY <1>3, AsContentType
  <2> HIDE DEF text
  <2> QED BY <2>1, <2>2 DEF Uttered, Message
<1>10. (text = <<>> => spoke = <<>>) /\ (text = <<>> /\ message.tool_calls # None => head = <<>>)
       /\ (text # <<>> \/ message.tool_calls = None => head = <<item>>)
  BY DEF OneIf
<1> HIDE DEF item, spoke, head, text
<1>11. /\ Told(instructions, list, units)
       /\ list \in Seq(ItemRecords) /\ units \in Seq(UnitRecords) /\ head \in Seq(ItemRecords)
       /\ CallsAmong(list) = CallsAmong(items)
       /\ source = "acp" => TellsAgent(instructions, list, units)
  <2>1. CASE text = <<>> /\ message.tool_calls # None
    <3>1. list = items /\ units = said /\ head \in Seq(ItemRecords)
      <4>1. head = <<>> /\ spoke = <<>>
        BY <1>10, <2>1
      <4>2. items \o <<>> = items /\ said \o <<>> = said
        BY <1>1
      <4> QED BY <4>1, <4>2, EmptySeq
    <3> QED BY <1>1, <3>1 DEF Inv
  <2>2. CASE text # <<>> \/ message.tool_calls = None
    <3>1. list = Append(items, item) /\ head \in Seq(ItemRecords)
      <4>1. head = <<item>>
        BY <1>10, <2>2
      <4>2. items \o <<item>> = Append(items, item) /\ <<item>> \in Seq(ItemRecords)
        BY <1>1, <1>4, AppendIsConcat
      <4> QED BY <4>1, <4>2
    <3>2. /\ Told(instructions, Append(items, item), said \o spoke)
          /\ spoke \in Seq(UnitRecords)
          /\ CallsAmong(Append(items, item)) = CallsAmong(items)
      BY <1>1, <1>4, <1>9, MessageTold
    <3>3. TellsAgent(instructions, items, said)
            => TellsAgent(instructions, Append(items, item), said \o spoke)
      BY <1>1, <1>3, <1>4, <1>9, AgentTold
    <3>4. Append(items, item) \in Seq(ItemRecords) /\ units \in Seq(UnitRecords)
      BY <1>1, <1>4, <3>2
    <3> QED BY <3>1, <3>2, <3>3, <3>4 DEF Inv
  <2> QED BY <2>1, <2>2
<1>12. MadeBy(list, turn - 1)
  BY <1>1, <1>11 DEF Inv, MadeBy, LastAnswer
<1> HIDE DEF list, units, calls, made
<1>13. /\ Told(instructions, list \o new, units \o CalledIn(calls))
       /\ list \o new \in Seq(ItemRecords) /\ units \o CalledIn(calls) \in Seq(UnitRecords)
       /\ MadeBy(list \o new, turn)
  <2>1. PICK n \in Nat : n = Len(calls)
    BY <1>2
  <2> QED BY <1>1, <1>2, <1>5, <1>11, <1>12, <2>1, CallsTold
<1>14. new \in Seq(ItemRecords)
  <2>1. ASSUME NEW p \in DOMAIN calls PROVE calls[p] \in CallRecords /\ made[p] \in Ids
    <3>1. calls[p] \in CallRecords /\ p \in 1..Len(calls) /\ p \in Nat
      BY <1>2
    <3>2. made[p] = <<turn, p, "proxy">>
      BY <1>5, <3>1
    <3> QED BY <1>1, <3>1, <3>2 DEF Ids
  <2>2. [p \in DOMAIN calls |-> OneIf(calls[p].name # None, NewItem(calls[p], made[p]))]
           \in [1..Len(calls) -> Seq(ItemRecords)]
    BY <1>2, <2>1, NewItemType, OneIfType
  <2>3. [p \in DOMAIN calls |-> OneIf(calls[p].name # None, NewItem(calls[p], made[p]))]
           \in Seq(Seq(ItemRecords))
    BY <1>2, <2>2
  <2> QED BY <2>3, FlattenType DEF CallItems, NewItem
<1> HIDE DEF new
<1>15. items' = list \o new /\ head \o new \in Seq(ItemRecords)
  BY <1>1, <1>6, <1>11, <1>14, ConcatAssociative, SMTT(30) DEF list
<1>16. Begins(InputMessages(instructions, items), InputMessages(instructions, items'))
  BY <1>1, <1>6, <1>15, InputGoesOn
<1>17. source = "acp" => TellsAgent(instructions, items', said')
  <2> SUFFICES ASSUME source = "acp" PROVE TellsAgent(instructions, items', said')
    OBVIOUS
  <2>1. calls = <<>>
    BY <1>8
  <2>2. new = <<>> /\ CalledIn(calls) = <<>>
    <3>1. [p \in DOMAIN <<>> |-> OneIf(<<>>[p].name # None,
             CallItem(IF <<>>[p].id = None THEN made[p] ELSE <<>>[p].id,
                      <<>>[p].name, <<>>[p].arguments))] = <<>>
          /\ [p \in DOMAIN <<>> |-> OneIf(<<>>[p].name # None, Called(<<>>[p]))] = <<>>
      OBVIOUS
    <3> QED BY <2>1, <3>1, FlattenNothing DEF CallItems, CalledIn, new
  <2>3. items' = list /\ said' = units
    BY <1>6, <1>11, <1>15, <2>2
  <2> QED BY <1>11, <2>3
<1>18. MadeBy(items', LastAnswer')
  BY <1>7, <1>13, <1>15 DEF LastAnswer
<1> QED BY <1>6, <1>7, <1>13, <1>15, <1>16, <1>17, <1>18, Adds

LEMMA NextInv == Inv /\ [Next]_vars => Inv'
<1> SUFFICES ASSUME Inv, [Next]_vars PROVE Inv'
  OBVIOUS
<1>1. ASSUME NEW role \in Roles, NEW content \in Contents, Say(role, content) PROVE Inv'
  BY <1>1, SayInv
<1>2. ASSUME NEW k \in DOMAIN Calls, NEW content \in Outputs, Answer(k, content) PROVE Inv'
  BY <1>2, AnswerInv
<1>3. CASE Think
  BY <1>3, ThinkInv
<1>4. CASE Ask
  BY <1>4, AskInv
<1>5. CASE NoReply
  BY <1>5, NoReplyInv
<1>6. ASSUME NEW message \in Replies, Reply(message) PROVE Inv'
  BY <1>6, ReplyInv
<1>7. CASE UNCHANGED vars
  BY <1>7 DEF vars, Inv, Types, Tells, CallsAgree, Distinct, MadeBy, LastAnswer, TellsAgent, Asked, UserHeard
<1> QED BY <1>1, <1>2, <1>3, <1>4, <1>5, <1>6, <1>7 DEF Next

LEMMA HeardHolds == Inv => Heard
<1> SUFFICES ASSUME Inv, phase = "upstream", said # <<>>
             PROVE  IF source = "direct" THEN UnitsIn(payload.messages) = said
                    ELSE UnitsIn(SerializeMessages(payload.messages)) = ForAgent(said)
  BY DEF Heard
<1>1. payload.messages = ResponsesInputToMessages(instructions, items)
  BY DEF Inv, Asked
<1>2. UnitsIn(InputMessages(instructions, items)) = said
  BY DEF Inv, Tells
<1>3. InputMessages(instructions, items) # <<>>
  <2>1. [i \in DOMAIN <<>> |-> UnitsOf(SubSeq(<<>>, 1, i - 1), <<>>[i])] = <<>>
    OBVIOUS
  <2>2. UnitsIn(<<>>) = <<>>
    BY <2>1, FlattenNothing DEF UnitsIn
  <2> QED BY <1>2, <2>2
<1>4. payload.messages = InputMessages(instructions, items)
  BY <1>1, <1>3 DEF ResponsesInputToMessages
<1>5. source # "direct" => source = "acp"
  BY DEF Inv, Types
<1> QED BY <1>2, <1>4, <1>5 DEF Inv, TellsAgent

\* In every turn the upstream is told all that has been said, in order and
\* once, the results with their calls: the two translations of
\* src/src/openai.rs lose and confuse nothing but what Heard names.
THEOREM HeardCorrect == Spec => []Heard
<1> QED BY InitInv, NextInv, HeardHolds, PTL DEF Spec

LEMMA SessionStep == Inv /\ [Next]_vars => [UserHeard => context' = context]_vars
<1> SUFFICES ASSUME Inv, Next, UserHeard PROVE context' = context
  BY DEF vars
<1>1. CASE Ask
  <2>1. \/ /\ payload' = BuildChatPayload(instructions, items, tools)
           /\ context' = StableContextText(payload'.messages)
        \/ UNCHANGED context
    BY <1>1 DEF Ask
  <2>2. CASE /\ payload' = BuildChatPayload(instructions, items, tools)
             /\ context' = StableContextText(payload'.messages)
    <3>1. PICK chat \in Seq(MessageRecords) : chat = InputMessages(instructions, items)
      BY InputType DEF Inv, Types
    <3>2. payload.messages \in Seq(MessageRecords) /\ context = StableContextText(payload.messages)
          /\ Begins(payload.messages, chat)
      BY <3>1 DEF Inv, Asked, UserHeard
    <3>3. PICK i \in DOMAIN payload.messages : payload.messages[i].role = "user"
      BY DEF UserHeard
    <3>4. chat # <<>>
      BY <3>1, <3>2, <3>3 DEF Begins
    <3>5. payload'.messages = chat
      BY <2>2, <3>1, <3>4 DEF BuildChatPayload, ResponsesInputToMessages
    <3>6. StableContextText(chat) = StableContextText(payload.messages)
      BY <3>2, <3>3, SessionStays
    <3> QED BY <2>2, <3>2, <3>5, <3>6
  <2> QED BY <2>1, <2>2
<1>2. CASE ~Ask
  BY <1>2 DEF Next, Say, Answer, Think, NoReply, Reply
<1> QED BY <1>1, <1>2

\* From its first request with a message of the user on, a conversation keeps
\* the identity that its automatic session has (stable_context_text in
\* src/src/session_store.rs).
THEOREM SessionCorrect == Spec => SameSession
<1> QED BY InitInv, NextInv, SessionStep, PTL DEF Spec, SameSession
=============================================================================
