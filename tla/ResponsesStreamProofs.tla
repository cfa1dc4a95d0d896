------------------------ MODULE ResponsesStreamProofs -----------------------
(***************************************************************************)
(* Proofs about ResponsesStream: the types, that what the client sees      *)
(* implements ResponsesProtocol, and that a completed response is the      *)
(* upstream's whole answer.  The invariant says that what is still to be   *)
(* yielded makes of the client's items what the generator keeps.           *)
(*                                                                         *)
(* The lemmas on events come first: what a sequence of events makes of the *)
(* client's items.  What has been yielded and what is still to be yielded  *)
(* together are what the generator believes the client to know: ids and    *)
(* cs, the ids and the contents of the items by position.                  *)
(***************************************************************************)
EXTENDS ResponsesStream, FiniteSetTheorems, SequenceTheorems, TLAPS

-----------------------------------------------------------------------------
(* Events to come *)

IsAdded(e, i) == e.kind = "added" /\ e.at = i
IsDelta(e, i) == e.kind = "delta" /\ e.at = i

\* The events s announce the items after the first n, in order.
Announces(n, s, ids) ==
    /\ \A k \in 1..Len(s) : s[k].kind = "added" =>
          s[k].at \in (n + 1)..Len(ids) /\ s[k].id = ids[s[k].at]
    /\ \A i \in (n + 1)..Len(ids) : \E k \in 1..Len(s) : IsAdded(s[k], i)
    /\ \A k, l \in 1..Len(s) :
          s[k].kind = "added" /\ s[l].kind = "added" /\ k < l => s[k].at < s[l].at

\* The events s go on where `got` ends, to make the content c of item i.
Fills(i, got, s, c) ==
    /\ Len(got) <= Len(c) /\ \A k \in 1..Len(got) : got[k] = c[k]
    /\ \A k \in 1..Len(s) : IsDelta(s[k], i) =>
          \E l \in (Len(got) + 1)..Len(c) : s[k].piece = c[l]
    /\ \A l \in (Len(got) + 1)..Len(c) : \E k \in 1..Len(s) : IsDelta(s[k], i) /\ s[k].piece = c[l]
    /\ \A k, l \in 1..Len(s) :
          IsDelta(s[k], i) /\ IsDelta(s[l], i) /\ k < l => s[k].piece < s[l].piece

\* A delta is for an item already announced, in s or before.
Follows(n, s, ids) ==
    \A k \in 1..Len(s) : s[k].kind = "delta" =>
       /\ s[k].at \in 1..Len(ids)
       /\ s[k].at > n => \E l \in 1..Len(s) : l < k /\ IsAdded(s[l], s[k].at)

\* A sequence without its first event.
LEMMA TailIs ==
    ASSUME NEW S, NEW s \in Seq(S), s # <<>>
    PROVE  /\ Tail(s) \in Seq(S) /\ Len(s) \in Nat \ {0} /\ Len(Tail(s)) = Len(s) - 1
           /\ Head(s) = s[1] /\ \A k \in 1..Len(Tail(s)) : Tail(s)[k] = s[k + 1] /\ k + 1 \in 1..Len(s)
           /\ \A k \in 1..Len(s) : k # 1 => k - 1 \in 1..Len(Tail(s)) /\ Tail(s)[k - 1] = s[k]
<1>1. Len(s) \in Nat \ {0}
  BY EmptySeq
<1>2. /\ Tail(s) \in Seq(S) /\ Len(Tail(s)) = Len(s) - 1
      /\ \A k \in 1..Len(Tail(s)) : Tail(s)[k] = s[k + 1]
  BY HeadTailProperties
<1>3. ASSUME NEW k \in 1..Len(s), k # 1
      PROVE  k - 1 \in 1..Len(Tail(s)) /\ Tail(s)[k - 1] = s[k]
  <2>1. k - 1 \in 1..Len(Tail(s)) /\ (k - 1) + 1 = k
    BY <1>1, <1>2, <1>3
  <2> QED BY <1>2, <2>1
<1> QED BY <1>1, <1>2, <1>3

\* The first announcement is that of the next item.
LEMMA AnnounceFirst ==
    ASSUME NEW S, NEW s \in Seq(S), s # <<>>, NEW I, NEW ids \in Seq(I), NEW n \in Nat,
           Announces(n, s, ids), s[1].kind = "added"
    PROVE  /\ s[1].at = n + 1 /\ n + 1 \in 1..Len(ids) /\ s[1].id = ids[n + 1]
           /\ Announces(n + 1, Tail(s), ids)
<1>1. Len(ids) \in Nat /\ Len(s) \in Nat \ {0} /\ 1 \in 1..Len(s)
  BY TailIs
<1>2. s[1].at \in (n + 1)..Len(ids) /\ s[1].id = ids[s[1].at]
  BY <1>1 DEF Announces
<1>3. s[1].at = n + 1
  <2>1. PICK k \in 1..Len(s) : IsAdded(s[k], n + 1)
    BY <1>1, <1>2 DEF Announces
  <2>2. k # 1 => s[1].at < s[k].at
    BY <1>1, <2>1 DEF Announces, IsAdded
  <2> QED BY <1>2, <2>1, <2>2 DEF IsAdded
<1>4. ASSUME NEW k \in 1..Len(Tail(s)), Tail(s)[k].kind = "added"
      PROVE  Tail(s)[k].at \in (n + 2)..Len(ids) /\ Tail(s)[k].id = ids[Tail(s)[k].at]
  <2>1. Tail(s)[k] = s[k + 1] /\ k + 1 \in 1..Len(s) /\ 1 < k + 1
    BY TailIs
  <2>2. s[k + 1].at \in (n + 1)..Len(ids) /\ s[k + 1].id = ids[s[k + 1].at] /\ s[1].at < s[k + 1].at
    BY <1>1, <1>4, <2>1 DEF Announces
  <2> QED BY <1>1, <1>3, <2>1, <2>2
<1>5. ASSUME NEW i \in (n + 2)..Len(ids)
      PROVE  \E k \in 1..Len(Tail(s)) : IsAdded(Tail(s)[k], i)
  <2>1. PICK k \in 1..Len(s) : IsAdded(s[k], i)
    BY <1>1 DEF Announces
  <2>2. k # 1
    BY <1>3, <2>1 DEF IsAdded
  <2> QED BY <2>1, <2>2, TailIs
<1>6. ASSUME NEW k \in 1..Len(Tail(s)), NEW l \in 1..Len(Tail(s)),
             Tail(s)[k].kind = "added", Tail(s)[l].kind = "added", k < l
      PROVE  Tail(s)[k].at < Tail(s)[l].at
  <2>1. /\ Tail(s)[k] = s[k + 1] /\ k + 1 \in 1..Len(s)
        /\ Tail(s)[l] = s[l + 1] /\ l + 1 \in 1..Len(s) /\ k + 1 < l + 1
    BY <1>6, TailIs
  <2> QED BY <1>6, <2>1 DEF Announces
<1>7. (n + 1) + 1 = n + 2 /\ n + 1 \in 1..Len(ids)
  BY <1>1, <1>2
<1> QED BY <1>2, <1>3, <1>4, <1>5, <1>6, <1>7 DEF Announces

\* Another event leaves what is to be announced.
LEMMA AnnounceOther ==
    ASSUME NEW S, NEW s \in Seq(S), s # <<>>, NEW I, NEW ids \in Seq(I), NEW n \in Nat,
           Announces(n, s, ids), s[1].kind # "added"
    PROVE  Announces(n, Tail(s), ids)
<1>1. ASSUME NEW k \in 1..Len(Tail(s)), Tail(s)[k].kind = "added"
      PROVE  Tail(s)[k].at \in (n + 1)..Len(ids) /\ Tail(s)[k].id = ids[Tail(s)[k].at]
  BY <1>1, TailIs DEF Announces
<1>2. ASSUME NEW i \in (n + 1)..Len(ids)
      PROVE  \E k \in 1..Len(Tail(s)) : IsAdded(Tail(s)[k], i)
  <2>1. PICK k \in 1..Len(s) : IsAdded(s[k], i)
    BY DEF Announces
  <2>2. k # 1
    BY <2>1 DEF IsAdded
  <2> QED BY <2>1, <2>2, TailIs
<1>3. ASSUME NEW k \in 1..Len(Tail(s)), NEW l \in 1..Len(Tail(s)),
             Tail(s)[k].kind = "added", Tail(s)[l].kind = "added", k < l
      PROVE  Tail(s)[k].at < Tail(s)[l].at
  <2>1. /\ Tail(s)[k] = s[k + 1] /\ k + 1 \in 1..Len(s)
        /\ Tail(s)[l] = s[l + 1] /\ l + 1 \in 1..Len(s) /\ k + 1 < l + 1
    BY <1>3, TailIs
  <2> QED BY <1>3, <2>1 DEF Announces
<1> QED BY <1>1, <1>2, <1>3 DEF Announces

\* The first piece for an item is the next of its content.
LEMMA FillFirst ==
    ASSUME NEW S, NEW s \in Seq(S), s # <<>>, NEW i, NEW got \in Seq(Nat), NEW c \in Seq(Nat),
           Fills(i, got, s, c), Rising(c), IsDelta(s[1], i)
    PROVE  /\ Len(got) + 1 \in 1..Len(c) /\ s[1].piece = c[Len(got) + 1]
           /\ Fills(i, Append(got, s[1].piece), Tail(s), c)
<1> DEFINE g == Len(got)
           more == Append(got, s[1].piece)
<1>1. Len(c) \in Nat /\ g \in Nat /\ Len(s) \in Nat \ {0} /\ 1 \in 1..Len(s) /\ DOMAIN c = 1..Len(c)
  BY TailIs
<1>2. PICK l \in (g + 1)..Len(c) : s[1].piece = c[l]
  BY <1>1 DEF Fills, IsDelta
<1>3. g + 1 \in 1..Len(c) /\ s[1].piece = c[g + 1]
  <2>1. g + 1 \in (g + 1)..Len(c) /\ g + 1 \in 1..Len(c) /\ l \in 1..Len(c)
    BY <1>1, <1>2
  <2>2. PICK k \in 1..Len(s) : IsDelta(s[k], i) /\ s[k].piece = c[g + 1]
    BY <2>1 DEF Fills, IsDelta
  <2>3. k # 1 => s[1].piece < s[k].piece
    BY <1>1, <2>2, SMTT(30) DEF Fills, IsDelta
  <2>4. l # g + 1 => c[g + 1] < c[l]
    <3>1. g + 1 \in DOMAIN c /\ l \in DOMAIN c /\ (l # g + 1 => g + 1 < l)
      BY <1>1, <1>2, <2>1
    <3> QED BY <3>1 DEF Rising
  <2>5. c[g + 1] \in Nat /\ c[l] \in Nat
    BY <1>1, <2>1
  <2> QED BY <1>2, <2>1, <2>2, <2>3, <2>4, <2>5, SMTT(30)
<1>4. /\ more \in Seq(Nat) /\ Len(more) = g + 1
      /\ \A k \in 1..(g + 1) : more[k] = c[k]
  <2>1. s[1].piece \in Nat
    BY <1>1, <1>3
  <2>2. \A k \in 1..g : got[k] = c[k]
    BY DEF Fills, IsDelta
  <2> QED BY <1>3, <2>1, <2>2
<1>5. ASSUME NEW k \in 1..Len(Tail(s)), IsDelta(Tail(s)[k], i)
      PROVE  \E m \in (g + 2)..Len(c) : Tail(s)[k].piece = c[m]
  <2>1. Tail(s)[k] = s[k + 1] /\ k + 1 \in 1..Len(s) /\ 1 < k + 1
    BY TailIs
  <2>2. PICK m \in (g + 1)..Len(c) : s[k + 1].piece = c[m]
    BY <1>5, <2>1 DEF Fills, IsDelta
  <2>3. s[1].piece < s[k + 1].piece
    BY <1>1, <1>5, <2>1 DEF Fills, IsDelta
  <2>4. c[m] \in Nat /\ m \in 1..Len(c)
    BY <1>1
  <2>5. m # g + 1
    BY <1>3, <2>2, <2>3, <2>4
  <2> QED BY <1>1, <2>1, <2>2, <2>5
<1>6. ASSUME NEW m \in (g + 2)..Len(c)
      PROVE  \E k \in 1..Len(Tail(s)) : IsDelta(Tail(s)[k], i) /\ Tail(s)[k].piece = c[m]
  <2>1. /\ m \in (g + 1)..Len(c) /\ m \in 1..Len(c) /\ g + 1 < m
        /\ g + 1 \in DOMAIN c /\ m \in DOMAIN c /\ c[m] \in Nat /\ c[g + 1] \in Nat
    BY <1>1, <1>3, SMTT(30)
  <2>2. PICK k \in 1..Len(s) : IsDelta(s[k], i) /\ s[k].piece = c[m]
    BY <2>1 DEF Fills
  <2>3. c[g + 1] < c[m]
    BY <2>1 DEF Rising
  <2>4. k # 1
    BY <1>3, <2>1, <2>2, <2>3, SMTT(30)
  <2>5. k - 1 \in 1..Len(Tail(s)) /\ Tail(s)[k - 1] = s[k]
    BY <2>4, TailIs
  <2> QED BY <2>2, <2>5
<1>7. ASSUME NEW k \in 1..Len(Tail(s)), NEW m \in 1..Len(Tail(s)),
             IsDelta(Tail(s)[k], i), IsDelta(Tail(s)[m], i), k < m
      PROVE  Tail(s)[k].piece < Tail(s)[m].piece
  <2>1. /\ Tail(s)[k] = s[k + 1] /\ k + 1 \in 1..Len(s)
        /\ Tail(s)[m] = s[m + 1] /\ m + 1 \in 1..Len(s) /\ k + 1 < m + 1
    BY <1>7, TailIs
  <2>2. IsDelta(s[k + 1], i) /\ IsDelta(s[m + 1], i)
    BY <1>7, <2>1
  <2>3. s[k + 1].piece < s[m + 1].piece
    BY <2>1, <2>2 DEF Fills
  <2>4. Tail(s)[k].piece = s[k + 1].piece /\ Tail(s)[m].piece = s[m + 1].piece
    BY <2>1, Zenon
  <2> QED BY <2>3, <2>4, Zenon
<1>8. (g + 1) + 1 = g + 2
  BY <1>1
<1>9. Len(more) <= Len(c) /\ \A k \in 1..Len(more) : more[k] = c[k]
  <2> HIDE DEF more
  <2>1. g + 1 <= Len(c)
    BY <1>1, <1>3
  <2> QED BY <1>4, <2>1, Zenon
<1>10. Fills(i, more, Tail(s), c)
  <2> HIDE DEF more
  <2>1. Len(more) + 1 = g + 2
    BY <1>1, <1>4
  <2> QED BY <1>5, <1>6, <1>7, <1>9, <2>1 DEF Fills
<1> QED BY <1>3, <1>10

\* Another event leaves what is to fill the item.
LEMMA FillOther ==
    ASSUME NEW S, NEW s \in Seq(S), s # <<>>, NEW i, NEW got \in Seq(Nat), NEW c \in Seq(Nat),
           Fills(i, got, s, c), ~IsDelta(s[1], i)
    PROVE  Fills(i, got, Tail(s), c)
<1>1. ASSUME NEW k \in 1..Len(Tail(s)), IsDelta(Tail(s)[k], i)
      PROVE  \E l \in (Len(got) + 1)..Len(c) : Tail(s)[k].piece = c[l]
  <2>1. Tail(s)[k] = s[k + 1] /\ k + 1 \in 1..Len(s)
    BY TailIs
  <2> QED BY <1>1, <2>1 DEF Fills, IsDelta
<1>2. ASSUME NEW l \in (Len(got) + 1)..Len(c)
      PROVE  \E k \in 1..Len(Tail(s)) : IsDelta(Tail(s)[k], i) /\ Tail(s)[k].piece = c[l]
  <2>1. PICK k \in 1..Len(s) : IsDelta(s[k], i) /\ s[k].piece = c[l]
    BY DEF Fills, IsDelta
  <2>2. k # 1
    BY <2>1
  <2>3. k - 1 \in 1..Len(Tail(s)) /\ Tail(s)[k - 1] = s[k]
    BY <2>2, TailIs
  <2> QED BY <2>1, <2>3
<1>3. ASSUME NEW k \in 1..Len(Tail(s)), NEW m \in 1..Len(Tail(s)),
             IsDelta(Tail(s)[k], i), IsDelta(Tail(s)[m], i), k < m
      PROVE  Tail(s)[k].piece < Tail(s)[m].piece
  <2>1. /\ Tail(s)[k] = s[k + 1] /\ k + 1 \in 1..Len(s)
        /\ Tail(s)[m] = s[m + 1] /\ m + 1 \in 1..Len(s) /\ k + 1 < m + 1
    BY <1>3, TailIs
  <2> QED BY <1>3, <2>1, SMTT(30) DEF Fills, IsDelta
<1> QED BY <1>1, <1>2, <1>3 DEF Fills, IsDelta

Joined(s, t, u) ==
    /\ Len(u) = Len(s) + Len(t) /\ Len(s) \in Nat /\ Len(t) \in Nat
    /\ \A k \in 1..Len(s) : u[k] = s[k] /\ k \in 1..Len(u)
    /\ \A k \in 1..Len(t) : u[Len(s) + k] = t[k] /\ Len(s) + k \in 1..Len(u)
    /\ \A k \in 1..Len(u) : k \notin 1..Len(s) =>
          k - Len(s) \in 1..Len(t) /\ u[k] = t[k - Len(s)]

\* Two sequences of events, one after the other.
LEMMA ConcatIs ==
    ASSUME NEW S, NEW s \in Seq(S), NEW t \in Seq(S)
    PROVE  s \o t \in Seq(S) /\ Joined(s, t, s \o t)
<1>1. Len(s) \in Nat /\ Len(t) \in Nat
  OBVIOUS
<1>2. /\ s \o t \in Seq(S) /\ Len(s \o t) = Len(s) + Len(t)
      /\ \A k \in 1..(Len(s) + Len(t)) : (s \o t)[k] = IF k <= Len(s) THEN s[k] ELSE t[k - Len(s)]
  BY ConcatProperties
<1>3. ASSUME NEW k \in 1..Len(s)
      PROVE  (s \o t)[k] = s[k] /\ k \in 1..Len(s \o t)
  <2>1. k \in 1..(Len(s) + Len(t)) /\ k <= Len(s)
    BY <1>1
  <2> QED BY <1>2, <2>1
<1>4. ASSUME NEW k \in 1..Len(t)
      PROVE  (s \o t)[Len(s) + k] = t[k] /\ Len(s) + k \in 1..Len(s \o t)
  <2>1. Len(s) + k \in 1..(Len(s) + Len(t)) /\ ~(Len(s) + k <= Len(s)) /\ (Len(s) + k) - Len(s) = k
    BY <1>1
  <2> QED BY <1>2, <2>1
<1>5. ASSUME NEW k \in 1..Len(s \o t), k \notin 1..Len(s)
      PROVE  k - Len(s) \in 1..Len(t) /\ (s \o t)[k] = t[k - Len(s)]
  <2>1. k \in 1..(Len(s) + Len(t)) /\ ~(k <= Len(s)) /\ k - Len(s) \in 1..Len(t)
    BY <1>1, <1>2, <1>5
  <2> QED BY <1>2, <2>1
<1> QED BY <1>1, <1>2, <1>3, <1>4, <1>5 DEF Joined

\* A sequence with one element more.
LEMMA AppendIs ==
    ASSUME NEW S, NEW s \in Seq(S), NEW x \in S
    PROVE  /\ Append(s, x) \in Seq(S) /\ Len(Append(s, x)) = Len(s) + 1 /\ Len(s) \in Nat
           /\ \A k \in 1..Len(s) : Append(s, x)[k] = s[k]
           /\ Append(s, x)[Len(s) + 1] = x
OBVIOUS

\* The next item is announced.
LEMMA AnnounceNew ==
    ASSUME NEW S, NEW s \in Seq(S), NEW e \in S, NEW I, NEW ids \in Seq(I), NEW x \in I,
           NEW n \in Nat, n <= Len(ids), Announces(n, s, ids),
           IsAdded(e, Len(ids) + 1), e.id = x
    PROVE  Announces(n, s \o <<e>>, Append(ids, x))
<1> DEFINE t == <<e>>
           N == Len(ids)
           more == Append(ids, x)
<1>1. t \in Seq(S) /\ Len(t) = 1 /\ t[1] = e /\ 1 \in 1..Len(t)
  OBVIOUS
<1>2. N \in Nat /\ Len(more) = N + 1 /\ more[N + 1] = x /\ \A k \in 1..N : more[k] = ids[k]
  BY AppendIs
<1>0. Joined(s, t, s \o t)
  BY <1>1, ConcatIs
<1> HIDE DEF t, more
<1>3. ASSUME NEW k \in 1..Len(s \o t), k \notin 1..Len(s)
      PROVE  (s \o t)[k] = e
  <2>1. k - Len(s) \in 1..Len(t) /\ (s \o t)[k] = t[k - Len(s)]
    BY <1>0, <1>1, <1>3 DEF Joined
  <2>2. k - Len(s) = 1
    BY <1>1, <2>1
  <2> QED BY <1>1, <2>1, <2>2
<1>4. ASSUME NEW k \in 1..Len(s \o t), (s \o t)[k].kind = "added"
      PROVE  /\ (s \o t)[k].at \in (n + 1)..(N + 1) /\ (s \o t)[k].id = more[(s \o t)[k].at]
             /\ k \in 1..Len(s) => (s \o t)[k].at \in (n + 1)..N
             /\ k \notin 1..Len(s) => (s \o t)[k].at = N + 1
  <2>1. CASE k \in 1..Len(s)
    <3>1. (s \o t)[k] = s[k]
      BY <1>0, <1>1, <2>1 DEF Joined
    <3>2. s[k].at \in (n + 1)..N /\ s[k].id = ids[s[k].at]
      BY <1>4, <2>1, <3>1 DEF Announces
    <3>3. s[k].at \in (n + 1)..(N + 1) /\ s[k].at \in 1..N
      BY <1>2, <3>2
    <3> QED BY <1>2, <2>1, <3>1, <3>2, <3>3
  <2>2. CASE k \notin 1..Len(s)
    BY <1>2, <1>3, <2>2 DEF IsAdded
  <2> QED BY <2>1, <2>2
<1>5. ASSUME NEW i \in (n + 1)..(N + 1)
      PROVE  \E k \in 1..Len(s \o t) : IsAdded((s \o t)[k], i)
  <2>1. CASE i = N + 1
    <3>1. Len(s) + 1 \in 1..Len(s \o t) /\ (s \o t)[Len(s) + 1] = e
      BY <1>0, <1>1 DEF Joined
    <3> QED BY <2>1, <3>1
  <2>2. CASE i # N + 1
    <3>1. i \in (n + 1)..N
      BY <1>2, <2>2
    <3>2. PICK k \in 1..Len(s) : IsAdded(s[k], i)
      BY <3>1 DEF Announces
    <3>3. k \in 1..Len(s \o t) /\ (s \o t)[k] = s[k]
      BY <1>0, <1>1 DEF Joined
    <3> QED BY <3>2, <3>3
  <2> QED BY <2>1, <2>2
<1>6. ASSUME NEW k \in 1..Len(s \o t), NEW l \in 1..Len(s \o t),
             (s \o t)[k].kind = "added", (s \o t)[l].kind = "added", k < l
      PROVE  (s \o t)[k].at < (s \o t)[l].at
  <2>0. Len(s) \in Nat /\ Len(t) = 1 /\ Len(s \o t) = Len(s) + 1
    BY <1>0, <1>1 DEF Joined
  <2>1. k \in 1..Len(s)
    BY <1>6, <2>0
  <2>2. (s \o t)[k] = s[k]
    BY <1>0, <1>1, <2>1 DEF Joined
  <2>3. CASE l \in 1..Len(s)
    <3>1. (s \o t)[l] = s[l]
      BY <1>0, <1>1, <2>3 DEF Joined
    <3> QED BY <1>6, <2>1, <2>2, <2>3, <3>1 DEF Announces
  <2>4. CASE l \notin 1..Len(s)
    <3>1. (s \o t)[k].at \in (n + 1)..N /\ (s \o t)[l].at = N + 1
      BY <1>4, <1>6, <2>1, <2>4
    <3> QED BY <1>2, <3>1
  <2> QED BY <2>3, <2>4
<1>7. Announces(n, s \o t, more)
  BY <1>2, <1>4, <1>5, <1>6 DEF Announces
<1> QED BY <1>7 DEF t, more

\* Events that announce nothing leave what is announced.
LEMMA AnnounceMore ==
    ASSUME NEW S, NEW s \in Seq(S), NEW t \in Seq(S), NEW I, NEW ids \in Seq(I), NEW n \in Nat,
           Announces(n, s, ids), \A k \in 1..Len(t) : t[k].kind # "added"
    PROVE  Announces(n, s \o t, ids)
<1>1. ASSUME NEW k \in 1..Len(s \o t), (s \o t)[k].kind = "added"
      PROVE  k \in 1..Len(s) /\ (s \o t)[k] = s[k]
  BY <1>1, ConcatIs DEF Joined
<1>2. ASSUME NEW i \in (n + 1)..Len(ids)
      PROVE  \E k \in 1..Len(s \o t) : IsAdded((s \o t)[k], i)
  <2>1. PICK k \in 1..Len(s) : IsAdded(s[k], i)
    BY DEF Announces
  <2>2. k \in 1..Len(s \o t) /\ (s \o t)[k] = s[k]
    BY ConcatIs DEF Joined
  <2> QED BY <2>1, <2>2
<1> QED BY <1>1, <1>2 DEF Announces

\* More of the content of item i is generated.
LEMMA FillMore ==
    ASSUME NEW S, NEW s \in Seq(S), NEW t \in Seq(S), NEW i, NEW got \in Seq(Nat),
           NEW c \in Seq(Nat), NEW d \in Seq(Nat), Fills(i, got, s, c), Rising(c \o d),
           Len(t) = Len(d), \A k \in 1..Len(t) : IsDelta(t[k], i) /\ t[k].piece = d[k]
    PROVE  Fills(i, got, s \o t, c \o d)
<1> DEFINE g == Len(got)
           e == c \o d
           u == s \o t
<1>0. Joined(c, d, e) /\ Joined(s, t, u) /\ e \in Seq(Nat) /\ u \in Seq(S) /\ Rising(e)
  BY ConcatIs
<1> HIDE DEF e, u
<1>1. /\ g \in Nat /\ Len(c) \in Nat /\ Len(d) \in Nat /\ Len(s) \in Nat /\ g <= Len(c)
      /\ Len(e) = Len(c) + Len(d) /\ Len(u) = Len(s) + Len(t) /\ Len(t) = Len(d)
  BY <1>0 DEF Fills, Joined
<1>9. DOMAIN e = 1..Len(e)
  BY <1>0
<1>2. /\ \A k \in 1..Len(c) : e[k] = c[k] /\ k \in 1..Len(e)
      /\ \A k \in 1..Len(d) : e[Len(c) + k] = d[k] /\ Len(c) + k \in 1..Len(e)
      /\ \A k \in 1..Len(e) : k \notin 1..Len(c) => k - Len(c) \in 1..Len(d)
  BY <1>0 DEF Joined
<1>3. /\ \A k \in 1..Len(s) : u[k] = s[k] /\ k \in 1..Len(u)
      /\ \A k \in 1..Len(t) : u[Len(s) + k] = t[k] /\ Len(s) + k \in 1..Len(u)
      /\ \A k \in 1..Len(u) : k \notin 1..Len(s) => k - Len(s) \in 1..Len(t) /\ u[k] = t[k - Len(s)]
  BY <1>0 DEF Joined
<1>10. ASSUME NEW k \in 1..g PROVE got[k] = c[k]
  BY DEF Fills
<1> HIDE DEF g
<1>4. g <= Len(e) /\ \A k \in 1..g : got[k] = e[k]
  <2>1. ASSUME NEW k \in 1..g PROVE got[k] = e[k]
    <3>1. k \in 1..Len(c) /\ got[k] = c[k]
      BY <1>1, <1>10
    <3> QED BY <1>2, <3>1
  <2> QED BY <1>1, <2>1
<1>5. ASSUME NEW k \in 1..Len(u), IsDelta(u[k], i)
      PROVE  \E l \in (g + 1)..Len(e) : /\ u[k].piece = e[l]
                                        /\ k \in 1..Len(s) => l \in 1..Len(c)
                                        /\ k \notin 1..Len(s) => l = Len(c) + (k - Len(s))
  <2>1. CASE k \in 1..Len(s)
    <3>1. u[k] = s[k]
      BY <1>3, <2>1
    <3>2. PICK l \in (g + 1)..Len(c) : s[k].piece = c[l]
      BY <1>5, <2>1, <3>1 DEF Fills, g
    <3>3. l \in 1..Len(c) /\ l \in (g + 1)..Len(e)
      BY <1>1
    <3>4. e[l] = c[l]
      BY <1>2, <3>3
    <3> QED BY <2>1, <3>1, <3>2, <3>3, <3>4
  <2>2. CASE k \notin 1..Len(s)
    <3>1. k - Len(s) \in 1..Len(t) /\ u[k] = t[k - Len(s)]
      BY <1>3, <2>2
    <3>2. u[k].piece = d[k - Len(s)] /\ e[Len(c) + (k - Len(s))] = d[k - Len(s)]
      BY <1>2, <3>1
    <3>3. Len(c) + (k - Len(s)) \in (g + 1)..Len(e)
      BY <1>1, <3>1
    <3> QED BY <2>2, <3>2, <3>3
  <2> QED BY <2>1, <2>2
<1>6. ASSUME NEW l \in (g + 1)..Len(e)
      PROVE  \E k \in 1..Len(u) : IsDelta(u[k], i) /\ u[k].piece = e[l]
  <2>1. CASE l \in 1..Len(c)
    <3>1. l \in (g + 1)..Len(c) /\ e[l] = c[l]
      BY <1>1, <1>2, <2>1
    <3>2. PICK k \in 1..Len(s) : IsDelta(s[k], i) /\ s[k].piece = c[l]
      BY <3>1 DEF Fills, g
    <3>3. u[k] = s[k] /\ k \in 1..Len(u)
      BY <1>3
    <3> QED BY <3>1, <3>2, <3>3
  <2>2. CASE l \notin 1..Len(c)
    <3>1. l \in 1..Len(e)
      BY <1>1
    <3>2. l - Len(c) \in 1..Len(d) /\ Len(c) + (l - Len(c)) = l
      BY <1>1, <1>2, <2>2, <3>1
    <3>3. e[l] = d[l - Len(c)]
      BY <1>2, <3>2
    <3>4. /\ u[Len(s) + (l - Len(c))] = t[l - Len(c)]
          /\ Len(s) + (l - Len(c)) \in 1..Len(u)
      BY <1>3, <3>2
    <3>5. IsDelta(t[l - Len(c)], i) /\ t[l - Len(c)].piece = d[l - Len(c)]
      BY <3>2
    <3> QED BY <3>3, <3>4, <3>5
  <2> QED BY <2>1, <2>2
<1>7. ASSUME NEW k \in 1..Len(u), NEW m \in 1..Len(u), IsDelta(u[k], i), IsDelta(u[m], i), k < m
      PROVE  u[k].piece < u[m].piece
  <2>1. PICK l \in (g + 1)..Len(e) : /\ u[k].piece = e[l]
                                     /\ k \in 1..Len(s) => l \in 1..Len(c)
                                     /\ k \notin 1..Len(s) => l = Len(c) + (k - Len(s))
    BY <1>5, <1>7
  <2>2. PICK p \in (g + 1)..Len(e) : /\ u[m].piece = e[p]
                                     /\ m \in 1..Len(s) => p \in 1..Len(c)
                                     /\ m \notin 1..Len(s) => p = Len(c) + (m - Len(s))
    BY <1>5, <1>7
  <2>3. CASE m \in 1..Len(s)
    <3>1. k \in 1..Len(s) /\ u[k] = s[k] /\ u[m] = s[m]
      BY <1>1, <1>3, <1>7, <2>3
    <3> QED BY <1>7, <2>3, <3>1 DEF Fills, g
  <2>4. CASE m \notin 1..Len(s)
    <3>1. l \in DOMAIN e /\ p \in DOMAIN e /\ l \in Nat /\ p \in Nat
      BY <1>1, <1>9, <2>1, <2>2
    <3>2. k \in Nat /\ m \in Nat /\ k \in 1..Len(u) /\ m \in 1..Len(u) /\ Len(s) < m
      BY <1>1, <2>4
    <3>3. CASE k \in 1..Len(s)
      <4>1. l \in 1..Len(c) /\ p = Len(c) + (m - Len(s))
        BY <1>1, <2>1, <2>2, <2>4, <3>2, <3>3
      <4>2. l < p
        BY <1>1, <3>2, <4>1
      <4>3. e[l] < e[p]
        BY <1>0, <3>1, <4>2 DEF Rising
      <4> QED BY <2>1, <2>2, <4>3
    <3>4. CASE k \notin 1..Len(s)
      <4>1. l = Len(c) + (k - Len(s)) /\ p = Len(c) + (m - Len(s))
        BY <1>1, <2>1, <2>2, <2>4, <3>2, <3>4
      <4>2. l < p
        <5>1. PICK x \in Nat : x = Len(c)
          BY <1>1
        <5>2. PICK y \in Nat : y = Len(s)
          BY <1>1
        <5>3. x + (k - y) < x + (m - y)
          BY <1>7, <3>2
        <5> QED BY <4>1, <5>1, <5>2, <5>3
      <4>3. e[l] < e[p]
        BY <1>0, <3>1, <4>2 DEF Rising
      <4> QED BY <2>1, <2>2, <4>3
    <3> QED BY <3>3, <3>4
  <2> QED BY <2>3, <2>4
<1>11. ASSUME NEW k \in 1..Len(u), IsDelta(u[k], i)
       PROVE  \E l \in (g + 1)..Len(e) : u[k].piece = e[l]
  BY <1>1, <1>5, <1>11
<1>8. Fills(i, got, u, e)
  BY <1>4, <1>6, <1>7, <1>11 DEF Fills, g
<1> QED BY <1>8 DEF u, e

\* Events that carry nothing for an item leave its content.
LEMMA FillApart ==
    ASSUME NEW S, NEW s \in Seq(S), NEW t \in Seq(S), NEW i, NEW got \in Seq(Nat),
           NEW c \in Seq(Nat), Fills(i, got, s, c), \A k \in 1..Len(t) : ~IsDelta(t[k], i)
    PROVE  Fills(i, got, s \o t, c)
<1>1. ASSUME NEW k \in 1..Len(s \o t), IsDelta((s \o t)[k], i)
      PROVE  k \in 1..Len(s) /\ (s \o t)[k] = s[k]
  BY <1>1, ConcatIs DEF Joined
<1>2. ASSUME NEW l \in (Len(got) + 1)..Len(c)
      PROVE  \E k \in 1..Len(s \o t) : IsDelta((s \o t)[k], i) /\ (s \o t)[k].piece = c[l]
  <2>1. PICK k \in 1..Len(s) : IsDelta(s[k], i) /\ s[k].piece = c[l]
    BY DEF Fills
  <2>2. k \in 1..Len(s \o t) /\ (s \o t)[k] = s[k]
    BY ConcatIs DEF Joined
  <2> QED BY <2>1, <2>2
<1>3. ASSUME NEW k \in 1..Len(s \o t), NEW m \in 1..Len(s \o t),
             IsDelta((s \o t)[k], i), IsDelta((s \o t)[m], i), k < m
      PROVE  (s \o t)[k].piece < (s \o t)[m].piece
  <2>1. k \in 1..Len(s) /\ (s \o t)[k] = s[k] /\ m \in 1..Len(s) /\ (s \o t)[m] = s[m]
    BY <1>1, <1>3
  <2> QED BY <1>3, <2>1 DEF Fills
<1>4. ASSUME NEW k \in 1..Len(s \o t), IsDelta((s \o t)[k], i)
      PROVE  \E l \in (Len(got) + 1)..Len(c) : (s \o t)[k].piece = c[l]
  <2>1. k \in 1..Len(s) /\ (s \o t)[k] = s[k]
    BY <1>1, <1>4
  <2> QED BY <1>4, <2>1, ZenonT(60) DEF Fills
<1> QED BY <1>2, <1>3, <1>4 DEF Fills

-----------------------------------------------------------------------------
(* What the client is being told, item by item *)

Record == [id : Ids, content : Contents, status : {"growing", "closed", "done"}]
Events ==
    [kind : {"added"}, at : Nat, id : Ids] \cup [kind : {"delta"}, at : Nat, piece : PieceNums]
    \cup [kind : {"sealed"}, at : Nat, content : Contents]
    \cup [kind : {"done"}, at : Nat, item : Record]
    \cup [kind : {"completed"}, output : Seq(Record)] \cup [kind : {"failed"}]

Got(i) == IF i <= Len(items) THEN items[i].content ELSE <<>>

\* With the events s the client comes to know the items ids, with the contents
\* cs, while all of them are growing.
Plays(s, ids, cs) ==
    /\ s \in Seq(Events) /\ ids \in Seq(Ids) /\ cs \in Seq(Contents)
    /\ Len(cs) = Len(ids) /\ Len(items) <= Len(ids)
    /\ \A i, j \in 1..Len(ids) : ids[i] = ids[j] => i = j
    /\ \A i \in 1..Len(items) : items[i].status = "growing" /\ items[i].id = ids[i]
    /\ \A k \in 1..Len(s) : s[k].kind \in {"added", "delta"}
    /\ Announces(Len(items), s, ids) /\ Follows(Len(items), s, ids)
    /\ \A i \in 1..Len(ids) : Rising(cs[i]) /\ Fills(i, Got(i), s, cs[i])

\* What the generator builds are events.
LEMMA EventsAre ==
    /\ \A i \in Nat, id \in Ids : Added(i, id) \in Events
    /\ \A i \in Nat, piece \in PieceNums : Delta(i, piece) \in Events
    /\ \A i \in Nat, content \in Contents : Sealed(i, content) \in Events
    /\ \A i \in Nat, item \in Record : Done(i, item) \in Events
    /\ \A output \in Seq(Record) : [kind |-> "completed", output |-> output] \in Events
    /\ Failed \in Events
BY DEF Events, Added, Delta, Sealed, Done, Failed

\* The fields of an event, by its kind.
LEMMA EventHas ==
    ASSUME NEW e \in Events
    PROVE  /\ e.kind = "added" => e.id \in Ids /\ e.at \in Nat
           /\ e.kind = "delta" => e.piece \in PieceNums /\ e.at \in Nat
           /\ e.kind = "done" => e.item \in Record
           /\ e.kind = "sealed" => e.content \in Contents
           /\ e.kind = "completed" => e.output \in Seq(Record)
BY DEF Events

\* A content is a sequence of numbers.
LEMMA ContentsAre ==
    ASSUME NEW c \in Contents
    PROVE  c \in Seq(Nat) /\ Len(c) \in Nat
BY ResponsesAssumption DEF Contents, PieceNums

\* What the client has of an item is a content.
LEMMA GotIs ==
    ASSUME items \in Seq(Record), NEW i \in Nat \ {0}
    PROVE  Got(i) \in Contents
<1>1. <<>> \in Contents
  BY DEF Contents
<1>2. i <= Len(items) => items[i] \in Record
  OBVIOUS
<1> QED BY <1>1, <1>2 DEF Got, Record

\* Deltas still follow their announcement once the first event is taken.
LEMMA FollowTail ==
    ASSUME NEW S, NEW s \in Seq(S), s # <<>>, NEW n, NEW m, NEW ids, Follows(n, s, ids),
           \A x \in 1..Len(ids) : x > m => x > n /\ ~IsAdded(s[1], x)
    PROVE  Follows(m, Tail(s), ids)
<1> SUFFICES ASSUME NEW k \in 1..Len(Tail(s)), Tail(s)[k].kind = "delta"
             PROVE  /\ Tail(s)[k].at \in 1..Len(ids)
                    /\ Tail(s)[k].at > m =>
                         \E l \in 1..Len(Tail(s)) : l < k /\ IsAdded(Tail(s)[l], Tail(s)[k].at)
  BY DEF Follows
<1>1. Tail(s)[k] = s[k + 1] /\ k + 1 \in 1..Len(s)
  BY TailIs
<1>2. s[k + 1].at \in 1..Len(ids)
  BY <1>1 DEF Follows
<1>3. ASSUME s[k + 1].at > m
      PROVE  \E l \in 1..Len(Tail(s)) : l < k /\ IsAdded(Tail(s)[l], s[k + 1].at)
  <2>1. PICK l \in 1..Len(s) : l < k + 1 /\ IsAdded(s[l], s[k + 1].at)
    BY <1>1, <1>2, <1>3 DEF Follows
  <2>2. l # 1
    BY <1>2, <1>3, <2>1
  <2>3. l - 1 \in 1..Len(Tail(s)) /\ Tail(s)[l - 1] = s[l] /\ l - 1 < k
    BY <2>1, <2>2, TailIs
  <2> QED BY <2>1, <2>3
<1> QED BY <1>1, <1>2, <1>3

\* The client takes an announcement: the protocol announces the item.
LEMMA YieldAdded ==
    ASSUME items \in Seq(Record), NEW ids, NEW cs, Plays(out, ids, cs),
           out # <<>>, outcome = "open", Yield, out[1].kind = "added"
    PROVE  /\ items' \in Seq(Record) /\ outcome' = "open" /\ Protocol!Next
           /\ Plays(out, ids, cs)'
<1> DEFINE n == Len(items)
           e == out[1]
           new == [id |-> e.id, content |-> <<>>, status |-> "growing"]
<1>1. /\ out \in Seq(Events) /\ ids \in Seq(Ids) /\ cs \in Seq(Contents) /\ n \in Nat
      /\ Len(cs) = Len(ids) /\ n <= Len(ids) /\ Len(ids) \in Nat
  BY DEF Plays
<1>2. /\ e \in Events /\ Head(out) = e /\ e.id \in Ids
  BY <1>1, TailIs, EventHas
<1>3. /\ e.at = n + 1 /\ n + 1 \in 1..Len(ids) /\ e.id = ids[n + 1]
      /\ Announces(n + 1, Tail(out), ids)
  BY <1>1, AnnounceFirst DEF Plays
<1>4. out' = Tail(out) /\ outcome' = outcome /\ Put(e.at, new)
  BY <1>2 DEF Yield
<1>5. new \in Record
  BY <1>2 DEF Record, Contents
<1>6. items' = Append(items, new)
  <2>1. items' = [j \in 1..n \cup {n + 1} |-> IF j = n + 1 THEN new ELSE items[j]]
    BY <1>1, <1>3, <1>4 DEF Put
  <2>2. 1..n \cup {n + 1} = 1..(n + 1)
    BY <1>1
  <2>3. items' = [j \in 1..(n + 1) |-> IF j = n + 1 THEN new ELSE items[j]]
    BY <2>1, <2>2
  <2> HIDE DEF new
  <2>4. /\ Append(items, new) \in Seq(Record) /\ Len(Append(items, new)) = n + 1
        /\ Append(items, new)[n + 1] = new /\ \A j \in 1..n : Append(items, new)[j] = items[j]
    BY <1>5, AppendIs
  <2>5. Append(items, new) \in [1..(n + 1) -> Record]
    BY <2>4, LenProperties
  <2>6. \A j \in 1..(n + 1) : j = n + 1 \/ j \in 1..n
    BY <1>1
  <2>7. \A j \in 1..(n + 1) : Append(items, new)[j] = IF j = n + 1 THEN new ELSE items[j]
    BY <2>4, <2>6
  <2> QED BY <2>3, <2>5, <2>7
<1>7. /\ items' \in Seq(Record) /\ Len(items') = n + 1 /\ items'[n + 1] = new
      /\ \A j \in 1..n : items'[j] = items[j]
  <2> HIDE DEF new
  <2> QED BY <1>1, <1>5, <1>6, AppendIs
<1>8. Protocol!Next
  <2>1. ASSUME NEW i \in DOMAIN items PROVE items[i].id # e.id
    <3>1. i \in 1..n /\ i # n + 1 /\ i \in 1..Len(ids)
      BY <1>1, <1>3
    <3> QED BY <1>3, <3>1 DEF Plays
  <2>2. Protocol!Announce(e.id)
    BY <1>6, <2>1 DEF Protocol!Announce, Protocol!Fresh
  <2> QED BY <1>2, <1>4, <2>2 DEF Protocol!Next
<1>9. ASSUME NEW i \in 1..Len(ids)
      PROVE  Rising(cs[i]) /\ Fills(i, Got(i)', Tail(out), cs[i])
  <2>1. Got(i)' = Got(i)
    <3>1. CASE i <= n
      <4>1. i <= n + 1 /\ i \in 1..n
        BY <1>1, <3>1
      <4> QED BY <1>7, <3>1, <4>1 DEF Got
    <3>2. CASE i = n + 1
      <4>1. ~(i <= n)
        BY <1>1, <3>2
      <4> QED BY <1>7, <3>2, <4>1 DEF Got
    <3>3. CASE i > n + 1
      <4>1. ~(i <= n) /\ ~(i <= n + 1)
        BY <1>1, <3>3
      <4> QED BY <1>7, <4>1 DEF Got
    <3> QED BY <1>1, <3>1, <3>2, <3>3
  <2>2. Got(i) \in Seq(Nat) /\ cs[i] \in Seq(Nat)
    <3>1. Got(i) \in Contents /\ cs[i] \in Contents
      BY <1>1, GotIs
    <3> QED BY <3>1, ContentsAre
  <2>3. Rising(cs[i]) /\ Fills(i, Got(i), out, cs[i])
    BY DEF Plays
  <2>4. ~IsDelta(out[1], i)
    BY DEF IsDelta
  <2> QED BY <1>1, <2>1, <2>2, <2>3, <2>4, FillOther
<1>10. Follows(n + 1, Tail(out), ids)
  <2>1. Follows(n, out, ids)
    BY DEF Plays
  <2>2. \A x \in 1..Len(ids) : x > n + 1 => x > n /\ ~IsAdded(out[1], x)
    BY <1>1, <1>3 DEF IsAdded
  <2> QED BY <1>1, <2>1, <2>2, FollowTail
<1>11. /\ Tail(out) \in Seq(Events)
       /\ \A k \in 1..Len(Tail(out)) : Tail(out)[k].kind \in {"added", "delta"}
  BY <1>1, TailIs DEF Plays
<1>12. \A i \in 1..(n + 1) : items'[i].status = "growing" /\ items'[i].id = ids[i]
  BY <1>1, <1>3, <1>7 DEF Plays
<1>13. Plays(out, ids, cs)'
  <2>1. \A i, j \in 1..Len(ids) : ids[i] = ids[j] => i = j
    BY DEF Plays
  <2> HIDE DEF new, n
  <2> QED BY <1>1, <1>3, <1>4, <1>7, <1>9, <1>10, <1>11, <1>12, <2>1 DEF Plays
<1> QED BY <1>4, <1>7, <1>8, <1>13

\* The client takes a delta: the protocol grows the item.
LEMMA YieldDelta ==
    ASSUME items \in Seq(Record), NEW ids, NEW cs, Plays(out, ids, cs),
           out # <<>>, outcome = "open", Yield, out[1].kind = "delta"
    PROVE  /\ items' \in Seq(Record) /\ outcome' = "open" /\ Protocol!Next
           /\ Plays(out, ids, cs)'
<1> DEFINE n == Len(items)
           e == out[1]
           i == e.at
           new == [items[i] EXCEPT !.content = Append(@, e.piece)]
<1>1. /\ out \in Seq(Events) /\ ids \in Seq(Ids) /\ cs \in Seq(Contents) /\ n \in Nat
      /\ Len(cs) = Len(ids) /\ n <= Len(ids) /\ Len(ids) \in Nat
  BY DEF Plays
<1>2. /\ e \in Events /\ Head(out) = e /\ e.piece \in PieceNums /\ i \in Nat /\ 1 \in 1..Len(out)
  BY <1>1, TailIs, EventHas
<1>3. i \in 1..n
  <2>1. /\ i \in 1..Len(ids)
        /\ i > n => \E l \in 1..Len(out) : l < 1 /\ IsAdded(out[l], i)
    BY <1>2 DEF Plays, Follows
  <2>2. ~(i > n)
    BY <2>1
  <2> QED BY <1>1, <2>1, <2>2
<1>4. out' = Tail(out) /\ outcome' = outcome
      /\ Put(i, [Known(i) EXCEPT !.content = Append(@, e.piece)])
  BY <1>2 DEF Yield
<1>5. items[i] \in Record /\ items[i].status = "growing" /\ Known(i) = items[i]
  <2>1. DOMAIN items = 1..n
    OBVIOUS
  <2>2. items[i] \in Record /\ Known(i) = items[i]
    BY <1>3, <2>1 DEF Known
  <2> QED BY <1>3, <2>2 DEF Plays
<1>6. /\ new \in Record /\ new.status = "growing" /\ new.id = items[i].id
      /\ new.content = Append(items[i].content, e.piece)
  <2>1. Append(items[i].content, e.piece) \in Contents
    BY <1>2, <1>5 DEF Record, Contents
  <2> QED BY <1>5, <2>1 DEF Record
<1>7. items' = [j \in 1..n |-> IF j = i THEN new ELSE items[j]]
  <2>1. items' = [j \in 1..n \cup {i} |-> IF j = i THEN new ELSE items[j]]
    BY <1>1, <1>4, <1>5 DEF Put
  <2>2. 1..n \cup {i} = 1..n
    BY <1>3
  <2> QED BY <2>1, <2>2
<1>8. items' = [items EXCEPT ![i].content = Append(@, e.piece)]
  <2>1. [items EXCEPT ![i].content = Append(@, e.piece)] = [items EXCEPT ![i] = new]
    OBVIOUS
  <2>2. items \in [1..n -> Record]
    OBVIOUS
  <2> HIDE DEF new
  <2> QED BY <1>3, <1>7, <2>1, <2>2
<1>9. /\ items' \in Seq(Record) /\ Len(items') = n /\ items'[i] = new
      /\ \A j \in 1..n : j # i => items'[j] = items[j]
  <2> HIDE DEF new
  <2>1. \A j \in 1..n : items[j] \in Record
    OBVIOUS
  <2>2. items' \in [1..n -> Record]
    BY <1>6, <1>7, <2>1
  <2>3. items' \in Seq(Record) /\ Len(items') = n
    BY <1>1, <2>2
  <2> QED BY <1>3, <1>7, <2>3
<1>10. Protocol!Next
  <2>1. Protocol!Grow(i, e.piece)
    BY <1>5, <1>8 DEF Protocol!Grow
  <2>2. i \in DOMAIN items
    BY <1>3
  <2> QED BY <1>2, <1>4, <2>1, <2>2 DEF Protocol!Next
<1>11. /\ \A k \in 1..Len(ids) : Got(k) \in Seq(Nat) /\ cs[k] \in Seq(Nat)
       /\ \A k \in 1..Len(ids) : Rising(cs[k]) /\ Fills(k, Got(k), out, cs[k])
  <2>1. ASSUME NEW k \in 1..Len(ids) PROVE Got(k) \in Seq(Nat) /\ cs[k] \in Seq(Nat)
    <3>1. Got(k) \in Contents /\ cs[k] \in Contents
      BY <1>1, GotIs
    <3> QED BY <3>1, ContentsAre
  <2> QED BY <2>1 DEF Plays
<1>12. ASSUME NEW k \in 1..Len(ids)
       PROVE  Rising(cs[k]) /\ Fills(k, Got(k)', Tail(out), cs[k])
  <2>1. CASE k = i
    <3>1. IsDelta(out[1], k)
      BY <2>1 DEF IsDelta
    <3>2. Fills(k, Append(Got(k), e.piece), Tail(out), cs[k])
      BY <1>1, <1>11, <3>1, FillFirst, SMTT(30)
    <3>3. Got(k)' = Append(Got(k), e.piece)
      <4>1. k <= n
        BY <1>1, <1>3, <2>1
      <4>2. Got(k) = items[k].content /\ Got(k)' = items'[k].content
        BY <1>9, <4>1 DEF Got
      <4> QED BY <1>6, <1>9, <2>1, <4>2
    <3> QED BY <1>11, <3>2, <3>3
  <2>2. CASE k # i
    <3>1. ~IsDelta(out[1], k)
      BY <2>2 DEF IsDelta
    <3>2. Fills(k, Got(k), Tail(out), cs[k])
      BY <1>1, <1>11, <3>1, FillOther
    <3>3. Got(k)' = Got(k)
      <4>1. k <= n => k \in 1..n
        BY <1>1
      <4> QED BY <1>9, <2>2, <4>1 DEF Got
    <3> QED BY <1>11, <3>2, <3>3
  <2> QED BY <2>1, <2>2
<1>13. Follows(n, Tail(out), ids)
  <2>1. Follows(n, out, ids)
    BY DEF Plays
  <2>2. \A x \in 1..Len(ids) : x > n => x > n /\ ~IsAdded(out[1], x)
    BY DEF IsAdded
  <2> QED BY <1>1, <2>1, <2>2, FollowTail
<1>14. Announces(n, Tail(out), ids)
  BY <1>1, AnnounceOther DEF Plays
<1>15. /\ Tail(out) \in Seq(Events)
       /\ \A k \in 1..Len(Tail(out)) : Tail(out)[k].kind \in {"added", "delta"}
  BY <1>1, TailIs, SMTT(30) DEF Plays
<1>16. \A k \in 1..n : items'[k].status = "growing" /\ items'[k].id = ids[k]
  <2>1. \A k \in 1..n : items[k].status = "growing" /\ items[k].id = ids[k]
    BY DEF Plays
  <2> QED BY <1>3, <1>6, <1>9, <2>1
<1>17. Plays(out, ids, cs)'
  <2>1. \A k, l \in 1..Len(ids) : ids[k] = ids[l] => k = l
    BY DEF Plays
  <2> HIDE DEF new, n, i
  <2> QED BY <1>1, <1>4, <1>9, <1>12, <1>13, <1>14, <1>15, <1>16, <2>1 DEF Plays, n
<1> QED BY <1>4, <1>9, <1>10, <1>17

\* Every event yielded while the items grow is a step of the protocol.
LEMMA YieldPlays ==
    ASSUME items \in Seq(Record), NEW ids, NEW cs, Plays(out, ids, cs), outcome = "open", Yield
    PROVE  /\ items' \in Seq(Record) /\ outcome' = "open" /\ Protocol!Next
           /\ Plays(out, ids, cs)'
<1>1. out \in Seq(Events) /\ out # <<>>
  BY DEF Plays, Yield
<1>2. out[1].kind \in {"added", "delta"}
  BY <1>1, TailIs DEF Plays
<1> QED BY <1>1, <1>2, YieldAdded, YieldDelta

\* A new item is announced.
LEMMA PlayNew ==
    ASSUME items \in Seq(Record), NEW s, NEW ids, NEW cs, Plays(s, ids, cs), NEW x \in Ids,
           \A i \in 1..Len(ids) : ids[i] # x
    PROVE  Plays(s \o <<Added(Len(ids) + 1, x)>>, Append(ids, x), Append(cs, <<>>))
<1> DEFINE n == Len(items)
           N == Len(ids)
           e == Added(N + 1, x)
           t == <<e>>
           more == Append(ids, x)
           rest == Append(cs, <<>>)
<1>1. /\ s \in Seq(Events) /\ ids \in Seq(Ids) /\ cs \in Seq(Contents) /\ n \in Nat /\ N \in Nat
      /\ Len(cs) = N /\ n <= N /\ Len(s) \in Nat
  BY DEF Plays
<1>2. e \in Events /\ IsAdded(e, N + 1) /\ e.id = x /\ e.kind = "added"
  <2>1. e \in Events
    BY <1>1, EventsAre
  <2> QED BY <2>1 DEF Added, IsAdded
<1>3. t \in Seq(Events) /\ Len(t) = 1 /\ \A k \in 1..Len(t) : t[k] = e
  BY <1>2
<1>4. /\ more \in Seq(Ids) /\ Len(more) = N + 1 /\ more[N + 1] = x
      /\ \A k \in 1..N : more[k] = ids[k]
  BY <1>1, AppendIs
<1>5. /\ rest \in Seq(Contents) /\ Len(rest) = N + 1 /\ rest[N + 1] = <<>>
      /\ \A k \in 1..N : rest[k] = cs[k]
  <2>1. <<>> \in Contents
    BY DEF Contents
  <2> QED BY <1>1, <2>1, AppendIs
<1>6. s \o t \in Seq(Events) /\ Joined(s, t, s \o t)
  BY <1>1, <1>3, ConcatIs
<1>7. Announces(n, s \o t, more)
  BY <1>1, <1>2, AnnounceNew DEF Plays
<1> HIDE DEF e, t, more, rest
<1>8. ASSUME NEW k \in 1..Len(s \o t)
      PROVE  \/ k \in 1..Len(s) /\ (s \o t)[k] = s[k]
             \/ (s \o t)[k] = e
  BY <1>3, <1>6 DEF Joined
<1>9. \A k \in 1..Len(s \o t) : (s \o t)[k].kind \in {"added", "delta"}
  BY <1>2, <1>8 DEF Plays
<1>10. Follows(n, s \o t, more)
  <2> SUFFICES ASSUME NEW k \in 1..Len(s \o t), (s \o t)[k].kind = "delta"
               PROVE  /\ (s \o t)[k].at \in 1..(N + 1)
                      /\ (s \o t)[k].at > n =>
                           \E l \in 1..Len(s \o t) : l < k /\ IsAdded((s \o t)[l], (s \o t)[k].at)
    BY <1>4 DEF Follows
  <2>1. k \in 1..Len(s) /\ (s \o t)[k] = s[k]
    BY <1>2, <1>8
  <2>2. /\ s[k].at \in 1..N
        /\ s[k].at > n => \E l \in 1..Len(s) : l < k /\ IsAdded(s[l], s[k].at)
    BY <2>1 DEF Plays, Follows
  <2>3. \A l \in 1..Len(s) : (s \o t)[l] = s[l] /\ l \in 1..Len(s \o t)
    BY <1>6 DEF Joined
  <2>4. s[k].at \in 1..(N + 1)
    BY <1>1, <2>2
  <2> QED BY <2>1, <2>2, <2>3, <2>4
<1>11. \A i, j \in 1..(N + 1) : more[i] = more[j] => i = j
  <2>1. \A i \in 1..(N + 1) : i \in 1..N \/ i = N + 1
    BY <1>1
  <2>2. \A i, j \in 1..N : ids[i] = ids[j] => i = j
    BY DEF Plays
  <2> QED BY <1>4, <2>1, <2>2
<1>12. \A i \in 1..n : items[i].status = "growing" /\ items[i].id = more[i]
  <2>1. \A i \in 1..n : i \in 1..N
    BY <1>1
  <2> QED BY <1>4, <2>1 DEF Plays
<1>13. ASSUME NEW i \in 1..(N + 1)
       PROVE  Rising(rest[i]) /\ Fills(i, Got(i), s \o t, rest[i])
  <2>0. \A k \in 1..Len(t) : ~IsDelta(t[k], i)
    BY <1>2, <1>3 DEF IsDelta
  <2>1. CASE i \in 1..N
    <3>1. Got(i) \in Seq(Nat) /\ cs[i] \in Seq(Nat)
      <4>1. Got(i) \in Contents /\ cs[i] \in Contents
        BY <1>1, <2>1, GotIs
      <4> QED BY <4>1, ContentsAre
    <3>2. Rising(cs[i]) /\ Fills(i, Got(i), s, cs[i])
      BY <2>1 DEF Plays
    <3>3. Fills(i, Got(i), s \o t, cs[i])
      BY <1>1, <1>3, <2>0, <3>1, <3>2, FillApart
    <3> QED BY <1>5, <2>1, <3>2, <3>3
  <2>2. CASE i = N + 1
    <3>1. rest[i] = <<>> /\ Got(i) = <<>>
      <4>1. ~(i <= n)
        BY <1>1, <2>2
      <4> QED BY <1>5, <2>2, <4>1 DEF Got
    <3>2. \A k \in 1..Len(s \o t) : ~IsDelta((s \o t)[k], i)
      <4>1. \A k \in 1..Len(s) : ~IsDelta(s[k], i)
        <5>1. i \notin 1..Len(ids)
          BY <1>1, <2>2
        <5> QED BY <5>1 DEF Plays, Follows, IsDelta
      <4> QED BY <1>2, <1>8, <4>1 DEF IsDelta
    <3>3. Len(<<>>) = 0 /\ 1..0 = {} /\ (0 + 1)..0 = {}
      OBVIOUS
    <3>4. Rising(<<>>)
      BY DEF Rising
    <3>5. Fills(i, <<>>, s \o t, <<>>)
      BY <3>2, <3>3 DEF Fills
    <3> QED BY <3>1, <3>4, <3>5
  <2> QED BY <1>1, <2>1, <2>2
<1>14. Plays(s \o t, more, rest)
  <2> HIDE DEF n, N
  <2>1. n <= N + 1
    BY <1>1
  <2> QED BY <1>4, <1>5, <1>6, <1>7, <1>9, <1>10, <1>11, <1>12, <1>13, <2>1 DEF Plays, n
<1> QED BY <1>14 DEF e, t, more, rest

\* An item that has been announced grows by d.
LEMMA PlayMore ==
    ASSUME items \in Seq(Record), NEW s, NEW ids, NEW cs, Plays(s, ids, cs),
           NEW i \in 1..Len(ids), NEW d \in Contents, Rising(cs[i] \o d),
           NEW t \in Seq(Events), Len(t) = Len(d),
           \A k \in 1..Len(t) : IsDelta(t[k], i) /\ t[k].piece = d[k]
    PROVE  Plays(s \o t, ids, [cs EXCEPT ![i] = @ \o d])
<1> DEFINE n == Len(items)
           N == Len(ids)
           c == cs[i] \o d
           more == [cs EXCEPT ![i] = c]
<1>1. /\ s \in Seq(Events) /\ ids \in Seq(Ids) /\ cs \in Seq(Contents) /\ n \in Nat /\ N \in Nat
      /\ Len(cs) = N /\ n <= N /\ Len(s) \in Nat /\ cs[i] \in Contents
  BY DEF Plays
<1>2. s \o t \in Seq(Events) /\ Joined(s, t, s \o t)
  BY <1>1, ConcatIs
<1>3. c \in Contents
  BY <1>1, ConcatIs DEF Contents
<1>4. more \in Seq(Contents) /\ Len(more) = N /\ more[i] = c /\ \A k \in 1..N : k # i => more[k] = cs[k]
  <2> HIDE DEF c
  <2> QED BY <1>1, <1>3
<1> HIDE DEF more
<1>5. \A k \in 1..Len(t) : t[k].kind = "delta" /\ t[k].at = i
  BY DEF IsDelta
<1>6. Announces(n, s \o t, ids)
  <2>1. \A k \in 1..Len(t) : t[k].kind # "added"
    BY <1>5
  <2> QED BY <1>1, <2>1, AnnounceMore DEF Plays
<1>7. ASSUME NEW k \in 1..Len(s \o t)
      PROVE  \/ k \in 1..Len(s) /\ (s \o t)[k] = s[k]
             \/ k \notin 1..Len(s) /\ (s \o t)[k].kind = "delta" /\ (s \o t)[k].at = i
  <2>1. CASE k \in 1..Len(s)
    BY <1>2, <2>1 DEF Joined
  <2>2. CASE k \notin 1..Len(s)
    <3>1. k - Len(s) \in 1..Len(t) /\ (s \o t)[k] = t[k - Len(s)]
      BY <1>2, <2>2 DEF Joined
    <3> QED BY <1>5, <2>2, <3>1
  <2> QED BY <2>1, <2>2
<1>8. \A k \in 1..Len(s \o t) : (s \o t)[k].kind \in {"added", "delta"}
  BY <1>7 DEF Plays
<1>9. Follows(n, s \o t, ids)
  <2> SUFFICES ASSUME NEW k \in 1..Len(s \o t), (s \o t)[k].kind = "delta"
               PROVE  /\ (s \o t)[k].at \in 1..N
                      /\ (s \o t)[k].at > n =>
                           \E l \in 1..Len(s \o t) : l < k /\ IsAdded((s \o t)[l], (s \o t)[k].at)
    BY DEF Follows
  <2>1. \A l \in 1..Len(s) : (s \o t)[l] = s[l] /\ l \in 1..Len(s \o t)
    BY <1>2 DEF Joined
  <2>2. CASE k \in 1..Len(s) /\ (s \o t)[k] = s[k]
    <3>1. /\ s[k].at \in 1..N
          /\ s[k].at > n => \E l \in 1..Len(s) : l < k /\ IsAdded(s[l], s[k].at)
      BY <2>2 DEF Plays, Follows
    <3> QED BY <2>1, <2>2, <3>1
  <2>3. CASE k \notin 1..Len(s) /\ (s \o t)[k].at = i
    <3>1. ASSUME i > n
          PROVE  \E l \in 1..Len(s \o t) : l < k /\ IsAdded((s \o t)[l], i)
      <4>1. i \in (n + 1)..N
        BY <1>1, <3>1
      <4>2. PICK l \in 1..Len(s) : IsAdded(s[l], i)
        BY <4>1 DEF Plays, Announces
      <4>3. l < k
        BY <1>1, <2>3
      <4> QED BY <2>1, <4>2, <4>3
    <3> QED BY <2>3, <3>1
  <2> QED BY <1>7, <2>2, <2>3
<1>10. ASSUME NEW k \in 1..N
       PROVE  Rising(more[k]) /\ Fills(k, Got(k), s \o t, more[k])
  <2>1. Got(k) \in Seq(Nat) /\ cs[k] \in Seq(Nat) /\ d \in Seq(Nat)
    <3>1. Got(k) \in Contents /\ cs[k] \in Contents
      BY <1>1, GotIs
    <3> QED BY <3>1, ContentsAre
  <2>2. Rising(cs[k]) /\ Fills(k, Got(k), s, cs[k])
    BY DEF Plays
  <2>3. CASE k = i
    <3>1. Fills(k, Got(k), s \o t, cs[k] \o d)
      BY <1>1, <2>1, <2>2, <2>3, FillMore
    <3> QED BY <1>4, <2>3, <3>1
  <2>4. CASE k # i
    <3>1. \A l \in 1..Len(t) : ~IsDelta(t[l], k)
      BY <1>5, <2>4 DEF IsDelta
    <3>2. Fills(k, Got(k), s \o t, cs[k])
      BY <1>1, <2>1, <2>2, <3>1, FillApart
    <3> QED BY <1>4, <2>2, <2>4, <3>2
  <2> QED BY <2>3, <2>4
<1>11. Plays(s \o t, ids, more)
  <2>1. /\ \A k, l \in 1..N : ids[k] = ids[l] => k = l
        /\ \A k \in 1..n : items[k].status = "growing" /\ items[k].id = ids[k]
    BY DEF Plays
  <2> QED BY <1>1, <1>2, <1>4, <1>6, <1>8, <1>9, <1>10, <2>1 DEF Plays
<1> QED BY <1>11 DEF more

-----------------------------------------------------------------------------
(* What the generator keeps *)

Tool == [of : Calls, call_id : Contents, name : Contents, arguments : Contents,
         pending : Contents, index : Nat]

Typing ==
    /\ source \in {"direct", "acp"} /\ phase \in {"open", "read", "chunk", "over"}
    /\ saw_terminal \in BOOLEAN /\ completed \in BOOLEAN
    /\ message \in Nat /\ next \in Nat /\ text \in Contents
    /\ tools \in Seq(Tool) /\ Len(tools) <= MaxTools
    /\ log \in Seq([of : Ids, fields : SUBSET Fields]) /\ Len(log) <= MaxDeltas
    /\ items \in Seq(Record) /\ outcome \in {"open", "completed", "failed"}

Named(c) == \E d \in DOMAIN log : log[d].of = c /\ "name" \in log[d].fields

\* What is kept is what the upstream has sent.
Told ==
    /\ \A p, q \in 1..Len(tools) : tools[p].of = tools[q].of => p = q
    /\ Lists(text, Sent(Message))
    /\ \A p \in 1..Len(tools) :
          /\ Lists(tools[p].arguments, Sent(tools[p].of))
          /\ IF tools[p].index = 0
             THEN tools[p].name = <<>> /\ tools[p].pending = tools[p].arguments
             ELSE Named(tools[p].of) /\ tools[p].pending = <<>>
    /\ \A d \in DOMAIN log : log[d].of # Message => \E p \in 1..Len(tools) : tools[p].of = log[d].of

\* The items as the generator has announced them.
Believes(ids, cs) ==
    /\ next = Len(ids)
    /\ message \in 0..next /\ (message = 0 => text = <<>>)
    /\ message # 0 => ids[message] = Message /\ cs[message] = text
    /\ \A p \in 1..Len(tools) :
          /\ tools[p].index \in 0..next
          /\ tools[p].index # 0 =>
                ids[tools[p].index] = tools[p].of /\ cs[tools[p].index] = tools[p].arguments
    /\ \A i \in 1..next : i = message \/ \E p \in 1..Len(tools) : tools[p].index = i

\* A tool call that is kept.
LEMMA ToolsAre ==
    ASSUME Typing, NEW p \in 1..Len(tools)
    PROVE  /\ tools[p] \in Tool /\ tools[p].of \in Calls /\ tools[p].of # Message
           /\ tools[p].of \in Ids /\ tools[p].arguments \in Contents /\ tools[p].index \in Nat
<1>1. tools[p] \in Tool
  BY DEF Typing
<1>2. tools[p].of \in Calls /\ tools[p].arguments \in Contents /\ tools[p].index \in Nat
  BY <1>1 DEF Tool
<1> QED BY <1>1, <1>2, ResponsesAssumption DEF Ids

\* Nothing is heard: nothing is listed.
LEMMA NothingListed == Lists(<<>>, {})
BY DEF Lists, Rising

\* A number larger than all those listed is listed at the end.
LEMMA ListsMore ==
    ASSUME NEW c \in Contents, NEW K, NEW m \in Nat, K \subseteq 1..m, Lists(c, K)
    PROVE  Lists(Append(c, m + 1), K \cup {m + 1})
<1> DEFINE e == Append(c, m + 1)
           n == Len(c)
<1>1. c \in Seq(Nat) /\ n \in Nat
  BY ContentsAre
<1>2. /\ e \in Seq(Nat) /\ Len(e) = n + 1 /\ e[n + 1] = m + 1 /\ \A k \in 1..n : e[k] = c[k]
  BY <1>1, AppendIs
<1>3. DOMAIN c = 1..n /\ DOMAIN e = 1..(n + 1)
  BY <1>1, <1>2
<1> HIDE DEF e
<1>4. \A k \in 1..n : c[k] \in K /\ c[k] \in 1..m
  BY <1>3 DEF Lists
<1>5. Rising(e)
  <2> SUFFICES ASSUME NEW k \in 1..(n + 1), NEW l \in 1..(n + 1), k < l PROVE e[k] < e[l]
    BY <1>3 DEF Rising
  <2>1. k \in 1..n
    BY <1>1
  <2>2. CASE l \in 1..n
    BY <1>2, <1>3, <2>1, <2>2 DEF Lists, Rising
  <2>3. CASE l = n + 1
    <3>1. c[k] < m + 1
      BY <1>4, <2>1
    <3> QED BY <1>2, <2>1, <2>3, <3>1
  <2> QED BY <1>1, <2>2, <2>3
<1>6. {e[k] : k \in DOMAIN e} = K \cup {m + 1}
  <2>1. ASSUME NEW k \in DOMAIN e PROVE e[k] \in K \cup {m + 1}
    <3>1. k \in 1..n \/ k = n + 1
      BY <1>1, <1>3
    <3> QED BY <1>2, <1>4, <3>1
  <2>2. ASSUME NEW x \in K \cup {m + 1} PROVE \E k \in DOMAIN e : e[k] = x
    <3>1. CASE x = m + 1
      BY <1>1, <1>2, <1>3, <3>1
    <3>2. CASE x \in K
      <4>1. PICK k \in 1..n : c[k] = x
        BY <1>3, <3>2 DEF Lists
      <4>2. k \in DOMAIN e
        BY <1>1, <1>3
      <4> QED BY <1>2, <4>1, <4>2
    <3> QED BY <3>1, <3>2
  <2> QED BY <2>1, <2>2
<1> QED BY <1>5, <1>6 DEF Lists, e

\* A delta is logged.
LEMMA SentMore ==
    ASSUME Typing, Len(log) < MaxDeltas, NEW x \in Ids, NEW F \in SUBSET Fields,
           log' = Append(log, [of |-> x, fields |-> F])
    PROVE  /\ log' \in Seq([of : Ids, fields : SUBSET Fields]) /\ Len(log') <= MaxDeltas
           /\ Piece \in Nat /\ Piece \in PieceNums /\ Len(log) \in Nat /\ Piece = Len(log) + 1
           /\ DOMAIN log' = DOMAIN log \cup {Piece}
           /\ \A d \in DOMAIN log : log'[d] = log[d]
           /\ log'[Piece].of = x /\ log'[Piece].fields = F
           /\ \A id : Sent(id) \subseteq 1..Len(log)
           /\ \A id : Sent(id)' = IF id = x /\ (x = Message \/ "arguments" \in F)
                                  THEN Sent(id) \cup {Piece} ELSE Sent(id)
           /\ \A id : Named(id) => Named(id)'
<1> DEFINE D == [of : Ids, fields : SUBSET Fields]
           e == [of |-> x, fields |-> F]
<1>1. log \in Seq(D) /\ Len(log) \in Nat /\ Len(log) <= MaxDeltas /\ MaxDeltas \in Nat
  BY ResponsesAssumption DEF Typing
<1>2. e \in D
  OBVIOUS
<1>3. Piece = Len(log) + 1 /\ Piece \in Nat /\ Piece \in PieceNums
  BY <1>1 DEF Piece, PieceNums
<1>4. /\ log' \in Seq(D) /\ Len(log') = Len(log) + 1 /\ log'[Piece] = e
      /\ \A d \in 1..Len(log) : log'[d] = log[d]
  BY <1>1, <1>2, <1>3, AppendIs
<1>5. DOMAIN log = 1..Len(log) /\ DOMAIN log' = 1..(Len(log) + 1)
  BY <1>1, <1>4
<1>6. DOMAIN log' = DOMAIN log \cup {Piece} /\ Piece \notin DOMAIN log
  BY <1>1, <1>3, <1>5
<1>7. e.of = x /\ e.fields = F
  OBVIOUS
<1> HIDE DEF e, D
<1>8. ASSUME NEW id
      PROVE  /\ Sent(id) \subseteq 1..Len(log)
             /\ Sent(id)' = IF id = x /\ (x = Message \/ "arguments" \in F)
                            THEN Sent(id) \cup {Piece} ELSE Sent(id)
             /\ Named(id) => Named(id)'
  <2>1. Sent(id)' = {d \in DOMAIN log \cup {Piece} : Carries(log'[d], id)}
    BY <1>6 DEF Sent, Carries
  <2>2. Carries(log'[Piece], id) <=> id = x /\ (x = Message \/ "arguments" \in F)
    BY <1>4, <1>7 DEF Carries
  <2>3. \A d \in DOMAIN log : log'[d] = log[d]
    BY <1>4, <1>5
  <2>4. Named(id) => Named(id)'
    BY <1>6, <2>3 DEF Named
  <2> QED BY <1>5, <1>6, <2>1, <2>2, <2>3, <2>4 DEF Sent
<1>9. Len(log') <= MaxDeltas
  BY <1>1, <1>4
<1> QED BY <1>1, <1>3, <1>4, <1>5, <1>6, <1>7, <1>8, <1>9 DEF D

\* The position of a call is its own, or the next one.
LEMMA PositionIs ==
    ASSUME Typing, Told, NEW c \in Calls
    PROVE  \/ Position(c) \in 1..Len(tools) /\ tools[Position(c)].of = c
           \/ /\ Position(c) = Len(tools) + 1 /\ Len(tools) \in Nat
              /\ \A p \in 1..Len(tools) : tools[p].of # c
<1>1. DOMAIN tools = 1..Len(tools) /\ Len(tools) \in Nat
  BY DEF Typing
<1>2. CASE \E p \in DOMAIN tools : tools[p].of = c
  BY <1>1, <1>2 DEF Position
<1>3. CASE ~\E p \in DOMAIN tools : tools[p].of = c
  BY <1>1, <1>3 DEF Position
<1> QED BY <1>2, <1>3

\* The entry of a call, kept or new.
LEMMA EntryIs ==
    ASSUME Typing, Told, NEW c \in Calls
    PROVE  /\ Entry(c) \in Tool /\ Entry(c).of = c /\ Lists(Entry(c).arguments, Sent(c))
           /\ IF Entry(c).index = 0
              THEN Entry(c).name = <<>> /\ Entry(c).pending = Entry(c).arguments
              ELSE Named(c) /\ Entry(c).pending = <<>> /\ Position(c) \in 1..Len(tools)
           /\ Position(c) \in 1..Len(tools) => Entry(c) = tools[Position(c)]
<1>1. Len(tools) \in Nat /\ tools \in Seq(Tool)
  BY DEF Typing
<1>2. CASE Position(c) \in 1..Len(tools) /\ tools[Position(c)].of = c
  <2>1. Entry(c) = tools[Position(c)]
    BY <1>1, <1>2 DEF Entry
  <2> QED BY <1>1, <1>2, <2>1 DEF Told
<1>3. CASE Position(c) = Len(tools) + 1 /\ \A p \in 1..Len(tools) : tools[p].of # c
  <2>1. Entry(c) = NewCall(c)
    BY <1>1, <1>3 DEF Entry
  <2>2. Sent(c) = {}
    <3>1. c # Message
      BY ResponsesAssumption
    <3> QED BY <1>3, <3>1 DEF Sent, Carries, Told
  <2>3. NewCall(c) \in Tool /\ NewCall(c).of = c /\ NewCall(c).index = 0
        /\ NewCall(c).name = <<>> /\ NewCall(c).arguments = <<>> /\ NewCall(c).pending = <<>>
    BY DEF NewCall, Tool, Contents
  <2>4. Position(c) \notin 1..Len(tools)
    BY <1>1, <1>3
  <2> QED BY <2>1, <2>2, <2>3, <2>4, NothingListed
<1> QED BY <1>2, <1>3, PositionIs

\* A call is kept: no other is touched, and no call is kept twice.
LEMMA KeepIs ==
    ASSUME Typing, Told, NEW c \in Calls, ToolAllowed(c), NEW tool \in Tool, tool.of = c,
           Keep(c, tool)
    PROVE  /\ tools' \in Seq(Tool) /\ Len(tools') <= MaxTools /\ Len(tools') \in Nat
           /\ 1..Len(tools') = 1..Len(tools) \cup {Position(c)} /\ tools'[Position(c)] = tool
           /\ \A p \in 1..Len(tools) : p # Position(c) => tools'[p] = tools[p]
           /\ \A p, q \in 1..Len(tools') : tools'[p].of = tools'[q].of => p = q
           /\ \A p \in 1..Len(tools) : p # Position(c) => tools[p].of # c
<1> DEFINE P == Position(c)
           L == Len(tools)
<1>1. L \in Nat /\ tools \in Seq(Tool) /\ L <= MaxTools /\ MaxTools \in Nat
      /\ \A p \in 1..L : tools[p] \in Tool
  BY ResponsesAssumption DEF Typing
<1>2. \/ P \in 1..L /\ tools[P].of = c
      \/ P = L + 1 /\ \A p \in 1..L : tools[p].of # c
  BY PositionIs
<1>3. tools' = [p \in 1..L \cup {P} |-> IF p = P THEN tool ELSE tools[p]]
  BY DEF Keep
<1>4. PICK M \in Nat : 1..L \cup {P} = 1..M /\ M <= MaxTools
  <2>1. CASE P \in 1..L
    <3>1. 1..L \cup {P} = 1..L
      BY <2>1
    <3> QED BY <1>1, <3>1
  <2>2. CASE P = L + 1
    <3>1. 1..L \cup {P} = 1..(L + 1)
      BY <1>1, <2>2
    <3>2. L + 1 <= MaxTools
      BY <1>1, <2>2 DEF ToolAllowed
    <3> QED BY <1>1, <3>1, <3>2
  <2> QED BY <1>2, <2>1, <2>2
<1>5. tools' \in [1..M -> Tool]
  BY <1>1, <1>3, <1>4
<1>6. tools' \in Seq(Tool) /\ Len(tools') = M
  BY <1>4, <1>5
<1>7. tools'[P] = tool /\ \A p \in 1..L : p # P => tools'[p] = tools[p]
  BY <1>3
<1>8. \A p \in 1..L : p # P => tools[p].of # c
  BY <1>2 DEF Told
<1>9. \A p \in 1..M : p = P \/ p \in 1..L
  BY <1>4
<1>10. \A p, q \in 1..M : tools'[p].of = tools'[q].of => p = q
  <2> HIDE DEF P, L
  <2>1. \A p, q \in 1..L : tools[p].of = tools[q].of => p = q
    BY DEF Told, L
  <2> QED BY <1>7, <1>8, <1>9, <2>1
<1> QED BY <1>4, <1>6, <1>7, <1>8, <1>10

\* What a delta with the fields F makes of the entry of a call.
LEMMA ExtendedIs ==
    ASSUME NEW old \in Tool, NEW F \in SUBSET Fields, Piece \in PieceNums
    PROVE  LET new == Extended(old, F) IN
           /\ new \in Tool /\ new.of = old.of /\ new.index = old.index
           /\ new.name = IF "name" \in F THEN Append(old.name, Piece) ELSE old.name
           /\ new.arguments = IF "arguments" \in F THEN Append(old.arguments, Piece) ELSE old.arguments
           /\ new.pending = IF "arguments" \in F THEN Append(old.pending, Piece) ELSE old.pending
<1>1. /\ old.call_id \in Contents /\ old.name \in Contents
      /\ old.arguments \in Contents /\ old.pending \in Contents
  BY DEF Tool
<1>2. \A s \in Contents : Append(s, Piece) \in Contents
  BY DEF Contents
<1> QED BY <1>1, <1>2 DEF Extended, Tool

\* An announcement gives the call its position and nothing else.
LEMMA AnnouncedIs ==
    ASSUME NEW tool \in Tool, next \in Nat
    PROVE  LET new == Announced(tool) IN
           /\ new \in Tool /\ new.of = tool.of /\ new.index = next + 1 /\ new.name = tool.name
           /\ new.arguments = tool.arguments /\ new.pending = tool.pending
<1>1. <<Generated>> \in Contents
  BY ResponsesAssumption DEF Contents, PieceNums, Generated
<1>2. tool.call_id \in Contents /\ next + 1 \in Nat
  BY DEF Tool
<1> DEFINE id == IF tool.call_id = <<>> THEN <<Generated>> ELSE tool.call_id
<1>3. id \in Contents
  BY <1>1, <1>2
<1>4. Announced(tool) = [tool EXCEPT !.index = next + 1, !.call_id = id]
  BY DEF Announced
<1> HIDE DEF id
<1> QED BY <1>2, <1>3, <1>4 DEF Tool

-----------------------------------------------------------------------------
(* A delta is accepted *)

\* Nothing is to come: the client knows every item.
LEMMA QuietIs ==
    ASSUME items \in Seq(Record), NEW ids, NEW cs, Plays(<<>>, ids, cs)
    PROVE  /\ Len(items) = Len(ids) /\ Len(cs) = Len(ids) /\ Len(ids) \in Nat
           /\ ids \in Seq(Ids) /\ cs \in Seq(Contents)
           /\ \A i \in 1..Len(ids) :
                 items[i].id = ids[i] /\ items[i].content = cs[i] /\ items[i].status = "growing"
<1> DEFINE n == Len(items)
           N == Len(ids)
<1>0. Len(<<>>) = 0 /\ 1..0 = {}
  OBVIOUS
<1>1. /\ ids \in Seq(Ids) /\ cs \in Seq(Contents) /\ n \in Nat /\ N \in Nat
      /\ Len(cs) = N /\ n <= N
  BY DEF Plays
<1>2. n = N
  <2>1. \A i \in (n + 1)..N : FALSE
    BY <1>0 DEF Plays, Announces
  <2>2. n # N => N \in (n + 1)..N
    BY <1>1
  <2> QED BY <2>1, <2>2
<1>3. ASSUME NEW i \in 1..N PROVE items[i].content = cs[i]
  <2>1. Got(i) = items[i].content
    BY <1>2 DEF Got
  <2>2. Got(i) \in Seq(Nat) /\ cs[i] \in Seq(Nat)
    <3>1. Got(i) \in Contents /\ cs[i] \in Contents
      BY <1>1, GotIs
    <3> QED BY <3>1, ContentsAre
  <2>3. Fills(i, Got(i), <<>>, cs[i])
    BY DEF Plays
  <2>4. Len(Got(i)) = Len(cs[i])
    <3>1. \A l \in (Len(Got(i)) + 1)..Len(cs[i]) : FALSE
      BY <1>0, <2>3 DEF Fills
    <3>2. Len(Got(i)) <= Len(cs[i]) /\ Len(Got(i)) \in Nat /\ Len(cs[i]) \in Nat
      BY <2>2, <2>3 DEF Fills
    <3>3. Len(Got(i)) # Len(cs[i]) => Len(cs[i]) \in (Len(Got(i)) + 1)..Len(cs[i])
      BY <3>2
    <3> QED BY <3>1, <3>3
  <2>5. \A k \in 1..Len(Got(i)) : Got(i)[k] = cs[i][k]
    BY <2>3 DEF Fills
  <2>6. Got(i) = cs[i]
    BY <2>2, <2>4, <2>5, SeqEqual
  <2> QED BY <2>1, <2>6
<1> QED BY <1>1, <1>2, <1>3 DEF Plays

\* An item that has been announced grows by one piece.
LEMMA PlayPiece ==
    ASSUME items \in Seq(Record), NEW s, NEW ids, NEW cs, Plays(s, ids, cs),
           NEW i \in 1..Len(ids), NEW x \in PieceNums, Rising(Append(cs[i], x))
    PROVE  Plays(s \o <<Delta(i, x)>>, ids, [cs EXCEPT ![i] = Append(@, x)])
<1> DEFINE d == <<x>>
           t == <<Delta(i, x)>>
<1>1. cs \in Seq(Contents) /\ Len(cs) = Len(ids) /\ cs[i] \in Contents
  BY DEF Plays
<1>2. Append(cs[i], x) = cs[i] \o d
  BY <1>1, AppendIsConcat DEF Contents
<1>3. d \in Contents /\ Len(d) = 1 /\ d[1] = x
  BY DEF Contents
<1>4. Delta(i, x) \in Events
  <2>1. i \in Nat
    OBVIOUS
  <2> QED BY <2>1, EventsAre
<1>5. t \in Seq(Events) /\ Len(t) = 1 /\ t[1] = Delta(i, x)
  BY <1>4
<1>6. IsDelta(Delta(i, x), i) /\ Delta(i, x).piece = x
  BY DEF IsDelta, Delta
<1> HIDE DEF d, t
<1>7. \A k \in 1..Len(t) : IsDelta(t[k], i) /\ t[k].piece = d[k]
  BY <1>3, <1>5, <1>6
<1>8. Plays(s \o t, ids, [cs EXCEPT ![i] = @ \o d])
  BY <1>2, <1>3, <1>5, <1>7, PlayMore
<1>9. [cs EXCEPT ![i] = @ \o d] = [cs EXCEPT ![i] = Append(@, x)]
  BY <1>2
<1> QED BY <1>8, <1>9 DEF t

\* Text is logged and kept.
LEMMA TextTold ==
    ASSUME Typing, Told, Len(log) < MaxDeltas, text' = Append(text, Piece),
           log' = Append(log, [of |-> Message, fields |-> {}]), tools' = tools
    PROVE  /\ text' \in Contents /\ Told' /\ Rising(text') /\ Piece \in PieceNums
<1>1. Message \in Ids /\ {} \in SUBSET Fields
  BY DEF Ids
<1>2. /\ Piece \in Nat /\ Piece \in PieceNums /\ Len(log) \in Nat /\ Piece = Len(log) + 1
      /\ DOMAIN log' = DOMAIN log \cup {Piece}
      /\ \A d \in DOMAIN log : log'[d] = log[d]
      /\ log'[Piece].of = Message
      /\ \A id : Sent(id) \subseteq 1..Len(log)
      /\ \A id : Sent(id)' = IF id = Message THEN Sent(id) \cup {Piece} ELSE Sent(id)
      /\ \A id : Named(id) => Named(id)'
  BY <1>1, SentMore
<1>3. Lists(text', Sent(Message)')
  BY <1>2, ListsMore DEF Typing, Told
<1>4. \A p \in 1..Len(tools) : tools[p].of # Message
  BY ToolsAre
<1>5. text' \in Contents
  BY <1>2 DEF Typing, Contents
<1>6. Told'
  <2>1. \A p \in 1..Len(tools) : Sent(tools[p].of)' = Sent(tools[p].of)
    BY <1>2, <1>4
  <2>2. \A p \in 1..Len(tools) :
          /\ Lists(tools[p].arguments, Sent(tools[p].of)')
          /\ IF tools[p].index = 0
             THEN tools[p].name = <<>> /\ tools[p].pending = tools[p].arguments
             ELSE Named(tools[p].of)' /\ tools[p].pending = <<>>
    BY <1>2, <2>1 DEF Told
  <2>3. \A d \in DOMAIN log' : log'[d].of # Message => \E p \in 1..Len(tools) : tools[p].of = log'[d].of
    BY <1>2 DEF Told
  <2>4. \A p, q \in 1..Len(tools) : tools[p].of = tools[q].of => p = q
    BY DEF Told
  <2>5. \A id : Sent(id)' = {d \in DOMAIN log' : Carries(log'[d], id)}
    BY DEF Sent, Carries
  <2>6. \A id : Named(id)' = \E d \in DOMAIN log' : log'[d].of = id /\ "name" \in log'[d].fields
    BY DEF Named
  <2> QED BY <1>3, <2>2, <2>3, <2>4, <2>5, <2>6, ZenonT(60) DEF Told, Sent, Named, Carries
<1> QED BY <1>2, <1>3, <1>5, <1>6 DEF Lists

\* The message goes on.
LEMMA MessageGrows ==
    ASSUME Typing, Told, Len(log) < MaxDeltas, text' = Append(text, Piece),
           log' = Append(log, [of |-> Message, fields |-> {}]), tools' = tools,
           message' = message, next' = next, message # 0,
           NEW s, NEW ids, NEW cs, Believes(ids, cs), Plays(s, ids, cs)
    PROVE  \E ids2, cs2 :
             Believes(ids2, cs2)' /\ Plays(s \o <<Delta(message, Piece)>>, ids2, cs2)
<1>0. PICK cs2 : cs2 = [cs EXCEPT ![message] = Append(@, Piece)]
  OBVIOUS
<1>1. /\ next = Len(ids) /\ next \in Nat /\ message \in 1..next
      /\ ids[message] = Message /\ cs[message] = text
      /\ cs \in Seq(Contents) /\ Len(cs) = next
  BY DEF Believes, Typing, Plays
<1>2. Rising(text') /\ Piece \in PieceNums
  BY TextTold
<1>3. Plays(s \o <<Delta(message, Piece)>>, ids, cs2)
  <2>1. Plays(s \o <<Delta(message, Piece)>>, ids, [cs EXCEPT ![message] = Append(@, Piece)])
    BY <1>1, <1>2, PlayPiece DEF Typing
  <2> QED BY <1>0, <2>1
<1>4. cs2[message] = text' /\ \A i \in 1..next : i # message => cs2[i] = cs[i]
  BY <1>0, <1>1
<1>5. ASSUME NEW p \in 1..Len(tools)
      PROVE  /\ tools[p].index \in 0..next
             /\ tools[p].index # 0 =>
                   ids[tools[p].index] = tools[p].of /\ cs2[tools[p].index] = tools[p].arguments
  <2>1. /\ tools[p].index \in 0..next
        /\ tools[p].index # 0 =>
              ids[tools[p].index] = tools[p].of /\ cs[tools[p].index] = tools[p].arguments
    BY DEF Believes
  <2>2. tools[p].index # message
    <3>1. tools[p].of # Message
      BY ToolsAre
    <3> QED BY <1>1, <2>1, <3>1
  <2>3. tools[p].index # 0 => tools[p].index \in 1..next
    BY <1>1, <2>1
  <2> QED BY <1>4, <2>1, <2>2, <2>3
<1>6. \A i \in 1..next : i = message \/ \E p \in 1..Len(tools) : tools[p].index = i
  BY DEF Believes
<1>7. Believes(ids, cs2)'
  <2>1. message' = message /\ next' = next /\ tools' = tools /\ message \in 0..next
    BY <1>1
  <2> QED BY <1>1, <1>4, <1>5, <1>6, <2>1 DEF Believes
<1> QED BY <1>3, <1>7

\* No item is that of an id with no position.
LEMMA Unheard ==
    ASSUME Typing, NEW ids, NEW cs, Believes(ids, cs), NEW x,
           x = Message => message = 0,
           \A p \in 1..Len(tools) : tools[p].of = x => tools[p].index = 0
    PROVE  \A i \in 1..Len(ids) : ids[i] # x
<1> SUFFICES ASSUME NEW i \in 1..Len(ids) PROVE ids[i] # x
  OBVIOUS
<1>1. i # 0 /\ i \in 1..next
  BY DEF Believes, Typing
<1>2. CASE i = message
  BY <1>1, <1>2 DEF Believes
<1>3. CASE \E p \in 1..Len(tools) : tools[p].index = i
  BY <1>1, <1>3 DEF Believes
<1> QED BY <1>1, <1>2, <1>3 DEF Believes

\* The message starts.
LEMMA MessageStarts ==
    ASSUME Typing, Told, Len(log) < MaxDeltas, text' = Append(text, Piece),
           log' = Append(log, [of |-> Message, fields |-> {}]), tools' = tools,
           message' = next + 1, next' = next + 1, message = 0,
           NEW s, NEW ids, NEW cs, Believes(ids, cs), Plays(s, ids, cs)
    PROVE  \E ids2, cs2 :
             /\ Believes(ids2, cs2)'
             /\ Plays(s \o (<<Added(next + 1, Message)>> \o <<Delta(next + 1, Piece)>>), ids2, cs2)
<1> DEFINE N == next
           a == <<Added(N + 1, Message)>>
           d == <<Delta(N + 1, Piece)>>
           cs1 == Append(cs, <<>>)
<1>0. PICK ids2 : ids2 = Append(ids, Message)
  OBVIOUS
<1>00. PICK cs2 : cs2 = [cs1 EXCEPT ![N + 1] = Append(@, Piece)]
  OBVIOUS
<1>1. /\ N = Len(ids) /\ N \in Nat /\ Len(cs) = N /\ text = <<>>
      /\ ids \in Seq(Ids) /\ cs \in Seq(Contents) /\ s \in Seq(Events)
      /\ Message \in Ids /\ <<>> \in Contents /\ items \in Seq(Record)
  BY DEF Believes, Typing, Plays, Ids, Contents
<1>2. Rising(text') /\ Piece \in PieceNums /\ text' \in Contents
  BY TextTold
<1>3. \A i \in 1..Len(ids) : ids[i] # Message
  <2>1. \A p \in 1..Len(tools) : tools[p].of # Message
    BY ToolsAre
  <2> QED BY <2>1, Unheard
<1>4. Plays(s \o a, ids2, cs1)
  BY <1>0, <1>1, <1>3, PlayNew
<1>5. /\ Len(ids2) = N + 1 /\ ids2[N + 1] = Message /\ \A i \in 1..N : ids2[i] = ids[i]
      /\ cs1 \in Seq(Contents) /\ Len(cs1) = N + 1 /\ cs1[N + 1] = <<>>
      /\ \A i \in 1..N : cs1[i] = cs[i]
      /\ N + 1 \in 1..(N + 1)
  BY <1>0, <1>1, AppendIs
<1> HIDE DEF cs1
<1>6. Plays((s \o a) \o d, ids2, cs2)
  <2>1. Append(cs1[N + 1], Piece) = text'
    BY <1>1, <1>5
  <2> QED BY <1>1, <1>2, <1>4, <1>5, <1>00, <2>1, PlayPiece
<1>7. (s \o a) \o d = s \o (a \o d)
  <2>1. Added(N + 1, Message) \in Events /\ Delta(N + 1, Piece) \in Events
    BY <1>1, <1>2, EventsAre
  <2> QED BY <1>1, <2>1, ConcatAssociative
<1>8. cs2[N + 1] = text' /\ \A i \in 1..N : cs2[i] = cs[i]
  <2>1. N + 1 \in DOMAIN cs1 /\ \A i \in 1..N : i \in DOMAIN cs1 /\ i # N + 1
    BY <1>1, <1>5
  <2>2. cs2[N + 1] = Append(cs1[N + 1], Piece)
    BY <1>00, <2>1
  <2>3. \A i \in 1..N : cs2[i] = cs1[i]
    BY <1>00, <2>1
  <2>4. Append(cs1[N + 1], Piece) = text'
    BY <1>1, <1>5
  <2> QED BY <1>5, <2>2, <2>3, <2>4
<1>9. ASSUME NEW p \in 1..Len(tools)
      PROVE  /\ tools[p].index \in 0..(N + 1)
             /\ tools[p].index # 0 =>
                   ids2[tools[p].index] = tools[p].of /\ cs2[tools[p].index] = tools[p].arguments
  <2>1. /\ tools[p].index \in 0..N
        /\ tools[p].index # 0 =>
              ids[tools[p].index] = tools[p].of /\ cs[tools[p].index] = tools[p].arguments
    BY DEF Believes
  <2>2. /\ tools[p].index # 0 => tools[p].index \in 1..N
        /\ tools[p].index \in 0..(N + 1)
    BY <1>1, <2>1
  <2> QED BY <1>5, <1>8, <2>1, <2>2
<1>10. \A i \in 1..(N + 1) : i = N + 1 \/ \E p \in 1..Len(tools) : tools[p].index = i
  <2>1. \A i \in 1..N : i # 0 /\ \E p \in 1..Len(tools) : tools[p].index = i
    BY DEF Believes
  <2>2. \A i \in 1..(N + 1) : i = N + 1 \/ i \in 1..N
    BY <1>1
  <2> QED BY <2>1, <2>2
<1>11. Believes(ids2, cs2)'
  <2>1. /\ message' = N + 1 /\ next' = N + 1 /\ tools' = tools
        /\ N + 1 \in 0..(N + 1) /\ N + 1 # 0
    BY <1>1
  <2> QED BY <1>5, <1>8, <1>9, <1>10, <2>1 DEF Believes
<1> QED BY <1>6, <1>7, <1>11

\* The first name of a call announces it, with the arguments it already has.
Announcing(c, kept) ==
    /\ Entry(c).index = 0 /\ kept.index = next + 1 /\ next' = next + 1
    /\ kept.pending = <<>> /\ Named(c)'
    /\ \E t \in Seq(Events) :
          /\ batch' = batch \o (<<Added(next + 1, c)>> \o t)
          /\ Len(t) = Len(kept.arguments)
          /\ \A k \in 1..Len(t) : IsDelta(t[k], next + 1) /\ t[k].piece = kept.arguments[k]

\* A call without a name waits.
Waiting(c, kept) ==
    /\ Entry(c).index = 0 /\ kept.index = 0 /\ kept.name = <<>> /\ next' = next
    /\ kept.pending = kept.arguments /\ batch' = batch

\* A call that has been announced goes on.
Growing(c, kept, F) ==
    /\ Entry(c).index # 0 /\ kept.index = Entry(c).index /\ kept.pending = <<>> /\ next' = next
    /\ IF "arguments" \in F THEN batch' = batch \o <<Delta(kept.index, Piece)>>
                            ELSE batch' = batch

\* The pieces that waited, sent as deltas.
LEMMA PendingIs ==
    ASSUME NEW tool \in Tool
    PROVE  /\ Pending(tool) \in Seq(Events) /\ Len(Pending(tool)) = Len(tool.pending)
           /\ \A k \in 1..Len(tool.pending) : Pending(tool)[k] = Delta(tool.index, tool.pending[k])
<1>1. tool.pending \in Contents /\ tool.index \in Nat
  BY DEF Tool
<1>2. /\ Len(tool.pending) \in Nat
      /\ \A k \in 1..Len(tool.pending) : Delta(tool.index, tool.pending[k]) \in Events
  BY <1>1, EventsAre, ElementOfSeq DEF Contents
<1>3. Pending(tool) \in [1..Len(tool.pending) -> Events]
  BY <1>2 DEF Pending
<1>4. Pending(tool) \in Seq(Events) /\ Len(Pending(tool)) = Len(tool.pending)
  BY <1>2, <1>3
<1> QED BY <1>4 DEF Pending

\* A tool delta announces its call, lets it wait, or makes it grow.
LEMMA ToolDeltaIs ==
    ASSUME Typing, Told, NEW c \in Calls, NEW F \in SUBSET Fields, ToolDelta(c, F),
           batch \in Seq(Events)
    PROVE  /\ ToolAllowed(c) /\ Len(log) < MaxDeltas /\ phase = "chunk" /\ out = <<>>
           /\ log' = Append(log, [of |-> c, fields |-> F])
           /\ UNCHANGED <<source, phase, validator, out, view, message, text>>
           /\ \E kept \in Tool :
                 /\ kept.of = c /\ Keep(c, kept)
                 /\ kept.arguments = IF "arguments" \in F
                                     THEN Append(Entry(c).arguments, Piece) ELSE Entry(c).arguments
                 /\ Announcing(c, kept) \/ Waiting(c, kept) \/ Growing(c, kept, F)
<1> DEFINE old == Entry(c)
           grown == Extended(old, F)
           announce == grown.index = 0 /\ grown.name # <<>>
           shown == IF announce THEN Announced(grown) ELSE grown
           final == [shown EXCEPT !.pending = IF shown.index = 0 THEN @ ELSE <<>>]
           events == (IF announce THEN <<Added(shown.index, c)>> ELSE <<>>)
                     \o (IF shown.index # 0 THEN Pending(shown) ELSE <<>>)
<1>1. /\ ToolAllowed(c) /\ Len(log) < MaxDeltas /\ phase = "chunk" /\ out = <<>>
      /\ log' = Append(log, [of |-> c, fields |-> F])
      /\ UNCHANGED <<source, phase, validator, out, view, message, text>>
  BY DEF ToolDelta, Idle, Accept
<1>2. /\ next' = IF announce THEN next + 1 ELSE next
      /\ Keep(c, final)
      /\ batch' = batch \o events
  BY DEF ToolDelta, Accept
<1>3. Piece \in PieceNums /\ Piece \in DOMAIN log' /\ log'[Piece].of = c /\ log'[Piece].fields = F
      /\ (Named(c) => Named(c)')
  <2>1. c \in Ids
    BY DEF Ids
  <2> QED BY <1>1, <2>1, SentMore
<1>4. /\ old \in Tool /\ old.of = c
      /\ old.index = 0 => old.name = <<>> /\ old.pending = old.arguments
      /\ old.index # 0 => Named(c) /\ old.pending = <<>>
  BY EntryIs
<1> HIDE DEF old
<1>5. /\ grown \in Tool /\ grown.of = c /\ grown.index = old.index
      /\ grown.name = IF "name" \in F THEN Append(old.name, Piece) ELSE old.name
      /\ grown.arguments = IF "arguments" \in F THEN Append(old.arguments, Piece) ELSE old.arguments
      /\ grown.pending = IF "arguments" \in F THEN Append(old.pending, Piece) ELSE old.pending
  BY <1>3, <1>4, ExtendedIs
<1> HIDE DEF grown
<1>6. next \in Nat
  BY DEF Typing
<1>7. /\ announce => /\ shown \in Tool /\ shown.of = c /\ shown.index = next + 1
                     /\ shown.name = grown.name /\ shown.arguments = grown.arguments
                     /\ shown.pending = grown.pending
      /\ ~announce => shown = grown
  BY <1>5, <1>6, AnnouncedIs
<1>8. shown \in Tool /\ shown.of = c /\ shown.arguments = grown.arguments
      /\ shown.pending = grown.pending /\ shown.name = grown.name
  BY <1>5, <1>7
<1> HIDE DEF shown
<1>9. PICK kept : kept = final
  OBVIOUS
<1>10. /\ kept \in Tool /\ kept.of = c /\ kept.index = shown.index /\ kept.name = shown.name
       /\ kept.arguments = grown.arguments
       /\ kept.pending = IF shown.index = 0 THEN shown.pending ELSE <<>>
  <2>1. <<>> \in Contents
    BY DEF Contents
  <2> QED BY <1>8, <1>9, <2>1 DEF Tool
<1>11. Keep(c, kept)
  BY <1>2, <1>9
<1>12. CASE announce
  <2>1. old.index = 0 /\ kept.index = next + 1 /\ next' = next + 1 /\ shown.index # 0
    BY <1>2, <1>5, <1>6, <1>7, <1>10, <1>12
  <2>2. kept.pending = <<>> /\ shown.pending = kept.arguments
    BY <1>4, <1>5, <1>8, <1>10, <2>1
  <2>3. Named(c)'
    <3>1. "name" \in F
      BY <1>4, <1>5, <1>12, <2>1
    <3> QED BY <1>3, <3>1 DEF Named
  <2>4. batch' = batch \o (<<Added(next + 1, c)>> \o Pending(shown))
    BY <1>2, <1>7, <1>12, <2>1
  <2>5. PICK t : t = Pending(shown)
    OBVIOUS
  <2>6. /\ t \in Seq(Events) /\ Len(t) = Len(kept.arguments)
        /\ \A k \in 1..Len(t) : t[k] = Delta(next + 1, kept.arguments[k])
    BY <1>7, <1>8, <1>12, <2>2, <2>5, PendingIs
  <2>7. \A k \in 1..Len(t) : IsDelta(t[k], next + 1) /\ t[k].piece = kept.arguments[k]
    <3>1. \A i, x : IsDelta(Delta(i, x), i) /\ Delta(i, x).piece = x
      BY DEF IsDelta, Delta
    <3> QED BY <2>6, <3>1
  <2>8. Announcing(c, kept)
    BY <2>1, <2>2, <2>3, <2>4, <2>5, <2>6, <2>7 DEF Announcing, old
  <2> QED BY <1>1, <1>5, <1>10, <1>11, <2>8 DEF old
<1>13. CASE ~announce /\ old.index = 0
  <2>1. shown.index = 0 /\ shown = grown /\ grown.name = <<>>
    BY <1>5, <1>7, <1>13
  <2>2. batch' = batch
    <3>1. events = <<>>
      BY <1>13, <2>1
    <3>2. batch \o <<>> = batch
      BY ConcatEmptySeq
    <3> QED BY <1>2, <3>1, <3>2
  <2>3. kept.pending = kept.arguments
    BY <1>4, <1>5, <1>8, <1>10, <1>13, <2>1
  <2>4. Waiting(c, kept)
    BY <1>2, <1>10, <1>13, <2>1, <2>2, <2>3 DEF Waiting, old
  <2> QED BY <1>1, <1>5, <1>10, <1>11, <2>4 DEF old
<1>14. CASE old.index # 0
  <2>1. ~announce /\ shown = grown /\ shown.index = old.index /\ kept.pending = <<>> /\ next' = next
    BY <1>2, <1>5, <1>7, <1>10, <1>14
  <2>2. events = Pending(shown)
    <3>1. events = <<>> \o Pending(shown)
      BY <1>14, <2>1
    <3> QED BY <1>8, <3>1, PendingIs, ConcatEmptySeq
  <2>3. /\ Pending(shown) \in Seq(Events) /\ Len(Pending(shown)) = Len(shown.pending)
        /\ \A k \in 1..Len(shown.pending) : Pending(shown)[k] = Delta(old.index, shown.pending[k])
    BY <1>8, <2>1, PendingIs
  <2> HIDE DEF events
  <2>4. CASE "arguments" \in F
    <3>1. shown.pending = <<Piece>>
      <4>1. Append(<<>>, Piece) = <<Piece>>
        OBVIOUS
      <4> QED BY <1>4, <1>5, <1>8, <1>14, <2>4, <4>1
    <3>2. Len(Pending(shown)) = 1 /\ Pending(shown)[1] = Delta(old.index, Piece)
      BY <2>3, <3>1
    <3>3. Pending(shown) = <<Delta(old.index, Piece)>>
      BY <2>3, <3>2
    <3> QED BY <1>1, <1>2, <1>5, <1>10, <1>11, <1>14, <2>1, <2>2, <2>4, <3>3 DEF Growing, old
  <2>5. CASE "arguments" \notin F
    <3>1. shown.pending = <<>>
      BY <1>4, <1>5, <1>8, <1>14, <2>5
    <3>2. Pending(shown) = <<>>
      <4>1. Len(Pending(shown)) = 0
        BY <2>3, <3>1
      <4> QED BY <2>3, <4>1
    <3>3. batch' = batch
      BY <1>2, <2>2, <3>2, ConcatEmptySeq
    <3> QED BY <1>1, <1>5, <1>10, <1>11, <1>14, <2>1, <2>5, <3>3 DEF Growing, old
  <2> QED BY <2>4, <2>5
<1> QED BY <1>12, <1>13, <1>14

\* The entry of c becomes `kept` by a delta with the fields F.
Kept(c, F, kept) ==
    /\ ToolAllowed(c) /\ Len(log) < MaxDeltas /\ log' = Append(log, [of |-> c, fields |-> F])
    /\ UNCHANGED <<message, text>>
    /\ kept \in Tool /\ kept.of = c /\ Keep(c, kept)
    /\ kept.arguments = IF "arguments" \in F THEN Append(Entry(c).arguments, Piece)
                                             ELSE Entry(c).arguments

\* What is kept is still what the upstream has sent.
LEMMA ToolTold ==
    ASSUME Typing, Told, NEW c \in Calls, NEW F \in SUBSET Fields, NEW kept, Kept(c, F, kept),
           kept.index = 0 => kept.name = <<>> /\ kept.pending = kept.arguments,
           kept.index # 0 => Named(c)' /\ kept.pending = <<>>
    PROVE  /\ Told' /\ tools' \in Seq(Tool) /\ Len(tools') <= MaxTools
           /\ Rising(kept.arguments) /\ Piece \in PieceNums
           /\ log' \in Seq([of : Ids, fields : SUBSET Fields]) /\ Len(log') <= MaxDeltas
<1> DEFINE P == Position(c)
<1>1. c \in Ids /\ c # Message
  BY ResponsesAssumption DEF Ids
<1>2. /\ Piece \in Nat /\ Piece \in PieceNums /\ Len(log) \in Nat /\ Piece = Len(log) + 1
      /\ DOMAIN log' = DOMAIN log \cup {Piece}
      /\ \A d \in DOMAIN log : log'[d] = log[d]
      /\ log'[Piece].of = c
      /\ \A id : Sent(id) \subseteq 1..Len(log)
      /\ \A id : Sent(id)' = IF id = c /\ (c = Message \/ "arguments" \in F)
                             THEN Sent(id) \cup {Piece} ELSE Sent(id)
      /\ \A id : Named(id) => Named(id)'
      /\ log' \in Seq([of : Ids, fields : SUBSET Fields]) /\ Len(log') <= MaxDeltas
  BY <1>1, SentMore DEF Kept
<1>3. Entry(c) \in Tool /\ Lists(Entry(c).arguments, Sent(c))
  BY EntryIs
<1>4. Lists(kept.arguments, Sent(c)')
  <2>1. CASE "arguments" \in F
    <3>1. Entry(c).arguments \in Contents
      BY <1>3 DEF Tool
    <3>2. Lists(Append(Entry(c).arguments, Piece), Sent(c) \cup {Piece})
      BY <1>2, <1>3, <3>1, ListsMore
    <3> QED BY <1>2, <2>1, <3>2 DEF Kept
  <2>2. CASE "arguments" \notin F
    BY <1>1, <1>2, <1>3, <2>2 DEF Kept
  <2> QED BY <2>1, <2>2
<1>5. /\ tools' \in Seq(Tool) /\ Len(tools') <= MaxTools /\ Len(tools') \in Nat
      /\ 1..Len(tools') = 1..Len(tools) \cup {P} /\ tools'[P] = kept
      /\ \A p \in 1..Len(tools) : p # P => tools'[p] = tools[p]
      /\ \A p, q \in 1..Len(tools') : tools'[p].of = tools'[q].of => p = q
      /\ \A p \in 1..Len(tools) : p # P => tools[p].of # c
  BY KeepIs DEF Kept
<1> HIDE DEF P
<1>6. Told'
  <2>1. ASSUME NEW p \in 1..Len(tools')
        PROVE  (/\ Lists(tools[p].arguments, Sent(tools[p].of))
                /\ IF tools[p].index = 0
                   THEN tools[p].name = <<>> /\ tools[p].pending = tools[p].arguments
                   ELSE Named(tools[p].of) /\ tools[p].pending = <<>>)'
    <3>1. CASE p = P
      <4>1. tools'[p] = kept /\ tools'[p].of = c
        BY <1>5, <3>1 DEF Kept
      <4> QED BY <1>4, <4>1 DEF Sent, Carries, Named
    <3>2. CASE p # P
      <4>1. p \in 1..Len(tools) /\ tools'[p] = tools[p] /\ tools[p].of # c
        BY <1>5, <3>2
      <4>2. PICK id : id = tools[p].of
        OBVIOUS
      <4>3. Sent(id)' = Sent(id) /\ (Named(id) => Named(id)')
        BY <1>2, <4>1, <4>2
      <4>4. /\ Lists(tools[p].arguments, Sent(id))
            /\ IF tools[p].index = 0
               THEN tools[p].name = <<>> /\ tools[p].pending = tools[p].arguments
               ELSE Named(id) /\ tools[p].pending = <<>>
        BY <4>1, <4>2 DEF Told
      <4>5. /\ Lists(tools'[p].arguments, Sent(id)')
            /\ IF tools'[p].index = 0
               THEN tools'[p].name = <<>> /\ tools'[p].pending = tools'[p].arguments
               ELSE Named(id)' /\ tools'[p].pending = <<>>
        BY <4>1, <4>3, <4>4
      <4>6. tools'[p].of = id
        BY <4>1, <4>2
      <4> QED BY <4>5, <4>6 DEF Sent, Carries, Named
    <3> QED BY <3>1, <3>2
  <2>2. Lists(text', Sent(Message)')
    BY <1>1, <1>2 DEF Told, Kept
  <2>3. ASSUME NEW d \in DOMAIN log', log'[d].of # Message
        PROVE  \E p \in 1..Len(tools') : tools'[p].of = log'[d].of
    <3>1. CASE d = Piece
      BY <1>2, <1>5, <3>1 DEF Kept
    <3>2. CASE d \in DOMAIN log
      <4>1. PICK p \in 1..Len(tools) : tools[p].of = log[d].of
        BY <1>2, <2>3, <3>2 DEF Told
      <4>2. p \in 1..Len(tools') /\ tools'[p].of = tools[p].of
        <5>1. CASE p # P
          BY <1>5, <5>1
        <5>2. CASE p = P
          <6>1. tools[p].of = c
            BY <4>1, <5>2, PositionIs DEF Typing, P
          <6> QED BY <1>5, <5>2, <6>1 DEF Kept
        <5> QED BY <5>1, <5>2
      <4> QED BY <1>2, <3>2, <4>1, <4>2
    <3> QED BY <1>2, <3>1, <3>2
  <2> QED BY <1>5, <2>1, <2>2, <2>3 DEF Told
<1> QED BY <1>2, <1>4, <1>5, <1>6 DEF Lists

\* ids2 and cs2 are the items with `kept` in its place.
LEMMA BelievesKept ==
    ASSUME Typing, Told, NEW c \in Calls, NEW F \in SUBSET Fields, NEW kept, Kept(c, F, kept),
           NEW ids, NEW cs, Believes(ids, cs), NEW ids2, NEW cs2,
           next' \in Nat, next <= next', Len(ids2) = next', kept.index \in 0..next',
           \A i \in 1..next : ids2[i] = ids[i] /\ (i # kept.index => cs2[i] = cs[i]),
           kept.index # 0 => ids2[kept.index] = c /\ cs2[kept.index] = kept.arguments,
           \A i \in 1..next' : i \in 1..next \/ i = kept.index,
           Entry(c).index # 0 => Entry(c).index = kept.index
    PROVE  Believes(ids2, cs2)'
<1> DEFINE P == Position(c)
<1>0. c # Message /\ message' = message /\ text' = text /\ next \in Nat /\ message \in 0..next
  BY ResponsesAssumption DEF Kept, Believes, Typing
<1>1. /\ 1..Len(tools') = 1..Len(tools) \cup {P} /\ tools'[P] = kept
      /\ \A p \in 1..Len(tools) : p # P => tools'[p] = tools[p]
      /\ \A p \in 1..Len(tools) : p # P => tools[p].of # c
  BY KeepIs DEF Kept
<1>2. P \in 1..Len(tools) => Entry(c) = tools[P]
  BY EntryIs
<1> HIDE DEF P
<1>3. ASSUME message # 0 PROVE ids2[message] = Message /\ cs2[message] = text
  <2>1. message \in 1..next /\ ids[message] = Message /\ cs[message] = text
    BY <1>0, <1>3 DEF Believes
  <2>2. message # kept.index
    BY <1>0, <1>3, <2>1
  <2> QED BY <2>1, <2>2
<1>4. ASSUME NEW p \in 1..Len(tools')
      PROVE  /\ tools'[p].index \in 0..next'
             /\ tools'[p].index # 0 =>
                   ids2[tools'[p].index] = tools'[p].of /\ cs2[tools'[p].index] = tools'[p].arguments
  <2>1. CASE p = P
    BY <1>1, <2>1 DEF Kept
  <2>2. CASE p # P
    <3>1. p \in 1..Len(tools) /\ tools'[p] = tools[p] /\ tools[p].of # c
      BY <1>1, <2>2
    <3>2. /\ tools[p].index \in 0..next
          /\ tools[p].index # 0 =>
                ids[tools[p].index] = tools[p].of /\ cs[tools[p].index] = tools[p].arguments
      BY <3>1 DEF Believes
    <3>3. tools[p].index \in 0..next' /\ (tools[p].index # 0 => tools[p].index \in 1..next)
      BY <1>0, <3>2
    <3>4. tools[p].index # 0 => tools[p].index # kept.index
      BY <3>1, <3>2, <3>3
    <3> QED BY <3>1, <3>2, <3>3, <3>4
  <2> QED BY <2>1, <2>2
<1>5. ASSUME NEW i \in 1..next'
      PROVE  i = message \/ \E p \in 1..Len(tools') : tools'[p].index = i
  <2>1. CASE i = kept.index
    BY <1>1, <2>1
  <2>2. CASE i \in 1..next /\ i # kept.index
    <3>1. i = message \/ \E p \in 1..Len(tools) : tools[p].index = i
      BY <2>2 DEF Believes
    <3>2. ASSUME NEW p \in 1..Len(tools), tools[p].index = i
          PROVE  tools'[p].index = i /\ p \in 1..Len(tools')
      <4>1. i # 0
        BY <1>0, <2>2
      <4>2. p # P
        BY <1>2, <2>2, <3>2, <4>1
      <4> QED BY <1>1, <3>2, <4>2
    <3> QED BY <3>1, <3>2
  <2> QED BY <2>1, <2>2
<1>6. message' \in 0..next' /\ (message' = 0 => text' = <<>>)
  <2>1. message = 0 => text = <<>>
    BY DEF Believes
  <2> QED BY <1>0, <2>1
<1> QED BY <1>0, <1>3, <1>4, <1>5, <1>6 DEF Believes

\* A call is announced, with what waited for it.
LEMMA AnnouncingPlays ==
    ASSUME Typing, Told, NEW c \in Calls, NEW F \in SUBSET Fields, NEW kept, Kept(c, F, kept),
           Rising(kept.arguments), Announcing(c, kept),
           NEW ids, NEW cs, Believes(ids, cs), Plays(batch, ids, cs)
    PROVE  \E ids2, cs2 : Believes(ids2, cs2)' /\ Plays(batch', ids2, cs2)
<1> DEFINE N == next
           a == <<Added(N + 1, c)>>
           cs1 == Append(cs, <<>>)
<1>1. PICK t \in Seq(Events) :
         /\ batch' = batch \o (a \o t) /\ Len(t) = Len(kept.arguments)
         /\ \A k \in 1..Len(t) : IsDelta(t[k], N + 1) /\ t[k].piece = kept.arguments[k]
  BY DEF Announcing
<1>2. PICK ids2 : ids2 = Append(ids, c)
  OBVIOUS
<1>3. PICK cs2 : cs2 = [cs1 EXCEPT ![N + 1] = @ \o kept.arguments]
  OBVIOUS
<1>4. /\ N = Len(ids) /\ N \in Nat /\ Len(cs) = N
      /\ ids \in Seq(Ids) /\ cs \in Seq(Contents) /\ batch \in Seq(Events)
      /\ c \in Ids /\ c # Message /\ <<>> \in Contents /\ items \in Seq(Record)
      /\ next' = N + 1 /\ kept.index = N + 1 /\ kept.arguments \in Contents
  BY ResponsesAssumption, ZenonT(60) DEF Believes, Typing, Plays, Ids, Contents, Announcing, Kept, Tool
<1>5. \A i \in 1..Len(ids) : ids[i] # c
  <2>1. ASSUME NEW p \in 1..Len(tools), tools[p].of = c PROVE tools[p].index = 0
    <3>1. p = Position(c)
      BY <2>1, KeepIs DEF Kept
    <3> QED BY <3>1, EntryIs DEF Announcing
  <2> QED BY <1>4, <2>1, Unheard
<1>6. Plays(batch \o a, ids2, cs1)
  BY <1>2, <1>4, <1>5, PlayNew
<1>7. /\ Len(ids2) = N + 1 /\ ids2[N + 1] = c /\ \A i \in 1..N : ids2[i] = ids[i]
      /\ cs1 \in Seq(Contents) /\ Len(cs1) = N + 1 /\ cs1[N + 1] = <<>>
      /\ \A i \in 1..N : cs1[i] = cs[i]
      /\ N + 1 \in 1..(N + 1)
  BY <1>2, <1>4, AppendIs
<1> HIDE DEF cs1
<1>8. cs1[N + 1] \o kept.arguments = kept.arguments
  BY <1>4, <1>7, ConcatEmptySeq DEF Contents
<1>9. Plays((batch \o a) \o t, ids2, cs2)
  <2>1. Len(t) = Len(kept.arguments) /\ N + 1 \in 1..Len(ids2)
    BY <1>1, <1>7
  <2>2. \A k \in 1..Len(t) : IsDelta(t[k], N + 1) /\ t[k].piece = kept.arguments[k]
    BY <1>1
  <2>3. Rising(cs1[N + 1] \o kept.arguments)
    BY <1>8
  <2>4. Plays((batch \o a) \o t, ids2, [cs1 EXCEPT ![N + 1] = @ \o kept.arguments])
    BY <1>4, <1>6, <2>1, <2>2, <2>3, PlayMore
  <2> QED BY <1>3, <2>4
<1>10. (batch \o a) \o t = batch'
  <2>1. N + 1 \in Nat /\ c \in Ids
    BY <1>4
  <2>2. Added(N + 1, c) \in Events
    BY <2>1, EventsAre
  <2>3. a \in Seq(Events) /\ batch \in Seq(Events) /\ t \in Seq(Events)
    BY <1>4, <2>2
  <2>4. (batch \o a) \o t = batch \o (a \o t)
    <3> HIDE DEF a
    <3> QED BY <2>3, ConcatAssociative, SMTT(30)
  <2> QED BY <1>1, <2>4
<1>11. cs2[N + 1] = kept.arguments /\ \A i \in 1..N : cs2[i] = cs[i]
  BY <1>3, <1>4, <1>7, <1>8
<1>12. Believes(ids2, cs2)'
  <2>1. \A i \in 1..next' : i \in 1..next \/ i = kept.index
    BY <1>4
  <2>2. /\ next <= next' /\ next' \in Nat /\ kept.index \in 0..next' /\ Len(ids2) = next'
        /\ ids2[kept.index] = c /\ cs2[kept.index] = kept.arguments
    BY <1>4, <1>7, <1>11
  <2>3. Entry(c).index = 0
    BY DEF Announcing
  <2>4. \A i \in 1..next : ids2[i] = ids[i] /\ (i # kept.index => cs2[i] = cs[i])
    BY <1>7, <1>11
  <2> QED BY <2>1, <2>2, <2>3, <2>4, BelievesKept
<1> QED BY <1>9, <1>10, <1>12

\* A call still waits for its name.
LEMMA WaitingPlays ==
    ASSUME Typing, Told, NEW c \in Calls, NEW F \in SUBSET Fields, NEW kept, Kept(c, F, kept),
           Waiting(c, kept), NEW ids, NEW cs, Believes(ids, cs), Plays(batch, ids, cs)
    PROVE  \E ids2, cs2 : Believes(ids2, cs2)' /\ Plays(batch', ids2, cs2)
<1>1. /\ next = Len(ids) /\ next \in Nat /\ next' = next /\ kept.index = 0 /\ Entry(c).index = 0
      /\ batch' = batch
  BY DEF Believes, Typing, Waiting
<1>2. \A i \in 1..next : ids[i] = ids[i] /\ (i # kept.index => cs[i] = cs[i])
  OBVIOUS
<1>3. Believes(ids, cs)'
  BY <1>1, <1>2, BelievesKept
<1> QED BY <1>1, <1>3

\* An announced call grows by the piece, if there is one.
LEMMA GrowingPlays ==
    ASSUME Typing, Told, NEW c \in Calls, NEW F \in SUBSET Fields, NEW kept, Kept(c, F, kept),
           Rising(kept.arguments), Piece \in PieceNums, Growing(c, kept, F),
           NEW ids, NEW cs, Believes(ids, cs), Plays(batch, ids, cs)
    PROVE  \E ids2, cs2 : Believes(ids2, cs2)' /\ Plays(batch', ids2, cs2)
<1> DEFINE j == kept.index
<1>1. /\ next = Len(ids) /\ next \in Nat /\ next' = next /\ Entry(c).index = j /\ j # 0
      /\ items \in Seq(Record) /\ cs \in Seq(Contents) /\ Len(cs) = next
  BY DEF Believes, Typing, Growing, Plays
<1>2. /\ j \in 1..next /\ ids[j] = c /\ cs[j] = Entry(c).arguments
  <2>1. Position(c) \in 1..Len(tools) /\ Entry(c) = tools[Position(c)] /\ Entry(c).of = c
    BY <1>1, EntryIs
  <2>2. /\ tools[Position(c)].index \in 0..next
        /\ tools[Position(c)].index # 0 =>
              /\ ids[tools[Position(c)].index] = tools[Position(c)].of
              /\ cs[tools[Position(c)].index] = tools[Position(c)].arguments
    BY <2>1 DEF Believes
  <2> QED BY <1>1, <2>1, <2>2
<1>3. PICK cs2 : cs2 = IF "arguments" \in F THEN [cs EXCEPT ![j] = Append(@, Piece)] ELSE cs
  OBVIOUS
<1>4. cs2[j] = kept.arguments /\ \A i \in 1..next : i # j => cs2[i] = cs[i]
  BY <1>1, <1>2, <1>3 DEF Kept
<1>5. Plays(batch', ids, cs2)
  <2>1. CASE "arguments" \in F
    <3>1. Append(cs[j], Piece) = kept.arguments
      BY <1>2, <2>1 DEF Kept
    <3>2. Plays(batch \o <<Delta(j, Piece)>>, ids, [cs EXCEPT ![j] = Append(@, Piece)])
      BY <1>1, <1>2, <3>1, PlayPiece
    <3> QED BY <1>3, <2>1, <3>2 DEF Growing
  <2>2. CASE "arguments" \notin F
    BY <1>3, <2>2 DEF Growing
  <2> QED BY <2>1, <2>2
<1>6. Believes(ids, cs2)'
  <2>1. \A i \in 1..next : ids[i] = ids[i] /\ (i # kept.index => cs2[i] = cs[i])
    BY <1>4
  <2> QED BY <1>1, <1>2, <1>4, <2>1, BelievesKept
<1> QED BY <1>5, <1>6

-----------------------------------------------------------------------------
(* The end of the answer *)

IsSealed(e, i) == e.kind = "sealed" /\ e.at = i
IsDone(e, i)   == e.kind = "done" /\ e.at = i
Final(ids, cs) == [i \in 1..Len(ids) |-> Item(ids[i], cs[i])]
Whole(ids, cs) == [kind |-> "completed", output |-> Final(ids, cs)]

\* The events s close items, each once and before it is done, and the last
\* repeats all of them.
Closes(s, ids, cs) ==
    /\ s \in Seq(Events) /\ s # <<>> /\ s[Len(s)] = Whole(ids, cs)
    /\ \A k \in 1..(Len(s) - 1) : \E i \in 1..Len(ids) :
          s[k] = Sealed(i, cs[i]) \/ s[k] = Done(i, Item(ids[i], cs[i]))
    /\ \A k, l \in 1..(Len(s) - 1) : \A i :
          /\ IsSealed(s[k], i) /\ IsSealed(s[l], i) => k = l
          /\ IsDone(s[k], i) /\ IsDone(s[l], i) => k = l
          /\ IsSealed(s[k], i) /\ IsDone(s[l], i) => k < l

SealIn(s, i) == \E k \in 1..(Len(s) - 1) : IsSealed(s[k], i)
DoneIn(s, i) == \E k \in 1..(Len(s) - 1) : IsDone(s[k], i)

\* With the events s the client comes to see the items ids and cs, all of which
\* it has been told, as done.
Closing(s, ids, cs) ==
    /\ Closes(s, ids, cs) /\ Len(items) = Len(ids)
    /\ \A i \in 1..Len(ids) :
          /\ items[i].id = ids[i] /\ items[i].content = cs[i]
          /\ items[i].status = "growing" <=> SealIn(s, i)
          /\ items[i].status # "done" <=> DoneIn(s, i)

\* The two closing events are told apart.
LEMMA SealedIs ==
    /\ \A i, c, j : IsSealed(Sealed(i, c), j) <=> i = j
    /\ \A i, c, j : ~IsDone(Sealed(i, c), j)
    /\ \A i, x, j : IsDone(Done(i, x), j) <=> i = j
    /\ \A i, x, j : ~IsSealed(Done(i, x), j)
    /\ \A i, c : Sealed(i, c).kind = "sealed" /\ Sealed(i, c).at = i /\ Sealed(i, c).content = c
    /\ \A i, x : Done(i, x).kind = "done" /\ Done(i, x).at = i /\ Done(i, x).item = x
BY DEF IsSealed, IsDone, Sealed, Done

\* Two events for each of m items, in blocks, and the whole response.
Blocks(s, ids, cs, m, owner) ==
    /\ m \in Nat /\ owner \in [0..(m - 1) -> 1..Len(ids)]
    /\ \A a, b \in 0..(m - 1) : owner[a] = owner[b] => a = b
    /\ \A i \in 1..Len(ids) : \E b \in 0..(m - 1) : owner[b] = i
    /\ s \in Seq(Events) /\ Len(s) = 2 * m + 1 /\ s[2 * m + 1] = Whole(ids, cs)
    /\ \A b \in 0..(m - 1) :
          /\ s[2 * b + 1] = Sealed(owner[b], cs[owner[b]])
          /\ s[2 * b + 2] = Done(owner[b], Item(ids[owner[b]], cs[owner[b]]))

\* Blocks of two closing events, and the end: every item is closed and settled.
LEMMA ClosesFrom ==
    ASSUME NEW s, NEW ids, NEW cs, NEW m, NEW owner, Blocks(s, ids, cs, m, owner)
    PROVE  /\ Closes(s, ids, cs)
           /\ \A i \in 1..Len(ids) : SealIn(s, i) /\ DoneIn(s, i)
<1> USE DEF Blocks
<1>1. Len(s) - 1 = 2 * m /\ s # <<>> /\ s[Len(s)] = Whole(ids, cs)
  OBVIOUS
<1>2. ASSUME NEW k \in 1..(2 * m)
      PROVE  \E b \in 0..(m - 1) :
                \/ k = 2 * b + 1 /\ s[k] = Sealed(owner[b], cs[owner[b]])
                \/ k = 2 * b + 2 /\ s[k] = Done(owner[b], Item(ids[owner[b]], cs[owner[b]]))
  <2>1. \E b \in 0..(m - 1) : k = 2 * b + 1 \/ k = 2 * b + 2
    <3>1. (k - 1) \div 2 \in 0..(m - 1)
      OBVIOUS
    <3>2. k = 2 * ((k - 1) \div 2) + 1 \/ k = 2 * ((k - 1) \div 2) + 2
      OBVIOUS
    <3> QED BY <3>1, <3>2
  <2> QED BY <2>1, ZenonT(60)
<1>3. \A b \in 0..(m - 1) : 2 * b + 1 \in 1..(2 * m) /\ 2 * b + 2 \in 1..(2 * m)
  OBVIOUS
<1>4. ASSUME NEW k \in 1..(2 * m)
      PROVE  \E i \in 1..Len(ids) : s[k] = Sealed(i, cs[i]) \/ s[k] = Done(i, Item(ids[i], cs[i]))
  BY <1>2
<1>5. ASSUME NEW i, NEW k \in 1..(2 * m), IsSealed(s[k], i)
      PROVE  \E b \in 0..(m - 1) : k = 2 * b + 1 /\ owner[b] = i
  <2>1. PICK b \in 0..(m - 1) :
           \/ k = 2 * b + 1 /\ s[k] = Sealed(owner[b], cs[owner[b]])
           \/ k = 2 * b + 2 /\ s[k] = Done(owner[b], Item(ids[owner[b]], cs[owner[b]]))
    BY <1>2
  <2>2. ~IsSealed(Done(owner[b], Item(ids[owner[b]], cs[owner[b]])), i)
    BY SealedIs
  <2>3. IsSealed(Sealed(owner[b], cs[owner[b]]), i) => owner[b] = i
    BY SealedIs
  <2> QED BY <1>5, <2>1, <2>2, <2>3
<1>6. ASSUME NEW i, NEW k \in 1..(2 * m), IsDone(s[k], i)
      PROVE  \E b \in 0..(m - 1) : k = 2 * b + 2 /\ owner[b] = i
  <2>1. PICK b \in 0..(m - 1) :
           \/ k = 2 * b + 1 /\ s[k] = Sealed(owner[b], cs[owner[b]])
           \/ k = 2 * b + 2 /\ s[k] = Done(owner[b], Item(ids[owner[b]], cs[owner[b]]))
    BY <1>2
  <2>2. ~IsDone(Sealed(owner[b], cs[owner[b]]), i)
    BY SealedIs
  <2>3. IsDone(Done(owner[b], Item(ids[owner[b]], cs[owner[b]])), i) => owner[b] = i
    BY SealedIs
  <2> QED BY <1>6, <2>1, <2>2, <2>3
<1>7. ASSUME NEW i, NEW k \in 1..(2 * m), NEW l \in 1..(2 * m)
      PROVE  /\ IsSealed(s[k], i) /\ IsSealed(s[l], i) => k = l
             /\ IsDone(s[k], i) /\ IsDone(s[l], i) => k = l
             /\ IsSealed(s[k], i) /\ IsDone(s[l], i) => k < l
  <2>1. ASSUME IsSealed(s[k], i), IsSealed(s[l], i) PROVE k = l
    <3>1. PICK a \in 0..(m - 1) : k = 2 * a + 1 /\ owner[a] = i
      BY <1>5, <2>1
    <3>2. PICK b \in 0..(m - 1) : l = 2 * b + 1 /\ owner[b] = i
      BY <1>5, <2>1
    <3>3. a = b
      BY <3>1, <3>2
    <3> QED BY <3>1, <3>2, <3>3
  <2>2. ASSUME IsDone(s[k], i), IsDone(s[l], i) PROVE k = l
    <3>1. PICK a \in 0..(m - 1) : k = 2 * a + 2 /\ owner[a] = i
      BY <1>6, <2>2
    <3>2. PICK b \in 0..(m - 1) : l = 2 * b + 2 /\ owner[b] = i
      BY <1>6, <2>2
    <3>3. a = b
      BY <3>1, <3>2
    <3> QED BY <3>1, <3>2, <3>3
  <2>3. ASSUME IsSealed(s[k], i), IsDone(s[l], i) PROVE k < l
    <3>1. PICK a \in 0..(m - 1) : k = 2 * a + 1 /\ owner[a] = i
      BY <1>5, <2>3
    <3>2. PICK b \in 0..(m - 1) : l = 2 * b + 2 /\ owner[b] = i
      BY <1>6, <2>3
    <3>3. a = b
      BY <3>1, <3>2
    <3> QED BY <3>1, <3>2, <3>3
  <2> QED BY <2>1, <2>2, <2>3
<1>8. Closes(s, ids, cs)
  BY <1>1, <1>4, <1>7 DEF Closes
<1>9. ASSUME NEW i \in 1..Len(ids) PROVE SealIn(s, i) /\ DoneIn(s, i)
  <2>1. PICK b \in 0..(m - 1) : owner[b] = i
    OBVIOUS
  <2>2. IsSealed(s[2 * b + 1], i) /\ IsDone(s[2 * b + 2], i)
    <3>1. s[2 * b + 1] = Sealed(i, cs[i]) /\ s[2 * b + 2] = Done(i, Item(ids[i], cs[i]))
      BY <2>1
    <3>2. IsSealed(Sealed(i, cs[i]), i) /\ IsDone(Done(i, Item(ids[i], cs[i])), i)
      BY SealedIs, SMTT(30)
    <3> QED BY <3>1, <3>2
  <2> QED BY <1>1, <1>3, <2>2 DEF SealIn, DoneIn
<1> QED BY <1>8, <1>9

\* The events go on as they were.
LEMMA CloseTail ==
    ASSUME NEW s, NEW ids, NEW cs, Closes(s, ids, cs), Len(s) # 1
    PROVE  /\ Closes(Tail(s), ids, cs) /\ 1 \in 1..(Len(s) - 1)
           /\ \A i : ~IsSealed(s[1], i) => (SealIn(Tail(s), i) <=> SealIn(s, i))
           /\ \A i : IsSealed(s[1], i) => ~SealIn(Tail(s), i)
           /\ \A i : ~IsDone(s[1], i) => (DoneIn(Tail(s), i) <=> DoneIn(s, i))
           /\ \A i : IsDone(s[1], i) => ~DoneIn(Tail(s), i) /\ ~SealIn(s, i)
<1> DEFINE t == Tail(s)
<1>1. s \in Seq(Events) /\ s # <<>>
  BY DEF Closes
<1>2. t \in Seq(Events) /\ Len(s) \in Nat \ {0} /\ Len(t) = Len(s) - 1
      /\ \A k \in 1..Len(t) : t[k] = s[k + 1] /\ k + 1 \in 1..Len(s)
  BY <1>1, TailIs
<1>3. 1 \in 1..(Len(s) - 1) /\ t # <<>> /\ Len(t) \in Nat \ {0}
  <2>1. Len(t) \in Nat \ {0} /\ 1 \in 1..(Len(s) - 1)
    BY <1>2
  <2> HIDE DEF t
  <2>2. Len(<<>>) = 0
    OBVIOUS
  <2> QED BY <2>1, <2>2
<1>4. \A k \in 1..(Len(t) - 1) : t[k] = s[k + 1] /\ k + 1 \in 1..(Len(s) - 1) /\ k + 1 # 1 /\ ~(k + 1 < 1)
  BY <1>2, <1>3
<1>5. \A k \in 1..(Len(s) - 1) : k # 1 => k - 1 \in 1..(Len(t) - 1) /\ t[k - 1] = s[k]
  <2> TAKE k \in 1..(Len(s) - 1)
  <2> HAVE k # 1
  <2>1. k - 1 \in 1..(Len(t) - 1) /\ (k - 1) + 1 = k
    BY <1>2
  <2> QED BY <1>4, <2>1
<1> HIDE DEF t
<1>6. Closes(t, ids, cs)
  <2>1. t[Len(t)] = Whole(ids, cs)
    <3>1. Len(t) \in 1..Len(t) /\ Len(t) + 1 = Len(s)
      BY <1>2, <1>3
    <3> QED BY <1>2, <3>1 DEF Closes
  <2>2. \A k \in 1..(Len(t) - 1) : \E i \in 1..Len(ids) :
           t[k] = Sealed(i, cs[i]) \/ t[k] = Done(i, Item(ids[i], cs[i]))
    BY <1>4 DEF Closes
  <2>3. ASSUME NEW i, NEW k \in 1..(Len(t) - 1), NEW l \in 1..(Len(t) - 1)
        PROVE  /\ IsSealed(t[k], i) /\ IsSealed(t[l], i) => k = l
               /\ IsDone(t[k], i) /\ IsDone(t[l], i) => k = l
               /\ IsSealed(t[k], i) /\ IsDone(t[l], i) => k < l
    <3>1. /\ IsSealed(t[k], i) /\ IsSealed(t[l], i) => k + 1 = l + 1
          /\ IsDone(t[k], i) /\ IsDone(t[l], i) => k + 1 = l + 1
          /\ IsSealed(t[k], i) /\ IsDone(t[l], i) => k + 1 < l + 1
      BY <1>4 DEF Closes
    <3> QED BY <3>1
  <2> QED BY <1>2, <1>3, <2>1, <2>2, <2>3 DEF Closes
<1>7. ASSUME NEW i
      PROVE  /\ ~IsSealed(s[1], i) => (SealIn(t, i) <=> SealIn(s, i))
             /\ ~IsDone(s[1], i) => (DoneIn(t, i) <=> DoneIn(s, i))
  BY <1>4, <1>5 DEF SealIn, DoneIn
<1>8. ASSUME NEW i, IsSealed(s[1], i) PROVE ~SealIn(t, i)
  BY <1>3, <1>4, <1>8 DEF SealIn, Closes
<1>9. ASSUME NEW i, IsDone(s[1], i) PROVE ~DoneIn(t, i) /\ ~SealIn(s, i)
  <2>1. ~DoneIn(t, i)
    BY <1>3, <1>4, <1>9 DEF DoneIn, Closes
  <2>2. \A k \in 1..(Len(s) - 1) : ~(k < 1)
    OBVIOUS
  <2>3. ~SealIn(s, i)
    BY <1>3, <1>9, <2>2 DEF SealIn, Closes
  <2> QED BY <2>1, <2>3
<1> QED BY <1>3, <1>6, <1>7, <1>8, <1>9 DEF t

\* One item of the client is replaced.
LEMMA PutIs ==
    ASSUME items \in Seq(Record), NEW i \in 1..Len(items), NEW new \in Record, Put(i, new)
    PROVE  /\ items' \in Seq(Record) /\ Len(items') = Len(items) /\ items'[i] = new
           /\ \A j \in 1..Len(items) : j # i => items'[j] = items[j]
           /\ items' = [items EXCEPT ![i] = new]
<1> DEFINE n == Len(items)
<1>1. items' = [j \in 1..n |-> IF j = i THEN new ELSE items[j]]
  <2>1. items' = [j \in 1..n \cup {i} |-> IF j = i THEN new ELSE items[j]]
    BY DEF Put
  <2>2. 1..n \cup {i} = 1..n
    OBVIOUS
  <2> QED BY <2>1, <2>2
<1>2. n \in Nat /\ items \in [1..n -> Record] /\ \A j \in 1..n : items[j] \in Record
  OBVIOUS
<1>3. items' \in [1..n -> Record]
  BY <1>1, <1>2
<1>4. items' \in Seq(Record) /\ Len(items') = n
  BY <1>2, <1>3
<1>5. items' = [items EXCEPT ![i] = new]
  BY <1>1, <1>2
<1> QED BY <1>1, <1>4, <1>5

\* A record is its fields.
LEMMA RecordIs ==
    ASSUME NEW r \in Record
    PROVE  /\ r.id \in Ids /\ r.content \in Contents /\ r.status \in {"growing", "closed", "done"}
           /\ r = [id |-> r.id, content |-> r.content, status |-> r.status]
BY DEF Record

\* An item is closed with the content it has.
LEMMA ClosedIs ==
    ASSUME NEW r \in Record, NEW new, new = [r EXCEPT !.status = "closed"]
    PROVE  /\ new \in Record /\ new.id = r.id /\ new.content = r.content /\ new.status = "closed"
           /\ [r EXCEPT !.content = r.content, !.status = "closed"] = new
BY DEF Record

\* An item is settled as the client has it.
LEMMA DoneIs ==
    ASSUME NEW r \in Record, NEW id, NEW c, r.id = id, r.content = c
    PROVE  /\ Item(id, c) \in Record /\ Item(id, c).id = id /\ Item(id, c).content = c
           /\ Item(id, c).status = "done" /\ Item(id, c) = [r EXCEPT !.status = "done"]
           /\ r.status = "done" => r = Item(id, c)
<1>1. r = [id |-> id, content |-> c, status |-> r.status] /\ id \in Ids /\ c \in Contents
  BY RecordIs
<1>2. [r EXCEPT !.status = "done"] = [id |-> id, content |-> c, status |-> "done"]
  BY <1>1
<1> QED BY <1>1, <1>2 DEF Item, Record

\* An item of the final output.
LEMMA ItemIs ==
    ASSUME NEW id \in Ids, NEW c \in Contents
    PROVE  /\ Item(id, c) \in Record /\ Item(id, c).id = id /\ Item(id, c).content = c
           /\ Item(id, c).status = "done"
BY DEF Item, Record

\* An item is closed: its content is repeated, and is what the client has.
LEMMA YieldSealed ==
    ASSUME items \in Seq(Record), NEW ids \in Seq(Ids), NEW cs \in Seq(Contents),
           Closing(out, ids, cs), outcome = "open", Yield, Len(out) # 1,
           NEW i \in 1..Len(ids), out[1] = Sealed(i, cs[i])
    PROVE  /\ items' \in Seq(Record) /\ outcome' = "open" /\ Protocol!Next
           /\ Closing(out, ids, cs)'
<1> DEFINE new == [items[i] EXCEPT !.status = "closed"]
<1>1. /\ Closes(out, ids, cs) /\ Len(items) = Len(ids)
      /\ \A j \in 1..Len(ids) :
            /\ items[j].id = ids[j] /\ items[j].content = cs[j]
            /\ items[j].status = "growing" <=> SealIn(out, j)
            /\ items[j].status # "done" <=> DoneIn(out, j)
  BY DEF Closing
<1>2. out \in Seq(Events) /\ out # <<>> /\ Head(out) = out[1]
  BY <1>1, TailIs DEF Closes
<1>3. /\ Closes(Tail(out), ids, cs) /\ 1 \in 1..(Len(out) - 1)
      /\ \A j : ~IsSealed(out[1], j) => (SealIn(Tail(out), j) <=> SealIn(out, j))
      /\ \A j : IsSealed(out[1], j) => ~SealIn(Tail(out), j)
      /\ \A j : ~IsDone(out[1], j) => (DoneIn(Tail(out), j) <=> DoneIn(out, j))
  BY <1>1, CloseTail
<1>4. /\ \A j : IsSealed(out[1], j) <=> i = j
      /\ \A j : ~IsDone(out[1], j)
      /\ out[1].kind = "sealed" /\ out[1].at = i /\ out[1].content = cs[i]
  BY SealedIs
<1>5. items[i].status = "growing"
  BY <1>1, <1>3, <1>4 DEF SealIn
<1>6. items[i] \in Record /\ i \in DOMAIN items /\ Known(i) = items[i]
  BY <1>1 DEF Known
<1>7. out' = Tail(out) /\ outcome' = outcome /\ Put(i, new)
  <2>1. /\ out' = Tail(out) /\ outcome' = outcome
        /\ Put(i, [Known(i) EXCEPT !.content = cs[i], !.status = "closed"])
    BY <1>2, <1>4 DEF Yield
  <2>2. [items[i] EXCEPT !.content = items[i].content, !.status = "closed"] = new
    BY <1>6, ClosedIs
  <2> QED BY <1>1, <1>6, <2>1, <2>2
<1>8. new \in Record /\ new.id = ids[i] /\ new.content = cs[i] /\ new.status = "closed"
  <2>1. new \in Record /\ new.id = items[i].id /\ new.content = items[i].content /\ new.status = "closed"
    BY <1>6, ClosedIs
  <2> HIDE DEF new
  <2> QED BY <1>1, <2>1
<1>9. /\ items' \in Seq(Record) /\ Len(items') = Len(items) /\ items'[i] = new
      /\ \A j \in 1..Len(items) : j # i => items'[j] = items[j]
      /\ items' = [items EXCEPT ![i] = new]
  <2> HIDE DEF new
  <2> QED BY <1>1, <1>7, <1>8, PutIs
<1>10. Protocol!Next
  <2>1. Protocol!Seal(i)
    BY <1>5, <1>9 DEF Protocol!Seal
  <2> QED BY <1>6, <1>7, <2>1 DEF Protocol!Next
<1> HIDE DEF new
<1>11. ASSUME NEW j \in 1..Len(ids)
       PROVE  /\ items'[j].id = ids[j] /\ items'[j].content = cs[j]
              /\ items'[j].status = "growing" <=> SealIn(Tail(out), j)
              /\ items'[j].status # "done" <=> DoneIn(Tail(out), j)
  <2>1. CASE j = i
    <3>1. /\ items'[j].id = ids[j] /\ items'[j].content = cs[j] /\ items'[j].status = "closed"
      BY <1>8, <1>9, <2>1
    <3>2. ~SealIn(Tail(out), j) /\ DoneIn(Tail(out), j)
      BY <1>1, <1>3, <1>4, <1>5, <2>1
    <3> QED BY <3>1, <3>2
  <2>2. CASE j # i
    <3>1. items'[j] = items[j]
      BY <1>1, <1>9, <2>2
    <3> QED BY <1>1, <1>3, <1>4, <2>2, <3>1
  <2> QED BY <2>1, <2>2
<1>12. Closing(out, ids, cs)'
  BY <1>1, <1>3, <1>7, <1>9, <1>11 DEF Closing
<1> QED BY <1>7, <1>9, <1>10, <1>12

\* An item is done.
LEMMA YieldDone ==
    ASSUME items \in Seq(Record), NEW ids \in Seq(Ids), NEW cs \in Seq(Contents),
           Closing(out, ids, cs), outcome = "open", Yield, Len(out) # 1,
           NEW i \in 1..Len(ids), out[1] = Done(i, Item(ids[i], cs[i]))
    PROVE  /\ items' \in Seq(Record) /\ outcome' = "open" /\ Protocol!Next
           /\ Closing(out, ids, cs)'
<1> DEFINE new == Item(ids[i], cs[i])
<1>1. /\ Closes(out, ids, cs) /\ Len(items) = Len(ids)
      /\ \A j \in 1..Len(ids) :
            /\ items[j].id = ids[j] /\ items[j].content = cs[j]
            /\ items[j].status = "growing" <=> SealIn(out, j)
            /\ items[j].status # "done" <=> DoneIn(out, j)
  BY DEF Closing
<1>2. out \in Seq(Events) /\ out # <<>> /\ Head(out) = out[1]
  BY <1>1, TailIs DEF Closes
<1>3. /\ Closes(Tail(out), ids, cs) /\ 1 \in 1..(Len(out) - 1)
      /\ \A j : ~IsSealed(out[1], j) => (SealIn(Tail(out), j) <=> SealIn(out, j))
      /\ \A j : ~IsDone(out[1], j) => (DoneIn(Tail(out), j) <=> DoneIn(out, j))
      /\ \A j : IsDone(out[1], j) => ~DoneIn(Tail(out), j) /\ ~SealIn(out, j)
  BY <1>1, CloseTail
<1>4. /\ \A j : IsDone(out[1], j) <=> i = j
      /\ \A j : ~IsSealed(out[1], j)
      /\ out[1].kind = "done" /\ out[1].at = i /\ out[1].item = new
  BY SealedIs
<1>5. items[i] \in Record /\ i \in DOMAIN items
  BY <1>1
<1>6. items[i].status = "closed"
  <2>1. items[i].status # "growing"
    BY <1>1, <1>3, <1>4
  <2>2. items[i].status # "done"
    BY <1>1, <1>3, <1>4 DEF DoneIn
  <2> QED BY <1>5, <2>1, <2>2, RecordIs
<1>7. out' = Tail(out) /\ outcome' = outcome /\ Put(i, new)
  BY <1>2, <1>4 DEF Yield
<1>8. /\ new \in Record /\ new.id = ids[i] /\ new.content = cs[i] /\ new.status = "done"
      /\ new = [items[i] EXCEPT !.status = "done"]
  <2>1. items[i].id = ids[i] /\ items[i].content = cs[i]
    BY <1>1
  <2>2. \A id, c : items[i].id = id /\ items[i].content = c =>
           /\ Item(id, c) \in Record /\ Item(id, c).id = id /\ Item(id, c).content = c
           /\ Item(id, c).status = "done" /\ Item(id, c) = [items[i] EXCEPT !.status = "done"]
    BY <1>5, DoneIs
  <2> QED BY <2>1, <2>2
<1> HIDE DEF new
<1>9. /\ items' \in Seq(Record) /\ Len(items') = Len(items) /\ items'[i] = new
      /\ \A j \in 1..Len(items) : j # i => items'[j] = items[j]
      /\ items' = [items EXCEPT ![i] = new]
  BY <1>1, <1>7, <1>8, PutIs
<1>10. Protocol!Next
  <2>1. Protocol!Settle(i)
    BY <1>6, <1>8, <1>9 DEF Protocol!Settle
  <2> QED BY <1>5, <1>7, <2>1 DEF Protocol!Next
<1>11. ASSUME NEW j \in 1..Len(ids)
       PROVE  /\ items'[j].id = ids[j] /\ items'[j].content = cs[j]
              /\ items'[j].status = "growing" <=> SealIn(Tail(out), j)
              /\ items'[j].status # "done" <=> DoneIn(Tail(out), j)
  <2>1. CASE j = i
    <3>1. /\ items'[j].id = ids[j] /\ items'[j].content = cs[j] /\ items'[j].status = "done"
      BY <1>8, <1>9, <2>1
    <3>2. ~SealIn(Tail(out), j) /\ ~DoneIn(Tail(out), j)
      BY <1>3, <1>4, <2>1
    <3> QED BY <3>1, <3>2
  <2>2. CASE j # i
    <3>1. items'[j] = items[j]
      BY <1>1, <1>9, <2>2
    <3> QED BY <1>1, <1>3, <1>4, <2>2, <3>1
  <2> QED BY <2>1, <2>2
<1>12. Closing(out, ids, cs)'
  BY <1>1, <1>3, <1>7, <1>9, <1>11 DEF Closing
<1> QED BY <1>7, <1>9, <1>10, <1>12

\* The response is repeated in full, and is what the client has.
LEMMA YieldCompleted ==
    ASSUME items \in Seq(Record), NEW ids \in Seq(Ids), NEW cs \in Seq(Contents),
           Closing(out, ids, cs), outcome = "open", Yield, Len(out) = 1, Len(ids) # 0
    PROVE  /\ items' = Final(ids, cs) /\ items' = items /\ outcome' = "completed" /\ out' = <<>>
           /\ Protocol!Next
<1>1. /\ Closes(out, ids, cs) /\ Len(items) = Len(ids)
      /\ \A j \in 1..Len(ids) :
            /\ items[j].id = ids[j] /\ items[j].content = cs[j]
            /\ items[j].status # "done" <=> DoneIn(out, j)
  BY DEF Closing
<1>2. out \in Seq(Events) /\ out # <<>> /\ Head(out) = out[1] /\ out[1] = Whole(ids, cs)
  BY <1>1, TailIs DEF Closes
<1>3. \A j \in 1..Len(ids) : items[j].status = "done"
  <2>1. \A j : ~DoneIn(out, j)
    BY DEF DoneIn
  <2> QED BY <1>1, <2>1
<1>4. items = Final(ids, cs)
  <2>1. items \in [1..Len(ids) -> Record]
    BY <1>1
  <2>2. \A j \in 1..Len(ids) : items[j] = Item(ids[j], cs[j])
    <3> TAKE j \in 1..Len(ids)
    <3>1. items[j] \in Record /\ items[j].id = ids[j] /\ items[j].content = cs[j]
      BY <1>1, <2>1
    <3> QED BY <1>3, <3>1, DoneIs
  <2> QED BY <2>1, <2>2 DEF Final
<1>5. out[1].kind = "completed" /\ out[1].output = Final(ids, cs)
  BY <1>2 DEF Whole
<1>6. out' = Tail(out) /\ items' = Final(ids, cs) /\ outcome' = "completed"
  BY <1>2, <1>5 DEF Yield
<1>7. Tail(out) = <<>>
  <2>1. Len(Tail(out)) = Len(out) - 1 /\ Tail(out) \in Seq(Events)
    BY <1>2, TailIs
  <2>2. PICK t : t = Tail(out)
    OBVIOUS
  <2>3. t \in Seq(Events) /\ Len(t) = 0
    BY <2>1, <2>2
  <2>4. t = <<>>
    BY <2>3
  <2> QED BY <2>2, <2>4
<1>8. Protocol!Next
  <2>1. items # <<>> /\ \A j \in DOMAIN items : items[j].status = "done"
    BY <1>1, <1>3
  <2>2. Protocol!Complete
    BY <1>4, <1>6, <2>1 DEF Protocol!Complete
  <2> QED BY <2>2 DEF Protocol!Next
<1> QED BY <1>4, <1>6, <1>7, <1>8

\* The generator's items when the answer ends, the message at `at`.
Stands(at, ids, cs) ==
    /\ ids \in Seq(Ids) /\ cs \in Seq(Contents) /\ Len(cs) = Len(ids) /\ Len(ids) # 0
    /\ \A i, j \in 1..Len(ids) : ids[i] = ids[j] => i = j
    /\ at \in 0..Len(ids) /\ (at # 0 => ids[at] = Message /\ cs[at] = text)
    /\ \A p \in 1..Len(tools) :
          /\ tools[p].index \in 1..Len(ids)
          /\ ids[tools[p].index] = tools[p].of /\ cs[tools[p].index] = tools[p].arguments
    /\ \A i \in 1..Len(ids) : i = at \/ \E p \in 1..Len(tools) : tools[p].index = i

Output(at) ==
    [i \in ({at} \cup {tools[p].index : p \in DOMAIN tools}) \ {0} |->
        IF i = at THEN Item(Message, text)
        ELSE ToolItem(CHOOSE p \in DOMAIN tools : tools[p].index = i)]
MessageEnds(at) == IF at # 0 THEN <<Sealed(at, text), Done(at, Item(Message, text))>> ELSE <<>>
Rest(at) == MessageEnds(at) \o ToolEnds \o <<[kind |-> "completed", output |-> Output(at)]>>

\* The final output is the list of the items, by position.
LEMMA OutputIs ==
    ASSUME Typing, NEW at, NEW ids, NEW cs, Stands(at, ids, cs)
    PROVE  Output(at) = Final(ids, cs) /\ Final(ids, cs) \in Seq(Record)
<1> DEFINE used == ({at} \cup {tools[p].index : p \in DOMAIN tools}) \ {0}
<1>1. DOMAIN tools = 1..Len(tools)
  BY DEF Typing
<1>2. used = 1..Len(ids)
  <2>1. used \subseteq 1..Len(ids)
    BY <1>1 DEF Stands
  <2>2. \A i \in 1..Len(ids) : i # 0 /\ (i = at \/ \E p \in 1..Len(tools) : tools[p].index = i)
    BY DEF Stands
  <2>3. 1..Len(ids) \subseteq used
    BY <1>1, <2>2
  <2> QED BY <2>1, <2>3
<1>3. ASSUME NEW i \in 1..Len(ids)
      PROVE  (IF i = at THEN Item(Message, text)
              ELSE ToolItem(CHOOSE p \in DOMAIN tools : tools[p].index = i)) = Item(ids[i], cs[i])
  <2>1. CASE i = at
    <3>1. at # 0
      BY <2>1
    <3> QED BY <2>1, <3>1 DEF Stands
  <2>2. CASE i # at
    <3>1. \E p \in DOMAIN tools : tools[p].index = i
      BY <1>1, <2>2 DEF Stands
    <3>2. PICK q : q = CHOOSE p \in DOMAIN tools : tools[p].index = i
      OBVIOUS
    <3>3. q \in DOMAIN tools /\ tools[q].index = i
      BY <3>1, <3>2
    <3>4. ids[i] = tools[q].of /\ cs[i] = tools[q].arguments
      BY <1>1, <3>3 DEF Stands
    <3> QED BY <2>2, <3>2, <3>4 DEF ToolItem
  <2> QED BY <2>1, <2>2
<1>4. Output(at) = Final(ids, cs)
  BY <1>2, <1>3 DEF Output, Final
<1>5. Final(ids, cs) \in Seq(Record)
  <2>1. /\ Len(ids) \in Nat
        /\ \A i \in 1..Len(ids) : ids[i] \in Ids /\ cs[i] \in Contents
    BY DEF Stands
  <2>2. \A i \in 1..Len(ids) : Item(ids[i], cs[i]) \in Record
    BY <2>1, ItemIs
  <2>3. Final(ids, cs) \in [1..Len(ids) -> Record]
    BY <2>2 DEF Final
  <2> QED BY <2>1, <2>3
<1> QED BY <1>4, <1>5

\* The closing events of the calls, two for each.
LEMMA ToolEndsAre ==
    ASSUME Typing
    PROVE  /\ ToolEnds \in Seq(Events) /\ Len(ToolEnds) = 2 * Len(tools) /\ Len(tools) \in Nat
           /\ \A p \in 1..Len(tools) :
                 /\ ToolEnds[2 * p - 1] = Sealed(tools[p].index, tools[p].arguments)
                 /\ ToolEnds[2 * p] = Done(tools[p].index, ToolItem(p))
<1> DEFINE L == Len(tools)
           at(k) == (k + 1) \div 2
           event(k) == IF k % 2 = 1 THEN Sealed(tools[at(k)].index, tools[at(k)].arguments)
                                    ELSE Done(tools[at(k)].index, ToolItem(at(k)))
<1>1. L \in Nat
  BY DEF Typing
<1>2. \A k \in 1..(2 * L) : at(k) \in 1..L
  BY <1>1
<1>3. ASSUME NEW p \in 1..L
      PROVE  /\ Sealed(tools[p].index, tools[p].arguments) \in Events
             /\ Done(tools[p].index, ToolItem(p)) \in Events
  <2>1. tools[p].index \in Nat /\ tools[p].arguments \in Contents /\ tools[p].of \in Ids
    BY ToolsAre
  <2>2. ToolItem(p) \in Record
    BY <2>1, ItemIs DEF ToolItem
  <2> QED BY <2>1, <2>2, EventsAre
<1>4. \A k \in 1..(2 * L) : event(k) \in Events
  <2> TAKE k \in 1..(2 * L)
  <2>1. PICK p \in 1..L : p = at(k)
    BY <1>2
  <2> HIDE DEF at
  <2> QED BY <1>3, <2>1
<1>5. ToolEnds = [k \in 1..(2 * L) |-> event(k)]
  BY DEF ToolEnds
<1> HIDE DEF event
<1>6. ToolEnds \in [1..(2 * L) -> Events] /\ 2 * L \in Nat
  BY <1>1, <1>4, <1>5
<1>7. ToolEnds \in Seq(Events) /\ Len(ToolEnds) = 2 * L
  BY <1>6
<1>8. ASSUME NEW p \in 1..L
      PROVE  /\ ToolEnds[2 * p - 1] = Sealed(tools[p].index, tools[p].arguments)
             /\ ToolEnds[2 * p] = Done(tools[p].index, ToolItem(p))
  <2>1. /\ 2 * p - 1 \in 1..(2 * L) /\ 2 * p \in 1..(2 * L)
        /\ (2 * p - 1) % 2 = 1 /\ (2 * p) % 2 = 0
        /\ at(2 * p - 1) = p /\ at(2 * p) = p
    BY <1>1
  <2>2. ToolEnds[2 * p - 1] = event(2 * p - 1) /\ ToolEnds[2 * p] = event(2 * p)
    BY <1>5, <2>1
  <2> HIDE DEF at
  <2> QED BY <2>1, <2>2 DEF event
<1> QED BY <1>1, <1>7, <1>8

\* The closing events of a response that has its message.
LEMMA RestIs ==
    ASSUME Typing, NEW at, NEW ids, NEW cs, Stands(at, ids, cs),
           NEW h, at # 0 => h = 2, at = 0 => h = 0
    PROVE  /\ Rest(at) \in Seq(Events) /\ Len(Rest(at)) = h + 2 * Len(tools) + 1
           /\ at # 0 => /\ Rest(at)[1] = Sealed(at, text)
                        /\ Rest(at)[2] = Done(at, Item(Message, text))
           /\ \A k \in 1..(2 * Len(tools)) : Rest(at)[h + k] = ToolEnds[k]
           /\ Rest(at)[h + 2 * Len(tools) + 1] = Whole(ids, cs)
<1> DEFINE M == MessageEnds(at)
           T == ToolEnds
           C == <<Whole(ids, cs)>>
           L == Len(tools)
<1>1. T \in Seq(Events) /\ Len(T) = 2 * L /\ L \in Nat
  BY ToolEndsAre
<1>2. /\ M \in Seq(Events) /\ Len(M) = h /\ h \in Nat
      /\ at # 0 => M[1] = Sealed(at, text) /\ M[2] = Done(at, Item(Message, text))
  <2>1. CASE at # 0
    <3>1. at \in Nat /\ text \in Contents /\ Message \in Ids
      BY DEF Stands, Typing, Ids
    <3>2. Sealed(at, text) \in Events /\ Done(at, Item(Message, text)) \in Events
      BY <3>1, ItemIs, EventsAre
    <3>3. M = <<Sealed(at, text), Done(at, Item(Message, text))>>
      BY <2>1 DEF MessageEnds
    <3> QED BY <2>1, <3>2, <3>3
  <2>2. CASE at = 0
    <3>1. M = <<>> /\ h = 0
      BY <2>2 DEF MessageEnds
    <3>2. <<>> \in Seq(Events) /\ Len(<<>>) = 0
      OBVIOUS
    <3> HIDE DEF M
    <3> QED BY <2>2, <3>1, <3>2
  <2> QED BY <2>1, <2>2
<1>3. C \in Seq(Events) /\ Len(C) = 1 /\ C[1] = Whole(ids, cs)
  <2>1. Whole(ids, cs) \in Events
    BY OutputIs, EventsAre DEF Whole
  <2> QED BY <2>1
<1>4. Rest(at) = (M \o T) \o C
  <2>1. [kind |-> "completed", output |-> Output(at)] = Whole(ids, cs)
    BY OutputIs DEF Whole
  <2> QED BY <2>1 DEF Rest
<1> HIDE DEF M, T, C
<1>5. M \o T \in Seq(Events) /\ Joined(M, T, M \o T)
  BY <1>1, <1>2, ConcatIs
<1>6. (M \o T) \o C \in Seq(Events) /\ Joined(M \o T, C, (M \o T) \o C)
  BY <1>3, <1>5, ConcatIs
<1>7. Len(M \o T) = h + 2 * L
  BY <1>1, <1>2, <1>5 DEF Joined
<1>8. Len(Rest(at)) = h + 2 * L + 1 /\ Rest(at)[h + 2 * L + 1] = Whole(ids, cs)
  <2>1. 1 \in 1..Len(C)
    BY <1>3
  <2> QED BY <1>3, <1>4, <1>6, <1>7, <2>1 DEF Joined
<1>9. ASSUME at # 0
      PROVE  Rest(at)[1] = Sealed(at, text) /\ Rest(at)[2] = Done(at, Item(Message, text))
  <2>1. 1 \in 1..Len(M) /\ 2 \in 1..Len(M)
    BY <1>2, <1>9
  <2>2. (M \o T)[1] = M[1] /\ 1 \in 1..Len(M \o T) /\ (M \o T)[2] = M[2] /\ 2 \in 1..Len(M \o T)
    BY <1>5, <2>1 DEF Joined
  <2> QED BY <1>2, <1>4, <1>6, <1>9, <2>2 DEF Joined
<1>10. ASSUME NEW k \in 1..(2 * L) PROVE Rest(at)[h + k] = T[k]
  <2>1. (M \o T)[h + k] = T[k] /\ h + k \in 1..Len(M \o T)
    BY <1>1, <1>2, <1>5 DEF Joined
  <2> QED BY <1>4, <1>6, <2>1 DEF Joined
<1> QED BY <1>4, <1>6, <1>8, <1>9, <1>10 DEF T

\* The closing events close and settle every item.
LEMMA RestCloses ==
    ASSUME Typing, Told, NEW at, NEW ids, NEW cs, Stands(at, ids, cs)
    PROVE  /\ Closes(Rest(at), ids, cs)
           /\ \A i \in 1..Len(ids) : SealIn(Rest(at), i) /\ DoneIn(Rest(at), i)
<1> DEFINE L == Len(tools)
<1>0. PICK h : (at # 0 => h = 2) /\ (at = 0 => h = 0)
  <2>1. \E h : h = IF at # 0 THEN 2 ELSE 0
    OBVIOUS
  <2> QED BY <2>1
<1>1. PICK s : s = Rest(at)
  OBVIOUS
<1>2. /\ s \in Seq(Events) /\ Len(s) = h + 2 * L + 1
      /\ at # 0 => s[1] = Sealed(at, text) /\ s[2] = Done(at, Item(Message, text))
      /\ \A k \in 1..(2 * L) : s[h + k] = ToolEnds[k]
      /\ s[h + 2 * L + 1] = Whole(ids, cs)
  BY <1>0, <1>1, RestIs, SMTT(30)
<1>3. /\ L \in Nat
      /\ \A p \in 1..L : /\ ToolEnds[2 * p - 1] = Sealed(tools[p].index, tools[p].arguments)
                         /\ ToolEnds[2 * p] = Done(tools[p].index, ToolItem(p))
  BY ToolEndsAre
<1>4. ASSUME NEW p \in 1..L
      PROVE  /\ s[h + 2 * p - 1] = Sealed(tools[p].index, cs[tools[p].index])
             /\ s[h + 2 * p] = Done(tools[p].index, Item(ids[tools[p].index], cs[tools[p].index]))
  <2>1. 2 * p - 1 \in 1..(2 * L) /\ 2 * p \in 1..(2 * L)
    BY <1>3
  <2>2. h + (2 * p - 1) = h + 2 * p - 1
    BY <1>0, <1>3
  <2>3. s[h + 2 * p - 1] = ToolEnds[2 * p - 1] /\ s[h + 2 * p] = ToolEnds[2 * p]
    BY <1>2, <2>1, <2>2
  <2>4. tools[p].of = ids[tools[p].index] /\ tools[p].arguments = cs[tools[p].index]
    BY DEF Stands
  <2> QED BY <1>3, <2>3, <2>4 DEF ToolItem
<1>5. /\ \A p \in 1..L : tools[p].index \in 1..Len(ids) /\ tools[p].index # at
      /\ \A p, q \in 1..L : tools[p].index = tools[q].index => p = q
      /\ \A i \in 1..Len(ids) : i = at \/ \E p \in 1..L : tools[p].index = i
  <2>1. \A p \in 1..L : tools[p].index # at
    <3> TAKE p \in 1..L
    <3>1. tools[p].of # Message /\ tools[p].index # 0
      BY ToolsAre DEF Stands
    <3> QED BY <3>1 DEF Stands
  <2>2. \A p, q \in 1..L : tools[p].index = tools[q].index => p = q
    BY DEF Stands, Told
  <2> QED BY <2>1, <2>2 DEF Stands
<1>6. CASE at # 0
  <2>0. PICK m : m = L + 1
    OBVIOUS
  <2>00. PICK owner : owner = [b \in 0..(m - 1) |-> IF b = 0 THEN at ELSE tools[b].index]
    OBVIOUS
  <2>1. m \in Nat /\ at \in 1..Len(ids) /\ m - 1 = L /\ m = L + 1
    BY <1>3, <1>6, <2>0 DEF Stands
  <2>2. \A b \in 0..L : b = 0 \/ b \in 1..L
    BY <1>3
  <2>3. owner \in [0..(m - 1) -> 1..Len(ids)]
    BY <1>5, <2>00, <2>1, <2>2
  <2>4. \A a, b \in 0..(m - 1) : owner[a] = owner[b] => a = b
    BY <1>5, <2>00, <2>1, <2>2
  <2>5. \A i \in 1..Len(ids) : \E b \in 0..(m - 1) : owner[b] = i
    <3> TAKE i \in 1..Len(ids)
    <3>1. CASE i = at
      <4>1. 0 \in 0..(m - 1) /\ owner[0] = i
        BY <1>3, <2>00, <2>1, <3>1
      <4> QED BY <4>1
    <3>2. CASE i # at
      <4>1. PICK p \in 1..L : tools[p].index = i
        BY <1>5, <3>2
      <4>2. p \in 0..(m - 1) /\ p # 0
        BY <1>3, <2>1
      <4> QED BY <2>00, <4>1, <4>2
    <3> QED BY <3>1, <3>2
  <2>6. \A b \in 0..(m - 1) :
           /\ s[2 * b + 1] = Sealed(owner[b], cs[owner[b]])
           /\ s[2 * b + 2] = Done(owner[b], Item(ids[owner[b]], cs[owner[b]]))
    <3> TAKE b \in 0..(m - 1)
    <3>1. CASE b = 0
      <4>1. owner[b] = at /\ 2 * b + 1 = 1 /\ 2 * b + 2 = 2
        BY <2>00, <3>1
      <4>2. ids[at] = Message /\ cs[at] = text
        BY <1>6 DEF Stands
      <4> QED BY <1>2, <1>6, <4>1, <4>2
    <3>2. CASE b # 0
      <4>1. b \in 1..L /\ owner[b] = tools[b].index
        BY <2>00, <2>1, <2>2, <3>2
      <4>2. h + 2 * b - 1 = 2 * b + 1 /\ h + 2 * b = 2 * b + 2
        BY <1>0, <1>6, <4>1
      <4> QED BY <1>4, <4>1, <4>2
    <3> QED BY <3>1, <3>2
  <2>7. Len(s) = 2 * m + 1 /\ s[2 * m + 1] = Whole(ids, cs)
    <3>1. h + 2 * L + 1 = 2 * m + 1
      BY <1>0, <1>3, <1>6, <2>1
    <3> QED BY <1>2, <3>1
  <2>8. Closes(s, ids, cs) /\ \A i \in 1..Len(ids) : SealIn(s, i) /\ DoneIn(s, i)
    <3>1. Blocks(s, ids, cs, m, owner)
      BY <1>2, <2>1, <2>3, <2>4, <2>5, <2>6, <2>7 DEF Blocks
    <3> QED BY <3>1, ClosesFrom
  <2> QED BY <1>1, <2>8
<1>7. CASE at = 0
  <2>0. PICK m : m = L
    OBVIOUS
  <2>00. PICK owner : owner = [b \in 0..(m - 1) |-> tools[b + 1].index]
    OBVIOUS
  <2>1. /\ m \in Nat /\ m = L /\ \A b \in 0..(m - 1) : b + 1 \in 1..L
        /\ \A p \in 1..L : p - 1 \in 0..(m - 1) /\ (p - 1) + 1 = p
    BY <1>3, <2>0
  <2>3. owner \in [0..(m - 1) -> 1..Len(ids)]
    BY <1>5, <2>00, <2>1
  <2>4. \A a, b \in 0..(m - 1) : owner[a] = owner[b] => a = b
    <3> TAKE a, b \in 0..(m - 1)
    <3>1. owner[a] = owner[b] => a + 1 = b + 1
      BY <1>5, <2>00, <2>1
    <3>2. a \in Int /\ b \in Int
      OBVIOUS
    <3> QED BY <3>1, <3>2
  <2>5. \A i \in 1..Len(ids) : \E b \in 0..(m - 1) : owner[b] = i
    <3> TAKE i \in 1..Len(ids)
    <3>1. PICK p \in 1..L : tools[p].index = i
      BY <1>5, <1>7
    <3>2. owner[p - 1] = i
      BY <2>00, <2>1, <3>1
    <3> QED BY <2>1, <3>2
  <2>6. \A b \in 0..(m - 1) :
           /\ s[2 * b + 1] = Sealed(owner[b], cs[owner[b]])
           /\ s[2 * b + 2] = Done(owner[b], Item(ids[owner[b]], cs[owner[b]]))
    <3> TAKE b \in 0..(m - 1)
    <3>1. b + 1 \in 1..L /\ owner[b] = tools[b + 1].index
      BY <2>00, <2>1
    <3>2. h + 2 * (b + 1) - 1 = 2 * b + 1 /\ h + 2 * (b + 1) = 2 * b + 2
      BY <1>0, <1>7
    <3> QED BY <1>4, <3>1, <3>2
  <2>7. Len(s) = 2 * m + 1 /\ s[2 * m + 1] = Whole(ids, cs)
    <3>1. h + 2 * L + 1 = 2 * m + 1
      BY <1>0, <1>3, <1>7, <2>1
    <3> QED BY <1>2, <3>1
  <2>8. Closes(s, ids, cs) /\ \A i \in 1..Len(ids) : SealIn(s, i) /\ DoneIn(s, i)
    <3>1. Blocks(s, ids, cs, m, owner)
      BY <1>2, <2>1, <2>3, <2>4, <2>5, <2>6, <2>7 DEF Blocks
    <3> QED BY <3>1, ClosesFrom
  <2> QED BY <1>1, <2>8
<1> QED BY <1>6, <1>7

-----------------------------------------------------------------------------
(* The invariant *)

\* The items ids with the contents cs are the upstream's whole answer.
Answers(ids, cs) ==
    /\ completed /\ (source = "direct" => saw_terminal)
    /\ ids \in Seq(Ids) /\ cs \in Seq(Contents) /\ Len(cs) = Len(ids) /\ Len(ids) # 0
    /\ \A i, j \in 1..Len(ids) : ids[i] = ids[j] => i = j
    /\ \A i \in 1..Len(ids) : Lists(cs[i], Sent(ids[i]))
    /\ \A d \in DOMAIN log : /\ \E i \in 1..Len(ids) : ids[i] = log[d].of
                             /\ log[d].of # Message => Named(log[d].of)

\* An empty message is still to be announced.
Opening(s, ids, cs) ==
    /\ items = <<>> /\ s \in Seq(Events) /\ s # <<>> /\ s[1] = Added(1, Message)
    /\ ids = <<Message>> /\ cs = << <<>> >> /\ Closes(Tail(s), ids, cs)
    /\ \A i \in 1..Len(ids) : SealIn(Tail(s), i) /\ DoneIn(Tail(s), i)

\* The generator has returned.
Ends ==
    \/ outcome = "failed" /\ out = <<>>
    \/ outcome = "open" /\ out = <<Failed>>
    \/ \E ids, cs :
          /\ Answers(ids, cs)
          /\ \/ outcome = "open" /\ Closing(out, ids, cs)
             \/ outcome = "open" /\ Opening(out, ids, cs)
             \/ outcome = "completed" /\ out = <<>> /\ items = Final(ids, cs)

\* What the client has been told, with what is coming, is what is kept.
Coming  == IF phase = "chunk" THEN batch ELSE out
Playing == outcome = "open" /\ \E ids, cs : Believes(ids, cs) /\ Plays(Coming, ids, cs)

Bounds ==
    next <= MaxTools + 1 /\ message <= next /\ \A p \in 1..Len(tools) : tools[p].index <= next

Locals ==
    /\ IF phase = "chunk" THEN out = <<>> ELSE batch = <<>>
    /\ phase = "open" => message = 0 /\ next = 0 /\ tools = <<>> /\ text = <<>>
                         /\ out = <<>> /\ items = <<>>
    /\ source = "acp" => phase # "chunk" /\ tools = <<>> /\ (phase # "open" => message # 0)
    /\ source = "direct" => (message = 0 <=> text = <<>>) /\ (completed => saw_terminal)

Inv ==
    /\ Typing /\ Bounds /\ Locals /\ Told
    /\ phase # "over" => Playing
    /\ phase = "over" => Ends

\* Every position but the message's is that of a tool call.
Covered(n, L, m, ts) == \A i \in 1..n : i = m \/ \E p \in 1..L : ts[p].index = i

\* No more positions than calls kept and the message.
LEMMA Counted ==
    ASSUME NEW n \in Nat, NEW L \in Nat, NEW m, NEW ts, Covered(n, L, m, ts)
    PROVE  n <= L + 1
<1> DEFINE f == [i \in 1..n |-> IF i = m THEN 0 ELSE CHOOSE p \in 1..L : ts[p].index = i]
<1>1. ASSUME NEW i \in 1..n
      PROVE  IF i = m THEN f[i] = 0 ELSE f[i] \in 1..L /\ ts[f[i]].index = i
  <2>1. CASE i = m
    BY <2>1
  <2>2. CASE i # m
    <3>1. \E p \in 1..L : ts[p].index = i
      BY <2>2 DEF Covered
    <3>2. f[i] = CHOOSE p \in 1..L : ts[p].index = i
      BY <2>2
    <3> HIDE DEF f
    <3> QED BY <2>2, <3>1, <3>2
  <2> QED BY <2>1, <2>2
<1>2. f \in [1..n -> 0..L]
  <2>1. \A i \in 1..n : f[i] \in 0..L
    BY <1>1
  <2> QED BY <2>1
<1>3. f = [i \in 1..n |-> f[i]]
  OBVIOUS
<1> HIDE DEF f
<1>4. \A i, j \in 1..n : f[i] = f[j] => i = j
  BY <1>1
<1>5. f \in Injection(1..n, 0..L)
  BY <1>2, <1>4 DEF Injection, IsInjective
<1>6. /\ IsFiniteSet(0..L) /\ Cardinality(0..L) = L + 1
      /\ Cardinality(1..n) = n
  <2>1. /\ IsFiniteSet(0..L) /\ Cardinality(0..L) = IF 0 > L THEN 0 ELSE L - 0 + 1
    BY FS_Interval
  <2>2. Cardinality(1..n) = IF 1 > n THEN 0 ELSE n - 1 + 1
    BY FS_Interval
  <2> QED BY <2>1, <2>2
<1>7. Cardinality(1..n) <= Cardinality(0..L)
  BY <1>5, <1>6, FS_Injection
<1> QED BY <1>6, <1>7

\* The events of the end: those of the items, and the message if there was none.
LEMMA CompletedIs ==
    ASSUME Typing, NEW at, NEW ids, NEW cs, Stands(at, ids, cs),
           at = IF message # 0 THEN message ELSE IF tools = <<>> THEN 1 ELSE 0
    PROVE  /\ (message # 0 \/ at = 0) => CompletedEvents = Rest(at)
           /\ ~(message # 0 \/ at = 0) =>
                 CompletedEvents = <<Added(at, Message)>> \o Rest(at)
<1> DEFINE A == IF message = 0 /\ at # 0 THEN <<Added(at, Message)>> ELSE <<>>
           M == MessageEnds(at)
           T == ToolEnds
           C == <<[kind |-> "completed", output |-> Output(at)]>>
<1>1. CompletedEvents = ((A \o M) \o T) \o C
  BY DEF CompletedEvents, MessageEnds, Output
<1>2. Rest(at) = (M \o T) \o C
  BY DEF Rest
<1>3. M \in Seq(Events)
  <2>1. CASE at # 0
    <3>1. at \in Nat /\ text \in Contents /\ Message \in Ids
      BY DEF Stands, Typing, Ids
    <3>2. Sealed(at, text) \in Events /\ Done(at, Item(Message, text)) \in Events
      BY <3>1, ItemIs, EventsAre
    <3> QED BY <2>1, <3>2 DEF MessageEnds
  <2>2. CASE at = 0
    BY <2>2 DEF MessageEnds
  <2> QED BY <2>1, <2>2
<1>4. T \in Seq(Events)
  BY ToolEndsAre
<1>5. C \in Seq(Events)
  <2>1. [kind |-> "completed", output |-> Output(at)] \in Events
    BY OutputIs, EventsAre
  <2> QED BY <2>1
<1>6. A \in Seq(Events)
  <2>1. at \in Nat /\ Message \in Ids
    BY DEF Stands, Ids
  <2>2. Added(at, Message) \in Events
    BY <2>1, EventsAre
  <2> QED BY <2>2
<1>7. /\ (message # 0 \/ at = 0) => A = <<>>
      /\ ~(message # 0 \/ at = 0) => A = <<Added(at, Message)>>
  BY DEF Typing
<1> HIDE DEF A, M, T, C
<1>8. (A \o M) \o T = A \o (M \o T) /\ M \o T \in Seq(Events)
  BY <1>3, <1>4, <1>6, ConcatAssociative, ConcatProperties
<1>9. (A \o (M \o T)) \o C = A \o ((M \o T) \o C) /\ (M \o T) \o C \in Seq(Events)
  <2>1. \A u \in Seq(Events) :
           (A \o u) \o C = A \o (u \o C) /\ u \o C \in Seq(Events)
    BY <1>5, <1>6, ConcatAssociative, ConcatProperties, SMTT(30)
  <2> QED BY <1>8, <2>1
<1>10. CompletedEvents = A \o Rest(at) /\ Rest(at) \in Seq(Events)
  BY <1>1, <1>2, <1>8, <1>9
<1>11. A = <<>> => CompletedEvents = Rest(at)
  BY <1>10, ConcatEmptySeq
<1> QED BY <1>7, <1>10, <1>11

\* What the generator keeps when the answer ends is the answer.
LEMMA StandsIs ==
    ASSUME Typing, Told, NEW ids, NEW cs, Believes(ids, cs), Plays(<<>>, ids, cs),
           \A p \in 1..Len(tools) : tools[p].index # 0, message # 0 \/ tools # <<>>
    PROVE  /\ Stands(message, ids, cs)
           /\ \A i \in 1..Len(ids) : Lists(cs[i], Sent(ids[i]))
           /\ \A d \in DOMAIN log : /\ \E i \in 1..Len(ids) : ids[i] = log[d].of
                                    /\ log[d].of # Message => Named(log[d].of)
<1>1. /\ next = Len(ids) /\ next \in Nat /\ message \in 0..next
      /\ ids \in Seq(Ids) /\ cs \in Seq(Contents) /\ Len(cs) = Len(ids) /\ tools \in Seq(Tool)
      /\ \A i, j \in 1..Len(ids) : ids[i] = ids[j] => i = j
  BY DEF Typing, Believes, Plays
<1>2. ASSUME NEW p \in 1..Len(tools)
      PROVE  /\ tools[p].index \in 1..Len(ids)
             /\ ids[tools[p].index] = tools[p].of /\ cs[tools[p].index] = tools[p].arguments
             /\ Lists(tools[p].arguments, Sent(tools[p].of)) /\ Named(tools[p].of)
  <2>1. tools[p].index \in 0..next /\ tools[p].index # 0
    BY DEF Believes
  <2>2. tools[p].index \in 1..Len(ids)
    BY <1>1, <2>1
  <2> QED BY <2>1, <2>2 DEF Believes, Told
<1>3. message # 0 => message \in 1..Len(ids) /\ ids[message] = Message /\ cs[message] = text
  BY <1>1 DEF Believes
<1>4. Len(ids) # 0
  <2>1. CASE message # 0
    BY <1>3, <2>1
  <2>2. CASE tools # <<>>
    <3>1. 1 \in 1..Len(tools)
      BY <1>1, <2>2, EmptySeq
    <3>2. tools[1].index \in 1..Len(ids)
      BY <1>2, <3>1
    <3> QED BY <3>2
  <2> QED BY <2>1, <2>2
<1>5. \A i \in 1..Len(ids) : i = message \/ \E p \in 1..Len(tools) : tools[p].index = i
  BY <1>1 DEF Believes
<1>6. Stands(message, ids, cs)
  BY <1>1, <1>2, <1>3, <1>4, <1>5 DEF Stands
<1>7. ASSUME NEW i \in 1..Len(ids) PROVE Lists(cs[i], Sent(ids[i]))
  <2>1. CASE i = message
    <3>1. message # 0
      BY <2>1
    <3> QED BY <1>3, <2>1, <3>1 DEF Told
  <2>2. CASE \E p \in 1..Len(tools) : tools[p].index = i
    BY <1>2, <2>2
  <2> QED BY <1>5, <2>1, <2>2
<1>8. ASSUME NEW d \in DOMAIN log
      PROVE  /\ \E i \in 1..Len(ids) : ids[i] = log[d].of
             /\ log[d].of # Message => Named(log[d].of)
  <2>1. CASE log[d].of = Message
    <3>1. d \in Sent(Message)
      BY <2>1 DEF Sent, Carries
    <3>2. text # <<>>
      BY <3>1 DEF Told, Lists
    <3>3. message # 0
      BY <3>2 DEF Believes
    <3> QED BY <1>3, <2>1, <3>3
  <2>2. CASE log[d].of # Message
    <3>1. PICK p \in 1..Len(tools) : tools[p].of = log[d].of
      BY <2>2 DEF Told
    <3> QED BY <1>2, <3>1
  <2> QED BY <2>1, <2>2
<1> QED BY <1>6, <1>7, <1>8

\* The generator is done: what it has queued ends the response.
LEMMA EndsStart ==
    ASSUME Typing, Told, out = <<>>, outcome = "open", completed', source' = "direct" => saw_terminal',
           NEW ids, NEW cs, Believes(ids, cs), Plays(<<>>, ids, cs),
           \A p \in 1..Len(tools) : tools[p].index # 0,
           out' = CompletedEvents, UNCHANGED <<log, items, outcome>>
    PROVE  Ends'
<1>1. /\ Len(items) = Len(ids) /\ Len(cs) = Len(ids) /\ items \in Seq(Record)
      /\ \A i \in 1..Len(ids) :
            items[i].id = ids[i] /\ items[i].content = cs[i] /\ items[i].status = "growing"
  BY QuietIs DEF Typing
<1>2. CASE message # 0 \/ tools # <<>>
  <2>1. /\ Stands(message, ids, cs)
        /\ \A i \in 1..Len(ids) : Lists(cs[i], Sent(ids[i]))
        /\ \A d \in DOMAIN log : /\ \E i \in 1..Len(ids) : ids[i] = log[d].of
                                 /\ log[d].of # Message => Named(log[d].of)
    BY <1>2, StandsIs
  <2>2. out' = Rest(message)
    <3>1. message = IF message # 0 THEN message ELSE IF tools = <<>> THEN 1 ELSE 0
      BY <1>2
    <3> QED BY <2>1, <3>1, CompletedIs
  <2>3. /\ Closes(out', ids, cs)
        /\ \A i \in 1..Len(ids) : SealIn(out', i) /\ DoneIn(out', i)
    BY <2>1, <2>2, RestCloses
  <2>4. Closing(out, ids, cs)'
    BY <1>1, <2>3 DEF Closing
  <2>5. Answers(ids, cs)'
    <3>1. /\ ids \in Seq(Ids) /\ cs \in Seq(Contents) /\ Len(cs) = Len(ids) /\ Len(ids) # 0
          /\ \A i, j \in 1..Len(ids) : ids[i] = ids[j] => i = j
      BY <2>1 DEF Stands
    <3> QED BY <2>1, <3>1 DEF Answers, Sent, Carries, Named
  <2> QED BY <2>4, <2>5 DEF Ends
<1>3. CASE message = 0 /\ tools = <<>>
  <2>0. PICK one : one = <<Message>>
    OBVIOUS
  <2>00. PICK none : none = << <<>> >>
    OBVIOUS
  <2>1. items = <<>> /\ text = <<>>
    <3>1. \A i \in 1..next : i = message \/ \E p \in 1..Len(tools) : tools[p].index = i
      BY DEF Believes
    <3>2. Len(ids) = 0
      <4>1. Len(tools) = 0 /\ Len(ids) \in Nat /\ next = Len(ids)
        BY <1>3, QuietIs DEF Believes, Typing
      <4>2. ~(1 \in 1..next)
        BY <1>3, <3>1, <4>1
      <4> QED BY <4>1, <4>2
    <3> QED BY <1>1, <1>3, <3>2 DEF Believes
  <2>2. /\ one \in Seq(Ids) /\ Len(one) = 1 /\ one[1] = Message /\ 1..1 = {1}
        /\ none \in Seq(Contents) /\ Len(none) = 1 /\ none[1] = <<>>
    BY <2>0, <2>00 DEF Ids, Contents
  <2>3. Stands(1, one, none)
    <3>1. Len(tools) = 0 /\ 1 \in 0..1
      BY <1>3
    <3> QED BY <2>1, <2>2, <3>1 DEF Stands
  <2>4. out' = <<Added(1, Message)>> \o Rest(1)
    <3>1. 1 = IF message # 0 THEN message ELSE IF tools = <<>> THEN 1 ELSE 0
      BY <1>3
    <3> QED BY <1>3, <2>3, <3>1, CompletedIs
  <2>5. /\ Closes(Rest(1), one, none)
        /\ \A i \in 1..Len(one) : SealIn(Rest(1), i) /\ DoneIn(Rest(1), i)
    BY <2>3, RestCloses
  <2>6. /\ out' \in Seq(Events) /\ out' # <<>> /\ out'[1] = Added(1, Message) /\ Tail(out') = Rest(1)
    <3>1. Added(1, Message) \in Events
      BY EventsAre DEF Ids
    <3>2. PICK r \in Seq(Events) : r = Rest(1)
      BY <2>5 DEF Closes
    <3>3. PICK e \in Events : e = Added(1, Message)
      BY <3>1
    <3>4. PICK s : s = <<e>> \o r
      OBVIOUS
    <3>5. /\ s \in Seq(Events) /\ s # <<>> /\ s[1] = e /\ Tail(s) = r
      <4>1. <<e>> \in Seq(Events) /\ Len(<<e>>) = 1 /\ <<e>>[1] = e
        OBVIOUS
      <4>2. s \in Seq(Events) /\ Joined(<<e>>, r, s)
        BY <3>4, <4>1, ConcatIs
      <4>3. Len(s) = 1 + Len(r) /\ Len(r) \in Nat /\ s[1] = e /\ \A k \in 1..Len(r) : s[1 + k] = r[k]
        BY <4>1, <4>2 DEF Joined
      <4>4. s # <<>>
        BY <4>2, <4>3
      <4>5. Tail(s) \in Seq(Events) /\ Len(Tail(s)) = Len(r) /\ \A k \in 1..Len(Tail(s)) : Tail(s)[k] = s[k + 1]
        BY <4>2, <4>3, <4>4, TailIs
      <4>6. \A k \in 1..Len(Tail(s)) : Tail(s)[k] = r[k]
        <5> TAKE k \in 1..Len(Tail(s))
        <5>1. k \in 1..Len(r) /\ k + 1 = 1 + k
          BY <4>3, <4>5
        <5> QED BY <4>3, <4>5, <5>1
      <4>7. Tail(s) = r
        BY <4>5, <4>6, SeqEqual
      <4> QED BY <4>2, <4>3, <4>4, <4>7
    <3> QED BY <2>4, <3>2, <3>3, <3>4, <3>5
  <2>7. Opening(out, one, none)'
    BY <2>0, <2>00, <2>1, <2>5, <2>6 DEF Opening
  <2>8. Answers(one, none)'
    <3>1. Lists(<<>>, Sent(Message))
      BY <2>1 DEF Told
    <3>2. ASSUME NEW d \in DOMAIN log PROVE log[d].of = Message
      <4>1. Len(tools) = 0
        BY <1>3
      <4> QED BY <4>1 DEF Told
    <3>3. /\ \A i, j \in 1..Len(one) : one[i] = one[j] => i = j
          /\ \A i \in 1..Len(one) : Lists(none[i], Sent(one[i]))
          /\ \A d \in DOMAIN log : /\ \E i \in 1..Len(one) : one[i] = log[d].of
                                   /\ log[d].of # Message => Named(log[d].of)
          /\ Len(one) # 0 /\ Len(none) = Len(one)
      BY <2>2, <3>1, <3>2
    <3> QED BY <2>2, <3>3 DEF Answers, Sent, Carries, Named
  <2> QED BY <2>7, <2>8 DEF Ends
<1> QED BY <1>2, <1>3

-----------------------------------------------------------------------------
(* Steps *)

\* An empty message is announced at the end.
LEMMA YieldOpening ==
    ASSUME NEW ids, NEW cs, Opening(out, ids, cs), outcome = "open", Yield
    PROVE  /\ items' \in Seq(Record) /\ outcome' = "open" /\ Protocol!Next
           /\ Closing(out, ids, cs)'
<1> DEFINE new == [id |-> Message, content |-> <<>>, status |-> "growing"]
<1>1. /\ items = <<>> /\ out \in Seq(Events) /\ out # <<>> /\ out[1] = Added(1, Message)
      /\ ids = <<Message>> /\ cs = << <<>> >> /\ Closes(Tail(out), ids, cs)
      /\ \A i \in 1..Len(ids) : SealIn(Tail(out), i) /\ DoneIn(Tail(out), i)
  BY DEF Opening
<1>2. Head(out) = out[1]
  BY <1>1, TailIs
<1>3. out[1].kind = "added" /\ out[1].at = 1 /\ out[1].id = Message
  BY <1>1 DEF Added
<1>4. out' = Tail(out) /\ outcome' = outcome /\ Put(1, new)
  BY <1>2, <1>3 DEF Yield
<1>5. new \in Record /\ Message \in Ids
  BY DEF Record, Contents, Ids
<1>6. items' = <<new>>
  <2>1. DOMAIN items \cup {1} = {1} /\ 1..1 = {1}
    BY <1>1
  <2>2. items' = [j \in 1..1 |-> new]
    BY <1>4, <2>1 DEF Put
  <2> HIDE DEF new
  <2> QED BY <2>2
<1>7. items' \in Seq(Record) /\ Len(items') = 1 /\ items'[1] = new /\ items' = Append(items, new)
  <2> HIDE DEF new
  <2> QED BY <1>1, <1>5, <1>6
<1>8. Protocol!Next
  <2>1. Protocol!Announce(Message)
    BY <1>1, <1>7 DEF Protocol!Announce, Protocol!Fresh
  <2> QED BY <1>4, <1>5, <2>1 DEF Protocol!Next
<1>9. Closing(out, ids, cs)'
  <2>1. /\ Len(ids) = 1 /\ 1..1 = {1} /\ ids[1] = Message /\ cs[1] = <<>>
    BY <1>1
  <2>2. items'[1].id = Message /\ items'[1].content = <<>> /\ items'[1].status = "growing"
    BY <1>7
  <2> QED BY <1>1, <1>4, <1>7, <2>1, <2>2 DEF Closing
<1> QED BY <1>4, <1>7, <1>8, <1>9

\* The events that end the answer are steps of the protocol.
LEMMA YieldEnds ==
    ASSUME items \in Seq(Record), Ends, Yield
    PROVE  /\ items' \in Seq(Record) /\ outcome' \in {"open", "completed", "failed"}
           /\ Protocol!Next /\ Ends'
<1>1. out # <<>>
  BY DEF Yield
<1>2. CASE outcome = "open" /\ out = <<Failed>>
  <2>1. Head(out) = Failed /\ Tail(out) = <<>> /\ Failed.kind = "failed"
    BY <1>2 DEF Failed
  <2>2. outcome' = "failed" /\ items' = items /\ out' = <<>>
    BY <2>1 DEF Yield
  <2>3. Protocol!Next
    BY <1>2, <2>2 DEF Protocol!Next, Protocol!Fail
  <2> QED BY <2>2, <2>3 DEF Ends
<1>3. ASSUME NEW ids, NEW cs, Answers(ids, cs), outcome = "open", Closing(out, ids, cs)
      PROVE  /\ items' \in Seq(Record) /\ outcome' \in {"open", "completed", "failed"}
             /\ Protocol!Next /\ Ends'
  <2>1. /\ ids \in Seq(Ids) /\ cs \in Seq(Contents) /\ Len(ids) # 0
    BY <1>3 DEF Answers
  <2>2. Answers(ids, cs)'
    <3>1. UNCHANGED <<source, saw_terminal, completed, log>>
      BY DEF Yield, validator
    <3> QED BY <1>3, <3>1 DEF Answers, Sent, Carries, Named
  <2>3. CASE Len(out) = 1
    <3>1. /\ items' = Final(ids, cs) /\ items' = items /\ outcome' = "completed" /\ out' = <<>>
          /\ Protocol!Next
      BY <1>3, <2>1, <2>3, YieldCompleted
    <3>2. (items = Final(ids, cs))'
      BY <3>1 DEF Final, Item
    <3>3. Ends'
      BY <2>2, <3>1, <3>2 DEF Ends
    <3> QED BY <3>1, <3>3
  <2>4. CASE Len(out) # 1
    <3>1. PICK i \in 1..Len(ids) :
             out[1] = Sealed(i, cs[i]) \/ out[1] = Done(i, Item(ids[i], cs[i]))
      <4>1. Closes(out, ids, cs)
        BY <1>3 DEF Closing
      <4>2. 1 \in 1..(Len(out) - 1)
        BY <2>4, <4>1, CloseTail
      <4> QED BY <4>1, <4>2 DEF Closes
    <3>2. /\ items' \in Seq(Record) /\ outcome' = "open" /\ Protocol!Next
          /\ Closing(out, ids, cs)'
      BY <1>3, <2>1, <2>4, <3>1, YieldSealed, YieldDone
    <3>3. Ends'
      BY <2>2, <3>2 DEF Ends
    <3> QED BY <3>2, <3>3
  <2> QED BY <2>3, <2>4
<1>4. ASSUME NEW ids, NEW cs, Answers(ids, cs), outcome = "open", Opening(out, ids, cs)
      PROVE  /\ items' \in Seq(Record) /\ outcome' \in {"open", "completed", "failed"}
             /\ Protocol!Next /\ Ends'
  <2>1. /\ items' \in Seq(Record) /\ outcome' = "open" /\ Protocol!Next
        /\ Closing(out, ids, cs)'
    BY <1>4, YieldOpening
  <2>2. Answers(ids, cs)'
    <3>1. UNCHANGED <<source, saw_terminal, completed, log>>
      BY DEF Yield, validator
    <3> QED BY <1>4, <3>1 DEF Answers, Sent, Carries, Named
  <2>3. Ends'
    BY <2>1, <2>2 DEF Ends
  <2> QED BY <2>1, <2>3
<1> QED BY <1>1, <1>2, <1>3, <1>4 DEF Ends

\* The bounds hold while the generator is at work.
LEMMA BoundsAre ==
    ASSUME NEW n \in Nat, NEW L \in Nat, L <= MaxTools, NEW m, NEW ts, Covered(n, L, m, ts)
    PROVE  n <= MaxTools + 1
<1>1. n <= L + 1
  BY Counted
<1> QED BY <1>1, ResponsesAssumption

\* The invariant holds at the start.
LEMMA InitInv == Init => Inv /\ Protocol!Init
<1> SUFFICES ASSUME Init PROVE Inv /\ Protocol!Init
  OBVIOUS
<1> USE DEF Init
<1>1. Typing
  <2>1. /\ <<>> \in Contents /\ <<>> \in Seq(Tool) /\ <<>> \in Seq(Record)
        /\ <<>> \in Seq([of : Ids, fields : SUBSET Fields]) /\ Len(<<>>) = 0
    BY DEF Contents
  <2>2. 0 <= MaxTools /\ 0 <= MaxDeltas /\ 0 \in Nat
    BY ResponsesAssumption
  <2> QED BY <2>1, <2>2 DEF Typing
<1>2. Bounds /\ Locals
  BY ResponsesAssumption DEF Bounds, Locals
<1>3. Told
  <2>1. Len(<<>>) = 0 /\ DOMAIN <<>> = {} /\ 1..0 = {}
    OBVIOUS
  <2>2. Sent(Message) = {}
    BY <2>1 DEF Sent
  <2> QED BY <2>1, <2>2, NothingListed DEF Told
<1>4. Playing
  <2>1. Len(<<>>) = 0 /\ 1..0 = {} /\ (0 + 1)..0 = {} /\ <<>> \in Seq(Events)
        /\ <<>> \in Seq(Ids) /\ <<>> \in Seq(Contents)
    OBVIOUS
  <2>2. Believes(<<>>, <<>>)
    BY <2>1 DEF Believes
  <2>3. Plays(<<>>, <<>>, <<>>)
    BY <2>1 DEF Plays, Announces, Follows
  <2>4. Coming = <<>>
    BY DEF Coming
  <2> QED BY <2>2, <2>3, <2>4 DEF Playing
<1>5. Protocol!Init
  BY DEF Protocol!Init
<1> QED BY <1>1, <1>2, <1>3, <1>4, <1>5 DEF Inv

\* The client sees nothing of a step: what is coming is what is kept.
LEMMA PlaysOn ==
    ASSUME outcome = "open", UNCHANGED <<items, outcome>>, NEW ids, NEW cs, Believes(ids, cs)',
           NEW s, s = Coming', Plays(s, ids, cs)
    PROVE  Playing'
<1>1. Plays(Coming, ids, cs)'
  <2>1. items' = items /\ \A i : Got(i)' = Got(i)
    BY DEF Got
  <2> QED BY <2>1 DEF Plays
<1> QED BY <1>1 DEF Playing

\* The bounds follow from what the generator keeps.
LEMMA BoundsOn ==
    ASSUME Typing', NEW ids, NEW cs, Believes(ids, cs)'
    PROVE  Bounds'
<1>1. /\ next' \in Nat /\ Len(tools') \in Nat /\ Len(tools') <= MaxTools
  BY DEF Typing
<1>2. Covered(next', Len(tools'), message', tools')
  BY DEF Believes, Covered
<1>3. next' <= MaxTools + 1
  BY <1>1, <1>2, BoundsAre
<1>4. message' <= next' /\ \A p \in 1..Len(tools') : tools'[p].index <= next'
  BY <1>1 DEF Believes
<1> QED BY <1>3, <1>4 DEF Bounds

\* A step that leaves the state and the log.
LEMMA SameState ==
    ASSUME UNCHANGED <<state, log>>
    PROVE  /\ Told => Told'
           /\ Bounds => Bounds'
           /\ \A ids, cs : Believes(ids, cs) => Believes(ids, cs)'
<1>1. UNCHANGED <<message, text, tools, next, log>>
  BY DEF state
<1>2. ASSUME Told PROVE Told'
  <2>1. Sent(Message)' = Sent(Message)
    BY <1>1 DEF Sent, Carries
  <2>2. \A p \in 1..Len(tools) : (/\ Lists(tools[p].arguments, Sent(tools[p].of))
                                  /\ IF tools[p].index = 0
                                     THEN tools[p].name = <<>> /\ tools[p].pending = tools[p].arguments
                                     ELSE Named(tools[p].of) /\ tools[p].pending = <<>>)'
    <3> TAKE p \in 1..Len(tools)
    <3>1. Sent(tools[p].of)' = Sent(tools[p].of) /\ Named(tools[p].of)' = Named(tools[p].of)
      BY <1>1 DEF Sent, Carries, Named
    <3>2. /\ Lists(tools[p].arguments, Sent(tools[p].of))
          /\ IF tools[p].index = 0
             THEN tools[p].name = <<>> /\ tools[p].pending = tools[p].arguments
             ELSE Named(tools[p].of) /\ tools[p].pending = <<>>
      BY <1>2 DEF Told
    <3> QED BY <1>1, <3>1, <3>2
  <2> QED BY <1>1, <1>2, <2>1, <2>2 DEF Told
<1>3. Bounds => Bounds'
  BY <1>1 DEF Bounds
<1>4. \A ids, cs : Believes(ids, cs) => Believes(ids, cs)'
  BY <1>1 DEF Believes
<1> QED BY <1>2, <1>3, <1>4

\* The generator fails.
LEMMA FailInv ==
    ASSUME Inv, phase \in {"read", "chunk"}, Fail, UNCHANGED <<source, validator, state, log, view>>
    PROVE  Inv' /\ UNCHANGED <<items, outcome>>
<1>1. /\ UNCHANGED <<source, saw_terminal, completed, message, text, tools, next, log, items, outcome>>
      /\ phase' = "over" /\ out' = <<Failed>> /\ batch' = <<>> /\ outcome = "open"
  BY DEF Fail, validator, state, view, Inv, Playing
<1>2. Typing'
  BY <1>1 DEF Inv, Typing
<1>3. Told' /\ Bounds'
  BY SameState DEF Inv
<1>4. Locals'
  BY <1>1 DEF Inv, Locals
<1>5. Ends'
  BY <1>1 DEF Ends, Failed
<1> QED BY <1>1, <1>2, <1>3, <1>4, <1>5 DEF Inv

\* Nothing of what is kept or coming changes.
LEMMA QuietInv ==
    ASSUME Inv, phase # "over", phase' \in {"read", "chunk"}, Coming' = Coming,
           UNCHANGED <<source, state, log, view>>, saw_terminal' \in BOOLEAN, completed' \in BOOLEAN,
           Locals'
    PROVE  Inv' /\ UNCHANGED <<items, outcome>>
<1>1. UNCHANGED <<source, message, text, tools, next, log, items, outcome>> /\ outcome = "open"
  BY DEF state, view, Inv, Playing
<1>2. Typing'
  BY <1>1 DEF Inv, Typing
<1>3. Told' /\ Bounds'
  BY SameState DEF Inv
<1>4. Playing'
  <2>1. PICK ids, cs : Believes(ids, cs) /\ Plays(Coming, ids, cs)
    BY DEF Inv, Playing
  <2>2. Believes(ids, cs)'
    BY <2>1, SameState
  <2>3. PICK s : s = Coming
    OBVIOUS
  <2> QED BY <1>1, <2>1, <2>2, <2>3, PlaysOn
<1> QED BY <1>1, <1>2, <1>3, <1>4 DEF Inv

\* The upstream answers, or does not.
LEMMA OpenInv ==
    ASSUME Inv, Open
    PROVE  Inv' /\ UNCHANGED <<items, outcome>>
<1>1. /\ phase = "open" /\ out = <<>> /\ phase' = "read" /\ batch = <<>>
      /\ UNCHANGED <<source, saw_terminal, completed, text, tools, batch, log, items, outcome>>
      /\ message = 0 /\ next = 0 /\ tools = <<>> /\ text = <<>> /\ items = <<>> /\ outcome = "open"
  BY DEF Open, Idle, validator, view, Inv, Locals, Playing
<1>2. CASE source = "acp"
  <2>1. message' = 1 /\ next' = 1 /\ out' = <<Added(1, Message)>>
    BY <1>2 DEF Open
  <2>2. Typing'
    BY <1>1, <2>1 DEF Inv, Typing
  <2>3. Told'
    BY <1>1 DEF Inv, Told, Sent, Carries, Named
  <2>4. Locals'
    BY <1>1, <1>2, <2>1 DEF Inv, Locals
  <2>5. PICK ids, cs : Believes(ids, cs) /\ Plays(<<>>, ids, cs)
    BY <1>1 DEF Inv, Playing, Coming
  <2>6. /\ Len(ids) = 0 /\ Len(cs) = 0 /\ ids \in Seq(Ids) /\ cs \in Seq(Contents)
        /\ Message \in Ids /\ <<>> \in Contents
    BY <1>1, <2>5 DEF Believes, Plays, Ids, Contents
  <2>7. PICK ids2, cs2 : ids2 = Append(ids, Message) /\ cs2 = Append(cs, <<>>)
    OBVIOUS
  <2>8. Plays(<<Added(1, Message)>>, ids2, cs2)
    <3>1. Plays(<<>> \o <<Added(1, Message)>>, ids2, cs2)
      <4>1. Len(ids) + 1 = 1 /\ (\A i \in 1..Len(ids) : ids[i] # Message) /\ items \in Seq(Record)
        BY <2>6 DEF Inv, Typing
      <4>2. Plays(<<>> \o <<Added(Len(ids) + 1, Message)>>, Append(ids, Message), Append(cs, <<>>))
        BY <2>5, <2>6, <4>1, PlayNew
      <4> QED BY <2>7, <4>1, <4>2
    <3>2. <<>> \o <<Added(1, Message)>> = <<Added(1, Message)>>
      <4>1. Added(1, Message) \in Events
        BY <2>6, EventsAre
      <4>2. <<Added(1, Message)>> \in Seq(Events)
        BY <4>1
      <4> QED BY <4>2, ConcatEmptySeq
    <3> QED BY <3>1, <3>2
  <2>9. Believes(ids2, cs2)'
    <3>1. Len(ids2) = 1 /\ ids2[1] = Message /\ cs2[1] = <<>> /\ 1..1 = {1} /\ 1 \in 0..1
      BY <2>6, <2>7, AppendIs
    <3>2. Len(<<>>) = 0 /\ 1..0 = {}
      OBVIOUS
    <3> QED BY <1>1, <2>1, <3>1, <3>2 DEF Believes
  <2>10. Playing'
    <3>1. Coming' = <<Added(1, Message)>>
      BY <1>1, <2>1 DEF Coming
    <3> QED BY <1>1, <2>8, <2>9, <3>1, PlaysOn
  <2> QED BY <1>1, <2>2, <2>3, <2>4, <2>9, <2>10, BoundsOn DEF Inv
<1>3. CASE source # "acp"
  <2>1. UNCHANGED <<message, next, out>>
    BY <1>3 DEF Open
  <2>2. Locals'
    BY <1>1, <1>3, <2>1 DEF Inv, Locals
  <2>3. Coming' = Coming
    BY <1>1, <2>1 DEF Coming
  <2>4. UNCHANGED <<source, state, log, view>>
    BY <1>1, <2>1 DEF state, view
  <2> QED BY <1>1, <2>2, <2>3, <2>4, QuietInv DEF Inv, Typing
<1> QED BY <1>2, <1>3

\* A chunk arrives.
LEMMA ChunkInv ==
    ASSUME Inv, Chunk
    PROVE  Inv' /\ UNCHANGED <<items, outcome>>
<1>1. /\ phase = "read" /\ out = <<>> /\ source = "direct" /\ batch = <<>>
      /\ UNCHANGED <<source, state, log, view>>
  BY DEF Chunk, Idle, Inv, Locals
<1>2. CASE completed
  <2>1. Fail /\ UNCHANGED validator
    BY <1>2 DEF Chunk
  <2> QED BY <1>1, <2>1, FailInv
<1>3. CASE ~completed
  <2>1. /\ phase' = "chunk" /\ UNCHANGED <<completed, out, batch>>
        /\ saw_terminal' \in BOOLEAN
    <3>1. PICK finish \in BOOLEAN : saw_terminal' = (saw_terminal \/ finish)
      BY <1>3 DEF Chunk
    <3> QED BY <1>3, <3>1 DEF Chunk
  <2>2. Coming' = Coming
    BY <1>1, <2>1 DEF Coming
  <2>3. Locals'
    BY <1>1, <1>3, <2>1 DEF Inv, Locals, state, view
  <2> QED BY <1>1, <2>1, <2>2, <2>3, QuietInv DEF Inv, Typing
<1> QED BY <1>2, <1>3 DEF Inv, Typing

\* A chunk ends: its events are queued.
LEMMA ChunkEndsInv ==
    ASSUME Inv, ChunkEnds
    PROVE  Inv' /\ UNCHANGED <<items, outcome>>
<1>1. /\ phase = "chunk" /\ phase' = "read" /\ out' = batch /\ batch' = <<>>
      /\ UNCHANGED <<source, validator, state, log, view>>
  BY DEF ChunkEnds, Idle
<1>2. Coming' = Coming
  BY <1>1 DEF Coming
<1>3. UNCHANGED <<saw_terminal, completed>> /\ saw_terminal \in BOOLEAN /\ completed \in BOOLEAN
  BY <1>1 DEF validator, Inv, Typing
<1>4. Locals'
  BY <1>1, <1>3 DEF Inv, Locals, state
<1> QED BY <1>1, <1>2, <1>3, <1>4, QuietInv

\* The [DONE] line.
LEMMA DoneLineInv ==
    ASSUME Inv, DoneLine
    PROVE  Inv' /\ UNCHANGED <<items, outcome>>
<1>1. /\ phase = "read" /\ out = <<>> /\ source = "direct" /\ batch = <<>>
      /\ UNCHANGED <<source, saw_terminal, state, log, view>>
  BY DEF DoneLine, Idle, Inv, Locals
<1>2. CASE completed \/ ~saw_terminal
  <2>1. Fail /\ UNCHANGED completed
    BY <1>2 DEF DoneLine
  <2> QED BY <1>1, <2>1, FailInv DEF validator
<1>3. CASE ~(completed \/ ~saw_terminal)
  <2>1. completed' = TRUE /\ UNCHANGED <<phase, out, batch>>
    BY <1>3 DEF DoneLine
  <2>2. Coming' = Coming
    BY <1>1, <2>1 DEF Coming
  <2>3. Locals'
    BY <1>1, <1>3, <2>1 DEF Inv, Locals, state, view
  <2> QED BY <1>1, <2>1, <2>2, <2>3, QuietInv DEF Inv, Typing
<1> QED BY <1>2, <1>3

\* The generator returns with the events that end the answer.
LEMMA FinishInv ==
    ASSUME Inv, phase = "read", out = <<>>, \A p \in 1..Len(tools) : tools[p].index # 0,
           completed', source = "direct" => saw_terminal, completed' \in BOOLEAN,
           phase' = "over", out' = CompletedEvents,
           UNCHANGED <<source, saw_terminal, state, batch, log, view>>
    PROVE  Inv' /\ UNCHANGED <<items, outcome>>
<1>1. UNCHANGED <<message, text, tools, next, log, items, outcome>> /\ outcome = "open"
  BY DEF state, view, Inv, Playing
<1>2. Typing'
  BY <1>1 DEF Inv, Typing
<1>3. Told' /\ Bounds'
  BY SameState DEF Inv
<1>4. Locals'
  BY <1>1 DEF Inv, Locals
<1>5. Ends'
  <2>1. PICK ids, cs : Believes(ids, cs) /\ Plays(<<>>, ids, cs)
    BY DEF Inv, Playing, Coming
  <2> QED BY <1>1, <2>1, EndsStart DEF Inv
<1> QED BY <1>1, <1>2, <1>3, <1>4, <1>5 DEF Inv

\* The upstream has ended.
LEMMA EofInv ==
    ASSUME Inv, Eof
    PROVE  Inv' /\ UNCHANGED <<items, outcome>>
<1>1. /\ phase = "read" /\ out = <<>> /\ source = "direct" /\ batch = <<>>
      /\ UNCHANGED <<source, validator, state, log, view>> /\ DOMAIN tools = 1..Len(tools)
  BY DEF Eof, Idle, Inv, Locals, Typing
<1>2. CASE ~completed \/ \E p \in DOMAIN tools : tools[p].index = 0
  <2>1. Fail
    BY <1>2 DEF Eof
  <2> QED BY <1>1, <2>1, FailInv
<1>3. CASE completed /\ \A p \in DOMAIN tools : tools[p].index # 0
  <2>1. phase' = "over" /\ out' = CompletedEvents /\ UNCHANGED batch
    BY <1>3 DEF Eof
  <2>2. UNCHANGED <<saw_terminal, completed>> /\ saw_terminal /\ completed \in BOOLEAN
    BY <1>1, <1>3 DEF validator, Inv, Locals, Typing
  <2> QED BY <1>1, <1>3, <2>1, <2>2, FinishInv
<1> QED BY <1>2, <1>3

\* The agent transport has ended.
LEMMA AcpCompletedInv ==
    ASSUME Inv, AcpCompleted
    PROVE  Inv' /\ UNCHANGED <<items, outcome>>
<1>1. /\ phase = "read" /\ out = <<>> /\ source = "acp" /\ completed' = TRUE /\ phase' = "over"
      /\ out' = CompletedEvents /\ UNCHANGED <<source, saw_terminal, state, batch, log, view>>
  BY DEF AcpCompleted, Idle
<1>2. \A p \in 1..Len(tools) : tools[p].index # 0
  <2>1. tools = <<>>
    BY <1>1 DEF Inv, Locals
  <2> QED BY <2>1
<1> QED BY <1>1, <1>2, FinishInv

\* An accepted delta.
LEMMA AcceptInv ==
    ASSUME Inv, phase' = phase, phase \in {"read", "chunk"}, UNCHANGED <<source, validator, view>>,
           Typing', Told', Locals',
           \E ids, cs : Believes(ids, cs)' /\ Plays(Coming', ids, cs)
    PROVE  Inv' /\ UNCHANGED <<items, outcome>>
<1>1. UNCHANGED <<items, outcome>> /\ outcome = "open"
  BY DEF view, Inv, Playing
<1>2. PICK ids, cs : Believes(ids, cs)' /\ Plays(Coming', ids, cs)
  OBVIOUS
<1>3. PICK s : s = Coming'
  OBVIOUS
<1>4. Playing'
  BY <1>1, <1>2, <1>3, PlaysOn
<1>5. Bounds'
  BY <1>2, BoundsOn
<1> QED BY <1>1, <1>4, <1>5 DEF Inv

\* A piece of text.
LEMMA TextInv ==
    ASSUME Inv, Text
    PROVE  Inv' /\ UNCHANGED <<items, outcome>>
<1> DEFINE first == IF text = <<>> THEN <<Added(message', Message)>> ELSE <<>>
<1>1. /\ phase = "chunk" /\ out = <<>> /\ Len(log) < MaxDeltas /\ text' = Append(text, Piece)
      /\ UNCHANGED <<source, phase, validator, out, view, tools>>
      /\ log' = Append(log, [of |-> Message, fields |-> {}])
      /\ batch' = batch \o (first \o <<Delta(message', Piece)>>)
  BY DEF Text, Idle, Accept
<1>2. IF message = 0 THEN message' = next + 1 /\ next' = next + 1 ELSE UNCHANGED <<message, next>>
  BY DEF Text
<1>3. source = "direct" /\ (message = 0 <=> text = <<>>)
  BY <1>1 DEF Inv, Locals, Typing
<1>4. PICK ids, cs : Believes(ids, cs) /\ Plays(batch, ids, cs)
  BY <1>1 DEF Inv, Playing, Coming
<1>5. Typing /\ Told
  BY DEF Inv
<1>6. text' \in Contents /\ Told' /\ Piece \in PieceNums
  BY <1>1, <1>5, TextTold
<1>7. log' \in Seq([of : Ids, fields : SUBSET Fields]) /\ Len(log') <= MaxDeltas
  <2>1. Message \in Ids /\ {} \in SUBSET Fields
    BY DEF Ids
  <2> QED BY <1>1, <1>5, <2>1, SentMore
<1>8. UNCHANGED <<saw_terminal, completed, items, outcome>>
  BY <1>1 DEF validator, view
<1>9. Typing'
  <2>1. message' \in Nat /\ next' \in Nat
    BY <1>2, <1>5 DEF Typing
  <2> QED BY <1>1, <1>5, <1>6, <1>7, <1>8, <2>1 DEF Typing
<1>10. text' # <<>>
  <2>1. text \in Seq(PieceNums) /\ Piece \in PieceNums
    BY <1>5, <1>6 DEF Typing, Contents
  <2>2. Append(text, Piece) # <<>>
    BY <2>1, AppendProperties
  <2> QED BY <1>1, <2>2
<1>11. message' # 0
  BY <1>2, <1>5 DEF Typing
<1>12. Locals'
  BY <1>1, <1>3, <1>8, <1>10, <1>11 DEF Inv, Locals
<1>13. \E ids2, cs2 : Believes(ids2, cs2)' /\ Plays(batch', ids2, cs2)
  <2>1. CASE message = 0
    <3>1. message' = next + 1 /\ next' = next + 1 /\ first = <<Added(next + 1, Message)>>
      BY <1>2, <1>3, <2>1
    <3>2. batch' = batch \o (<<Added(next + 1, Message)>> \o <<Delta(next + 1, Piece)>>)
      BY <1>1, <3>1
    <3>3. \E ids2, cs2 :
            /\ Believes(ids2, cs2)'
            /\ Plays(batch \o (<<Added(next + 1, Message)>> \o <<Delta(next + 1, Piece)>>), ids2, cs2)
      BY <1>1, <1>4, <1>5, <2>1, <3>1, MessageStarts
    <3> QED BY <3>2, <3>3
  <2>2. CASE message # 0
    <3>1. message' = message /\ next' = next /\ first = <<>>
      BY <1>2, <1>3, <2>2
    <3>2. batch' = batch \o <<Delta(message, Piece)>>
      <4>1. Delta(message, Piece) \in Events
        BY <1>5, <1>6, EventsAre DEF Typing
      <4>2. <<Delta(message, Piece)>> \in Seq(Events)
        BY <4>1
      <4>3. <<>> \o <<Delta(message, Piece)>> = <<Delta(message, Piece)>>
        BY <4>2, ConcatEmptySeq
      <4> QED BY <1>1, <3>1, <4>3
    <3>3. \E ids2, cs2 :
             Believes(ids2, cs2)' /\ Plays(batch \o <<Delta(message, Piece)>>, ids2, cs2)
      BY <1>1, <1>4, <1>5, <2>2, <3>1, MessageGrows
    <3> QED BY <3>2, <3>3
  <2> QED BY <2>1, <2>2
<1>14. Coming' = batch'
  BY <1>1 DEF Coming
<1> QED BY <1>1, <1>6, <1>9, <1>12, <1>13, <1>14, AcceptInv

\* A piece of text of the agent transport.
LEMMA AcpTextInv ==
    ASSUME Inv, AcpText
    PROVE  Inv' /\ UNCHANGED <<items, outcome>>
<1>1. /\ phase = "read" /\ out = <<>> /\ source = "acp" /\ Len(log) < MaxDeltas
      /\ text' = Append(text, Piece) /\ log' = Append(log, [of |-> Message, fields |-> {}])
      /\ out' = <<Delta(message, Piece)>>
      /\ UNCHANGED <<source, phase, validator, message, tools, next, batch, view>>
  BY DEF AcpText, Idle
<1>2. message # 0
  BY <1>1 DEF Inv, Locals
<1>4. PICK ids, cs : Believes(ids, cs) /\ Plays(<<>>, ids, cs)
  BY <1>1 DEF Inv, Playing, Coming
<1>5. Typing /\ Told
  BY DEF Inv
<1>6. text' \in Contents /\ Told' /\ Piece \in PieceNums
  BY <1>1, <1>5, TextTold
<1>7. log' \in Seq([of : Ids, fields : SUBSET Fields]) /\ Len(log') <= MaxDeltas
  <2>1. Message \in Ids /\ {} \in SUBSET Fields
    BY DEF Ids
  <2> QED BY <1>1, <1>5, <2>1, SentMore
<1>8. UNCHANGED <<saw_terminal, completed, items, outcome>>
  BY <1>1 DEF validator, view
<1>9. Typing'
  BY <1>1, <1>5, <1>6, <1>7, <1>8 DEF Typing
<1>10. Locals'
  BY <1>1, <1>8 DEF Inv, Locals
<1>11. Coming' = <<>> \o <<Delta(message, Piece)>>
  <2>1. Coming' = <<Delta(message, Piece)>>
    BY <1>1 DEF Coming
  <2>2. Delta(message, Piece) \in Events
    BY <1>5, <1>6, EventsAre DEF Typing
  <2>3. <<Delta(message, Piece)>> \in Seq(Events)
    BY <2>2
  <2>4. <<>> \o <<Delta(message, Piece)>> = <<Delta(message, Piece)>>
    BY <2>3, ConcatEmptySeq
  <2> QED BY <2>1, <2>4
<1>12. \E ids2, cs2 : Believes(ids2, cs2)' /\ Plays(<<>> \o <<Delta(message, Piece)>>, ids2, cs2)
  BY <1>1, <1>2, <1>4, <1>5, MessageGrows
<1> QED BY <1>1, <1>6, <1>9, <1>10, <1>11, <1>12, AcceptInv

\* A piece of a tool call.
LEMMA ToolDeltaInv ==
    ASSUME Inv, NEW c \in Calls, NEW F \in SUBSET Fields, ToolDelta(c, F)
    PROVE  Inv' /\ UNCHANGED <<items, outcome>>
<1>1. phase = "chunk" /\ out = <<>>
  BY DEF ToolDelta, Idle
<1>2. Typing /\ Told
  BY DEF Inv
<1>3. PICK ids, cs : Believes(ids, cs) /\ Plays(batch, ids, cs)
  BY <1>1 DEF Inv, Playing, Coming
<1>4. batch \in Seq(Events)
  BY <1>3 DEF Plays
<1>5. /\ ToolAllowed(c) /\ Len(log) < MaxDeltas /\ log' = Append(log, [of |-> c, fields |-> F])
      /\ UNCHANGED <<source, phase, validator, out, view, message, text>>
      /\ \E kept \in Tool :
            /\ kept.of = c /\ Keep(c, kept)
            /\ kept.arguments = IF "arguments" \in F
                                THEN Append(Entry(c).arguments, Piece) ELSE Entry(c).arguments
            /\ Announcing(c, kept) \/ Waiting(c, kept) \/ Growing(c, kept, F)
  BY <1>2, <1>4, ToolDeltaIs
<1>6. PICK kept \in Tool :
         /\ kept.of = c /\ Keep(c, kept)
         /\ kept.arguments = IF "arguments" \in F
                             THEN Append(Entry(c).arguments, Piece) ELSE Entry(c).arguments
         /\ Announcing(c, kept) \/ Waiting(c, kept) \/ Growing(c, kept, F)
  BY <1>5
<1>7. Kept(c, F, kept)
  BY <1>5, <1>6 DEF Kept
<1>8. next' \in Nat
  BY <1>2, <1>6 DEF Announcing, Waiting, Growing, Typing
<1>9. /\ kept.index = 0 => kept.name = <<>> /\ kept.pending = kept.arguments
      /\ kept.index # 0 => Named(c)' /\ kept.pending = <<>>
  <2>1. CASE Announcing(c, kept)
    <3>1. kept.index # 0
      BY <1>2, <2>1 DEF Announcing, Typing
    <3> QED BY <2>1, <3>1 DEF Announcing
  <2>2. CASE Waiting(c, kept)
    BY <2>2 DEF Waiting
  <2>3. CASE Growing(c, kept, F)
    <3>1. Named(c)
      BY <1>2, <2>3, EntryIs DEF Growing
    <3>2. Named(c)'
      <4>1. c \in Ids
        BY DEF Ids
      <4> QED BY <1>2, <1>5, <3>1, <4>1, SentMore
    <3> QED BY <2>3, <3>2 DEF Growing
  <2> QED BY <1>6, <2>1, <2>2, <2>3
<1>10. /\ Told' /\ tools' \in Seq(Tool) /\ Len(tools') <= MaxTools
       /\ Rising(kept.arguments) /\ Piece \in PieceNums
       /\ log' \in Seq([of : Ids, fields : SUBSET Fields]) /\ Len(log') <= MaxDeltas
  BY <1>2, <1>7, <1>9, ToolTold
<1>11. UNCHANGED <<saw_terminal, completed, items, outcome>>
  BY <1>5 DEF validator, view
<1>12. Typing'
  BY <1>2, <1>5, <1>8, <1>10, <1>11 DEF Typing
<1>13. Locals'
  BY <1>1, <1>5, <1>11 DEF Inv, Locals
<1>14. \E ids2, cs2 : Believes(ids2, cs2)' /\ Plays(batch', ids2, cs2)
  BY <1>2, <1>3, <1>6, <1>7, <1>10, AnnouncingPlays, WaitingPlays, GrowingPlays
<1>15. Coming' = batch'
  BY <1>1, <1>5 DEF Coming
<1> QED BY <1>1, <1>5, <1>10, <1>12, <1>13, <1>14, <1>15, AcceptInv

\* The client takes an event.
LEMMA YieldInv ==
    ASSUME Inv, Yield
    PROVE  Inv' /\ Protocol!Next
<1>1. /\ out # <<>> /\ UNCHANGED <<source, phase, validator, state, batch, log>>
      /\ phase # "chunk" /\ phase # "open"
  BY DEF Yield, Inv, Locals
<1>2. UNCHANGED <<source, phase, saw_terminal, completed, message, text, tools, next, log, batch>>
  BY <1>1 DEF validator, state
<1>3. Told' /\ Bounds'
  BY <1>1, SameState DEF Inv
<1>4. Locals'
  BY <1>1, <1>2 DEF Inv, Locals
<1>5. CASE phase # "over"
  <2>1. PICK ids, cs : Believes(ids, cs) /\ Plays(out, ids, cs)
    BY <1>1, <1>5 DEF Inv, Playing, Coming
  <2>2. /\ items' \in Seq(Record) /\ outcome' = "open" /\ Protocol!Next
        /\ Plays(out, ids, cs)'
    BY <1>5, <2>1, YieldPlays DEF Inv, Typing, Playing
  <2>3. Typing'
    BY <1>2, <2>2 DEF Inv, Typing
  <2>4. Believes(ids, cs)'
    BY <1>1, <2>1, SameState
  <2>5. Plays(Coming, ids, cs)'
    <3>1. Coming' = out'
      BY <1>1, <1>2 DEF Coming
    <3> QED BY <2>2, <3>1 DEF Plays
  <2>6. Playing'
    BY <2>2, <2>4, <2>5 DEF Playing
  <2> QED BY <1>2, <1>3, <1>4, <1>5, <2>2, <2>3, <2>6 DEF Inv
<1>6. CASE phase = "over"
  <2>1. /\ items' \in Seq(Record) /\ outcome' \in {"open", "completed", "failed"}
        /\ Protocol!Next /\ Ends'
    BY <1>6, YieldEnds DEF Inv, Typing
  <2>2. Typing'
    BY <1>2, <2>1 DEF Inv, Typing
  <2> QED BY <1>2, <1>3, <1>4, <1>6, <2>1, <2>2 DEF Inv
<1> QED BY <1>5, <1>6

\* Every step keeps the invariant and is a step of the protocol, or none.
LEMMA NextInv ==
    ASSUME Inv, [Next]_vars
    PROVE  Inv' /\ [Protocol!Next]_<<items, outcome>>
<1>1. CASE Yield
  BY <1>1, YieldInv
<1>2. CASE Open
  BY <1>2, OpenInv
<1>3. CASE Chunk
  BY <1>3, ChunkInv
<1>4. CASE Text
  BY <1>4, TextInv
<1>5. CASE BadDelta
  BY <1>5, FailInv DEF BadDelta, Idle
<1>6. CASE ChunkEnds
  BY <1>6, ChunkEndsInv
<1>7. CASE DoneLine
  BY <1>7, DoneLineInv
<1>8. CASE Breaks
  BY <1>8, FailInv DEF Breaks, Idle
<1>9. CASE Eof
  BY <1>9, EofInv
<1>10. ASSUME NEW c \in Calls, NEW F \in SUBSET Fields, ToolDelta(c, F)
       PROVE  Inv' /\ [Protocol!Next]_<<items, outcome>>
  BY <1>10, ToolDeltaInv
<1>11. CASE AcpText
  BY <1>11, AcpTextInv
<1>12. CASE AcpCompleted
  BY <1>12, AcpCompletedInv
<1>13. CASE UNCHANGED vars
  <2>1. UNCHANGED <<source, phase, saw_terminal, completed, message, text, tools, next, batch,
                    out, log, items, outcome>> /\ UNCHANGED <<state, log>>
    BY <1>13 DEF vars, validator, state, view
  <2>2. Told' /\ Bounds'
    BY <2>1, SameState DEF Inv
  <2>3. Typing' /\ Locals'
    BY <2>1 DEF Inv, Typing, Locals
  <2>4. CASE phase # "over"
    <3>1. PICK ids, cs : Believes(ids, cs) /\ Plays(Coming, ids, cs)
      BY <2>4 DEF Inv, Playing
    <3>2. PICK s : s = Coming
      OBVIOUS
    <3>3. s = Coming' /\ Believes(ids, cs)'
      BY <2>1, <3>1, <3>2, SameState DEF Coming
    <3>4. Playing'
      BY <2>1, <2>4, <3>1, <3>2, <3>3, PlaysOn DEF Inv, Playing
    <3> QED BY <2>1, <2>2, <2>3, <2>4, <3>4 DEF Inv
  <2>5. CASE phase = "over"
    <3>1. Ends'
      <4>1. Ends
        BY <2>5 DEF Inv
      <4>2. ASSUME NEW ids, NEW cs, Answers(ids, cs) PROVE Answers(ids, cs)'
        BY <2>1, <4>2 DEF Answers, Sent, Carries, Named
      <4>3. ASSUME NEW ids, NEW cs, Closing(out, ids, cs) PROVE Closing(out, ids, cs)'
        BY <2>1, <4>3 DEF Closing
      <4>4. ASSUME NEW ids, NEW cs, Opening(out, ids, cs) PROVE Opening(out, ids, cs)'
        BY <2>1, <4>4 DEF Opening
      <4>5. ASSUME NEW ids, NEW cs, items = Final(ids, cs) PROVE (items = Final(ids, cs))'
        BY <2>1, <4>5 DEF Final, Item
      <4>6. Failed' = Failed
        BY DEF Failed
      <4> QED BY <2>1, <4>1, <4>2, <4>3, <4>4, <4>5, <4>6 DEF Ends
    <3> QED BY <2>1, <2>2, <2>3, <2>5, <3>1 DEF Inv
  <2> QED BY <2>1, <2>4, <2>5
<1> QED
  BY <1>1, <1>2, <1>3, <1>4, <1>5, <1>6, <1>7, <1>8, <1>9, <1>10, <1>11, <1>12, <1>13
  DEF Next, Generator

-----------------------------------------------------------------------------
(* Theorems *)

\* The invariant holds of every stream.
THEOREM Invariance == Spec => []Inv
<1>1. Init => Inv
  BY InitInv
<1>2. Inv /\ [Next]_vars => Inv'
  BY NextInv
<1> QED BY <1>1, <1>2, PTL DEF Spec

\* The locals and the client's view keep their types, and there are no more tool
\* calls than MAX_STREAM_TOOL_CALLS.
THEOREM TypeCorrect == Spec => []TypeOK
<1>1. ASSUME Inv PROVE TypeOK
  <2>1. Typing /\ Bounds
    BY <1>1 DEF Inv
  <2>2. MaxTools \in Nat
    BY ResponsesAssumption
  <2>3. message \in 0..(MaxTools + 1) /\ next \in 0..(MaxTools + 1)
    BY <2>1, <2>2 DEF Typing, Bounds
  <2>4. tools \in Seq([of : Calls, call_id : Contents, name : Contents, arguments : Contents,
                       pending : Contents, index : 0..(MaxTools + 1)])
    <3> DEFINE R == [of : Calls, call_id : Contents, name : Contents, arguments : Contents,
                     pending : Contents, index : 0..(MaxTools + 1)]
    <3>1. ASSUME NEW p \in 1..Len(tools) PROVE tools[p] \in R
      <4>1. tools[p] \in Tool /\ tools[p].index <= next
        BY <2>1 DEF Typing, Bounds
      <4>2. tools[p].index \in Nat
        BY <4>1 DEF Tool
      <4>3. tools[p].index \in 0..(MaxTools + 1)
        BY <2>2, <2>3, <4>1, <4>2
      <4> QED BY <4>1, <4>3 DEF Tool
    <3>2. Len(tools) \in Nat /\ tools \in [1..Len(tools) -> Tool]
      BY <2>1 DEF Typing
    <3> HIDE DEF R
    <3>3. tools \in [1..Len(tools) -> R]
      BY <3>1, <3>2
    <3>4. tools \in Seq(R)
      BY <3>2, <3>3
    <3> QED BY <3>4 DEF R
  <2> QED BY <2>1, <2>3, <2>4 DEF TypeOK, Typing, Record
<1> QED BY <1>1, Invariance, PTL

\* What the client sees of any stream is what ResponsesProtocol promises.
THEOREM ProtocolCorrect == Spec => ProtocolSpec
<1>1. Init => Protocol!Init
  BY InitInv
<1>2. Inv /\ [Next]_vars => [Protocol!Next]_<<items, outcome>>
  BY NextInv
<1> QED BY <1>1, <1>2, Invariance, PTL DEF Spec, ProtocolSpec, Protocol!Spec

\* A response that completes is the upstream's whole answer.
THEOREM AnswerCorrect == Spec => []CompletedIsAnswer
<1>1. ASSUME Inv PROVE CompletedIsAnswer
  <2> SUFFICES ASSUME outcome = "completed" PROVE CompletedIsAnswer
    BY DEF CompletedIsAnswer
  <2>1. PICK ids, cs : Answers(ids, cs) /\ items = Final(ids, cs)
    BY <1>1 DEF Inv, Playing, Ends
  <2>2. /\ completed /\ (source = "direct" => saw_terminal)
        /\ \A i, j \in 1..Len(ids) : ids[i] = ids[j] => i = j
        /\ \A i \in 1..Len(ids) : Lists(cs[i], Sent(ids[i]))
        /\ \A d \in DOMAIN log : /\ \E i \in 1..Len(ids) : ids[i] = log[d].of
                                 /\ log[d].of # Message => Named(log[d].of)
    BY <2>1 DEF Answers
  <2>3. /\ DOMAIN items = 1..Len(ids)
        /\ \A i \in 1..Len(ids) : items[i].id = ids[i] /\ items[i].content = cs[i]
    BY <2>1 DEF Final, Item
  <2> QED BY <2>2, <2>3 DEF CompletedIsAnswer, Named
<1> QED BY <1>1, Invariance, PTL

=============================================================================
