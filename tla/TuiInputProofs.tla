---------------------------- MODULE TuiInputProofs ----------------------------
(***************************************************************************)
(* Proofs about TuiInput and its Composer: where the cursor is and where a *)
(* vertical move comes to, for every text and width; the prompt history    *)
(* and its draft, the confirmed quit and the API key.                      *)
(*                                                                         *)
(* What the recursion over a text computes is proved by induction, for     *)
(* which every set of naturals has a least element.                        *)
(***************************************************************************)
EXTENDS TuiInput, WellFoundedInduction, TLAPS

-----------------------------------------------------------------------------
(* Induction, and the positions of a text *)

\* Every set of naturals has a least element.
LEMMA LeastElement ==
    ASSUME NEW S, S \subseteq Nat, S # {}
    PROVE  \E n \in S : \A m \in S : n <= m
<1> DEFINE R == {p \in Nat \X Nat : p[1] < p[2]}
<1>1. IsWellFoundedOn(R, Nat)
  BY NatLessThanWellFounded DEF OpToRel
<1>2. PICK n \in S : \A m \in S : <<m, n>> \notin R
  <2> HIDE DEF R
  <2> QED BY <1>1, WFMin
<1>3. ASSUME NEW m \in S, m < n PROVE FALSE
  <2>1. <<m, n>> \in R
    BY <1>3
  <2> HIDE DEF R
  <2> QED BY <1>2, <2>1
<1> QED BY <1>3

\* Induction, from the least counterexample.
LEMMA Induction ==
    ASSUME NEW S, 0 \in S, \A i \in Nat : i \in S => i + 1 \in S
    PROVE  Nat \subseteq S
<1> SUFFICES ASSUME Nat \ S # {} PROVE FALSE
  OBVIOUS
<1>1. PICK n \in Nat \ S : \A m \in Nat \ S : n <= m
  BY LeastElement
<1>2. n # 0 /\ n - 1 \in Nat
  BY <1>1
<1>3. n - 1 \in S
  BY <1>1, <1>2
<1> QED BY <1>1, <1>2, <1>3

Origin == [row |-> 0, col |-> 0]

\* The recursion of Positions has a solution on every text.
LEMMA PositionsDef ==
    ASSUME NEW t \in Seq(Chars)
    PROVE  Positions(t) = [i \in 0..Len(t) |->
               IF i = 0 THEN Origin ELSE Advance(Positions(t)[i - 1], t[i])]
<1> DEFINE Solves(f, n) == f = [i \in 0..n |-> IF i = 0 THEN Origin ELSE Advance(f[i - 1], t[i])]
           S == {n \in Nat : \E f : Solves(f, n)}
<1>1. 0 \in S
  <2>1. Solves([i \in 0..0 |-> Origin], 0)
    OBVIOUS
  <2> HIDE DEF Solves
  <2> QED BY <2>1
<1>2. ASSUME NEW n \in Nat, n \in S PROVE n + 1 \in S
  <2>1. PICK f : Solves(f, n)
    BY <1>2
  <2> DEFINE g == [i \in 0..(n + 1) |-> IF i = n + 1 THEN Advance(f[n], t[n + 1]) ELSE f[i]]
  <2>2. ASSUME NEW i \in 0..(n + 1)
        PROVE  g[i] = IF i = 0 THEN Origin ELSE Advance(g[i - 1], t[i])
    BY <2>1
  <2>3. Solves(g, n + 1)
    <3> HIDE DEF g
    <3>1. g = [i \in 0..(n + 1) |-> g[i]]
      BY DEF g
    <3> QED BY <2>2, <3>1
  <2> HIDE DEF Solves, g
  <2> QED BY <2>3
<1>3. Len(t) \in S
  <2> HIDE DEF S
  <2> QED BY <1>1, <1>2, Induction
<1>4. \E f : Solves(f, Len(t))
  <2> HIDE DEF Solves
  <2> QED BY <1>3
<1>5. Positions(t) = CHOOSE f : Solves(f, Len(t))
  BY DEF Positions, Origin
<1>6. Solves(Positions(t), Len(t))
  <2> HIDE DEF Solves
  <2> QED BY <1>4, <1>5
<1> QED BY <1>6

Position == [row : Nat, col : 0..(Width - 1)]

\* One position is before another in reading order.
Precedes(p, q) == p.row < q.row \/ (p.row = q.row /\ p.col < q.col)

LEMMA AdvanceType ==
    ASSUME NEW p \in Position, NEW ch \in Chars
    PROVE  /\ Advance(p, ch) \in Position
           /\ Advance(p, ch).row \in {p.row, p.row + 1}
           /\ Precedes(p, Advance(p, ch))
<1>1. Width \in Nat /\ Width > 2 /\ p.row \in Nat /\ p.col \in Nat /\ p.col < Width /\ Newline \notin Wide
  BY ComposerAssumption DEF Position
<1>2. CASE ch = Newline
  BY <1>1, <1>2 DEF Advance, Position, Precedes
<1>3. CASE ch # Newline /\ ch \in Wide
  BY <1>1, <1>3 DEF Advance, Position, Precedes
<1>4. CASE ch # Newline /\ ch \notin Wide
  BY <1>1, <1>4 DEF Advance, Position, Precedes
<1> QED BY <1>2, <1>3, <1>4

\* The positions of a text, its rows and their columns.
LEMMA PositionsType ==
    ASSUME NEW t \in Seq(Chars)
    PROVE  /\ Positions(t) \in [0..Len(t) -> Position]
           /\ Positions(t)[0] = Origin
           /\ \A i \in 1..Len(t) :
                 /\ Precedes(Positions(t)[i - 1], Positions(t)[i])
                 /\ Positions(t)[i].row \in {Positions(t)[i - 1].row, Positions(t)[i - 1].row + 1}
<1> DEFINE P == Positions(t)
<1>1. /\ P = [i \in 0..Len(t) |-> IF i = 0 THEN Origin ELSE Advance(P[i - 1], t[i])]
      /\ Len(t) \in Nat
  BY PositionsDef
<1> HIDE DEF P
<1>2. P[0] = Origin /\ DOMAIN P = 0..Len(t)
  BY <1>1
<1>3. ASSUME NEW i \in 1..Len(t) PROVE P[i] = Advance(P[i - 1], t[i])
  <2>1. i \in 0..Len(t) /\ i # 0
    BY <1>1
  <2> QED BY <2>1, <1>1
<1> DEFINE S == {i \in Nat : i <= Len(t) => P[i] \in Position}
<1>4. 0 \in S
  BY <1>2, ComposerAssumption DEF Origin, Position
<1>5. ASSUME NEW i \in Nat, i \in S PROVE i + 1 \in S
  <2> SUFFICES ASSUME i + 1 <= Len(t) PROVE P[i + 1] \in Position
    OBVIOUS
  <2>1. P[i] \in Position /\ t[i + 1] \in Chars /\ i + 1 \in 1..Len(t)
    BY <1>5, <1>1
  <2>2. P[i + 1] = Advance(P[i], t[i + 1])
    BY <1>3, <2>1
  <2> QED BY <2>1, <2>2, AdvanceType
<1>6. Nat \subseteq S
  <2> HIDE DEF S
  <2> QED BY <1>4, <1>5, Induction
<1>7. \A i \in 0..Len(t) : P[i] \in Position
  BY <1>6
<1>8. P = [i \in 0..Len(t) |-> P[i]]
  BY <1>1
<1>9. ASSUME NEW i \in 1..Len(t)
      PROVE  Precedes(P[i - 1], P[i]) /\ P[i].row \in {P[i - 1].row, P[i - 1].row + 1}
  <2>1. P[i - 1] \in Position /\ t[i] \in Chars
    BY <1>1, <1>7
  <2> QED BY <1>3, <2>1, AdvanceType
<1> QED BY <1>2, <1>7, <1>8, <1>9 DEF P

\* The positions are in reading order.
LEMMA InOrder ==
    ASSUME NEW t \in Seq(Chars), NEW i \in 0..Len(t), NEW j \in 0..Len(t), i < j
    PROVE  Precedes(Positions(t)[i], Positions(t)[j])
<1> DEFINE P == Positions(t)
<1>1. P \in [0..Len(t) -> Position] /\ Len(t) \in Nat
      /\ \A k \in 1..Len(t) : Precedes(P[k - 1], P[k])
  BY PositionsType
<1> HIDE DEF P
<1> DEFINE S == {k \in Nat : i + 1 + k <= Len(t) => Precedes(P[i], P[i + 1 + k])}
<1>2. 0 \in S
  BY <1>1
<1>3. ASSUME NEW k \in Nat, k \in S PROVE k + 1 \in S
  <2> SUFFICES ASSUME i + 1 + (k + 1) <= Len(t) PROVE Precedes(P[i], P[i + 1 + (k + 1)])
    OBVIOUS
  <2>1. PICK m \in 1..Len(t) : m = i + 1 + k
    OBVIOUS
  <2>2. m + 1 \in 1..Len(t) /\ m + 1 = i + 1 + (k + 1)
    BY <2>1
  <2>3. Precedes(P[i], P[m]) /\ Precedes(P[m], P[m + 1])
    BY <1>3, <1>1, <2>1, <2>2
  <2>4. P[i] \in Position /\ P[m] \in Position /\ P[m + 1] \in Position
    BY <1>1, <2>1, <2>2, SMTT(30)
  <2>5. Precedes(P[i], P[m + 1])
    BY <2>3, <2>4, SMTT(30) DEF Precedes, Position
  <2> QED BY <2>2, <2>5
<1>4. Nat \subseteq S
  <2> HIDE DEF S
  <2> QED BY <1>2, <1>3, Induction
<1>5. j - i - 1 \in Nat /\ i + 1 + (j - i - 1) = j
  OBVIOUS
<1>6. j - i - 1 \in S
  BY <1>4, <1>5
<1> QED BY <1>5, <1>6 DEF P

\* No row is left out.
LEMMA NoRowMissing ==
    ASSUME NEW t \in Seq(Chars), NEW j \in 0..Len(t), NEW r \in Nat, r <= Positions(t)[j].row
    PROVE  \E i \in 0..Len(t) : Positions(t)[i].row = r
<1> DEFINE P == Positions(t)
<1>1. /\ P \in [0..Len(t) -> Position] /\ Len(t) \in Nat /\ P[0].row = 0
      /\ \A k \in 1..Len(t) : P[k].row \in {P[k - 1].row, P[k - 1].row + 1}
  BY PositionsType DEF Origin
<1> HIDE DEF P
<1> DEFINE S == {k \in Nat : k <= Len(t) => (r <= P[k].row => \E i \in 0..Len(t) : P[i].row = r)}
<1>2. 0 \in S
  BY <1>1
<1>3. ASSUME NEW k \in Nat, k \in S PROVE k + 1 \in S
  <2> SUFFICES ASSUME k + 1 <= Len(t), r <= P[k + 1].row PROVE \E i \in 0..Len(t) : P[i].row = r
    OBVIOUS
  <2>1. k + 1 \in 1..Len(t) /\ k \in 0..Len(t) /\ P[k].row \in Nat
    BY <1>1 DEF Position
  <2>2. P[k + 1].row \in {P[k].row, P[k].row + 1}
    BY <1>1, <2>1
  <2>3. CASE r <= P[k].row
    BY <1>3, <2>1, <2>3
  <2>4. CASE P[k + 1].row = r
    <3>1. k + 1 \in 0..Len(t)
      BY <2>1
    <3> QED BY <2>4, <3>1
  <2>5. PICK a \in Nat : a = P[k].row
    BY <2>1
  <2>6. r <= a \/ r = P[k + 1].row
    BY <2>2, <2>5
  <2> QED BY <2>3, <2>4, <2>5, <2>6
<1>4. Nat \subseteq S
  <2> HIDE DEF S
  <2> QED BY <1>2, <1>3, Induction
<1> QED BY <1>4 DEF P

-----------------------------------------------------------------------------
(* Where a vertical move comes to *)

\* The first of the positions R that are nearest to the column m.
Best(pos, R, m, i) ==
    /\ i \in R
    /\ \A j \in R : \/ Distance(pos[i].col, m) < Distance(pos[j].col, m)
                    \/ Distance(pos[i].col, m) = Distance(pos[j].col, m) /\ i <= j

LEMMA DistanceType ==
    ASSUME NEW m \in Nat, NEW n \in Nat
    PROVE  Distance(m, n) \in Nat /\ (Distance(m, n) = 0 <=> m = n)
BY DEF Distance

LEMMA OneBest ==
    ASSUME NEW n \in Nat, NEW pos \in [0..n -> Position], NEW R \in SUBSET (0..n), R # {},
           NEW m \in Nat
    PROVE  /\ \E i \in R : Best(pos, R, m, i)
           /\ \A i, j : Best(pos, R, m, i) /\ Best(pos, R, m, j) => i = j
<1> DEFINE Off(i) == Distance(pos[i].col, m)
<1>1. ASSUME NEW i \in R PROVE Off(i) \in Nat /\ i \in Nat
  <2>1. i \in 0..n /\ pos[i] \in Position
    OBVIOUS
  <2>2. PICK x \in Nat : x = pos[i].col
    BY <2>1, ComposerAssumption DEF Position
  <2>3. Distance(x, m) \in Nat
    BY DistanceType
  <2> QED BY <2>1, <2>2, <2>3
<1> HIDE DEF Off
<1> DEFINE D == {Off(i) : i \in R}
<1>2. PICK d \in D : \A e \in D : d <= e
  <2>1. D \subseteq Nat /\ D # {}
    BY <1>1
  <2> HIDE DEF D
  <2> QED BY <2>1, LeastElement
<1> DEFINE N == {i \in R : Off(i) = d}
<1>3. PICK k \in N : \A j \in N : k <= j
  <2>1. N \subseteq Nat /\ N # {}
    BY <1>1, <1>2
  <2> HIDE DEF N
  <2> QED BY <2>1, LeastElement
<1>4. d \in Nat
  BY <1>1, <1>2
<1>5. ASSUME NEW j \in R PROVE Off(k) < Off(j) \/ (Off(k) = Off(j) /\ k <= j)
  <2>1. d <= Off(j) /\ Off(j) \in Nat /\ Off(k) = d
    BY <1>1, <1>2, <1>3
  <2> QED BY <1>3, <1>4, <2>1
<1>6. Best(pos, R, m, k)
  BY <1>3, <1>5 DEF Best, Off
<1>7. ASSUME NEW i, NEW j, Best(pos, R, m, i), Best(pos, R, m, j) PROVE i = j
  <2>1. /\ i \in R /\ j \in R
        /\ Off(i) < Off(j) \/ (Off(i) = Off(j) /\ i <= j)
        /\ Off(j) < Off(i) \/ (Off(j) = Off(i) /\ j <= i)
    BY <1>7 DEF Best, Off
  <2> QED BY <1>1, <2>1
<1> QED BY <1>3, <1>6, <1>7

\* A text field, and one whose cursor is where its kept column puts it.
Fields == [text : Seq(Chars), cursor : Nat, anchor : Nat \cup {None},
           preferred : 0..(Width - 1) \cup {None}]

SameRow(t, i) == {j \in 0..Len(t) : Positions(t)[j].row = Positions(t)[i].row}

InText(c) ==
    /\ c \in Fields
    /\ c.cursor <= Len(c.text)
    /\ c.anchor # None => c.anchor <= Len(c.text)

Held(c) == c.preferred # None =>
              Best(Positions(c.text), SameRow(c.text, c.cursor), c.preferred, c.cursor)

LEMMA ColumnType ==
    ASSUME NEW c, InText(c)
    PROVE  /\ Column(Positions(c.text), c) \in 0..(Width - 1)
           /\ c.cursor \in 0..Len(c.text) /\ Len(c.text) \in Nat
           /\ Positions(c.text) \in [0..Len(c.text) -> Position]
<1>1. c.text \in Seq(Chars) /\ c.cursor \in 0..Len(c.text) /\ Len(c.text) \in Nat
      /\ c.preferred \in 0..(Width - 1) \cup {None}
  BY DEF InText, Fields
<1>2. Positions(c.text) \in [0..Len(c.text) -> Position]
  BY <1>1, PositionsType
<1>3. Positions(c.text)[c.cursor].col \in 0..(Width - 1)
  BY <1>1, <1>2 DEF Position
<1> QED BY <1>1, <1>2, <1>3 DEF Column

LEMMA LandingBest ==
    ASSUME NEW c, InText(c), NEW step \in {-1, 1}, CanMove(c, step)
    PROVE  Best(Positions(c.text), NextRow(Positions(c.text), c.cursor, step),
                Column(Positions(c.text), c), Landing(Positions(c.text), c, step))
<1> DEFINE P == Positions(c.text)
           R == NextRow(P, c.cursor, step)
           m == Column(P, c)
<1>1. /\ P \in [0..Len(c.text) -> Position] /\ Len(c.text) \in Nat
      /\ R \in SUBSET (0..Len(c.text)) /\ R # {} /\ m \in Nat
  BY ColumnType, ComposerAssumption DEF NextRow, CanMove
<1>2. Landing(P, c, step) = CHOOSE i \in R : Best(P, R, m, i)
  BY DEF Landing, Best
<1> HIDE DEF P, R, m
<1>3. \E i \in R : Best(P, R, m, i)
  BY <1>1, OneBest
<1>4. Best(P, R, m, Landing(P, c, step))
  BY <1>2, <1>3
<1> QED BY <1>4 DEF P, R, m

LEMMA MoveToFits ==
    ASSUME NEW c, InText(c), NEW i \in 0..Len(c.text), NEW select \in BOOLEAN
    PROVE  /\ InText(MoveTo(c, i, select)) /\ MoveTo(c, i, select).preferred = None
           /\ MoveTo(c, i, select).text = c.text /\ MoveTo(c, i, select).cursor = i
<1> DEFINE a == IF select /\ (IF c.anchor = None THEN c.cursor ELSE c.anchor) # i
                THEN IF c.anchor = None THEN c.cursor ELSE c.anchor ELSE None
<1>1. a \in Nat \cup {None} /\ (a # None => a <= Len(c.text))
  BY DEF InText, Fields
<1>2. MoveTo(c, i, select) = [c EXCEPT !.cursor = i, !.anchor = a, !.preferred = None]
  BY DEF MoveTo
<1> HIDE DEF a
<1>3. i \in Nat /\ i <= Len(c.text)
  BY DEF InText, Fields
<1> QED BY <1>1, <1>2, <1>3 DEF InText, Fields

\* A vertical move ends in the text, at the kept column of the row it comes to.
LEMMA VerticalFits ==
    ASSUME NEW c, InText(c), NEW step \in {-1, 1}, NEW select \in BOOLEAN, CanMove(c, step)
    PROVE  LET v == Vertical(c, step, select) IN
           /\ InText(v) /\ Held(v) /\ v.text = c.text
           /\ v.preferred = Column(Positions(c.text), c)
           /\ v.cursor \in NextRow(Positions(c.text), c.cursor, step)
<1> DEFINE P == Positions(c.text)
           m == Column(P, c)
           R == NextRow(P, c.cursor, step)
           i == Landing(P, c, step)
           w == MoveTo(c, i, select)
           v == Vertical(c, step, select)
<1>1. /\ P \in [0..Len(c.text) -> Position] /\ Len(c.text) \in Nat
      /\ m \in 0..(Width - 1) /\ m # None /\ c.text \in Seq(Chars)
  BY ColumnType, ComposerAssumption DEF InText, Fields
<1>2. Best(P, R, m, i)
  BY LandingBest
<1>3. R \subseteq 0..Len(c.text) /\ i \in R
  BY <1>1, <1>2 DEF Best, NextRow
<1>4. v = [w EXCEPT !.preferred = m]
  BY DEF Vertical
<1>5. InText(w) /\ w.text = c.text /\ w.cursor = i
  BY <1>3, MoveToFits
<1> HIDE DEF P, m, i, w, v
<1>6. InText(v) /\ v.text = c.text /\ v.cursor = i /\ v.preferred = m
  BY <1>1, <1>4, <1>5 DEF InText, Fields
<1>7. R = SameRow(c.text, i)
  <2>1. R = {j \in DOMAIN P : P[j].row = P[c.cursor].row + step}
    BY DEF NextRow, R
  <2>2. DOMAIN P = 0..Len(c.text) /\ P[i].row = P[c.cursor].row + step
    BY <1>1, <1>3, <2>1
  <2> QED BY <2>1, <2>2 DEF SameRow, P
<1>8. Held(v)
  BY <1>2, <1>6, <1>7 DEF Held, P
<1> QED BY <1>3, <1>6, <1>8 DEF P, m, v, R

\* One vertical move takes the other back.
LEMMA VerticalBack ==
    ASSUME NEW c, InText(c), Held(c), NEW step \in {-1, 1}, CanMove(c, step)
    PROVE  Vertical(Vertical(c, step, FALSE), -step, FALSE).cursor = c.cursor
<1> DEFINE P == Positions(c.text)
           m == Column(P, c)
           v == Vertical(c, step, FALSE)
           R == SameRow(c.text, c.cursor)
<1>1. /\ P \in [0..Len(c.text) -> Position] /\ Len(c.text) \in Nat
      /\ c.cursor \in 0..Len(c.text) /\ m \in 0..(Width - 1) /\ m # None /\ c.text \in Seq(Chars)
  BY ColumnType, ComposerAssumption DEF InText, Fields
<1>2. /\ InText(v) /\ v.text = c.text /\ v.preferred = m
      /\ v.cursor \in NextRow(P, c.cursor, step)
  BY VerticalFits
<1> HIDE DEF v
<1>3. NextRow(P, v.cursor, -step) = R
  <2>1. P[v.cursor].row = P[c.cursor].row + step /\ P[c.cursor].row \in Nat
    BY <1>1, <1>2 DEF NextRow, Position
  <2>2. P[v.cursor].row + (-step) = P[c.cursor].row
    BY <2>1
  <2> QED BY <1>1, <2>2 DEF NextRow, SameRow
<1>4. Best(P, R, m, c.cursor)
  <2>1. CASE c.preferred # None
    BY <2>1 DEF Held, Column
  <2>2. CASE c.preferred = None
    <3>1. m = P[c.cursor].col
      BY <2>2 DEF Column
    <3>2. ASSUME NEW j \in R
          PROVE  \/ Distance(P[c.cursor].col, m) < Distance(P[j].col, m)
                 \/ Distance(P[c.cursor].col, m) = Distance(P[j].col, m) /\ c.cursor <= j
      <4>1. j \in 0..Len(c.text) /\ P[j].row = P[c.cursor].row
        BY DEF SameRow
      <4>2. P[j].col \in Nat /\ P[c.cursor].col \in Nat /\ P[c.cursor].row \in Nat
        <5>1. P[j] \in Position /\ P[c.cursor] \in Position
          BY <1>1, <4>1
        <5> QED BY <5>1, ComposerAssumption DEF Position
      <4>3. CASE j = c.cursor
        BY <1>1, <4>3
      <4>4. CASE j # c.cursor
        <5>1. P[j].col # P[c.cursor].col
          <6>1. Precedes(P[j], P[c.cursor]) \/ Precedes(P[c.cursor], P[j])
            BY <1>1, <4>1, <4>4, InOrder
          <6> QED BY <4>1, <4>2, <6>1 DEF Precedes
        <5> QED BY <3>1, <4>2, <5>1 DEF Distance
      <4> QED BY <4>3, <4>4
    <3> QED BY <1>1, <3>2 DEF Best, SameRow
  <2> QED BY <2>1, <2>2
<1>5. CanMove(v, -step) /\ Column(P, v) = m
  BY <1>1, <1>2, <1>3 DEF CanMove, SameRow, Column
<1>6. Best(P, R, m, Landing(P, v, -step))
  BY <1>2, <1>3, <1>5, LandingBest
<1>7. Landing(P, v, -step) = c.cursor
  <2>1. R \in SUBSET (0..Len(c.text)) /\ R # {} /\ m \in Nat
    BY <1>1, ComposerAssumption DEF SameRow
  <2> HIDE DEF R, m, P
  <2> QED BY <1>1, <1>4, <1>6, <2>1, OneBest
<1>8. -step \in {-1, 1}
  OBVIOUS
<1>9. Vertical(v, -step, FALSE).cursor = Landing(P, v, -step)
  BY <1>2, MoveToFits DEF Vertical, MoveTo, InText, Fields
<1> QED BY <1>7, <1>9 DEF v

\* Where no row is left, the cursor is on the first or on the last.
LEMMA NoMove ==
    ASSUME NEW c, InText(c), NEW step \in {-1, 1}, ~CanMove(c, step)
    PROVE  LET P == Positions(c.text) IN
           IF step = 1 THEN \A i \in 0..Len(c.text) : P[i].row <= P[c.cursor].row
           ELSE P[c.cursor].row = 0
<1> DEFINE P == Positions(c.text)
<1>1. /\ P \in [0..Len(c.text) -> Position] /\ c.cursor \in 0..Len(c.text)
      /\ \A i \in 0..Len(c.text) : P[i].row \in Nat
      /\ c.text \in Seq(Chars)
  BY ColumnType DEF Position, InText, Fields
<1>2. ASSUME NEW j \in 0..Len(c.text) PROVE P[j].row # P[c.cursor].row + step
  BY <1>1 DEF CanMove, NextRow
<1>3. CASE step = 1
  <2>1. ASSUME NEW i \in 0..Len(c.text), ~(P[i].row <= P[c.cursor].row) PROVE FALSE
    <3>1. P[c.cursor].row + 1 \in Nat /\ P[c.cursor].row + 1 <= P[i].row
      BY <1>1, <2>1
    <3> QED BY <1>1, <1>2, <1>3, <3>1, NoRowMissing, SMTT(30)
  <2> QED BY <1>3, <2>1
<1>4. CASE step = -1 /\ P[c.cursor].row # 0
  <2>1. PICK r \in Nat : r = P[c.cursor].row - 1 /\ r <= P[c.cursor].row
    BY <1>1, <1>4
  <2>2. PICK i \in 0..Len(c.text) : P[i].row = r
    BY <1>1, <2>1, NoRowMissing
  <2>3. P[i].row = P[c.cursor].row + step
    BY <1>1, <1>4, <2>1, <2>2
  <2> QED BY <1>2, <2>3
<1> QED BY <1>3, <1>4

-----------------------------------------------------------------------------
(* Editing and moving keep the cursor in the text *)

Fits(c) == InText(c) /\ Held(c)

LEMMA Parts ==
    ASSUME NEW t \in Seq(Chars), NEW i \in 0..Len(t), NEW j \in 0..Len(t), i <= j
    PROVE  /\ Before(t, i) \in Seq(Chars) /\ Len(Before(t, i)) = i
           /\ After(t, j) \in Seq(Chars) /\ Len(After(t, j)) = Len(t) - j
           /\ Before(t, i) \o After(t, j) \in Seq(Chars)
           /\ i \in 0..Len(Before(t, i) \o After(t, j))
<1>1. Before(t, i) \in Seq(Chars) /\ Len(Before(t, i)) = i
  BY DEF Before
<1>2. After(t, j) \in Seq(Chars) /\ Len(After(t, j)) = Len(t) - j
  BY DEF After
<1> QED BY <1>1, <1>2

LEMMA NewFits ==
    ASSUME NEW t \in Seq(Chars)
    PROVE  Fits(New(t)) /\ Fits(Empty)
BY DEF Fits, New, Empty, InText, Fields, Held

\* A field without a kept column.
LEMMA PlainFits ==
    ASSUME NEW t \in Seq(Chars), NEW i \in 0..Len(t), NEW a \in 0..Len(t) \cup {None}
    PROVE  Fits([text |-> t, cursor |-> i, anchor |-> a, preferred |-> None])
BY DEF Fits, InText, Fields, Held

LEMMA SelectAllFits ==
    ASSUME NEW c, Fits(c)
    PROVE  Fits(SelectAll(c))
<1>1. c \in Fields /\ Len(c.text) \in Nat
  BY DEF Fits, InText, Fields
<1>2. /\ SelectAll(c) \in Fields /\ SelectAll(c).text = c.text
      /\ SelectAll(c).cursor = Len(c.text) /\ SelectAll(c).anchor = 0
      /\ SelectAll(c).preferred = None
  BY <1>1 DEF SelectAll, Fields
<1> QED BY <1>1, <1>2 DEF Fits, InText, Held

LEMMA DeleteSelectionFits ==
    ASSUME NEW c, Fits(c)
    PROVE  Fits(DeleteSelection(c))
<1>1. c.text \in Seq(Chars) /\ c.cursor \in 0..Len(c.text) /\ Len(c.text) \in Nat
      /\ c.anchor \in 0..Len(c.text) \cup {None}
  BY DEF Fits, InText, Fields
<1>2. CASE Selected(c)
  <2>1. From(c) \in 0..Len(c.text) /\ Upto(c) \in 0..Len(c.text) /\ From(c) <= Upto(c)
    BY <1>1, <1>2 DEF Selected, From, Upto
  <2>2. /\ Before(c.text, From(c)) \o After(c.text, Upto(c)) \in Seq(Chars)
        /\ From(c) \in 0..Len(Before(c.text, From(c)) \o After(c.text, Upto(c)))
    BY <1>1, <2>1, Parts
  <2> QED BY <1>2, <2>1, <2>2, PlainFits DEF DeleteSelection
<1>3. CASE ~Selected(c)
  <2>1. DeleteSelection(c) = [c EXCEPT !.anchor = None]
    BY <1>3 DEF DeleteSelection
  <2> QED BY <2>1 DEF Fits, InText, Fields, Held
<1> QED BY <1>2, <1>3

LEMMA InsertFits ==
    ASSUME NEW c, Fits(c), NEW s \in Seq(Chars)
    PROVE  Fits(InsertText(c, s))
<1> DEFINE d == DeleteSelection(c)
           t == Before(d.text, d.cursor) \o s \o After(d.text, d.cursor)
<1>1. /\ Fits(d) /\ d \in Fields /\ d.text \in Seq(Chars) /\ d.cursor \in 0..Len(d.text)
      /\ d.anchor = None
  <2>1. Fits(d)
    BY DeleteSelectionFits
  <2>2. d.anchor = None
    BY DEF DeleteSelection, Fits, InText, Fields
  <2> HIDE DEF d
  <2> QED BY <2>1, <2>2 DEF Fits, InText, Fields
<1>2. InsertText(c, s) = [d EXCEPT !.text = t, !.cursor = d.cursor + Len(s), !.preferred = None]
  BY <1>1 DEF InsertText, Fields
<1> HIDE DEF d
<1>3. t \in Seq(Chars) /\ d.cursor + Len(s) \in 0..Len(t)
  <2>1. /\ Before(d.text, d.cursor) \in Seq(Chars) /\ Len(Before(d.text, d.cursor)) = d.cursor
        /\ After(d.text, d.cursor) \in Seq(Chars)
    BY <1>1, Parts
  <2>2. t \in Seq(Chars) /\ Len(t) = d.cursor + Len(s) + Len(After(d.text, d.cursor))
    BY <2>1, SMTT(30)
  <2> QED BY <1>1, <2>1, <2>2, SMTT(30)
<1> HIDE DEF t
<1>4. InsertText(c, s) = [text |-> t, cursor |-> d.cursor + Len(s), anchor |-> None, preferred |-> None]
  BY <1>1, <1>2 DEF Fields
<1> QED BY <1>3, <1>4, PlainFits

LEMMA WithoutFits ==
    ASSUME NEW c, Fits(c), NEW i \in 1..Len(c.text)
    PROVE  Fits(Without(c, i))
<1>1. c.text \in Seq(Chars) /\ i - 1 \in 0..Len(c.text) /\ i \in 0..Len(c.text) /\ i - 1 <= i
  BY DEF Fits, InText, Fields
<1>2. /\ Before(c.text, i - 1) \o After(c.text, i) \in Seq(Chars)
      /\ i - 1 \in 0..Len(Before(c.text, i - 1) \o After(c.text, i))
  BY <1>1, Parts
<1> QED BY <1>1, <1>2, PlainFits DEF Without

LEMMA EraseFits ==
    ASSUME NEW c, Fits(c)
    PROVE  Fits(Backspace(c)) /\ Fits(Delete(c))
<1>1. c.text \in Seq(Chars) /\ c.cursor \in 0..Len(c.text) /\ Len(c.text) \in Nat /\ c \in Fields
  BY DEF Fits, InText, Fields
<1>2. Fits([c EXCEPT !.anchor = None, !.preferred = None])
  BY DEF Fits, InText, Fields, Held
<1>3. c.cursor > 0 => Fits(Without(c, c.cursor))
  BY <1>1, WithoutFits
<1>4. c.cursor < Len(c.text) => Fits(Without(c, c.cursor + 1))
  BY <1>1, WithoutFits
<1> QED BY <1>2, <1>3, <1>4, DeleteSelectionFits DEF Backspace, Delete

LEMMA MoveFits ==
    ASSUME NEW c, Fits(c), NEW i \in 0..Len(c.text), NEW select \in BOOLEAN
    PROVE  Fits(MoveTo(c, i, select))
BY MoveToFits DEF Fits, Held

\* The nearest beginning and end of a line are in the text.
LEMMA LineFits ==
    ASSUME NEW c, Fits(c), NEW select \in BOOLEAN
    PROVE  Fits(Home(c, select)) /\ Fits(End(c, select))
<1> DEFINE t == c.text
           B(i) == (i = 0 \/ t[i] = Newline) /\ \A j \in (i + 1)..c.cursor : t[j] # Newline
           E(i) == (i = Len(t) \/ t[i + 1] = Newline) /\ \A j \in (c.cursor + 1)..i : t[j] # Newline
<1>1. t \in Seq(Chars) /\ c.cursor \in 0..Len(t) /\ Len(t) \in Nat /\ c.cursor \in Nat
  BY DEF Fits, InText, Fields
<1>2. \E i \in 0..c.cursor : B(i)
  <2> DEFINE S == {k \in 0..c.cursor : c.cursor - k = 0 \/ t[c.cursor - k] = Newline}
  <2>1. c.cursor \in S /\ S \subseteq Nat
    BY <1>1
  <2>2. PICK k \in S : \A m \in S : k <= m
    <3> HIDE DEF S
    <3> QED BY <2>1, LeastElement
  <2>3. c.cursor - k \in 0..c.cursor
    BY <1>1, <2>2
  <2>4. ASSUME NEW j \in (c.cursor - k + 1)..c.cursor, t[j] = Newline PROVE FALSE
    <3>1. c.cursor - j \in 0..c.cursor /\ c.cursor - (c.cursor - j) = j /\ c.cursor - j < k
      BY <1>1, <2>2
    <3>2. c.cursor - j \in S
      BY <2>4, <3>1
    <3> QED BY <2>2, <3>1, <3>2
  <2>5. B(c.cursor - k)
    BY <2>2, <2>4
  <2> QED BY <2>3, <2>5
<1>3. \E i \in c.cursor..Len(t) : E(i)
  <2> DEFINE S == {i \in c.cursor..Len(t) : i = Len(t) \/ t[i + 1] = Newline}
  <2>1. Len(t) \in S /\ S \subseteq Nat
    BY <1>1
  <2>2. PICK k \in S : \A m \in S : k <= m
    <3> HIDE DEF S
    <3> QED BY <2>1, LeastElement
  <2>3. ASSUME NEW j \in (c.cursor + 1)..k, t[j] = Newline PROVE FALSE
    <3>1. j - 1 \in c.cursor..Len(t) /\ (j - 1) + 1 = j /\ j - 1 < k
      BY <1>1, <2>2
    <3>2. j - 1 \in S
      BY <2>3, <3>1
    <3> QED BY <2>2, <3>1, <3>2
  <2>4. E(k)
    BY <2>2, <2>3
  <2> QED BY <2>2, <2>4
<1>4. \E i \in 0..Len(t) : Home(c, select) = MoveTo(c, i, select)
  <2>1. Home(c, select) = MoveTo(c, CHOOSE i \in 0..c.cursor : B(i), select)
    BY DEF Home
  <2>2. PICK k \in 0..c.cursor : k = CHOOSE i \in 0..c.cursor : B(i)
    <3> HIDE DEF B
    <3> QED BY <1>2
  <2>3. k \in 0..Len(t)
    BY <1>1
  <2> HIDE DEF B, t
  <2> QED BY <2>1, <2>2, <2>3
<1>5. \E i \in 0..Len(t) : End(c, select) = MoveTo(c, i, select)
  <2>1. End(c, select) = MoveTo(c, CHOOSE i \in c.cursor..Len(t) : E(i), select)
    BY DEF End
  <2>2. PICK k \in c.cursor..Len(t) : k = CHOOSE i \in c.cursor..Len(t) : E(i)
    <3> HIDE DEF E
    <3> QED BY <1>3
  <2>3. k \in 0..Len(t)
    BY <1>1
  <2> HIDE DEF E, t
  <2> QED BY <2>1, <2>2, <2>3
<1> QED BY <1>4, <1>5, MoveFits

LEMMA SideFits ==
    ASSUME NEW c, Fits(c), NEW select \in BOOLEAN
    PROVE  Fits(Left(c, select)) /\ Fits(Right(c, select))
<1>1. /\ c.cursor \in 0..Len(c.text) /\ Len(c.text) \in Nat
      /\ c.anchor \in 0..Len(c.text) \cup {None}
  BY DEF Fits, InText, Fields
<1>2. Selected(c) => From(c) \in 0..Len(c.text) /\ Upto(c) \in 0..Len(c.text)
  BY <1>1 DEF Selected, From, Upto
<1>3. /\ (IF c.cursor > 0 THEN c.cursor - 1 ELSE 0) \in 0..Len(c.text)
      /\ (IF c.cursor < Len(c.text) THEN c.cursor + 1 ELSE c.cursor) \in 0..Len(c.text)
  BY <1>1
<1>4. Fits(Left(c, select))
  BY <1>2, <1>3, MoveFits DEF Left
<1>5. Fits(Right(c, select))
  BY <1>2, <1>3, MoveFits DEF Right
<1> QED BY <1>4, <1>5

-----------------------------------------------------------------------------
(* The prompt history *)

\* The history and the position in it, with the draft that coming back shows.
History ==
    /\ prompt_history \in Seq(Prompts)
    /\ last_user = LastOr(prompt_history)
    /\ Distinct(prompt_history)

Recalling ==
    /\ history_index \in 1..Len(prompt_history) \cup {None}
    /\ history_index # None => draft = typed

IInv == History /\ Recalling

\* A history of the proxy.
LEMMA Loaded ==
    ASSUME NEW h \in Histories, SessionChanged(h)
    PROVE  History' /\ Recalling'
BY TuiInputAssumption DEF SessionChanged, History, Recalling, Leave

LEMMA NewestIsLast ==
    ASSUME NEW p \in Prompts, NEW h \in Seq(Prompts), Distinct(h)
    PROVE  /\ LastOr(Append(h, p)) = p
           /\ LastOr(h) # p => Distinct(Append(h, p))
<1>1. Append(h, p) \in Seq(Prompts) /\ Len(Append(h, p)) = Len(h) + 1
  OBVIOUS
<1>2. Append(h, p)[Len(h) + 1] = p /\ \A i \in 1..Len(h) : Append(h, p)[i] = h[i]
  OBVIOUS
<1>3. LastOr(Append(h, p)) = p
  BY <1>1, <1>2 DEF LastOr
<1>4. ASSUME LastOr(h) # p PROVE Distinct(Append(h, p))
  <2> SUFFICES ASSUME NEW i \in 1..Len(h)
               PROVE  Append(h, p)[i] # Append(h, p)[i + 1]
    BY <1>1 DEF Distinct
  <2>1. CASE i = Len(h)
    BY <2>1, <1>2, <1>4 DEF LastOr
  <2>2. CASE i < Len(h)
    BY <2>2, <1>2 DEF Distinct
  <2> QED BY <2>1, <2>2
<1> QED BY <1>3, <1>4

LEMMA Started ==
    ASSUME NEW p, Start(p), History
    PROVE  History' /\ Recalling'
<1>1. p \in Prompts /\ last_user' = p /\ history_index' = None
  BY DEF Start, Leave
<1>2. CASE LastOr(prompt_history) = p
  <2>1. prompt_history' = prompt_history
    BY <1>2 DEF Start, Remember
  <2> QED BY <1>1, <1>2, <2>1 DEF History, Recalling
<1>3. CASE LastOr(prompt_history) # p
  <2>1. prompt_history' = Append(prompt_history, p)
    BY <1>3 DEF Start, Remember
  <2>2. prompt_history' \in Seq(Prompts)
    BY <2>1, <1>1 DEF History
  <2> QED BY <1>1, <1>3, <2>1, <2>2, NewestIsLast DEF History, Recalling
<1> QED BY <1>2, <1>3

LEMMA Recalled ==
    ASSUME IInv, NEW step, NEW select, UpOrDown(step, select)
    PROVE  IInv'
<1>1. History'
  BY DEF UpOrDown, IInv, History, chatVars
<1>2. prompt_history' = prompt_history /\ Len(prompt_history) \in Nat
  BY DEF UpOrDown, IInv, History
<1>3. CASE UNCHANGED navVars
  BY <1>1, <1>2, <1>3 DEF navVars, IInv, Recalling
<1>4. CASE HistoryOlder
  <2>1. Len(prompt_history) > 0
    BY <1>4 DEF HistoryOlder, IInv, History
  <2>2. history_index' \in 1..Len(prompt_history)
    BY <1>2, <1>4, <2>1, ComposerAssumption DEF HistoryOlder, Show, IInv, Recalling
  <2>3. draft' = typed'
    BY <1>4 DEF HistoryOlder, IInv, Recalling
  <2> QED BY <1>1, <1>2, <2>2, <2>3 DEF IInv, Recalling
<1>5. CASE HistoryNewer
  BY <1>1, <1>2, <1>5 DEF HistoryNewer, Show, IInv, Recalling
<1> QED BY <1>1, <1>3, <1>4, <1>5 DEF UpOrDown, IInv

\* What the other actions are for the prompt history: a request, a session, or
\* nothing but leaving it.
Keeps == UNCHANGED <<prompt_history, last_user>> /\ (UNCHANGED navVars \/ Leave)

LEMMA Kept == ASSUME IInv, Keeps PROVE IInv'
BY DEF IInv, Keeps, History, Recalling, Leave, navVars

LEMMA Commanded ==
    ASSUME NEW c, Command(c)
    PROVE  Keeps \/ (\E h \in Histories : SessionChanged(h)) \/ (\E p \in Prompts : Start(p))
<1>1. CASE ToSession
  BY <1>1 DEF ToSession
<1>2. CASE Retry
  BY <1>2 DEF Retry, Start
<1>3. CASE EditLast
  BY <1>3 DEF EditLast, Keeps
<1>4. CASE UNCHANGED <<prompt_history, navVars, chatVars>>
  BY <1>4 DEF Keeps, chatVars
<1> QED BY <1>1, <1>2, <1>3, <1>4 DEF Command

LEMMA Steps ==
    ASSUME [Next]_vars
    PROVE  \/ Keeps
           \/ \E h \in Histories : SessionChanged(h)
           \/ \E p \in Prompts : Start(p)
           \/ \E step \in {-1, 1}, select \in BOOLEAN : UpOrDown(step, select)
<1>1. ASSUME NEW c, Field(c) PROVE Keeps
  BY <1>1 DEF Field, Keeps, chatVars
<1>2. ASSUME NEW s, Insert(s) PROVE Keeps
  BY <1>1, <1>2 DEF Insert
<1>3. CASE Erase \/ Cut
  BY <1>1, <1>3 DEF Erase, Cut
<1>4. CASE Select
  BY <1>4 DEF Select, Keeps, chatVars
<1>5. ASSUME NEW select, Move(select) PROVE Keeps
  BY <1>1, <1>5 DEF Move
<1>6. CASE Submit
  BY <1>6 DEF Submit, Start
<1>7. CASE SubmitCommand
  BY <1>7, Commanded DEF SubmitCommand
<1>8. CASE Shortcut
  <2>1. CASE ToSession
    BY <2>1 DEF ToSession
  <2>2. CASE Retry
    BY <2>2 DEF Retry, Start
  <2>3. CASE EditLast
    BY <2>3 DEF EditLast, Keeps
  <2>4. CASE UNCHANGED <<prompt_history, navVars, chatVars>>
    BY <2>4 DEF Keeps, chatVars
  <2> QED BY <1>8, <2>1, <2>2, <2>3, <2>4 DEF Shortcut
<1>9. CASE Ends
  BY <1>9 DEF Ends, Keeps
<1>10. CASE CloseModal \/ ModalInput
  BY <1>10 DEF CloseModal, ModalInput, Keeps, chatVars
<1>11. CASE Confirm
  <2>1. CASE \E h \in Histories : SessionChanged(h)
    BY <2>1
  <2>2. CASE SessionChanged(<<>>)
    BY <2>2, TuiInputAssumption
  <2>3. CASE UNCHANGED <<prompt_history, navVars, chatVars>>
    BY <2>3 DEF Keeps, chatVars
  <2> QED BY <1>11, <2>1, <2>2, <2>3 DEF Confirm, DeleteSession, ToOther, ToSession, Refused
<1>12. CASE ModalSubmit
  <2>1. CASE \E h \in Histories : SessionChanged(h)
    BY <2>1
  <2>2. CASE UNCHANGED <<prompt_history, navVars, chatVars>>
    BY <2>2 DEF Keeps, chatVars
  <2> QED BY <1>12, <2>1, <2>2 DEF ModalSubmit, ToOther, ToSession, Refused, SelectModel
<1>13. CASE UNCHANGED vars
  BY <1>13 DEF vars, Keeps, chatVars
<1> QED BY <1>2, <1>3, <1>4, <1>5, <1>6, <1>7, <1>8, <1>9, <1>10, <1>11, <1>12, <1>13 DEF Next

LEMMA Initially == Init => IInv
BY TuiInputAssumption DEF Init, IInv, History, Recalling

LEMMA Inductive == IInv /\ [Next]_vars => IInv'
BY Steps, Kept, Loaded, Started, Recalled DEF IInv

\* The prompt history ends in the prompt that retry and edit use, in every
\* client with any sessions.
THEOREM HistoryCorrect == Spec => []HistoryEndsInLast
<1>1. IInv => HistoryEndsInLast
  BY DEF IInv, History, HistoryEndsInLast
<1> QED BY Initially, Inductive, <1>1, PTL DEF Spec

\* Whatever is recalled in between, what was typed comes back.
THEOREM DraftCorrect == Spec => DraftComesBack
<1>1. ASSUME IInv, NEW select, UpOrDown(1, select), history_index # None, history_index' = None
      PROVE  composer'.text = typed
  <2>1. draft = typed
    BY <1>1 DEF IInv, Recalling
  <2>2. HistoryNewer
    BY <1>1, 1 # -1 DEF UpOrDown, navVars, HistoryOlder
  <2>3. composer' = New(draft)
    <3>1. history_index \in Nat /\ history_index + 1 # None
      BY <1>1, ComposerAssumption DEF IInv, History, Recalling
    <3> QED BY <1>1, <2>2, <3>1 DEF HistoryNewer, Show
  <2> QED BY <2>1, <2>3 DEF New
<1>2. IInv /\ [Next]_vars =>
        [(\E select \in BOOLEAN : UpOrDown(1, select)) /\ history_index # None /\ history_index' = None
            => composer'.text = typed]_vars
  BY <1>1
<1> QED BY Initially, Inductive, <1>2, PTL DEF Spec, DraftComesBack


\* What a command does to the dialogs.
LEMMA CommandDialogs ==
    ASSUME NEW c, Command(c), InChat
    PROVE  /\ modal_input' \in {modal_input, "empty"}
           /\ state' = "quit" => ~busy /\ ~unsaved
<1>1. CASE \E h \in Histories : SessionChanged(h)
  BY <1>1 DEF SessionChanged, InChat
<1>2. CASE Retry \/ EditLast
  BY <1>2 DEF Retry, EditLast, InChat
<1>3. CASE QuitRequested
  BY <1>3 DEF QuitRequested, Set, InChat
<1>4. CASE \/ Fail
           \/ \E d \in {"info", "sessions", "models", "search", "delete", "clear"} : Set(d)
           \/ \E d \in {"projects", "key"} : Open(d)
  BY <1>4 DEF Fail, Set, Open, InChat
<1>5. CASE UNCHANGED <<modal, modal_input, state>>
  BY <1>5 DEF InChat
<1> QED BY <1>1, <1>2, <1>3, <1>4, <1>5 DEF Command, ToSession

\* A step leaves the dialogs and the state alone, starts in the chat, or is a
\* key of a dialog.
ChatStep ==
    /\ InChat /\ modal_input' \in {modal_input, "empty"}
    /\ state' = "quit" => ~busy /\ ~unsaved

LEMMA DialogSteps ==
    ASSUME [Next]_vars
    PROVE  \/ UNCHANGED <<modal, modal_input, state>>
           \/ ChatStep
           \/ CloseModal \/ ModalInput \/ Confirm \/ ModalSubmit
<1>1. ASSUME NEW c, Field(c) PROVE UNCHANGED <<modal, modal_input, state>>
  BY <1>1 DEF Field
<1>2. ASSUME NEW s, Insert(s) PROVE UNCHANGED <<modal, modal_input, state>>
  BY <1>1, <1>2 DEF Insert
<1>3. CASE Erase \/ Cut
  BY <1>1, <1>3 DEF Erase, Cut
<1>4. CASE Select \/ Submit \/ Ends
  BY <1>4 DEF Select, Submit, Ends
<1>5. ASSUME NEW select, Move(select) PROVE UNCHANGED <<modal, modal_input, state>>
  BY <1>1, <1>5 DEF Move
<1>6. ASSUME NEW step, NEW select, UpOrDown(step, select)
      PROVE  UNCHANGED <<modal, modal_input, state>>
  BY <1>6 DEF UpOrDown
<1>7. CASE SubmitCommand
  BY <1>7, CommandDialogs DEF SubmitCommand, ChatStep
<1>8. CASE Shortcut
  <2>1. CASE \E h \in Histories : SessionChanged(h)
    BY <1>8, <2>1 DEF SessionChanged, InChat, ChatStep, Shortcut
  <2>2. CASE Retry \/ EditLast
    BY <2>2 DEF Retry, EditLast
  <2>3. CASE QuitRequested
    BY <1>8, <2>3 DEF QuitRequested, Set, InChat, ChatStep, Shortcut
  <2>4. CASE \/ \E d \in {"info", "search", "projects"} : Open(d)
             \/ \E d \in {"sessions", "models", "info"} : Set(d)
    BY <1>8, <2>4 DEF Set, Open, InChat, ChatStep, Shortcut
  <2> QED BY <1>8, <2>1, <2>2, <2>3, <2>4 DEF Shortcut, ToSession
<1>9. CASE UNCHANGED vars
  BY <1>9 DEF vars
<1> QED BY <1>2, <1>3, <1>4, <1>5, <1>6, <1>7, <1>8, <1>9 DEF Next

\* No key is left in the line of a dialog that is closed or replaced.
THEOREM KeyCorrect == Spec => []KeyStaysInDialog
<1>1. Init => KeyStaysInDialog
  BY DEF Init, KeyStaysInDialog
<1>2. ASSUME KeyStaysInDialog, [Next]_vars PROVE KeyStaysInDialog'
  <2>1. CASE UNCHANGED <<modal, modal_input, state>>
    BY <1>2, <2>1 DEF KeyStaysInDialog
  <2>2. CASE ChatStep
    BY <1>2, <2>2, TuiInputAssumption DEF KeyStaysInDialog, ChatStep, InChat, Dialogs
  <2>3. CASE CloseModal
    BY <2>3 DEF CloseModal, Open, KeyStaysInDialog
  <2>4. CASE ModalInput
    BY <1>2, <2>4 DEF ModalInput, KeyStaysInDialog
  <2>5. CASE Confirm
    <3>1. modal_input # "key" /\ modal_input' = modal_input
      BY <1>2, <2>5 DEF KeyStaysInDialog, Confirm, DeleteSession, ToOther, ToSession, SessionChanged,
                        Fail, Refused, Set
    <3> QED BY <3>1 DEF KeyStaysInDialog
  <2>6. CASE ModalSubmit
    <3>1. CASE modal = "key"
      BY <2>6, <3>1 DEF ModalSubmit, Open, KeyStaysInDialog
    <3>2. CASE modal # "key"
      BY <1>2, <2>6, <3>2 DEF KeyStaysInDialog, ModalSubmit, SelectModel, ToOther, ToSession,
                        SessionChanged, Fail, Refused, Set, Open
    <3> QED BY <3>1, <3>2
  <2> QED BY <1>2, <2>1, <2>2, <2>3, <2>4, <2>5, <2>6, DialogSteps
<1> QED BY <1>1, <1>2, PTL DEF Spec

\* The confirmation is the only way to quit with something to lose.
THEOREM QuitCorrect == Spec => QuitConfirmed
<1>1. ASSUME [Next]_vars
      PROVE  [state = "running" /\ state' = "quit" /\ (busy \/ unsaved) => modal = "quit"]_vars
  <2> SUFFICES ASSUME state = "running", state' = "quit", busy \/ unsaved
               PROVE  modal = "quit"
    OBVIOUS
  <2>1. CASE CloseModal \/ ModalInput
    BY <2>1 DEF CloseModal, ModalInput, Open
  <2>2. CASE Confirm
    BY <2>2 DEF Confirm, DeleteSession, ToOther, ToSession, SessionChanged, Fail, Refused, Set
  <2>3. CASE ModalSubmit
    BY <2>3 DEF ModalSubmit, SelectModel, ToOther, ToSession, SessionChanged, Fail, Refused, Set, Open
  <2> QED BY <1>1, <2>1, <2>2, <2>3, DialogSteps DEF ChatStep
<1> QED BY <1>1, PTL DEF Spec, QuitConfirmed

-----------------------------------------------------------------------------
(* Types, and vertical moves *)

\* A recalled prompt, and the prompts of retry and edit, are texts.
LEMMA PromptsAreTexts ==
    ASSUME IInv
    PROVE  /\ \A i \in 1..Len(prompt_history) : prompt_history[i] \in Seq(Chars)
           /\ last_user \in Prompts \cup {None}
           /\ Prompts \subseteq Seq(Chars)
<1>1. prompt_history \in Seq(Prompts) /\ last_user = LastOr(prompt_history) /\ Prompts \subseteq Seq(Chars)
  BY TuiInputAssumption DEF IInv, History
<1>2. last_user \in Prompts \cup {None}
  BY <1>1 DEF LastOr
<1> QED BY <1>1, <1>2

\* What recalling keeps beside the composer.
Drafts == IF history_index = None THEN draft = None /\ typed = None
          ELSE draft \in Seq(Chars) /\ typed \in Seq(Chars)

LEMMA RecallFits ==
    ASSUME IInv, Drafts, Fits(composer), NEW step \in {-1, 1}, NEW select \in BOOLEAN,
           UpOrDown(step, select)
    PROVE  Fits(composer') /\ Drafts'
<1>1. composer.text \in Seq(Chars) /\ None \notin Nat
  BY ComposerAssumption DEF Fits, InText, Fields
<1>2. CASE CanMove(composer, step) /\ composer' = Vertical(composer, step, select) /\ UNCHANGED navVars
  <2>1. Fits(composer')
    BY <1>2, VerticalFits DEF Fits
  <2> QED BY <1>2, <2>1 DEF navVars, Drafts
<1>3. CASE HistoryOlder
  <2>1. PICK i \in 1..Len(prompt_history) : Show(prompt_history[i], i)
    <3>1. Len(prompt_history) \in Nat /\ Len(prompt_history) # 0
      BY <1>3 DEF HistoryOlder, IInv, History
    <3> QED BY <1>1, <1>3, <3>1 DEF HistoryOlder, IInv, Recalling
  <2>2. Fits(composer')
    BY <2>1, PromptsAreTexts, NewFits DEF Show
  <2>3. history_index' # None
    BY <1>1, <2>1 DEF Show
  <2> QED BY <1>1, <1>3, <2>2, <2>3 DEF HistoryOlder, Drafts
<1>4. CASE HistoryNewer
  <2>1. history_index \in 1..Len(prompt_history) /\ Len(prompt_history) \in Nat
    BY <1>4 DEF HistoryNewer, IInv, Recalling, History
  <2>2. CASE history_index < Len(prompt_history)
    <3>1. /\ Show(prompt_history[history_index + 1], history_index + 1) /\ UNCHANGED <<draft, typed>>
          /\ history_index + 1 \in 1..Len(prompt_history)
      BY <1>4, <2>1, <2>2 DEF HistoryNewer
    <3>2. Fits(composer')
      BY <3>1, PromptsAreTexts, NewFits DEF Show
    <3> QED BY <1>1, <2>1, <3>1, <3>2 DEF Drafts, Show
  <2>3. CASE ~(history_index < Len(prompt_history))
    <3>1. Show(draft, None) /\ draft' = None /\ typed' = None
      BY <1>4, <2>3 DEF HistoryNewer
    <3>2. draft \in Seq(Chars)
      BY <1>4 DEF HistoryNewer, Drafts
    <3> QED BY <3>1, <3>2, NewFits DEF Show, Drafts
  <2> QED BY <2>2, <2>3
<1> QED BY <1>2, <1>3, <1>4 DEF UpOrDown

\* What the other actions do to the composer and to what recalling keeps.
Composed == Fits(composer') /\ (UNCHANGED navVars \/ Leave)

LEMMA EmptyFits == Fits(Empty)
<1>1. <<>> \in Seq(Chars)
  OBVIOUS
<1> QED BY <1>1, NewFits DEF Empty

LEMMA ComposedDrafts == ASSUME Drafts, Composed PROVE Drafts'
BY DEF Composed, Drafts, Leave, navVars

LEMMA SentComposes ==
    ASSUME IInv, Fits(composer), Retry \/ EditLast, Retry => composer' = composer \/ composer' = Empty
    PROVE  Composed
<1>1. CASE Retry
  BY <1>1, EmptyFits DEF Retry, Start, Composed
<1>2. CASE EditLast
  <2>1. last_user \in Seq(Chars)
    BY <1>2, PromptsAreTexts DEF EditLast
  <2> QED BY <1>2, <2>1, NewFits DEF EditLast, Composed
<1> QED BY <1>1, <1>2

LEMMA ChangedComposes ==
    ASSUME NEW h, SessionChanged(h)
    PROVE  Composed
BY EmptyFits DEF SessionChanged, Composed

LEMMA CommandComposes ==
    ASSUME IInv, Fits(composer), Command(Empty)
    PROVE  Composed
<1>1. CASE ToSession
  BY <1>1, ChangedComposes DEF ToSession
<1>2. CASE Retry /\ composer' = Empty
  BY <1>2, SentComposes
<1>3. CASE EditLast
  BY <1>3, SentComposes DEF Retry, EditLast, Start, Leave
<1>4. CASE composer' = Empty /\ UNCHANGED navVars
  BY <1>4, EmptyFits DEF Composed
<1> QED BY <1>1, <1>2, <1>3, <1>4 DEF Command

LEMMA ComposerNext ==
    ASSUME IInv, Drafts, Fits(composer), [Next]_vars
    PROVE  Fits(composer') /\ Drafts'
<1>0. CASE \E step \in {-1, 1}, select \in BOOLEAN : UpOrDown(step, select)
  BY <1>0, RecallFits
<1> SUFFICES ASSUME ~(\E step \in {-1, 1}, select \in BOOLEAN : UpOrDown(step, select))
             PROVE  Composed
  BY <1>0, ComposedDrafts DEF Composed
<1>1. ASSUME NEW c, Fits(c), Field(c) PROVE Composed
  BY <1>1 DEF Field, Composed
<1>2. ASSUME NEW s \in Seq(Chars), Insert(s) PROVE Composed
  BY <1>1, <1>2, InsertFits DEF Insert
<1>3. CASE Erase \/ Cut
  BY <1>1, <1>3, EraseFits, DeleteSelectionFits DEF Erase, Cut
<1>4. CASE Select
  BY <1>4, SelectAllFits DEF Select, Composed
<1>5. ASSUME NEW select \in BOOLEAN, Move(select) PROVE Composed
  BY <1>1, <1>5, SideFits, LineFits DEF Move
<1>6. CASE Submit
  BY <1>6, EmptyFits DEF Submit, Start, Composed
<1>7. CASE SubmitCommand
  BY <1>7, CommandComposes DEF SubmitCommand
<1>8. CASE Shortcut
  <2>1. CASE ToSession
    BY <2>1, ChangedComposes DEF ToSession
  <2>2. CASE Retry /\ UNCHANGED composer
    BY <2>2, SentComposes
  <2>3. CASE EditLast
    BY <2>3, SentComposes DEF Retry, EditLast, Start, Leave
  <2>4. CASE UNCHANGED <<composer, navVars>>
    BY <2>4 DEF navVars, Composed
  <2> QED BY <1>8, <2>1, <2>2, <2>3, <2>4 DEF Shortcut
<1>9. CASE Ends \/ CloseModal \/ ModalInput \/ UNCHANGED vars
  BY <1>9 DEF Ends, CloseModal, ModalInput, vars, navVars, Composed
<1>10. CASE Confirm \/ ModalSubmit
  <2>1. CASE \E h : SessionChanged(h)
    BY <2>1, ChangedComposes
  <2>2. CASE UNCHANGED <<composer, navVars>>
    BY <2>2 DEF navVars, Composed
  <2> QED BY <1>10, <2>1, <2>2 DEF Confirm, DeleteSession, ToOther, ToSession, Refused, ModalSubmit,
                                   SelectModel
<1>11. ASSUME NEW ch \in Chars PROVE <<ch>> \in Seq(Chars)
  OBVIOUS
<1> QED BY <1>2, <1>3, <1>4, <1>5, <1>6, <1>7, <1>8, <1>9, <1>10, <1>11, TuiInputAssumption DEF Next

\* The flags, the dialogs and their line.
Flags ==
    /\ busy \in BOOLEAN /\ unsaved \in BOOLEAN
    /\ modal \in Dialogs \cup {None} /\ modal_input \in {"empty", "text", "key"}
    /\ state \in {"running", "quit", "failed"}

LEMMA FlagsNext == Flags /\ [Next]_vars => Flags'
<1> SUFFICES ASSUME Flags, [Next]_vars PROVE Flags'
  OBVIOUS
<1> USE DEF Flags, chatVars
<1>1. ASSUME NEW c, Field(c) PROVE Flags'
  BY <1>1 DEF Field
<1>2. ASSUME NEW s, Insert(s) PROVE Flags'
  BY <1>1, <1>2 DEF Insert
<1>3. CASE Erase \/ Cut \/ Select
  BY <1>1, <1>3 DEF Erase, Cut, Select
<1>4. ASSUME NEW select, Move(select) PROVE Flags'
  BY <1>1, <1>4 DEF Move
<1>5. ASSUME NEW step, NEW select, UpOrDown(step, select) PROVE Flags'
  BY <1>5 DEF UpOrDown
<1>6. CASE Submit \/ Ends
  BY <1>6 DEF Submit, Ends, Start
<1>7. CASE Retry \/ EditLast
  BY <1>7 DEF Retry, EditLast, Start
<1>8. ASSUME NEW h, SessionChanged(h) PROVE Flags'
  BY <1>8 DEF SessionChanged
<1>9. ASSUME NEW d \in Dialogs \cup {None}, Set(d) \/ Open(d), UNCHANGED <<busy, unsaved>>
      PROVE  Flags'
  BY <1>9 DEF Set, Open
<1>10. CASE (Fail \/ QuitRequested) /\ UNCHANGED <<busy, unsaved>>
  BY <1>10 DEF Fail, QuitRequested, Set, Dialogs
<1>11. CASE UNCHANGED <<busy, unsaved, modal, modal_input, state>>
  BY <1>11
<1>12. CASE SubmitCommand \/ Shortcut
  BY <1>12, <1>7, <1>8, <1>9, <1>10, <1>11
     DEF SubmitCommand, Shortcut, Command, ToSession, Dialogs
<1>13. CASE CloseModal \/ ModalInput
  BY <1>13, <1>9 DEF CloseModal, ModalInput
<1>14. CASE Confirm
  <2>1. CASE modal = "quit" /\ state' = "quit" /\ modal' = None /\ UNCHANGED <<chatVars, modal_input>>
    BY <2>1
  <2> QED BY <1>14, <2>1, <1>8, <1>9, <1>10 DEF Confirm, DeleteSession, ToOther, ToSession, Refused, Dialogs
<1>15. CASE ModalSubmit
  BY <1>15, <1>8, <1>9, <1>10 DEF ModalSubmit, ToOther, ToSession, Refused, SelectModel, Dialogs
<1> QED BY <1>2, <1>3, <1>4, <1>5, <1>6, <1>11, <1>12, <1>13, <1>14, <1>15 DEF Next, vars

TInv == IInv /\ Drafts /\ Fits(composer) /\ Flags

LEMMA TypesInductive ==
    /\ Init => TInv
    /\ TInv /\ [Next]_vars => TInv'
<1>1. Init => TInv
  BY Initially, EmptyFits DEF Init, TInv, Drafts, Flags
<1>2. TInv /\ [Next]_vars => TInv'
  BY Inductive, ComposerNext, FlagsNext DEF TInv
<1> QED BY <1>1, <1>2

\* TypeOK: the cursor and the anchor stay in the text, the kept column in the
\* field and the recalled position in the prompt history, whatever is typed,
\* pasted, selected, recalled and sent (Composer, App::update).
THEOREM TypeCorrect == Spec => []TypeOK
<1>1. TInv => TypeOK
  BY PromptsAreTexts DEF TInv, TypeOK, IInv, History, Recalling, Drafts, Flags, Fits, InText, Fields
<1> QED BY <1>1, TypesInductive, PTL DEF Spec

\* VerticalMoves: in every text, wrapped to every width, Up and Down turn to the
\* prompt history on the first and the last row only, and one takes the other
\* back (Composer::move_vertical, cursor_positions).
THEOREM VerticalCorrect == Spec => []VerticalMoves
<1>1. TInv => VerticalMoves
  BY VerticalBack, NoMove DEF TInv, Fits, VerticalMoves, Row
<1> QED BY <1>1, TypesInductive, PTL DEF Spec
=============================================================================
