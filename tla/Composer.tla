------------------------------- MODULE Composer -------------------------------
(***************************************************************************)
(* The text field of the terminal client (src/src/tui/composer.rs): a text *)
(* with a cursor between its characters, a selection from an anchor to the *)
(* cursor, and the column that vertical moves keep.  The operators return  *)
(* the field after an operation.                                           *)
(*                                                                         *)
(* A character is a model value; what is told apart is whether it breaks   *)
(* the line and whether it takes two columns.                              *)
(***************************************************************************)
EXTENDS Integers, Sequences

CONSTANTS
    Chars,    \* the characters
    Newline,  \* the one that breaks the line
    Wide,     \* those of two columns
    Width,    \* columns of the field
    None

\* A field is never narrower than a wide character and the cursor after it:
\* nothing is drawn on a terminal of less than 32 columns (view.rs:22).
ASSUME ComposerAssumption ==
    /\ Newline \in Chars /\ Wide \subseteq Chars \ {Newline}
    /\ Width \in Nat /\ Width > 2
    /\ None \notin Int

New(t) == [text |-> t, cursor |-> Len(t), anchor |-> None, preferred |-> None]
Empty  == New(<<>>)

\* Composer::is_empty
Blank(t) == \A i \in DOMAIN t : t[i] = Newline

Selected(c) == c.anchor # None /\ c.anchor # c.cursor
From(c)     == IF c.anchor < c.cursor THEN c.anchor ELSE c.cursor
Upto(c)     == IF c.anchor < c.cursor THEN c.cursor ELSE c.anchor

Before(t, i) == SubSeq(t, 1, i)
After(t, i)  == SubSeq(t, i + 1, Len(t))

SelectAll(c) == [c EXCEPT !.anchor = 0, !.cursor = Len(c.text), !.preferred = None]

-----------------------------------------------------------------------------
(* Editing *)

\* Mutant: the anchor of a selection outlives the selection.
DeleteSelection_Anchor(c) ==
    IF Selected(c)
    THEN [text |-> Before(c.text, From(c)) \o After(c.text, Upto(c)),
          cursor |-> From(c), anchor |-> c.anchor, preferred |-> None]
    ELSE c

\* Without a selection only an anchor at the cursor goes.
DeleteSelection(c) ==
    IF Selected(c)
    THEN [text |-> Before(c.text, From(c)) \o After(c.text, Upto(c)),
          cursor |-> From(c), anchor |-> None, preferred |-> None]
    ELSE [c EXCEPT !.anchor = None]

InsertText(c, s) ==
    LET d == DeleteSelection(c)
    IN  [d EXCEPT !.text = Before(@, d.cursor) \o s \o After(@, d.cursor),
                  !.cursor = @ + Len(s), !.preferred = None]

\* The character that ends at position i goes.
Without(c, i) ==
    [text |-> Before(c.text, i - 1) \o After(c.text, i),
     cursor |-> i - 1, anchor |-> None, preferred |-> None]

Backspace(c) ==
    IF Selected(c) THEN DeleteSelection(c)
    ELSE IF c.cursor > 0 THEN Without(c, c.cursor)
    ELSE [c EXCEPT !.anchor = None, !.preferred = None]

Delete(c) ==
    IF Selected(c) THEN DeleteSelection(c)
    ELSE IF c.cursor < Len(c.text) THEN Without(c, c.cursor + 1)
    ELSE [c EXCEPT !.anchor = None, !.preferred = None]

-----------------------------------------------------------------------------
(* Moving *)

\* prepare_selection, the move to position i, finish_selection.
MoveTo(c, i, select) ==
    LET a == IF c.anchor = None THEN c.cursor ELSE c.anchor
    IN  [c EXCEPT !.cursor = i,
                  !.anchor = IF select /\ a # i THEN a ELSE None,
                  !.preferred = None]

\* Without `select`, Left and Right leave a selection at its end.
Left(c, select) ==
    IF ~select /\ Selected(c) THEN MoveTo(c, From(c), FALSE)
    ELSE MoveTo(c, IF c.cursor > 0 THEN c.cursor - 1 ELSE 0, select)

Right(c, select) ==
    IF ~select /\ Selected(c) THEN MoveTo(c, Upto(c), FALSE)
    ELSE MoveTo(c, IF c.cursor < Len(c.text) THEN c.cursor + 1 ELSE c.cursor, select)

\* The nearest beginning and end of a line.
Home(c, select) ==
    MoveTo(c, CHOOSE i \in 0..c.cursor :
                 /\ i = 0 \/ c.text[i] = Newline
                 /\ \A j \in (i + 1)..c.cursor : c.text[j] # Newline, select)

End(c, select) ==
    MoveTo(c, CHOOSE i \in c.cursor..Len(c.text) :
                 /\ i = Len(c.text) \/ c.text[i + 1] = Newline
                 /\ \A j \in (c.cursor + 1)..i : c.text[j] # Newline, select)

\* The position after the character ch, from the one before it: a character that
\* does not fit goes to the next row, and a full row is left at once.
Advance(p, ch) ==
    LET w == IF ch \in Wide THEN 2 ELSE 1
        q == IF p.col + w > Width THEN [row |-> p.row + 1, col |-> w]
             ELSE [row |-> p.row, col |-> p.col + w]
    IN  IF ch = Newline \/ q.col >= Width THEN [row |-> q.row + 1, col |-> 0] ELSE q

\* cursor_positions: row and column of every position of the text.
Positions(t) ==
    LET pos[i \in 0..Len(t)] ==
          IF i = 0 THEN [row |-> 0, col |-> 0] ELSE Advance(pos[i - 1], t[i])
    IN  pos

Distance(m, n) == IF m < n THEN n - m ELSE m - n

\* The positions of the next row up or down, as the text is wrapped.
NextRow(pos, i, step) == {j \in DOMAIN pos : pos[j].row = pos[i].row + step}

CanMove(c, step) == NextRow(Positions(c.text), c.cursor, step) # {}

\* The column that a vertical move aims at, and where it comes to: the first
\* of the positions of the next row that are nearest to it.
Column(pos, c) == IF c.preferred = None THEN pos[c.cursor].col ELSE c.preferred

Landing(pos, c, step) ==
    LET row   == NextRow(pos, c.cursor, step)
        Off(i) == Distance(pos[i].col, Column(pos, c))
    IN  CHOOSE i \in row : \A j \in row : Off(i) < Off(j) \/ (Off(i) = Off(j) /\ i <= j)

\* Mutant: the column of the new row is kept instead.
Vertical_Drift(c, step, select) ==
    LET pos == Positions(c.text)
        i   == Landing(pos, c, step)
    IN  [MoveTo(c, i, select) EXCEPT !.preferred = pos[i].col]

\* move_vertical, where the next row is.
Vertical(c, step, select) ==
    LET pos == Positions(c.text)
    IN  [MoveTo(c, Landing(pos, c, step), select) EXCEPT !.preferred = Column(pos, c)]

=============================================================================
