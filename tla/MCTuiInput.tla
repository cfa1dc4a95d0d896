------------------------------ MODULE MCTuiInput ------------------------------
(* Instances of TuiInput for TLC: a wide character, a newline and, as the one
   narrow character, the slash. *)
EXTENDS TuiInput
CONSTANTS slash, wide, newline

MCChars     == {slash, wide, newline}
MCPastes    == {<<wide, newline>>}
MCPrompts   == {<<wide>>, <<wide, newline, slash>>}
MCHistories == {<<>>, <<<<wide>>, <<wide, newline, slash>>>>}
=============================================================================
