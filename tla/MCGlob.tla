------------------------------- MODULE MCGlob -------------------------------
(***************************************************************************)
(* Glob on small instances: every pattern of three pieces at most.         *)
(***************************************************************************)
EXTENDS Glob

ch == 97   CH == 65   other == 98   accented == 233
MCChars == {ch, CH, other, accented}

Piece(raw, chars) == [raw |-> raw, chars |-> chars]
Unclosed == Piece(<<bracket, other, ch>>, {ch, other})
MCPieces == {
    Piece(<<ch>>, {ch}), Piece(<<CH>>, {CH}), Piece(<<accented>>, {accented}),
    Piece(<<quest>>, MCChars), Piece(<<star>>, {}),
    Piece(<<back, star>>, {star}),
    Piece(<<bracket, other, dash, ch, close>>, {ch, other}),
    Unclosed}

\* What is not closed runs to the end of the pattern.
MCPatterns ==
    {c \in [pieces : UNION {[1 .. n -> MCPieces] : n \in 0 .. 3},
            front : BOOLEAN, end : BOOLEAN, nocase : BOOLEAN] :
       \A k \in DOMAIN c.pieces : c.pieces[k] = Unclosed => k = Len(c.pieces) /\ ~c.end}
=============================================================================
