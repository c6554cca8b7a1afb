-------------------------------- MODULE Glob --------------------------------
(***************************************************************************)
(* The matcher of glob patterns (exp_glob.c), asked again whenever output  *)
(* has arrived, as eval_case_string does.  A character is its code; it is  *)
(* one byte or two, and the matcher answers in bytes.                      *)
(***************************************************************************)
EXTENDS Integers, SequencesExt

CONSTANTS
    Chars,          \* characters that may arrive
    Patterns,       \* cases: their pieces (see LongestMatch), anchors and -nocase
    MaxText         \* bound on the output

caret == 94   dollar == 36   star == 42   quest == 63
bracket == 91 close == 93    dash == 45   back == 92

Lower(c) == IF c \in 65 .. 90 \union (192 .. 222 \ {215}) THEN c + 32 ELSE c
Bytes(text) == Len(text) + Len(SelectSeq(text, LAMBDA c : c > 127))
-----------------------------------------------------------------------------
(***************************************************************************)
(* Exp_StringCaseMatch2.  The functions give where the pattern goes on, or *)
(* 0 if a character does not fit.                                          *)
(***************************************************************************)
\* A pattern that ends in the set is taken as closed.
Closed(pattern, k) ==
    LET ends == {m \in k .. Len(pattern) : pattern[m] = close}
    IN  IF ends = {} THEN Len(pattern) + 1 ELSE Min(ends) + 1

\* Only the characters of the pattern become small letters.
InSet(c, pattern, start, nocase) ==
    LET Of(k) == IF nocase THEN Lower(pattern[k]) ELSE pattern[k]
        hit[k \in 1 .. Len(pattern) + 3] ==
            IF k > Len(pattern) \/ pattern[k] = close THEN 0
            ELSE IF k < Len(pattern) /\ pattern[k + 1] = dash
            THEN IF k + 2 > Len(pattern) THEN 0
                 ELSE IF c \in Of(k) .. Of(k + 2) \union Of(k + 2) .. Of(k)
                      THEN Closed(pattern, k + 3) ELSE hit[k + 3]
            ELSE IF Of(k) = c THEN Closed(pattern, k + 1) ELSE hit[k + 1]
    IN  hit[start]

Literal(c, pattern, k, nocase) ==
    IF k > Len(pattern) THEN 0
    ELSE IF c = pattern[k] \/ (nocase /\ Lower(c) = Lower(pattern[k])) THEN k + 1 ELSE 0

Past(c, pattern, k, nocase) ==
    CASE pattern[k] = quest -> k + 1
      [] pattern[k] = bracket -> InSet(c, pattern, k + 1, nocase)
      [] pattern[k] = back -> Literal(c, pattern, k + 1, nocase)
      [] OTHER -> Literal(c, pattern, k, nocase)

\* The bytes that match at the front, -1 if it does not match; the longest for *.
Exp_StringCaseMatch2(string, pattern, nocase) ==
    LET at[i \in 1 .. Len(string) + 1, k \in 1 .. Len(pattern) + 1] ==
            IF k > Len(pattern) THEN 0
            ELSE IF pattern[k] = dollar /\ k = Len(pattern)
            THEN IF i > Len(string) THEN 0 ELSE -1
            ELSE IF pattern[k] = star
            THEN LET tails == {t \in i .. Len(string) + 1 : at[t, k + 1] # -1}
                 IN  IF tails = {} THEN -1
                     ELSE Bytes(SubSeq(string, i, Max(tails) - 1)) + at[Max(tails), k + 1]
            ELSE IF i > Len(string) THEN -1
            ELSE LET next == Past(string[i], pattern, k, nocase)
                 IN  IF next = 0 \/ at[i + 1, next] = -1 THEN -1
                     ELSE Bytes(<<string[i]>>) + at[i + 1, next]
    IN  at[1, 1]

NoMatch == [match |-> -1, offset |-> 0]

\* Mutant of Exp_StringCaseMatch: the offset counts characters.
CaseMatchChars(string, pattern, nocase) ==
    LET anchored == pattern # <<>> /\ pattern[1] \in {caret, star}
        rest == IF pattern # <<>> /\ pattern[1] = caret THEN Tail(pattern) ELSE pattern
        From(i) == Exp_StringCaseMatch2(SubSeq(string, i, Len(string)), rest, nocase)
        starts == {i \in 1 .. (IF anchored THEN 1 ELSE Len(string)) \union {1} : From(i) # -1}
    IN  IF starts = {} THEN NoMatch
        ELSE [match |-> From(Min(starts)), offset |-> Min(starts) - 1]

\* Every start is tried until one matches, but not the end of the string; a
\* pattern that begins with a star is tried at the front only.
Exp_StringCaseMatch(string, pattern, nocase) ==
    LET anchored == pattern # <<>> /\ pattern[1] \in {caret, star}
        rest == IF pattern # <<>> /\ pattern[1] = caret THEN Tail(pattern) ELSE pattern
        From(i) == Exp_StringCaseMatch2(SubSeq(string, i, Len(string)), rest, nocase)
        starts == {i \in 1 .. (IF anchored THEN 1 ELSE Len(string)) \union {1} : From(i) # -1}
    IN  IF starts = {} THEN NoMatch
        ELSE [match |-> From(Min(starts)), offset |-> Bytes(SubSeq(string, 1, Min(starts) - 1))]
-----------------------------------------------------------------------------
VARIABLES
    text,           \* the output not yet matched
    case,           \* the case that is tried
    told            \* what the matcher answered last

globVars == <<text, case, told>>

Pattern(c) ==
    (IF c.front THEN <<caret>> ELSE <<>>) \o FlattenSeq([k \in DOMAIN c.pieces |-> c.pieces[k].raw])
      \o (IF c.end THEN <<dollar>> ELSE <<>>)

Ask(output) ==
    /\ text' = output
    /\ told' = Exp_StringCaseMatch(output, Pattern(case), case.nocase)

GlobInit ==
    /\ text = <<>> /\ told = NoMatch
    /\ case \in Patterns

\* Output arrives, or there is none and the case is tried all the same.
Arrive ==
    /\ Len(text) < MaxText
    /\ \E c \in Chars : Ask(Append(text, c))
    /\ UNCHANGED case

Try == text = <<>> /\ Ask(text) /\ UNCHANGED case

GlobNext == Arrive \/ Try

GlobSpec == GlobInit /\ [][GlobNext]_globVars
-----------------------------------------------------------------------------
(***************************************************************************)
(* A piece is as it is written, raw, and the characters it stands for; a   *)
(* star stands for any text.                                               *)
(***************************************************************************)
Stands(c, piece, nocase) ==
    c \in piece.chars \/ (nocase /\ \E d \in piece.chars : Lower(c) = Lower(d))

\* Where a match that begins at i may end.
MatchEnds(i) ==
    {j \in FoldLeft(LAMBDA ends, piece :
                      IF piece.raw = <<star>> THEN {j \in i .. Len(text) + 1 : \E e \in ends : e <= j}
                      ELSE {e + 1 : e \in {e \in ends : e <= Len(text) /\ Stands(text[e], piece, case.nocase)}},
                    {i}, case.pieces) :
       case.end => j = Len(text) + 1}

Begins == {i \in 1 .. (IF case.front THEN 1 ELSE Len(text) + 1) : MatchEnds(i) # {}}

SetsSeeCapitals ==
    /\ case.nocase
    /\ \E k \in DOMAIN case.pieces : case.pieces[k].raw[1] = bracket
    /\ \E k \in DOMAIN text : Lower(text[k]) # text[k]

\* The answer is the first place where the pattern matches and the longest match
\* there, in bytes, so that what is cut off the buffer is whole characters; -1 if
\* there is no match.  Not so for $ alone, which no output that is there matches,
\* and for sets and capital letters under -nocase.
LongestMatch ==
    \/ told = NoMatch /\ text = <<>>
    \/ SetsSeeCapitals
    \/ Pattern(case) = <<dollar>> /\ text # <<>>
    \/ IF Begins = {} THEN told = NoMatch
       ELSE LET i == Min(Begins) IN
            told = [match |-> Bytes(SubSeq(text, i, Max(MatchEnds(i)) - 1)),
                    offset |-> Bytes(SubSeq(text, 1, i - 1))]

\* "causes uppercase characters of the output to compare as if they were lowercase
\* characters" (doc/expect.man:696): the answer for output in capital letters is
\* the answer for the same output in small ones.  Literal and Past fold the
\* output, InSet does not.
OutputFolds ==
    case.nocase /\ text # <<>> =>
      told = Exp_StringCaseMatch([k \in DOMAIN text |-> Lower(text[k])], Pattern(case), TRUE)
=============================================================================
