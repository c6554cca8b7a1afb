------------------------------- MODULE Console -------------------------------
(***************************************************************************)
(* What the handlers of the console functions make of a slave's calls      *)
(* (win/expWinConsoleDebuggerBreakPoints.cpp).  The slave writes to the    *)
(* cells of its console; the debugger turns each call into text and VT100  *)
(* sequences for the master, keeps a cursor of its own to save some, and   *)
(* repeats the call on a screen buffer it has for a copy.  A terminal that *)
(* shows what the master gets is modelled beside them.                     *)
(*                                                                         *)
(* Handlers run at the return of a call that succeeded: one step is the    *)
(* call with its handler.  The text of a call is one character repeated:   *)
(* what matters is where it goes and how much of it arrives.               *)
(***************************************************************************)
EXTENDS Integers, SequencesExt

CONSTANTS
    Width, Height,  \* ConsoleSize
    Char, Blank,    \* characters; Blank is the space
    MasterAt,       \* cells the cursor of Expect's own console is at, or -1
    MaxHandled      \* bound: calls of the slave

ASSUME ConsoleAssumption ==
    /\ Width \in Nat \ {0, 1} /\ Height \in Nat \ {0, 1}
    /\ Blank \in Char /\ MaxHandled \in Nat
    /\ MasterAt \subseteq Nat \union {-1}

VARIABLES
    cell,           \* the slave's console: its characters, row by row
    cursor,         \* the slave's cursor, as a cell
    copy,           \* hCopyScreenBuffer: its characters and its cursor
    term,           \* what a terminal shows of the stream, and its cursor
    CursorPosition, \* the debugger's cursor
    CursorKnown,
    strip,          \* exp::winnt_stripvt100, set before the slave starts
    handled,        \* number of calls so far
    lapse           \* history: why the screens may differ from now on

consoleVars ==
    <<cell, cursor, copy, term, CursorPosition, CursorKnown, strip, handled, lapse>>

Rows == 0 .. Height - 1
Cols == 0 .. Width - 1
Cells == 0 .. Width * Height - 1
At(y, x) == y * Width + x
Row(p) == p \div Width
Col(p) == p % Width

\* A screen with the character c in the cells S.
PutCells(screen, S, c) == [p \in Cells |-> IF p \in S THEN c ELSE screen[p]]
Run(p, n) == p .. p + n - 1
Block(top, bottom, left, right) == {At(y, x) : y \in top .. bottom, x \in left .. right}
-----------------------------------------------------------------------------
(***************************************************************************)
(* A VT100.  In column Width the next character wraps first.  plain: no    *)
(* control sequence came so far; strayed: the debugger has moved the        *)
(* cursor without noting it.                                               *)
(***************************************************************************)
LineFeed(t) ==
    IF t.y < Height - 1 THEN [t EXCEPT !.y = @ + 1]
    ELSE [t EXCEPT !.cell = [p \in Cells |-> IF p + Width \in Cells THEN @[p + Width] ELSE Blank]]

TypeOne(t, c) ==
    LET u == IF t.x = Width THEN LineFeed([t EXCEPT !.x = 0]) ELSE t
    IN  [u EXCEPT !.cell[At(u.y, u.x)] = c, !.x = @ + 1]

Times(n, v) == [i \in 1 .. n |-> v]
Type(t, n, c) == FoldLeft(TypeOne, t, Times(n, c))
LineFeeds(t, n) == FoldLeft(LAMBDA u, i : LineFeed(u), t, Times(n, 0))

MoveTo(t, y, x) == [t EXCEPT !.y = Min({y, Height - 1}), !.x = Min({x, Width - 1}),
                           !.plain = FALSE, !.strayed = FALSE]

Here(t) == At(t.y, Min({t.x, Width - 1}))
Erase(t, S) == [t EXCEPT !.cell = PutCells(@, S, Blank), !.plain = FALSE]
EraseRight(t) == Erase(t, Here(t) .. At(t.y, Width - 1))
EraseLeft(t) == Erase(t, At(t.y, 0) .. Here(t))
EraseLine(t) == Erase(t, Run(At(t.y, 0), Width))
EraseBelow(t) == Erase(t, {p \in Cells : p >= Here(t)})
EraseAbove(t) == Erase(t, 0 .. Here(t))

\* Rows top to bottom move by n lines, up if n is negative; the margins are set
\* for it and reset.  No number and 0 mean 1.
MoveLines(t, top, bottom, n) ==
    [t EXCEPT !.cell = [p \in Cells |->
                 IF Row(p) \notin top .. bottom THEN @[p]
                 ELSE IF Row(p) - n \in top .. Min({bottom, Height - 1}) THEN @[p - n * Width]
                 ELSE Blank],
              !.y = 0, !.x = 0, !.plain = FALSE, !.strayed = TRUE]
-----------------------------------------------------------------------------
ConsoleInit ==
    /\ cell = [p \in Cells |-> Blank]
    /\ cursor = 0
    /\ copy = [cell |-> [p \in Cells |-> Blank], at |-> 0]
    /\ term = [cell |-> [p \in Cells |-> Blank], y |-> 0, x |-> 0, plain |-> TRUE, strayed |-> FALSE]
    /\ CursorPosition = [y |-> 0, x |-> 0]
    /\ CursorKnown = FALSE
    /\ strip \in BOOLEAN
    /\ handled = 0
    /\ lapse = "none"

\* A call, and the reason for which the screens may differ after it, if any.
Handled(why) ==
    /\ handled' = handled + 1
    /\ lapse' = why
    /\ UNCHANGED strip

Shortcut(y, x) == CursorKnown /\ y > CursorPosition.y /\ x = 0

\* The sequence that takes the master's cursor to row y, column x, where n
\* characters follow.  Mutant of CreateVtSequence: without the test of strip.
CreateVtSequenceAlways(t, y, x, n) ==
    IF n = 0 THEN t
    ELSE IF Shortcut(y, x) THEN LineFeeds([t EXCEPT !.x = 0], y - CursorPosition.y)
    ELSE MoveTo(t, y, x)

CreateVtSequence(t, y, x, n) ==
    IF n = 0 \/ strip THEN t
    ELSE IF Shortcut(y, x) THEN LineFeeds([t EXCEPT !.x = 0], y - CursorPosition.y)
    ELSE MoveTo(t, y, x)
CursorAfter(y, x, n) ==
    IF n = 0 \/ strip THEN CursorPosition
    ELSE [y |-> y + (n \div Width), x |-> x + (n % Width)]

\* The shortcut is taken although the terminal's cursor is elsewhere.
Stale(y, x) == ~strip /\ term.strayed /\ Shortcut(y, x)

\* Mutant of OnWriteConsole: the cursor counts as known as before.
OnWriteConsoleKnown(form, n, done, c) ==
    /\ cursor + done \in Cells
    /\ LET sent == IF form = "A" THEN done ELSE n
       IN  /\ copy.at + sent \in Cells
           /\ term' = Type(term, sent, c)
           /\ copy' = [cell |-> PutCells(copy.cell, Run(copy.at, sent), c), at |-> copy.at + sent]
           /\ Handled(IF At(term.y, term.x) # cursor THEN "astray"
                        ELSE IF sent # done THEN "partial" ELSE "none")
    /\ cell' = PutCells(cell, Run(cursor, done), c)
    /\ cursor' = cursor + done
    /\ UNCHANGED <<CursorPosition, CursorKnown>>

\* WriteConsoleA and W: done of n characters are written at the slave's cursor.
\* The handler of the latter takes n, that of the former asks for done.
OnWriteConsole(form, n, done, c) ==
    /\ cursor + done \in Cells
    /\ LET sent == IF form = "A" THEN done ELSE n
       IN  /\ copy.at + sent \in Cells
           /\ term' = Type(term, sent, c)
           /\ copy' = [cell |-> PutCells(copy.cell, Run(copy.at, sent), c),
                       at |-> copy.at + sent]
           /\ Handled(IF At(term.y, term.x) # cursor THEN "astray"
                        ELSE IF sent # done THEN "partial" ELSE "none")
    /\ cell' = PutCells(cell, Run(cursor, done), c)
    /\ cursor' = cursor + done
    /\ CursorKnown' = FALSE
    /\ UNCHANGED CursorPosition

\* WriteConsoleOutputCharacterA and W.
OnWriteConsoleOutputCharacter(p, n, c) ==
    /\ Run(p, n) \subseteq Cells
    /\ Handled(IF Stale(Row(p), Col(p)) THEN "stale" ELSE "none")
    /\ cell' = PutCells(cell, Run(p, n), c)
    /\ copy' = [copy EXCEPT !.cell = PutCells(@, Run(p, n), c)]
    /\ term' = Type(CreateVtSequence(term, Row(p), Col(p), n), n, c)
    /\ CursorPosition' = CursorAfter(Row(p), Col(p), n)
    /\ CursorKnown' = FALSE
    /\ UNCHANGED cursor

\* WriteConsoleOutputA and W.  The length given to CreateVtSequence is one less
\* than that of a row; W sends as many bytes of its wide characters as there are
\* characters, which a terminal reads as every other one and zeros between them.
OnWriteConsoleOutput(form, top, bottom, left, right, c) ==
    LET width == right - left + 1
        sent == IF form = "A" THEN width ELSE (width + 1) \div 2
        OneRow(s, y) == [t |-> Type(IF s.known /\ y > s.at.y /\ left = 0
                                    THEN LineFeeds([s.t EXCEPT !.x = 0], y - s.at.y)
                                    ELSE MoveTo(s.t, y, left), sent, c),
                         at |-> [y |-> y, x |-> right], known |-> s.known]
        shown == FoldLeft(OneRow, [t |-> term, at |-> CursorPosition, known |-> CursorKnown],
                          [i \in 1 .. bottom - top + 1 |-> top + i - 1])
    IN  /\ Handled(IF Stale(top, left) THEN "stale"
                   ELSE IF width = 1 THEN "column" ELSE IF sent # width THEN "wide" ELSE "none")
        /\ cell' = PutCells(cell, Block(top, bottom, left, right), c)
        /\ copy' = [copy EXCEPT !.cell = PutCells(@, Block(top, bottom, left, right), c)]
        /\ IF width = 1 \/ strip
           THEN /\ term' = Type(term, sent * (bottom - top + 1), c)
                /\ UNCHANGED CursorPosition
           ELSE term' = shown.t /\ CursorPosition' = shown.at
        /\ UNCHANGED <<cursor, CursorKnown>>
-----------------------------------------------------------------------------
\* OnFillCOC_Finish: the rest of a first row, whole rows, the begin of a last row.
Pre(n, x) == IF x > 0 THEN Min({n, Width - x}) ELSE IF n < Width THEN n ELSE 0
Lines(n, x) == (n - Pre(n, x)) \div Width
PostCells(n, x) == (n - Pre(n, x)) % Width
Below(n, y, x) == y + (IF Pre(n, x) > 0 THEN 1 ELSE 0)

FillPre(t, n, y, x, c) ==
    IF x = 0 /\ c = Blank THEN EraseLeft(MoveTo(t, y, n - 1))
    ELSE IF n > Pre(n, x) /\ c = Blank THEN EraseRight(MoveTo(t, y, x))
    ELSE Type(MoveTo(t, y, x), Pre(n, x), c)

FillLines(t, lines, y, c) ==
    IF c = Blank /\ lines + y >= Height THEN EraseBelow(MoveTo(t, y, 0))
    ELSE IF c = Blank /\ y = 0 THEN EraseAbove(MoveTo(t, lines - 1, 0))
    ELSE FoldLeft(LAMBDA u, i : IF c = Blank THEN EraseLine(MoveTo(u, y + i, 0))
                                ELSE Type(MoveTo(u, y + i, 0), Width, c),
                  t, [i \in 1 .. lines |-> i - 1])

\* Row and column are the wrong way round where characters are sent.
FillPost(t, post, y, c) ==
    IF c = Blank THEN EraseLeft(MoveTo(t, y, post - 1)) ELSE Type(MoveTo(t, 0, y), post, c)

Filled(t, n, y, x, c) ==
    LET below == Below(n, y, x)
        begun == IF Pre(n, x) = 0 THEN t ELSE FillPre(t, n, y, x, c)
        upTo == IF Lines(n, x) = 0 THEN begun ELSE FillLines(begun, Lines(n, x), below, c)
    IN  IF PostCells(n, x) = 0 THEN upTo ELSE FillPost(upTo, PostCells(n, x), below + Lines(n, x), c)

\* To the top of the screen, only the first column of the last row is cleared.
ClearsTop(n, y, x, c) ==
    /\ c = Blank /\ Lines(n, x) > 0
    /\ Below(n, y, x) = 0 /\ Lines(n, x) < Height

\* FillConsoleOutputCharacterA and W.  The cursor is then put where that of
\* expect's own console is (master), if it has one.
OnFillConsoleOutputCharacter(p, n, c, master) ==
    LET t == Filled(term, n, Row(p), Col(p), c)
    IN  /\ Run(p, n) \subseteq Cells
        /\ cell' = PutCells(cell, Run(p, n), c)
        /\ copy' = [copy EXCEPT !.cell = PutCells(@, Run(p, n), c)]
        /\ Handled(IF ClearsTop(n, Row(p), Col(p), c) THEN "top"
                   ELSE IF c # Blank /\ PostCells(n, Col(p)) > 0 THEN "swapped" ELSE "none")
        /\ IF strip
           THEN term' = Type(term, n, c) /\ UNCHANGED <<CursorPosition, CursorKnown>>
           ELSE IF master \notin Cells
           THEN term' = [t EXCEPT !.strayed = TRUE] /\ UNCHANGED <<CursorPosition, CursorKnown>>
           ELSE /\ term' = MoveTo(t, Row(master), Col(master))
                /\ CursorPosition' = [y |-> Row(master), x |-> Col(master)]
                /\ CursorKnown' = TRUE
        /\ UNCHANGED cursor

\* ScrollConsoleScreenBuffer of the columns left to right, rows top to bottom, to
\* the row dest; what is left behind is filled with fill.
OnScrollConsoleScreenBuffer(top, bottom, left, dest, fill) ==
    LET n == dest - top
        moved == [p \in Cells |->
            IF Col(p) < left THEN cell[p]
            ELSE IF Row(p) - n \in top .. bottom THEN cell[p - n * Width]
            ELSE IF Row(p) \in top .. bottom THEN fill ELSE cell[p]]
    IN  /\ cell' = moved
        /\ IF left > 0 \/ fill # Blank THEN UNCHANGED term
           ELSE IF strip THEN term' = LineFeed(term)
           ELSE term' = IF n < 0 THEN MoveLines(term, dest, bottom, n)
                        ELSE MoveLines(term, top, bottom + n, IF n = 0 THEN 1 ELSE n)
        /\ Handled(IF left > 0 \/ fill # Blank THEN "rectangle"
                   ELSE IF n = 0 THEN "nowhere"
                   ELSE IF n \notin top - bottom - 1 .. bottom - top + 1 THEN "far" ELSE "none")
        /\ UNCHANGED <<cursor, copy, CursorPosition, CursorKnown>>

OnSetConsoleCursorPosition(p) ==
    /\ cursor' = p
    /\ term' = IF ~strip THEN MoveTo(term, Row(p), Col(p))
               ELSE IF Col(p) = 0 /\ CursorPosition.y < Row(p)
               THEN LineFeeds(term, Row(p) - CursorPosition.y) ELSE term
    /\ CursorPosition' = [y |-> Row(p), x |-> Col(p)]
    /\ CursorKnown' = TRUE
    /\ Handled("none")
    /\ UNCHANGED <<cell, copy>>

Handler ==
    \/ \E form \in {"A", "W"}, n, done \in 1 .. Width + 1, c \in Char :
         done <= n /\ OnWriteConsole(form, n, done, c)
    \/ \E p, n \in Cells, c \in Char : n > 0 /\ OnWriteConsoleOutputCharacter(p, n, c)
    \/ \E form \in {"A", "W"}, top, bottom \in Rows, left, right \in Cols, c \in Char :
         /\ top <= bottom /\ left <= right
         /\ OnWriteConsoleOutput(form, top, bottom, left, right, c)
    \/ \E p, n \in Cells, c \in Char, master \in MasterAt :
         n > 0 /\ OnFillConsoleOutputCharacter(p, n, c, master)
    \/ \E top, bottom, dest \in Rows, left \in Cols, fill \in Char :
         /\ top <= bottom /\ dest + bottom - top < Height
         /\ OnScrollConsoleScreenBuffer(top, bottom, left, dest, fill)
    \/ \E p \in Cells : OnSetConsoleCursorPosition(p)

\* After a lapse there is nothing more to compare.
ConsoleNext == handled < MaxHandled /\ lapse = "none" /\ Handler

ConsoleSpec == ConsoleInit /\ [][ConsoleNext]_consoleVars
-----------------------------------------------------------------------------
ConsoleTypeOK ==
    /\ cell \in [Cells -> Char] /\ cursor \in Cells
    /\ copy.cell \in [Cells -> Char] /\ copy.at \in 0 .. Width * Height
    /\ term.cell \in [Cells -> Char] /\ term.y \in Rows /\ term.x \in 0 .. Width
    /\ CursorPosition.y \in Nat /\ CursorPosition.x \in Nat
    /\ CursorKnown \in BOOLEAN /\ strip \in BOOLEAN

\* The master sees what is in the slave's console: every character in its place,
\* although the cursor is moved by line feeds where the debugger thinks it knows
\* where it is.  The calls for which it does not hold are named in lapse.  With
\* exp::winnt_stripvt100 it gets text only.
Mirrored ==
    /\ lapse = "none" /\ ~strip => term.cell = cell
    /\ strip => term.plain

(* Properties that fail; see README.                                        *)

\* "Do we know where the slave's cursor is?" (expWinConsoleDebugger.hpp:317).
KnownIsRight == CursorKnown => At(CursorPosition.y, CursorPosition.x) = cursor

\* "console buffer we write a complete copy to" (expWinConsoleDebugger.hpp:309).
CopyIsComplete == copy.cell = cell

\* "The data is also redirected to expect" (OnWriteConsoleOutputW).
BlocksAreShown == lapse \in {"none", "wide"} /\ ~strip => term.cell = cell
=============================================================================
