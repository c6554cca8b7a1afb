------------------------------ MODULE Keyboard ------------------------------
(***************************************************************************)
(* How what a script sends gets typed for a slave.  Write of the console   *)
(* debugger and of the detourer (win/expWinConsoleDebugger.cpp and         *)
(* win/expWinConsoleDetourer.cpp) makes a key down and a key up record of  *)
(* each character and posts them through a mailbox to the injector, the    *)
(* thread they have in the slave (win/expWinInjectorMain.cpp), which puts  *)
(* them into the input of the console.  Signals go the same way.           *)
(*                                                                         *)
(* A character is its code.  The mailbox is a queue here; module Mailbox   *)
(* has what it is made of.                                                 *)
(***************************************************************************)
EXTENDS Integers, SequencesExt

CONSTANTS
    Text,           \* what is sent in one go, as codes
    MAXRECORDS,     \* IPCto_MAXRECORDS
    NUMSLOTS,       \* messages the mailbox holds
    MaxWrites       \* bound: texts and signals in all

ASSUME KeyboardAssumption ==
    /\ Text \subseteq Seq(0 .. 255) \ {<<>>}
    /\ MAXRECORDS \in Nat \ {0, 1} /\ NUMSLOTS \in Nat \ {0}
    /\ MaxWrites \in Nat

VARIABLES
    by,         \* who writes: "debugger" or "detourer"
    todo,       \* records that Write, which runs, has not posted
    box,        \* messages in the mailbox
    input,      \* what came out of it: records and signals
    slave,      \* whether it lives: "runs", "ended", or "noticed" by pidKilled
    sent        \* history: records and signals that Write was called for

keyVars == <<by, todo, box, input, slave, sent>>

KeyInit ==
    /\ by \in {"debugger", "detourer"}
    /\ todo = <<>> /\ box = <<>> /\ input = <<>>
    /\ slave = "runs" /\ sent = <<>>
-----------------------------------------------------------------------------
(***************************************************************************)
(* Keys.                                                                   *)
(***************************************************************************)
Chord(vk, mods) == [vk |-> vk, mods |-> mods]
OneOf(c, codes) == c \in {codes[k] : k \in DOMAIN codes}
IndexIn(c, codes) == CHOOSE k \in DOMAIN codes : codes[k] = c

\* The codes of  ! # $ % ^ & * ( )  and the digits they are above.
AboveDigit == <<33, 35, 36, 37, 94, 38, 42, 40, 41>>
Digit      == <<49, 51, 52, 53, 54, 55, 56, 57, 48>>
\* The codes of  ; , . / ` [ \ ] '  and  : < > ? ~ { | } "  and the key of both.
Unshifted  == <<59, 44, 46, 47, 96, 91, 92, 93, 39>>
Shifted    == <<58, 60, 62, 63, 126, 123, 124, 125, 34>>
OemKey     == <<186, 188, 190, 191, 192, 219, 220, 221, 222>>

\* The virtual key and the modifiers for a character.  The scan code, which says
\* the same as the key, is left out.  @ has no shift, - and = have one.
AsciiToKeyArray(c) ==
    CASE c \in 97 .. 122                -> Chord(c - 32, {})
      [] c \in 65 .. 90                 -> Chord(c, {"shift"})
      [] c \in {13, 32} \union 48 .. 57 -> Chord(c, {})
      [] c = 9                          -> Chord(9, {"ctrl"})
      [] c \in 1 .. 26 \ {9, 13}        -> Chord(c + 64, {"ctrl"})
      [] OneOf(c, AboveDigit)           -> Chord(Digit[IndexIn(c, AboveDigit)], {"shift"})
      [] OneOf(c, Unshifted)            -> Chord(OemKey[IndexIn(c, Unshifted)], {})
      [] OneOf(c, Shifted)              -> Chord(OemKey[IndexIn(c, Shifted)], {"shift"})
      [] c = 64                         -> Chord(50, {})
      [] c \in {45, 95}                 -> Chord(189, {"shift"})
      [] c \in {43, 61}                 -> Chord(187, {"shift"})
      [] c \in 27 .. 29                 -> Chord(c + 192, {"ctrl", "shift"})
      [] c = 0                          -> Chord(50, {"ctrl", "shift"})
      [] c = 30                         -> Chord(54, {"ctrl", "shift"})
      [] c = 31                         -> Chord(189, {"ctrl", "shift"})
      [] c = 127                        -> Chord(46, {})

\* Only the key is that of the lower half.
Key(c, down) == [event |-> "key", char |-> c, down |-> down, chord |-> AsciiToKeyArray(c % 128)]
Pressed(c) == <<Key(c, TRUE), Key(c, FALSE)>>
Signal(number) == [event |-> "signal", char |-> number]
-----------------------------------------------------------------------------
(***************************************************************************)
(* Write, on the thread of Tcl.                                            *)
(***************************************************************************)
Start ==
    /\ sent' = Append(sent, todo')
    /\ UNCHANGED <<by, box, input, slave>>

Ready == todo = <<>> /\ Len(sent) < MaxWrites

WriteText(text) ==
    /\ Ready
    /\ todo' = FlattenSeq([k \in DOMAIN text |-> Pressed(text[k])])
    /\ Start

SendKill(number) ==
    /\ Ready
    /\ todo' = <<Signal(number)>>
    /\ Start

\* How many records the next message has: the debugger sends each by itself, the
\* detourer pairs, when one more would not fit and at the end.
Batch == IF by = "debugger" \/ todo[1].event = "signal" THEN 1
         ELSE Min({2 * (MAXRECORDS \div 2), Len(todo)})

\* Mutant of PostMessage: a message is dropped when there is no free slot.
PostMessageDrops ==
    /\ todo # <<>> /\ slave # "noticed"
    /\ box' = IF Len(box) < NUMSLOTS THEN Append(box, SubSeq(todo, 1, Batch)) ELSE box
    /\ todo' = SubSeq(todo, Batch + 1, Len(todo))
    /\ UNCHANGED <<by, input, slave, sent>>

\* Post, which waits for a free slot, also one of a mailbox nobody empties.
PostMessage ==
    /\ todo # <<>> /\ slave # "noticed" /\ Len(box) < NUMSLOTS
    /\ box' = Append(box, SubSeq(todo, 1, Batch))
    /\ todo' = SubSeq(todo, Batch + 1, Len(todo))
    /\ UNCHANGED <<by, input, slave, sent>>

\* ERROR_BROKEN_PIPE: the rest of the text is dropped.
PostFails ==
    /\ todo # <<>> /\ slave = "noticed"
    /\ todo' = <<>>
    /\ UNCHANGED <<by, box, input, slave, sent>>
-----------------------------------------------------------------------------
(***************************************************************************)
(* The slave.                                                              *)
(***************************************************************************)

\* ThreadHandlerProc of Injector: WriteConsoleInput of all records of a message,
\* or GenerateConsoleCtrlEvent.
Inject ==
    /\ slave = "runs" /\ box # <<>>
    /\ box' = Tail(box)
    /\ input' = input \o Head(box)
    /\ UNCHANGED <<by, todo, slave, sent>>

SlaveEnds ==
    /\ slave = "runs" /\ slave' = "ended"
    /\ UNCHANGED <<by, todo, box, input, sent>>

\* Only the debugger sets pidKilled.
Notice ==
    /\ slave = "ended" /\ by = "debugger" /\ slave' = "noticed"
    /\ UNCHANGED <<by, todo, box, input, sent>>

KeyNext ==
    \/ \E text \in Text : WriteText(text)
    \/ \E number \in {2, 3} : SendKill(number)
    \/ PostMessage \/ PostFails \/ Inject \/ SlaveEnds \/ Notice

KeySpec == KeyInit /\ [][KeyNext]_keyVars
-----------------------------------------------------------------------------
(* Properties.                                                             *)

\* Every variable has its type.
KeyTypeOK ==
    /\ by \in {"debugger", "detourer"} /\ slave \in {"runs", "ended", "noticed"}
    /\ Len(box) <= NUMSLOTS

\* What a US keyboard gives for a key.
UsCharacter(chord) ==
    LET vk == chord.vk  shift == "shift" \in chord.mods  ctrl == "ctrl" \in chord.mods
        Row(keys, low, high) == IF shift THEN high[IndexIn(vk, keys)] ELSE low[IndexIn(vk, keys)]
        plain == CASE vk \in 65 .. 90 -> IF shift THEN vk ELSE vk + 32
                   [] vk \in {9, 13, 32} -> vk
                   [] vk = 50 -> IF shift THEN 64 ELSE 50
                   [] OneOf(vk, Digit) -> Row(Digit, Digit, AboveDigit)
                   [] vk = 187 -> IF shift THEN 43 ELSE 61
                   [] vk = 189 -> IF shift THEN 95 ELSE 45
                   [] OneOf(vk, OemKey) -> Row(OemKey, Unshifted, Shifted)
                   [] OTHER -> 127
    IN  IF ctrl THEN plain % 32 ELSE plain

\* The slave finds in its input what was sent, in the order it was sent, nothing
\* twice and nothing left out in the middle, whatever the lengths of the texts and
\* of the messages, and signals in their place; all of it once the mailbox is
\* empty; and each character, or its lower half, comes with the key it has, but
\* @, - and =.
Typed ==
    /\ IsPrefix(input, FlattenSeq(sent))
    /\ slave = "runs" /\ todo = <<>> /\ box = <<>> => input = FlattenSeq(sent)
    /\ \A r \in Range(input) : r.event = "key" /\ r.char % 128 \notin {45, 61, 64} =>
          UsCharacter(r.chord) = r.char % 128
=============================================================================
