----------------------------- MODULE LineEditor -----------------------------
(***************************************************************************)
(* The line editor of the terminal UI as operators on an editor record:    *)
(* the buffer's lines, the cursor, the kill text, the undo stack.  A text  *)
(* is a sequence of characters; NL may occur in one of the "lines" (a      *)
(* recalled message can hold it) until an undo splits the buffer again.    *)
(* Redo is left out: the application takes Ctrl+R for its reverse search   *)
(* before the editor sees it, and Enter submits (multiline=False).         *)
(***************************************************************************)
EXTENDS Integers, SequencesExt

CONSTANT UndoMax                  \* the cap _record keeps (200)

SP == "sp"
NL == "nl"
EmptyBuffer == <<<<>>>>
NewEditor == [lines |-> EmptyBuffer, row |-> 1, col |-> 0,
              kill |-> <<>>, undo |-> <<>>]

\* "\n".join(lines) and text.split("\n").
Joined(lines) ==
    LET upto[n \in 0..Len(lines)] ==
            IF n = 0 THEN <<>>
            ELSE IF n = 1 THEN lines[1] ELSE upto[n - 1] \o <<NL>> \o lines[n]
    IN upto[Len(lines)]
WithChar(lines, ch) ==
    IF ch = NL THEN Append(lines, <<>>)
    ELSE [lines EXCEPT ![Len(lines)] = Append(@, ch)]
Split(text) ==
    LET upto[n \in 0..Len(text)] ==
            IF n = 0 THEN EmptyBuffer ELSE WithChar(upto[n - 1], text[n])
    IN upto[Len(text)]

\* text(): the buffer's text, stripped.
Stripped(text) ==
    LET ink == {i \in 1..Len(text) : text[i] \notin {SP, NL}}
    IN IF ink = {} THEN <<>> ELSE SubSeq(text, Min(ink), Max(ink))
Draft(ed) == Stripped(Joined(ed.lines))

AtLine(ed) == ed.lines[ed.row]
Before(ed) == SubSeq(AtLine(ed), 1, ed.col)
After(ed) == SubSeq(AtLine(ed), ed.col + 1, Len(AtLine(ed)))

-----------------------------------------------------------------------------
(***************************************************************************)
(* An undo entry holds both texts and the cursor the edit left behind.     *)
(***************************************************************************)
Entry(row, col, before, after) ==
    [row |-> row, col |-> col, before |-> before, after |-> after]

Record(undo, entry) ==
    LET longer == Append(undo, entry)
    IN IF Len(longer) > UndoMax THEN Tail(longer) ELSE longer

\* _apply: the edit turned ed into next; it is recorded if it changed a line.
Applied(ed, next) ==
    IF next.lines = ed.lines THEN next
    ELSE [next EXCEPT !.undo =
              Record(@, Entry(next.row, next.col, Joined(ed.lines), Joined(next.lines)))]

WithLine(ed, line, col) == [ed EXCEPT !.lines[ed.row] = line, !.col = col]

Clamp(n, top) == IF n < 0 THEN 0 ELSE IF n > top THEN top ELSE n
Clamped(ed) ==
    LET row == IF ed.row > Len(ed.lines) THEN Len(ed.lines) ELSE ed.row
    IN [ed EXCEPT !.row = row, !.col = Clamp(ed.col, Len(ed.lines[row]))]

Insert(ed, text) ==
    Applied(ed, WithLine(ed, Before(ed) \o text \o After(ed), ed.col + Len(text)))

\* Nothing moves the cursor from the first row, also when an undo leaves several
\* (KeysTypeOK of TuiKeys): _delete_left's merge of two rows, which takes the wrong
\* one or none, is out of the application's reach and left out.
DeleteLeft(ed) ==
    IF ed.col = 0 THEN ed
    ELSE Applied(ed, WithLine(ed, Front(Before(ed)) \o After(ed), ed.col - 1))

KillToLineStart(ed) ==
    Applied(ed, [WithLine(ed, After(ed), 0) EXCEPT !.kill = Before(ed)])

\* _kill_previous_word: spaces first, then up to the next space.
WordStart(ed) ==
    LET ink == {i \in 1..ed.col : AtLine(ed)[i] # SP}
        gap == {i \in 1..ed.col : AtLine(ed)[i] = SP /\ ink # {} /\ i < Max(ink)}
    IN IF gap = {} THEN 0 ELSE Max(gap)
KillPreviousWord(ed) ==
    IF ed.col = 0 THEN ed
    ELSE Applied(ed, [WithLine(ed, SubSeq(AtLine(ed), 1, WordStart(ed)) \o After(ed),
                               WordStart(ed))
                      EXCEPT !.kill = SubSeq(AtLine(ed), WordStart(ed) + 1, ed.col)])

Yank(ed) == IF ed.kill = <<>> THEN ed ELSE Insert(ed, ed.kill)

Left(ed) == Clamped([ed EXCEPT !.col = @ - 1])

Undo(ed) ==
    IF ed.undo = <<>> THEN ed
    ELSE LET edit == Last(ed.undo)
         IN Clamped([ed EXCEPT !.lines = Split(edit.before), !.row = edit.row,
                               !.col = edit.col, !.undo = Front(@)])

\* Mutant of SetText: replaces the buffer without an undo entry.
SetTextUnrecorded(ed, text) ==
    [ed EXCEPT !.lines = <<text>>, !.row = 1, !.col = Len(text), !.kill = <<>>]

\* set_text: one line, whatever the text holds; recorded unless nothing changed.
SetText(ed, text) ==
    LET old == Joined(ed.lines)
    IN [ed EXCEPT !.lines = <<text>>, !.row = 1, !.col = Len(text), !.kill = <<>>,
                  !.undo = IF old = text THEN @ ELSE Record(@, Entry(1, 0, old, text))]

\* replace_range on the cursor's line: characters from+1 .. to make way for text.
ReplaceRange(ed, from, to, text) ==
    Applied(ed, WithLine(ed, SubSeq(AtLine(ed), 1, from) \o text
                             \o SubSeq(AtLine(ed), to + 1, Len(AtLine(ed))),
                         from + Len(text)))

\* clear: recorded past the cap, and recorded even when the buffer was empty.
Clear(ed) ==
    IF ed.lines = EmptyBuffer /\ ed.undo = <<>> THEN ed
    ELSE [ed EXCEPT !.lines = EmptyBuffer, !.row = 1, !.col = 0,
                    !.undo = Append(@, Entry(ed.row, ed.col, Joined(ed.lines), <<>>))]

=============================================================================
