------------------------------- MODULE TuiKeys -------------------------------
(***************************************************************************)
(* The keyboard of the full-screen terminal UI: what the terminal writes   *)
(* is read in chunks, parsed into keys (KeyReader) and each key goes to    *)
(* the approval prompt, the picker, the log reader, the @-file completion, *)
(* the history recall or the line editor (LineEditor).  Turns, prompts and *)
(* messages from the control socket come from elsewhere, between two keys. *)
(* Left out: scrolling, mouse selection, display toggles; which files a    *)
(* completion lists and how a picker ranks are nondeterministic choices.   *)
(***************************************************************************)
EXTENDS LineEditor, KeyReader

CONSTANTS MaxStrokes,   \* bound on the keystrokes typed
          MaxEvents,    \* bound on turns, prompts and control messages
          WireMax,      \* bytes unread at most when the next key is typed
          MaxCuts,      \* bound on the reads that end inside what is there
          Strokes,      \* names of the keystrokes typed, of DOMAIN BytesOf
          Sent,         \* texts sent over the control socket or by voice
          HistoryMax    \* entries of _history kept (200)

ASSUME TuiKeysAssumption ==
    /\ MaxStrokes \in Nat /\ MaxEvents \in Nat /\ WireMax \in Nat /\ MaxCuts \in Nat
    /\ UndoMax \in Nat \ {0} /\ HistoryMax \in Nat \ {0}

VARIABLES
    tty,     \* bytes not read yet, strokes typed, reader, keys of the chunk read
    ed,      \* the line editor
    recall,  \* _history, _hist_pos (0: free typing), _hist_draft
    modal,   \* approval pending, picker, completion, browse mode, log search
    app      \* loop running, turn in flight, the steering queue, events used

keysVars == <<tty, ed, recall, modal, app>>

-----------------------------------------------------------------------------
(***************************************************************************)
(* What a keystroke sends.  A paste holds a line break.                    *)
(***************************************************************************)
BytesOf ==
    [ a |-> <<"a">>, at |-> <<"@">>, slash |-> <<"/">>, space |-> <<SP>>,
      n |-> <<"n">>, y |-> <<"y">>, j |-> <<"j">>,
      enter |-> <<"cr">>, backspace |-> <<"bs">>, tab |-> <<"tab">>,
      escape |-> <<ESC>>, left |-> <<ESC, "[", "L">>,
      up |-> <<ESC, "[", "U">>, down |-> <<ESC, "[", "D">>,
      odd |-> <<ESC, "[", "?">>, upO |-> <<ESC, "O", "U">>, accent |-> <<"acc">>,
      paste |-> <<ESC, "[", "P", "a", NL>> \o PasteEnd,
      ctrlC |-> <<"ctrl+c">>, ctrlD |-> <<"ctrl+d">>, ctrlE |-> <<"ctrl+e">>,
      ctrlL |-> <<"ctrl+l">>, ctrlO |-> <<"ctrl+o">>, ctrlP |-> <<"ctrl+p">>,
      ctrlQ |-> <<"ctrl+q">>, ctrlR |-> <<"ctrl+r">>, ctrlU |-> <<"ctrl+u">>,
      ctrlW |-> <<"ctrl+w">>, ctrlY |-> <<"ctrl+y">>, ctrlZ |-> <<"ctrl+z">> ]

\* "acc" is a character of two bytes, "rep" what half of one is decoded to.
Printable == {"a", "@", "/", "n", "y", "j", "[", "U", "D", "L", "P", "E", "?", "O",
              "acc", "rep"}
Unprinted == {ESC, "cr", "bs", "tab", "ctrl+c", "ctrl+d", "ctrl+e", "ctrl+l", "ctrl+o",
              "ctrl+p", "ctrl+q", "ctrl+r", "ctrl+u", "ctrl+w", "ctrl+y", "ctrl+z"}
Char == Printable \cup Unprinted \cup {SP, NL, "f", "s"}
Text == Seq(Char)

ASSUME KeysTyped == Strokes \subseteq DOMAIN BytesOf /\ Sent \subseteq Text

Palette == {<<"/", "a">>}         \* commands the palette inserts
Loaded == {<<>>, <<"a">>}         \* what an external editor or the stash gives
File == <<"f">>                   \* the path a completion inserts
Sessions == {<<"s">>}             \* rows of the session picker
FreeTyping == 0                   \* _hist_pos is None

\* _key_text: a payload goes in as it is, an unknown sequence's bytes too.
KeyText(key) ==
    CASE key.payload # <<>> -> key.payload
      [] key.payload = <<>> /\ key.name = "space" -> <<SP>>
      [] key.payload = <<>> /\ key.name \in Printable -> <<key.name>>
      [] OTHER -> <<>>

KeysInit ==
    /\ tty = [wire |-> <<>>, typed |-> 0, cuts |-> 0, reader |-> IdleReader, keys |-> <<>>,
              fed |-> <<>>, given |-> <<>>]
    /\ ed = NewEditor
    /\ recall = [history |-> <<>>, pos |-> FreeTyping, draft |-> <<>>]
    /\ modal = [approval |-> FALSE, kind |-> "none", rows |-> {},
                files |-> "closed", browse |-> FALSE, search |-> "closed"]
    /\ app = [running |-> TRUE, busy |-> FALSE, queue |-> 0, events |-> 0]

-----------------------------------------------------------------------------
(***************************************************************************)
(* Submitting: _submit appends to the history; a command may load a text   *)
(* into the editor (/editor, /stash pop), anything else makes a turn or a  *)
(* redirect of the running one.                                            *)
(***************************************************************************)
Kept(history) == IF Len(history) > HistoryMax
                 THEN SubSeq(history, Len(history) - HistoryMax + 1, Len(history))
                 ELSE history

\* Submit the text, _submit being called with this editor and recall position.
SubmitText(text, editor, pos) ==
    /\ recall' = [recall EXCEPT !.history = Kept(Append(@, text)), !.pos = pos]
    /\ IF text[1] = "/"
       THEN /\ ed' \in {editor} \cup {SetText(editor, t) : t \in Loaded}
            /\ UNCHANGED app
       ELSE ed' = editor /\ app' = [app EXCEPT !.busy = TRUE]

KeyUsed == tty' = [tty EXCEPT !.keys = Tail(@)]
Pressed(name) == tty.keys # <<>> /\ Head(tty.keys).name = name
PressedOneOf(names) == tty.keys # <<>> /\ Head(tty.keys).name \in names
StopLoop == app' = [app EXCEPT !.running = FALSE]

(***************************************************************************)
(* The terminal and the loop's read (what is typed while the keys of a     *)
(* chunk are handled could as well be typed just after).  A chunk that is  *)
(* one Ctrl+C or one Ctrl+D never reaches the parser; in a longer chunk    *)
(* they are keys.                                                          *)
(***************************************************************************)
Stroke ==
    /\ app.running /\ tty.typed < MaxStrokes /\ tty.keys = <<>> /\ Len(tty.wire) <= WireMax
    /\ \E s \in Strokes : tty' = [tty EXCEPT !.wire = @ \o BytesOf[s], !.typed = @ + 1]
    /\ UNCHANGED <<ed, recall, modal, app>>

Chunk(n) == SubSeq(tty.wire, 1, n)
Unread(n) == SubSeq(tty.wire, n + 1, Len(tty.wire))
Cuts(n) == IF n < Len(tty.wire) THEN 1 ELSE 0
CanRead == app.running /\ tty.keys = <<>>

\* The read before ended in an ESC, which the parser took for a key of its own,
\* and this one begins with what makes a sequence of it.
AfterEscape(chunk) ==
    tty.reader = IdleReader /\ tty.fed # <<>> /\ chunk[1] \in {"[", "O"}

\* The parser takes the chunk.  fed and given are the bytes read and the keys given
\* since it was last idle with no ESC as its last key.
ParserTakes(chunk, left, cuts) ==
    LET got == Feed(tty.reader, chunk)
        idle == /\ got.reader = IdleReader
                /\ got.keys # <<>> => Last(got.keys).name # "escape"
        anew == AfterEscape(chunk)
    IN tty' = [wire |-> left, typed |-> tty.typed, cuts |-> cuts,
               reader |-> got.reader, keys |-> got.keys,
               fed |-> IF idle THEN <<>> ELSE IF anew THEN chunk ELSE tty.fed \o chunk,
               given |-> IF idle THEN <<>>
                         ELSE IF anew THEN got.keys ELSE tty.given \o got.keys]

ReadKeys(n) ==
    /\ CanRead /\ Chunk(n) \notin {<<"ctrl+c">>, <<"ctrl+d">>}
    /\ tty.cuts + Cuts(n) <= MaxCuts
    /\ ParserTakes(Chunk(n), Unread(n), tty.cuts + Cuts(n))
    /\ UNCHANGED <<ed, recall, modal, app>>

\* Each read is decoded by itself: one that ends inside a character makes two
\* replacement characters of it, the second in the next read.
ReadHalf(n) ==
    /\ CanRead /\ tty.wire[n] = "acc" /\ tty.cuts + 1 <= MaxCuts
    /\ ParserTakes(Append(Chunk(n - 1), "rep"), <<"rep">> \o Unread(n), tty.cuts + 1)
    /\ UNCHANGED <<ed, recall, modal, app>>

RawInterrupt ==
    /\ CanRead /\ tty.wire # <<>> /\ Chunk(1) = <<"ctrl+c">>
    /\ tty.cuts + Cuts(1) <= MaxCuts
    /\ tty' = [tty EXCEPT !.wire = Tail(@), !.cuts = @ + Cuts(1)]
    /\ modal' = IF modal.approval THEN [modal EXCEPT !.approval = FALSE]
                ELSE [modal EXCEPT !.kind = "none", !.rows = {}]
    /\ IF modal.approval \/ modal.kind # "none" \/ app.busy THEN UNCHANGED app
       ELSE StopLoop
    /\ UNCHANGED <<ed, recall>>

RawSubmit ==
    /\ CanRead /\ tty.wire # <<>> /\ Chunk(1) = <<"ctrl+d">>
    /\ tty.cuts + Cuts(1) <= MaxCuts
    /\ tty' = [tty EXCEPT !.wire = Tail(@), !.cuts = @ + Cuts(1)]
    /\ IF Draft(ed) # <<>> THEN SubmitText(Draft(ed), Clear(ed), recall.pos)
       ELSE StopLoop /\ UNCHANGED <<ed, recall>>
    /\ UNCHANGED <<modal>>

-----------------------------------------------------------------------------
(***************************************************************************)
(* _on_input, one key at a time; the first of these that applies takes it. *)
(***************************************************************************)
Prompted == modal.approval
Picking == ~Prompted /\ modal.kind # "none"
Reading == ~Prompted /\ ~Picking /\ modal.browse
Typing == ~Prompted /\ ~Picking /\ ~modal.browse
CanPress == app.running /\ tty.keys # <<>>

PromptKey ==
    /\ CanPress /\ Prompted /\ KeyUsed
    /\ modal' = [modal EXCEPT !.approval =
                     ~PressedOneOf({"enter", "y", "a", "n", "escape"})]
    /\ UNCHANGED <<ed, recall, app>>

\* Enter inserts the row chosen; a filter may leave none.  Other keys filter.
PickerKey ==
    /\ CanPress /\ Picking /\ KeyUsed
    /\ modal' = IF PressedOneOf({"enter", "escape"})
                THEN [modal EXCEPT !.kind = "none", !.rows = {}] ELSE modal
    /\ IF Pressed("enter") /\ modal.kind # "session"
       THEN ed' \in {ed} \cup {Insert(ed, row) : row \in modal.rows}
       ELSE UNCHANGED ed
    /\ UNCHANGED <<recall, app>>

BrowseToggle ==
    /\ CanPress /\ (Reading \/ Typing) /\ Pressed("ctrl+o") /\ KeyUsed
    /\ modal' = [modal EXCEPT !.browse = ~@]
    /\ UNCHANGED <<ed, recall, app>>

\* The log reader: a search is typed, then stands with or without matches.
BrowseKey ==
    /\ CanPress /\ Reading /\ ~Pressed("ctrl+o") /\ KeyUsed
    /\ \/ /\ modal.search = "typed" /\ Pressed("escape")
          /\ modal' = [modal EXCEPT !.search = "closed"]
       \/ /\ modal.search = "typed" /\ Pressed("enter")
          /\ \E s \in {"closed", "none", "found"} : modal' = [modal EXCEPT !.search = s]
       \/ /\ modal.search = "typed" /\ ~PressedOneOf({"escape", "enter"})
          /\ UNCHANGED modal
       \/ /\ modal.search # "typed" /\ Pressed("escape")
          /\ modal' = IF modal.search = "closed" THEN [modal EXCEPT !.browse = FALSE]
                      ELSE [modal EXCEPT !.search = "closed"]
       \/ /\ modal.search # "typed"
          /\ Pressed("/") \/ (Pressed("n") /\ modal.search # "found")
          /\ modal' = [modal EXCEPT !.search = "typed"]
       \/ /\ modal.search # "typed" /\ ~PressedOneOf({"escape", "/"})
          /\ ~(Pressed("n") /\ modal.search # "found")
          /\ UNCHANGED modal
    /\ UNCHANGED <<ed, recall, app>>

\* Ctrl+L, Ctrl+P, Ctrl+R: the rows are those of the moment it opens.
OpenPicker ==
    /\ CanPress /\ Typing /\ PressedOneOf({"ctrl+l", "ctrl+p", "ctrl+r"}) /\ KeyUsed
    /\ modal' = [modal EXCEPT
           !.kind = CASE Pressed("ctrl+l") -> "session"
                      [] Pressed("ctrl+p") -> "palette"
                      [] Pressed("ctrl+r") -> "search",
           !.rows = CASE Pressed("ctrl+l") -> Sessions
                      [] Pressed("ctrl+p") -> Palette
                      [] Pressed("ctrl+r") -> ToSet(recall.history)]
    /\ UNCHANGED <<ed, recall, app>>

\* Ctrl+Q queues the draft behind the running turn, or just submits it.
QueueDraft ==
    /\ CanPress /\ Typing /\ Pressed("ctrl+q") /\ KeyUsed
    /\ IF Draft(ed) = <<>> THEN UNCHANGED <<ed, recall, app>>
       ELSE IF app.busy
       THEN /\ app' = [app EXCEPT !.queue = @ + 1] /\ ed' = Clear(ed)
            /\ UNCHANGED recall
       ELSE SubmitText(Draft(ed), Clear(ed), recall.pos)
    /\ UNCHANGED <<modal>>

\* Ctrl+E: nothing without $EDITOR or when it fails, else its text, flattened.
EditorKey ==
    /\ CanPress /\ Typing /\ Pressed("ctrl+e") /\ KeyUsed
    /\ ed' \in {ed} \cup {SetText(ed, t) : t \in Loaded}
    /\ UNCHANGED <<recall, modal, app>>

\* The open completion takes the keys that move in it and those that end it.
CompletionNames == {"up", "k", "down", "j", "enter", "tab", "escape"}
Completing == Typing /\ modal.files # "closed" /\ PressedOneOf(CompletionNames)

\* _active_at_token: where the @token at the cursor starts, 0 if there is none.
TokenAt(editor) ==
    LET line == AtLine(editor)
        at == {i \in 1..editor.col : line[i] = "@"}
    IN IF at = {} THEN 0
       ELSE IF /\ \A i \in Max(at)..editor.col : line[i] # SP
               /\ Max(at) > 1 => line[Max(at) - 1] \in {SP, NL}
            THEN Max(at) ELSE 0

Completed(editor) ==
    LET at == TokenAt(editor)
    IN ReplaceRange(editor, IF at = 0 THEN editor.col ELSE at - 1, editor.col, File)

CompletionKey ==
    /\ CanPress /\ Completing /\ KeyUsed
    /\ modal' = IF PressedOneOf({"enter", "tab", "escape"})
                THEN [modal EXCEPT !.files = "closed"] ELSE modal
    /\ ed' = IF PressedOneOf({"enter", "tab"}) /\ modal.files = "some"
             THEN Completed(ed) ELSE ed
    /\ UNCHANGED <<recall, app>>

(***************************************************************************)
(* _history_recall: the first Up keeps the draft, Down past the newest     *)
(* entry puts it back.                                                     *)
(***************************************************************************)
RecallKey ==
    /\ CanPress /\ Typing /\ ~Completing /\ PressedOneOf({"up", "down"}) /\ KeyUsed
    /\ LET size == Len(recall.history)
           starts == recall.pos = FreeTyping
           pos == IF starts THEN size + 1 ELSE recall.pos
           to == IF Pressed("up") THEN pos - 1 ELSE pos + 1
       IN IF size = 0 \/ (starts /\ Pressed("down")) \/ to = 0 THEN UNCHANGED <<ed, recall>>
          ELSE IF to > size
          THEN /\ ed' = SetText(ed, recall.draft)
               /\ recall' = [recall EXCEPT !.pos = FreeTyping, !.draft = <<>>]
          ELSE /\ ed' = SetText(ed, recall.history[to])
               /\ recall' = [recall EXCEPT !.pos = to,
                                 !.draft = IF starts THEN Draft(ed) ELSE @]
    /\ UNCHANGED <<modal, app>>

EscapeKey ==
    /\ CanPress /\ Typing /\ ~Completing /\ Pressed("escape") /\ KeyUsed
    /\ ed' = IF app.busy THEN ed ELSE Clear(ed)
    /\ UNCHANGED <<recall, modal, app>>

\* A Ctrl+D among other bytes, with nothing typed.
StopKey ==
    /\ CanPress /\ Typing /\ Pressed("ctrl+d") /\ Draft(ed) = <<>> /\ KeyUsed /\ StopLoop
    /\ UNCHANGED <<ed, recall, modal>>

\* Pasted line breaks become spaces.
PasteKey ==
    /\ CanPress /\ Typing /\ Pressed("paste") /\ Head(tty.keys).payload # <<>> /\ KeyUsed
    /\ ed' = Insert(ed, [i \in 1..Len(Head(tty.keys).payload) |->
                            IF Head(tty.keys).payload[i] = NL THEN SP
                            ELSE Head(tty.keys).payload[i]])
    /\ UNCHANGED <<recall, modal, app>>

\* LineEditor.handle for the keys that edit.
Handle(editor, name, text) ==
    CASE name = "backspace" -> DeleteLeft(editor)
      [] name = "left" -> Left(editor)
      [] name = "ctrl+u" -> KillToLineStart(editor)
      [] name = "ctrl+w" -> KillPreviousWord(editor)
      [] name = "ctrl+y" -> Yank(editor)
      [] name = "ctrl+z" -> Undo(editor)
      [] OTHER -> IF text = <<>> THEN editor ELSE Insert(editor, text)

TakenEarlier == {"ctrl+o", "ctrl+l", "ctrl+p", "ctrl+r", "ctrl+q", "ctrl+e",
                 "up", "down", "escape"}
Submits == Pressed("enter") \/ (PressedOneOf({"ctrl+c", "ctrl+d"}) /\ Draft(ed) # <<>>)

EditKey ==
    /\ CanPress /\ Typing /\ ~Completing /\ ~PressedOneOf(TakenEarlier) /\ KeyUsed
    /\ ~(Pressed("ctrl+d") /\ Draft(ed) = <<>>)
    /\ ~(Pressed("paste") /\ Head(tty.keys).payload # <<>>)
    /\ IF Submits
       THEN /\ modal' = [modal EXCEPT !.files = "closed"]
            /\ IF Draft(ed) # <<>> THEN SubmitText(Draft(ed), Clear(ed), FreeTyping)
               ELSE /\ ed' = Clear(ed) /\ recall' = [recall EXCEPT !.pos = FreeTyping]
                    /\ UNCHANGED app
       ELSE /\ ed' = Handle(ed, Head(tty.keys).name, KeyText(Head(tty.keys)))
            /\ recall' = [recall EXCEPT !.pos = FreeTyping]
            /\ \E files \in (IF TokenAt(ed') = 0 THEN {"closed"} ELSE {"none", "some"}) :
                   modal' = [modal EXCEPT !.files = files]
            /\ UNCHANGED app

-----------------------------------------------------------------------------
(***************************************************************************)
(* What happens between keys: the end of a turn (which starts the next     *)
(* queued message), a prompt put up by a worker and its time limit, a      *)
(* message of the control socket, run by the loop between two reads.       *)
(***************************************************************************)
TurnEnds ==
    /\ app.running /\ app.busy /\ ~modal.approval
    /\ app' = IF app.queue > 0 THEN [app EXCEPT !.queue = @ - 1]
              ELSE [app EXCEPT !.busy = FALSE]
    /\ UNCHANGED <<tty, ed, recall, modal>>

Event == app.running /\ app.events < MaxEvents
Asked ==
    /\ Event /\ app.busy /\ ~modal.approval
    /\ modal' = [modal EXCEPT !.approval = TRUE]
    /\ app' = [app EXCEPT !.events = @ + 1]
    /\ UNCHANGED <<tty, ed, recall>>
TimedOut ==
    /\ app.running /\ modal.approval /\ modal' = [modal EXCEPT !.approval = FALSE]
    /\ UNCHANGED <<tty, ed, recall, app>>
Message ==
    /\ Event /\ CanRead
    /\ \E text \in Sent :
         /\ recall' = [recall EXCEPT !.history = Kept(Append(@, text))]
         /\ app' = [app EXCEPT !.busy = TRUE, !.events = @ + 1]
    /\ UNCHANGED <<tty, ed, modal>>

PressKey == \/ PromptKey \/ PickerKey \/ BrowseToggle \/ BrowseKey \/ OpenPicker
            \/ QueueDraft \/ EditorKey \/ CompletionKey \/ RecallKey \/ EscapeKey
            \/ StopKey \/ PasteKey \/ EditKey
KeysNext == \/ Stroke \/ RawInterrupt \/ RawSubmit \/ PressKey
            \/ (\E n \in 1..Len(tty.wire) : ReadKeys(n) \/ ReadHalf(n))
            \/ TurnEnds \/ Asked \/ TimedOut \/ Message
KeysSpec == KeysInit /\ [][KeysNext]_keysVars

-----------------------------------------------------------------------------
(***************************************************************************)
(* Properties                                                              *)
(***************************************************************************)

\* The cursor is inside the buffer's first line, the recalled entry inside the
\* history, which keeps its cap (the undo stack may outgrow its own: clear does not
\* look).
KeysTypeOK ==
    /\ ed.lines # <<>> /\ ed.row = 1 /\ ed.col \in 0..Len(AtLine(ed))
    /\ Len(recall.history) <= HistoryMax
    /\ recall.pos \in FreeTyping..Len(recall.history)
    /\ \A i \in DOMAIN tty.keys : tty.keys[i].payload \in Text
    /\ app.queue \in Nat /\ app.events \in 0..MaxEvents

\* The undo stack is a chain that ends in the buffer: each entry leaves the
\* text the next one starts from and the last leaves what is shown, whichever
\* of typing, recall, completion, external editor, clearing or undo went
\* before.  An undo so never brings back a text that was not there.
UndoLinks ==
    /\ \A i \in 1..(Len(ed.undo) - 1) : ed.undo[i].after = ed.undo[i + 1].before
    /\ ed.undo # <<>> => Last(ed.undo).after = Joined(ed.lines)

\* Characters that reach the parser in several reads give the keys that they give
\* in one read, wherever the reads end, but for one place: after an ESC that "["
\* or "O" follows in the next read.  There the parser has given the key escape, and
\* types the rest of the sequence, although "any partial escape sequence is
\* buffered until more input arrives" (keys.py:16-17) "even when the escape
\* sequences arrive in separate chunks" (12-13).  A read's half characters
\* (ReadHalf) and a Ctrl+C or Ctrl+D that is read alone (RawInterrupt, RawSubmit)
\* change what reaches the parser.
ChunksDontMatter ==
    [][\A n \in 1..Len(tty.wire) :
           ReadKeys(n) /\ ~AfterEscape(Chunk(n)) =>
               tty.given \o tty'.keys
               = Feed(IdleReader, tty.fed \o Chunk(n)).keys]_keysVars

=============================================================================
