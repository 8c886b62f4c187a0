------------------------------ MODULE KeyReader ------------------------------
(***************************************************************************)
(* The parser from the terminal's characters to keys.  A character is a    *)
(* string; "[", "O" and the letters that end an escape sequence are        *)
(* printable on their own.  "P" and "E" stand for the bodies 200~ and 201~ *)
(* that open and close a bracketed paste, "?" for a body the parser has no *)
(* name for.                                                               *)
(***************************************************************************)
EXTENDS Integers, SequencesExt

ESC == "esc"
PasteEnd == <<ESC, "[", "E">>
FinalName == [U |-> "up", D |-> "down", L |-> "left"]
Controls == [cr |-> "enter", bs |-> "backspace", tab |-> "tab", sp |-> "space",
             nl |-> "enter"]
\* What of the alphabet lies between 0x40 and 0x7E, and so ends a sequence.
Finals == DOMAIN FinalName
          \cup {"P", "E", "?", "[", "O", "@", "a", "f", "j", "n", "s", "y"}
IdleReader == [buf |-> <<>>, pasting |-> FALSE]

Keypress(name, payload) == [name |-> name, payload |-> payload]

\* Where the marker that closes a paste starts, 0 if it has not arrived.
PasteEndAt(buf) ==
    LET at == {i \in 1..(Len(buf) - 2) : SubSeq(buf, i, i + 2) = PasteEnd}
    IN IF at = {} THEN 0 ELSE Min(at)
FinalAt(buf) ==
    LET at == {i \in 3..Len(buf) : buf[i] \in Finals}
    IN IF at = {} THEN 0 ELSE Min(at)

(***************************************************************************)
(* _take_one: the next key as a singleton sequence (or none, when the      *)
(* buffer holds a part of one), the bytes it used and the paste mode.      *)
(***************************************************************************)
Taken(key, used, pasting) == [key |-> <<key>>, used |-> used, pasting |-> pasting]
NotYet(pasting) == [key |-> <<>>, used |-> 0, pasting |-> pasting]

\* Mutant of TakePasted: gives out the part of a paste that has arrived.
TakePastedSoFar(buf) ==
    LET at == PasteEndAt(buf)
    IN IF at = 0 THEN Taken(Keypress("paste", buf), Len(buf), TRUE)
       ELSE Taken(Keypress("paste", SubSeq(buf, 1, at - 1)), at + 2, FALSE)

TakePasted(buf) ==
    LET at == PasteEndAt(buf)
    IN IF at = 0 THEN NotYet(TRUE)
       ELSE Taken(Keypress("paste", SubSeq(buf, 1, at - 1)), at + 2, FALSE)

\* ESC [ body: the body has a name only when nothing precedes its final.
TakeSequence(buf) ==
    LET end == FinalAt(buf)
        final == buf[end]
    IN CASE end = 0 -> NotYet(FALSE)
         [] end = 3 /\ final = "P" -> Taken(Keypress("paste-start", <<>>), end, TRUE)
         [] end = 3 /\ final \in DOMAIN FinalName ->
                Taken(Keypress(FinalName[final], <<>>), end, FALSE)
         [] OTHER -> Taken(Keypress("unknown", SubSeq(buf, 1, end)), end, FALSE)

\* ESC O x, the arrows' older form.
TakeShort(buf) ==
    CASE Len(buf) < 3 -> NotYet(FALSE)
      [] Len(buf) >= 3 /\ buf[3] \in DOMAIN FinalName ->
             Taken(Keypress(FinalName[buf[3]], <<>>), 3, FALSE)
      [] OTHER -> Taken(Keypress("unknown", SubSeq(buf, 1, 3)), 3, FALSE)

\* Any other byte is a key, an ESC too with nothing or something else behind it.
TakePlain(byte) ==
    CASE byte = ESC -> Taken(Keypress("escape", <<>>), 1, FALSE)
      [] byte \in DOMAIN Controls -> Taken(Keypress(Controls[byte], <<>>), 1, FALSE)
      [] OTHER -> Taken(Keypress(byte, <<>>), 1, FALSE)

TakeOne(buf, pasting) ==
    CASE buf = <<>> -> NotYet(pasting)
      [] buf # <<>> /\ pasting -> TakePasted(buf)
      [] ~pasting /\ IsPrefix(<<ESC, "[">>, buf) -> TakeSequence(buf)
      [] ~pasting /\ IsPrefix(<<ESC, "O">>, buf) -> TakeShort(buf)
      [] OTHER -> TakePlain(buf[1])

(***************************************************************************)
(* feed: every key the buffer completes; what is left waits for more.  A   *)
(* key uses a byte at least, so there are no more of them than bytes.      *)
(***************************************************************************)
TakeNext(state) ==
    LET one == TakeOne(state.buf, state.pasting)
    IN IF one.key = <<>> THEN state
       ELSE [keys |-> state.keys \o one.key,
             buf |-> SubSeq(state.buf, one.used + 1, Len(state.buf)),
             pasting |-> one.pasting]

\* The state after taking from it count times.
TakeTimes(state, count) ==
    LET after[n \in 0..count] == IF n = 0 THEN state ELSE TakeNext(after[n - 1])
    IN after[count]

Feed(reader, chunk) ==
    LET buf == reader.buf \o chunk
        all == TakeTimes([keys |-> <<>>, buf |-> buf, pasting |-> reader.pasting], Len(buf))
    IN [keys |-> all.keys, reader |-> [buf |-> all.buf, pasting |-> all.pasting]]

=============================================================================
