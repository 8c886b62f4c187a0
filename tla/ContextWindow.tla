----------------------------- MODULE ContextWindow -----------------------------
(***************************************************************************)
(* What of a chat reaches the LLM: the rows of a session in memory and in  *)
(* the database, the window over them and the message list built from it   *)
(* (nbchat/core/context_manager.py and chat_builder.py), and the trimming  *)
(* of that list before each call.  Where the loop goes from call to call   *)
(* is in AgentTurn.                                                        *)
(*                                                                         *)
(* A row or message is its role, its length and the exchange it belongs    *)
(* to; lengths are in units of some characters.  Which exchange is the     *)
(* least important is left open.  Core memory, episodic memory and the     *)
(* action log count as something to tell or nothing; the summary of a turn  *)
(* that left the window is the model's, or the stand-in for it.             *)
(***************************************************************************)
EXTENDS Integers, SequencesExt, TLC

CONSTANTS
    Said,       (* lengths of what the user says                            *)
    Replies,    (* lengths of what the model and the supervisor say         *)
    Returned,   (* lengths of tool results                                  *)
    MaxRows,    (* bounds the rows of a session                             *)
    MaxCalls,   (* bounds the tool calls of one reply                       *)
    MaxCrashes, (* bounds the times the program dies                        *)
    RowLimit,   (* HISTORY_ROW_LIMIT                                        *)
    Budget,     (* of the window, in twentieths of a token                  *)
    Limit,      (* of the message list, as a length                         *)
    KeepRecent, (* KEEP_RECENT                                              *)
    Keep,       (* what truncation leaves of a result                       *)
    Marker,     (* the length of "[...truncated n chars...]"                *)
    Snippet,    (* what a note keeps of a dropped result                    *)
    Short       (* what the user says up to this length is no new goal      *)

ASSUME WindowAssumption ==
    /\ {MaxRows, MaxCrashes, Budget, Limit, KeepRecent, Short} \subseteq Nat
    /\ {MaxCalls, RowLimit, Keep, Marker, Snippet} \subseteq Nat \ {0}
    /\ Said \cup Replies \cup Returned \subseteq Nat \ {0}

VARIABLES
    log,      (* the rows of the session in the database                    *)
    history,  (* the rows in memory                                         *)
    messages, (* the message list of the turn, system prompt first          *)
    total,    (* _total, the running length of _hard_trim                   *)
    phase,    (* "idle", "window", "call", "drop", "cut", "stream", "tools" *)
    crashes,
    memory,   (* which of core memory, episodes and action log hold a thing *)
    summary,  (* turn -> its future ("running", "made", "failed") or what   *)
              (* is cached for it ("model", "standin")                      *)
    gather    (* per thread: the turns it still has to look up, and whether *)
              (* it has seen the future of the first one finished           *)

vars == <<log, history, messages, total, phase, crashes, memory, summary, gather>>
kept == <<memory, summary, gather>>

(* calls: how many tool calls a message makes; of: its exchange, or 0.      *)
Row(role, len, calls, of) == [role |-> role, len |-> len, calls |-> calls, of |-> of]

User(len) == Row("user", len, 0, 0)
Text(len) == Row("assistant", len, 0, 0)

IsUser(r) == r.role = "user"
IsResult(r) == r.role = "tool"
MakesCalls(r) == r.calls > 0

Threads == {"turn", "compact"}
Away == [left |-> <<>>, seen |-> FALSE]

Init ==
    /\ log = <<>> /\ history = <<>> /\ messages = <<>>
    /\ total = 0 /\ phase = "idle" /\ crashes = 0
    /\ memory = {} /\ summary = <<>>
    /\ gather = [p \in Threads |-> Away]

-----------------------------------------------------------------------------
(* Some rows of a list, in their order: stated over the indices.            *)
InOrder(S) ==
    [k \in 1..Cardinality(S) |-> CHOOSE i \in S : Cardinality({j \in S : j <= i}) = k]

RowsAt(rows, S) ==
    LET at == InOrder(S)
    IN  [k \in DOMAIN at |-> rows[at[k]]]

-----------------------------------------------------------------------------
(* The window.                                                              *)

(* _est_tokens, in twentieths: 2.5 characters to a token of a tool result,  *)
(* 4 of anything else; reasoning is not counted.                            *)
Weight(r) ==
    CASE r.role = "analysis" -> 0
      [] r.role = "tool" -> 8 * r.len
      [] OTHER -> 5 * r.len

WeightFrom(rows, i) == SumFunctionOnSet([j \in DOMAIN rows |-> Weight(rows[j])], i..Len(rows))

(* The first row of the window: the first user row behind the last row that *)
(* does not fit, but not behind the last user row.                          *)
Start(rows) ==
    LET users == {i \in DOMAIN rows : IsUser(rows[i])}
        over  == {i \in DOMAIN rows : WeightFrom(rows, i) > Budget}
        last  == IF users = {} THEN 1 ELSE Max(users)
    IN  IF over = {} THEN 1
        ELSE Min({last} \cup {i \in users : i > Max(over)})

(* _drop_orphan_tool_messages: a result stays if a message before it made   *)
(* the call.                                                                *)
WithoutOrphans(ms) ==
    RowsAt(ms, {i \in DOMAIN ms :
                   IsResult(ms[i]) => \E j \in 1..(i - 1) : /\ MakesCalls(ms[j])
                                                           /\ ms[j].of = ms[i].of})

(* build_messages: the system prompt, the volatile pair if there is context *)
(* to tell, and the rows of the window but for the reasoning.               *)
Build(rows, context) ==
    LET spoken == RowsAt(rows, {i \in DOMAIN rows : rows[i].role # "analysis"})
        pair   == IF context THEN <<User(1), Text(1)>> ELSE <<>>
    IN  WithoutOrphans(<<Row("system", 1, 0, 0)>> \o pair \o spoken)

(* _group_by_user_turn, of the rows in front of the window.                 *)
Evicted(rows) ==
    LET cut   == Start(rows)
        heads == {1} \cup {i \in DOMAIN rows : IsUser(rows[i])}
        from  == InOrder({i \in heads : i < cut})
        until(k) == IF k = Len(from) THEN cut - 1 ELSE from[k + 1] - 1
    IN  [k \in DOMAIN from |-> SubSeq(rows, from[k], until(k))]

(* What core memory and the episodes have to tell: an episode is found by   *)
(* what it is about, or when it is important enough.                        *)
L1Block == "core" \in memory
L2Block(found) == found /\ "episodes" \in memory

(* The window, and the message list built from it.                          *)
OpenWindow ==
    LET first == Start(history)
    IN  /\ \E found \in BOOLEAN :
              messages' = Build(SubSeq(history, first, Len(history)),
                                \/ "actions" \in memory \/ L1Block \/ L2Block(found)
                                \/ first > 1)
        /\ phase' = "call"

-----------------------------------------------------------------------------
(* The loop, as far as it adds rows and messages.                           *)

Both(rows) ==
    /\ log' = log \o rows
    /\ history' = history \o rows

Room == Len(log) < MaxRows

(* With a line in the action log there is something to tell whatever else   *)
(* there is: the rest is then left out.                                     *)
Note(m) == IF "actions" \in m THEN {"actions"} ELSE m

(* What a text leaves in core memory: a long one is the goal or a           *)
(* correction, a short one may be a correction.                             *)
GoalNoted(len) == {Note(memory \cup {"core"})} \cup (IF len > Short THEN {} ELSE {memory})

(* What a reply or a result leaves: entities and errors, or none; an        *)
(* episode, if it is important enough.                                      *)
ExchangeNoted == {{}, {"core"}}
Episodes == {{}, {"episodes"}}

(* A user's turn begins: its row is logged and the turns in front of the    *)
(* window are to be looked up.                                              *)
Turn(len) ==
    /\ phase = "idle" /\ Room
    /\ Both(<<User(len)>>)
    /\ memory' \in GoalNoted(len)
    /\ gather' = [gather EXCEPT !["turn"].left = Evicted(history')]
    /\ phase' = "window"
    /\ UNCHANGED <<messages, total, crashes, summary>>

-----------------------------------------------------------------------------
(* The summaries of the turns in front of the window, looked up by the turn *)
(* and by a compaction (/compact, or the thread that compacts by itself);   *)
(* futures finish on the summarizer's threads.                              *)

Status(unit) == IF unit \in DOMAIN summary THEN summary[unit] ELSE "none"
Finished(unit) == Status(unit) \in {"made", "failed"}

(* /compact is refused while a turn runs, and the thread of its own waits   *)
(* for the end of the turn, or gives up.                                    *)
MayCompact == phase = "idle" /\ gather["compact"] = Away

(* Nothing keeps a turn from starting while a compaction looks up.          *)
Compact ==
    /\ MayCompact
    /\ Evicted(history) # <<>>
    /\ gather' = [gather EXCEPT !["compact"].left = Evicted(history)]
    /\ UNCHANGED <<log, history, messages, total, phase, crashes, memory, summary>>

(* _get_turn_summary of the turns up to the first whose future has finished: *)
(* a future is submitted where there is neither one nor a cached summary.   *)
LookUp(p) ==
    LET left == gather[p].left
        i    == SelectInSeq(left, Finished)
        new  == {u \in ToSet(IF i = 0 THEN left ELSE SubSeq(left, 1, i)) : Status(u) = "none"}
    IN  /\ left # <<>> \/ (p = "turn" /\ phase = "window")
        /\ ~gather[p].seen
        /\ summary' = [u \in new \cup DOMAIN summary |->
                          IF u \in new THEN "running" ELSE summary[u]]
        /\ gather' = [gather EXCEPT ![p] =
                         IF i = 0 THEN Away
                         ELSE [left |-> SubSeq(left, i, Len(left)), seen |-> TRUE]]
        /\ IF p = "turn" /\ i = 0 THEN OpenWindow ELSE UNCHANGED <<messages, phase>>
        /\ UNCHANGED <<log, history, total, crashes, memory>>

(* The result of that future is cached and the future deleted.  When the    *)
(* other thread was faster the deletion raises: a turn is over with it, a   *)
(* compaction reports it.                                                   *)
Store(p) ==
    LET unit == Head(gather[p].left)
    IN  /\ gather[p].seen
        /\ summary' = [summary EXCEPT ![unit] =
                          IF @ \in {"made", "model"} THEN "model" ELSE "standin"]
        /\ IF Finished(unit)
           THEN /\ gather' = [gather EXCEPT ![p] = [left |-> Tail(@.left), seen |-> FALSE]]
                /\ UNCHANGED phase
           ELSE /\ gather' = [gather EXCEPT ![p] = Away]
                /\ phase' = IF p = "turn" THEN "idle" ELSE phase
        /\ UNCHANGED <<log, history, messages, total, crashes, memory>>

(* _call_summarizer: an error makes the stand-in the result.                *)
Summarize(unit, result) ==
    /\ summary[unit] = "running"
    /\ summary' = [summary EXCEPT ![unit] = result]
    /\ UNCHANGED <<log, history, messages, total, phase, crashes, memory, gather>>

-----------------------------------------------------------------------------
(* The rest of the loop.                                                    *)

(* A correction by the supervisor or a stall message: a user row like any   *)
(* other.                                                                   *)
Inject(len) ==
    /\ phase = "call" /\ Room
    /\ Both(<<User(len)>>)
    /\ messages' = Append(messages, User(len))
    /\ UNCHANGED <<total, phase, crashes, kept>>

(* The stream broke with nothing to keep, or it broke or was cut off with   *)
(* some text, which is kept and followed by a nudge.                        *)
Breaks(len) ==
    /\ phase = "stream"
    /\ \/ UNCHANGED <<log, history, messages, memory>>
       \/ /\ Room
          /\ Both(<<Text(len), User(1)>>)
          /\ messages' = messages \o <<Text(len), User(1)>>
          /\ \E c \in ExchangeNoted, e \in Episodes : memory' = Note(memory \cup c \cup e)
    /\ phase' = "call"
    /\ UNCHANGED <<total, crashes, summary, gather>>

(* The answer; its reasoning may be kept as a row of its own.               *)
Answer(len, thought) ==
    /\ phase = "stream" /\ Room
    /\ Both(IF thought THEN <<Row("analysis", len, 0, 0), Text(len)>> ELSE <<Text(len)>>)
    /\ messages' = <<>>
    /\ phase' = "idle"
    /\ UNCHANGED <<total, crashes, kept>>

(* The turn ends without an answer: the stop event, or an exception.        *)
Leave ==
    /\ phase \in {"call", "stream", "tools"}
    /\ messages' = <<>>
    /\ phase' = "idle"
    /\ UNCHANGED <<log, history, total, crashes, kept>>

(* A reply with n tool calls opens an exchange.                             *)
Calls(n) ==
    /\ phase = "stream" /\ Room
    /\ LET r == Row("assistant", 1, n, Len(log) + 1)
       IN  Both(<<r>>) /\ messages' = Append(messages, r)
    /\ phase' = "tools"
    /\ UNCHANGED <<total, crashes, kept>>

(* One result: the row keeps it as it came, the message as compressed.      *)
Result(len, shown) ==
    /\ phase = "tools"
    /\ LET open == SelectLastInSeq(messages, MakesCalls)
           of   == messages[open].of
       IN  /\ Both(<<Row("tool", len, 0, of)>>)
           /\ messages' = Append(messages, Row("tool", shown, 0, of))
           /\ phase' = IF Len(messages') - open = messages[open].calls THEN "call" ELSE "tools"
    /\ \E c \in ExchangeNoted, e \in Episodes :
          memory' = Note(memory \cup {"actions"} \cup c \cup e)
    /\ UNCHANGED <<total, crashes, summary, gather>>

(* The program dies and the session is opened again: load_history gives the *)
(* oldest rows up to the limit; the futures are lost, what was cached was   *)
(* saved.                                                                   *)
Reload ==
    /\ crashes < MaxCrashes
    /\ crashes' = crashes + 1
    /\ history' = SubSeq(log, 1, IF Len(log) < RowLimit THEN Len(log) ELSE RowLimit)
    /\ messages' = <<>>
    /\ total' = 0 /\ phase' = "idle"
    /\ summary' = Restrict(summary, {u \in DOMAIN summary : summary[u] \in {"model", "standin"}})
    /\ gather' = [p \in Threads |-> Away]
    /\ UNCHANGED <<log, memory>>

-----------------------------------------------------------------------------
(* _hard_trim.                                                              *)

Length(ms) == SumFunction([i \in DOMAIN ms |-> ms[i].len])

(* Mutant: the extent is taken from the number of calls.                    *)
ExchangeEndCounted(ms, i) == Min({Len(ms), i + ms[i].calls})

(* The results that follow the message with calls at i: up to where.        *)
ExchangeEnd(ms, i) ==
    Max({i} \cup {j \in i..Len(ms) : \A k \in (i + 1)..j : IsResult(ms[k])})

(* Where the exchanges begin; the first two messages are passed over.       *)
Exchanges(ms) == {i \in 3..Len(ms) : MakesCalls(ms[i])}

(* Mutant: the most recent exchanges are not protected.                     *)
DroppableAll(ms) == Exchanges(ms)

(* Those that may be dropped: all but the most recent ones.                 *)
Droppable(ms) ==
    {i \in Exchanges(ms) : Cardinality({j \in Exchanges(ms) : j > i}) >= KeepRecent}

StartTrim ==
    /\ phase = "call"
    /\ total' = Length(messages)
    /\ phase' = "drop"
    /\ UNCHANGED <<log, history, messages, crashes, kept>>

(* The least important exchange, at i, goes, and the system message gets a  *)
(* note; the running length loses the size of the oldest one that could     *)
(* have gone.                                                               *)
Drop(i) ==
    /\ phase = "drop" /\ total > Limit
    /\ i \in Droppable(messages)
    /\ LET end    == ExchangeEnd(messages, i)
           oldest == Min(Droppable(messages))
           gone   == SubSeq(messages, oldest, ExchangeEnd(messages, oldest))
           note   == SumFunction([k \in (i + 1)..end |-> Min({Snippet, messages[k].len})])
           noted  == [messages EXCEPT ![1].len = @ + note]
       IN  /\ messages' = SubSeq(noted, 1, i - 1) \o SubSeq(noted, end + 1, Len(noted))
           /\ total' = total + note - Length(gone)
    /\ UNCHANGED <<log, history, phase, crashes, kept>>

StopDropping ==
    /\ phase = "drop"
    /\ total <= Limit \/ Droppable(messages) = {}
    /\ phase' = "cut"
    /\ UNCHANGED <<log, history, messages, total, crashes, kept>>

Results(ms) == {i \in DOMAIN ms : IsResult(ms[i])}

(* The first of the longest tool results.                                   *)
Largest(ms) ==
    Min({i \in Results(ms) : \A j \in Results(ms) : ms[j].len <= ms[i].len})

CanCut(ms) == Results(ms) # {} /\ ms[Largest(ms)].len > Keep

(* The largest result is truncated, and a marker says so: it is then longer *)
(* than what it was truncated to, so that the loop takes it up once more.   *)
(* The round that truncates the same result again changes nothing: it is a  *)
(* stuttering step, and a loop of such rounds does not leave "cut".         *)
Truncate ==
    /\ phase = "cut" /\ total > Limit
    /\ CanCut(messages)
    /\ messages' = [messages EXCEPT ![Largest(messages)].len = Keep + Marker]
    /\ total' = total + Keep + Marker - messages[Largest(messages)].len
    /\ UNCHANGED <<log, history, phase, crashes, kept>>

(* Mutant: the loop does not give up on results that are short already.     *)
EndTrimUnderLimit ==
    /\ phase = "cut"
    /\ total <= Limit
    /\ total' = 0
    /\ phase' = "stream"
    /\ UNCHANGED <<log, history, messages, crashes, kept>>

(* The request is sent.                                                     *)
EndTrim ==
    /\ phase = "cut"
    /\ total <= Limit \/ ~CanCut(messages)
    /\ total' = 0
    /\ phase' = "stream"
    /\ UNCHANGED <<log, history, messages, crashes, kept>>

-----------------------------------------------------------------------------
Trim ==
    \/ StartTrim \/ StopDropping \/ Truncate \/ EndTrim
    \/ \E i \in DOMAIN messages : Drop(i)

Next ==
    \/ \E len \in Said : Turn(len)
    \/ \E len \in Replies :
          \/ \E thought \in BOOLEAN : Answer(len, thought)
          \/ Inject(len) \/ Breaks(len)
    \/ Compact
    \/ \E p \in Threads : LookUp(p) \/ Store(p)
    \/ \E u \in DOMAIN summary, result \in {"made", "failed"} : Summarize(u, result)
    \/ \E n \in 1..MaxCalls : Calls(n)
    \/ \E len, shown \in Returned : shown <= len /\ Result(len, shown)
    \/ Leave \/ Reload
    \/ Trim

(* _hard_trim is a loop that runs on; what else happens may or may not.     *)
Spec == Init /\ [][Next]_vars /\ WF_vars(Trim)

-----------------------------------------------------------------------------
RowType ==
    [role : {"system", "user", "assistant", "analysis", "tool"}, len : Nat \ {0},
     calls : 0..MaxCalls, of : Nat]

TypeOK ==
    /\ log \in Seq(RowType) /\ history \in Seq(RowType) /\ messages \in Seq(RowType)
    /\ total \in Int
    /\ phase \in {"idle", "window", "call", "drop", "cut", "stream", "tools"}
    /\ phase \in {"idle", "window"} <=> messages = <<>>
    /\ memory \subseteq {"core", "episodes", "actions"}
    /\ DOMAIN summary \subseteq Seq(RowType)
    /\ Range(summary) \subseteq {"running", "made", "failed", "model", "standin"}
    /\ \A p \in Threads : gather[p].seen => gather[p].left # <<>>
    /\ crashes \in 0..MaxCrashes

(* What the rows in memory have of the results of an exchange.              *)
Answered(rows, of) == Cardinality({i \in DOMAIN rows : IsResult(rows[i]) /\ rows[i].of = of})

(* In a request each tool result belongs to the exchange it stands in, and  *)
(* each message with tool calls is followed by all the results there are of *)
(* it: neither the window, nor the trim, nor a session reloaded after a     *)
(* crash or with a limit on its rows takes an exchange apart.               *)
PairsStay ==
    phase = "stream" =>
        /\ \A i \in DOMAIN messages :
              MakesCalls(messages[i]) =>
                 ExchangeEnd(messages, i) - i = Answered(history, messages[i].of)
        /\ \A i \in Results(messages) :
              \E j \in 1..(i - 1) :
                 /\ MakesCalls(messages[j]) /\ messages[j].of = messages[i].of
                 /\ ExchangeEnd(messages, j) >= i

(* The trim takes nothing but tool exchanges, and none of the KeepRecent    *)
(* most recent ones: what the user and the model said stays, in its order.  *)
Spoken(ms) ==
    RowsAt(ms, {i \in DOMAIN ms : ms[i].role \in {"user", "assistant"} /\ ~MakesCalls(ms[i])})

Recent(ms) ==
    {ms[i].of : i \in {j \in Exchanges(ms) :
                           Cardinality({k \in Exchanges(ms) : k > j}) < KeepRecent}}

Spares ==
    /\ Spoken(messages') = Spoken(messages)
    /\ Recent(messages') = Recent(messages)

TrimSpares == [][(phase \in {"drop", "cut"} /\ phase' # "idle") => Spares]_vars

(* The loop truncates a result again that it has truncated before: the      *)
(* marker makes it longer than Keep, and nothing else is longer.            *)
Spinning ==
    /\ phase = "cut" /\ total > Limit
    /\ CanCut(messages)
    /\ messages[Largest(messages)].len = Keep + Marker

(* What truncating every result that is longer than that would save.        *)
Savings(ms) ==
    SumFunction([i \in {j \in Results(ms) : ms[j].len > Keep + Marker} |->
                    ms[i].len - (Keep + Marker)])

(* "Truncate the largest tool result", as a "last resort"                   *)
(* (context_manager.py 642): when truncating each long result once brings   *)
(* the total under the limit, or nothing is left to truncate, the trim ends *)
(* and the request is sent (unless the program dies first).  Otherwise the  *)
(* last resort does not end: it comes to spin on a result it has truncated, *)
(* where the docstring (551) has the trim go on "until messages fit".       *)
TrimEndsOrSpins ==
    /\ (phase = "cut" /\ (~CanCut(messages) \/ total - Savings(messages) <= Limit))
          ~> phase # "cut"
    /\ phase = "cut" ~> phase # "cut" \/ Spinning

=============================================================================
