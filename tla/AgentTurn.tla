------------------------------- MODULE AgentTurn -------------------------------
(***************************************************************************)
(* The chat agent of the terminal UI (nbchat/tui/agent.py) running the     *)
(* agentic loop of nbchat/core/conversation.py: turns asked for by the     *)
(* user and by the email bridge wait for one lock; the turn that has it    *)
(* calls the LLM, runs tools and calls it again; meanwhile the user may    *)
(* interrupt and the supervisor thread may push corrections.               *)
(*                                                                         *)
(* What is said is abstracted to how a reply ends.  Of the messages sent   *)
(* to the LLM only the pairing of tool calls and results is kept: how many *)
(* results the last message with calls still lacks, and whether an earlier *)
(* one lacks any.                                                          *)
(***************************************************************************)
EXTENDS Integers

CONSTANTS
    Typed,        (* turns asked for with send_async                         *)
    Mailed,       (* turns asked for with send_from_email                    *)
    MaxToolTurns, (* MAX_TOOL_TURNS                                          *)
    MaxRetries,   (* MAX_STREAM_RETRIES                                      *)
    StallTurns,   (* STALL_TURNS                                             *)
    MaxCalls,     (* bounds the tool calls of one reply                      *)
    QueueLen,     (* maxlen of the InterjectionQueue                         *)
    Nobody

Turn == Typed \cup Mailed

ASSUME TurnAssumption ==
    /\ {MaxToolTurns, MaxRetries} \subseteq Nat
    /\ {StallTurns, MaxCalls, QueueLen} \subseteq Nat \ {0}
    /\ Typed \cap Mailed = {} /\ Nobody \notin Turn

VARIABLES
    at,        (* of each turn: "new", "waiting", "going" or "over"          *)
    lock,      (* the turn that holds _send_lock                             *)
    active,    (* _turn_active                                               *)
    stop,      (* _stop_event                                                *)
    pc,        (* where the turn thread that holds the lock is               *)
    turn,      (* the loop variable: passes made so far                      *)
    attempt,   (* the inner one: stream attempts of this pass                *)
    owed,      (* results the last message with tool calls still lacks       *)
    dangling,  (* an earlier message with tool calls lacks a result          *)
    alike,     (* tool turns since _recent_call_sets was last cleared        *)
    record,    (* status of each turn's task record, "lost" if it has no row *)
    filed,     (* the turn whose record _active_task is                      *)
    surplus,   (* user rows logged since the record was opened, less those   *)
               (* it was told of (agent_user_rows)                           *)
    charged,   (* of each turn: user_interventions of the finished record    *)
    injected,  (* of each turn: corrections injected into it                 *)
    reviewing, (* "running" of the refine hook                               *)
    reviewed,  (* of each turn: refine rounds scheduled for its record       *)
    crashed,   (* turns that ended with a surfaced error                     *)
    queue,     (* how many interjections wait                                *)
    review,    (* the supervisor is asking the LLM about a turn              *)
    issued     (* LLM calls issued since the stop event was set              *)

loopVars == <<turn, attempt, owed, dangling, alike>>
userVars == <<at, lock, active>>
taskVars == <<record, filed, charged, reviewing, reviewed>>
rowVars == <<surplus, injected>>
vars == <<userVars, stop, pc, loopVars, taskVars, rowVars, crashed, queue, review, issued>>

Init ==
    /\ at = [t \in Turn |-> "new"]
    /\ lock = Nobody
    /\ active = FALSE /\ stop = FALSE
    /\ pc = "idle"
    /\ turn = 0 /\ attempt = 0
    /\ owed = 0 /\ dangling = FALSE
    /\ alike = 0
    /\ record = [t \in Turn |-> "none"]
    /\ filed = Nobody
    /\ surplus = 0
    /\ charged = [t \in Turn |-> 0] /\ injected = [t \in Turn |-> 0]
    /\ reviewing = FALSE
    /\ reviewed = [t \in Turn |-> 0]
    /\ crashed = {}
    /\ queue = 0
    /\ review = FALSE
    /\ issued = 0

-----------------------------------------------------------------------------
(* The messages, as far as pairing goes.                                    *)

(* Any message but a tool result, with the number of tool calls it makes.   *)
Say(calls) == dangling' = (dangling \/ owed > 0) /\ owed' = calls

Result == owed' = owed - 1 /\ UNCHANGED dangling

(* Mutant: the task record is not told.                                     *)
SayAsUserUntold == surplus' = surplus + 1 /\ UNCHANGED injected

(* A message of the loop in the user's name: a user row more, of which the  *)
(* task record is told.                                                     *)
SayAsUser == UNCHANGED rowVars

-----------------------------------------------------------------------------
(* Turns are asked for, and take the lock one at a time.                    *)

Ask(t) ==
    /\ at[t] = "new"
    /\ at' = [at EXCEPT ![t] = "waiting"]
    /\ UNCHANGED <<lock, active, stop, pc, loopVars, taskVars, rowVars, crashed, queue, review,
                   issued>>

Acquire(t) ==
    /\ at[t] = "waiting" /\ lock = Nobody
    /\ lock' = t
    /\ pc' = "begin"
    /\ at' = [at EXCEPT ![t] = "going"]
    /\ UNCHANGED <<active, stop, loopVars, taskVars, rowVars, crashed, queue, review,
                   issued>>

(* _run_turn up to the loop.  An interrupt that came before is forgotten.   *)
Begin ==
    /\ pc = "begin"
    /\ stop' = FALSE /\ issued' = 0
    /\ active' = TRUE
    /\ Say(0)
    /\ turn' = 0 /\ attempt' = 0 /\ alike' = 0
    /\ pc' = "start"
    /\ UNCHANGED <<at, lock, taskVars, rowVars, crashed, queue, review>>

(* start_task: a record without its row in the task log only counts.        *)
Opened == {"open", "lost"}

(* _run_conversation_loop up to the first pass: the task record is opened,  *)
(* behind the user's own row.                                               *)
OpenRecord ==
    /\ pc = "start"
    /\ \E status \in Opened : record' = [record EXCEPT ![lock] = status]
    /\ filed' = lock
    /\ surplus' = 0
    /\ pc' = "top"
    /\ UNCHANGED <<userVars, stop, loopVars, charged, injected, reviewing, reviewed, crashed,
                   queue, review, issued>>

(* _count_user_interventions: the user rows that are not the loop's own.    *)
Interventions == surplus

(* finish_task: once per record.                                            *)
Finish(t, status) ==
    LET ends == t # Nobody /\ record[t] = "open"
    IN  /\ record' = [u \in Turn |-> IF ends /\ u = t THEN status ELSE record[u]]
        /\ charged' = [u \in Turn |-> IF ends /\ u = t THEN Interventions
                                      ELSE charged[u]]

(* should_refine_task: any end of a task is worth a review.                 *)
WorthReview(status) == status \in {"complete", "interrupted", "failed"}

(* on_task_finished: the record that _active_task holds is given to a       *)
(* refine round if it is finished and no round is running.                  *)
Refine(t) ==
    LET starts == t # Nobody /\ WorthReview(record'[t]) /\ ~reviewing
    IN  /\ reviewing' = (reviewing \/ starts)
        /\ reviewed' = [u \in Turn |-> IF starts /\ u = t THEN reviewed[u] + 1 ELSE reviewed[u]]

EndTurn(t, status) ==
    /\ Finish(t, status) /\ Refine(filed)
    /\ pc' = "leave"
    /\ UNCHANGED filed

-----------------------------------------------------------------------------
(* One pass of the loop.                                                    *)

Stopped ==
    /\ pc = "top"
    /\ stop
    /\ EndTurn(lock, "interrupted")
    /\ UNCHANGED <<userVars, stop, loopVars, rowVars, crashed, queue, review, issued>>

(* Interjections become user messages; these rows the record is not told    *)
(* of.                                                                      *)
Inject ==
    /\ IF queue = 0 THEN UNCHANGED <<owed, dangling>> ELSE Say(0)
    /\ surplus' = surplus + queue
    /\ injected' = [injected EXCEPT ![lock] = @ + queue]
    /\ queue' = 0

(* Mutant: the stop event is looked at when the turn begins only.           *)
DrainAnyway ==
    /\ pc = "top"
    /\ ~stop \/ turn > 0
    /\ Inject
    /\ attempt' = 0
    /\ pc' = "call"
    /\ UNCHANGED <<userVars, stop, turn, alike, taskVars, crashed, review, issued>>

(* The queue is drained, and the LLM call is prepared.                      *)
Drain ==
    /\ pc = "top"
    /\ ~stop
    /\ Inject
    /\ attempt' = 0
    /\ pc' = "call"
    /\ UNCHANGED <<userVars, stop, turn, alike, taskVars, crashed, review, issued>>

(* _stream_response sends the request.                                      *)
Issue ==
    /\ pc = "call" /\ attempt <= MaxRetries
    /\ issued' = IF stop THEN issued + 1 ELSE 0
    /\ pc' = "stream"
    /\ UNCHANGED <<userVars, stop, loopVars, taskVars, rowVars, crashed, queue, review>>

(* Mutant: a broken stream does not count as an attempt.                    *)
StreamBreaksUncounted ==
    /\ pc = "stream"
    /\ Say(0) \/ UNCHANGED <<owed, dangling>>
    /\ pc' = "call"
    /\ UNCHANGED <<userVars, stop, turn, attempt, alike, taskVars, rowVars, crashed, queue,
                   review, issued>>

(* MidStreamError: with text only, the text and a nudge are kept; with      *)
(* nothing, or with part of a tool call, the call is made again.            *)
StreamBreaks ==
    /\ pc = "stream"
    /\ \/ Say(0) /\ SayAsUser
       \/ UNCHANGED <<owed, dangling, rowVars>>
    /\ attempt' = attempt + 1
    /\ pc' = "call"
    /\ UNCHANGED <<userVars, stop, turn, alike, taskVars, crashed, queue, review, issued>>

(* The loop goes on, or (for ... else) it is left without a word, which a   *)
(* continue in the last pass would do.                                      *)
NextPass ==
    /\ turn' = turn + 1
    /\ attempt' = 0
    /\ pc' = IF turn < MaxToolTurns THEN "top" ELSE "leave"

(* The reply and a message that asks to go on are kept.                     *)
AskForMore ==
    /\ Say(0) /\ SayAsUser
    /\ NextPass
    /\ UNCHANGED <<userVars, stop, alike, taskVars, crashed, queue, review, issued>>

(* The reply has tool call markup that does not parse.                      *)
ReEmit == pc = "stream" /\ turn < MaxToolTurns /\ AskForMore

(* The reply was cut off: at the output limit, on an unfinished sentence or *)
(* inside an open voice tag.                                                *)
Continue == pc = "stream" /\ turn < MaxToolTurns /\ AskForMore

(* A reply without usable tool calls is the answer: also an empty one, one  *)
(* cut short by the stop event, one with calls but another finish_reason,   *)
(* and, in the last pass, one that was cut off or does not parse.           *)
Answer ==
    /\ pc = "stream"
    /\ Say(0) \/ UNCHANGED <<owed, dangling>>
    /\ EndTurn(lock, "complete")
    /\ UNCHANGED <<userVars, stop, turn, attempt, alike, rowVars, crashed, queue, review,
                   issued>>

(* Tool calls in the last pass: the turn ends with a warning.               *)
LastPass ==
    /\ pc = "stream" /\ turn = MaxToolTurns
    /\ Say(0)
    /\ EndTurn(lock, "complete")
    /\ UNCHANGED <<userVars, stop, turn, attempt, alike, rowVars, crashed, queue, review,
                   issued>>

(* Mutant: the stall message goes between the calls and their results.      *)
CallsThenStall ==
    /\ pc = "stream" /\ turn < MaxToolTurns
    /\ \E n \in 1..MaxCalls :
          IF alike + 1 >= StallTurns
          THEN alike' = 0 /\ owed' = n /\ dangling' = TRUE /\ SayAsUser
          ELSE alike' = alike + 1 /\ Say(n) /\ UNCHANGED rowVars
    /\ pc' = "run"
    /\ UNCHANGED <<userVars, stop, turn, attempt, taskVars, crashed, queue, review, issued>>

(* Tool calls, structured or recovered from markup in the text or in the    *)
(* reasoning: if the last StallTurns call sets may be the same, a stall     *)
(* message may come first; then the message with the calls.                 *)
Calls ==
    /\ pc = "stream" /\ turn < MaxToolTurns
    /\ \E n \in 1..MaxCalls : Say(n)
    /\ \/ alike + 1 >= StallTurns /\ alike' = 0 /\ SayAsUser
       \/ alike' = (IF alike < StallTurns THEN alike + 1 ELSE alike) /\ UNCHANGED rowVars
    /\ pc' = "run"
    /\ UNCHANGED <<userVars, stop, turn, attempt, taskVars, crashed, queue, review, issued>>

(* _batch_tool_results: the calls are run, consecutive reads side by side;  *)
(* their results are in the order of the calls.                             *)
RunTools ==
    /\ pc = "run"
    /\ pc' = "tools"
    /\ UNCHANGED <<userVars, stop, loopVars, taskVars, rowVars, crashed, queue, review,
                   issued>>

(* The results are added one by one.                                        *)
ToolResult ==
    /\ pc = "tools"
    /\ Result
    /\ IF owed = 1 THEN NextPass ELSE UNCHANGED <<turn, attempt, pc>>
    /\ UNCHANGED <<userVars, stop, alike, taskVars, rowVars, crashed, queue, review,
                   issued>>

(* Mutant: the records are written before what can still raise.             *)
CrashAfterwards ==
    /\ pc \in {"start", "top", "call", "stream", "run", "tools", "leave"}
    /\ lock \notin crashed
    /\ EndTurn(filed, "failed")
    /\ crashed' = crashed \cup {lock}
    /\ UNCHANGED <<userVars, stop, loopVars, rowVars, queue, review, issued>>

(* An exception leaves the loop, from whatever it calls or because the      *)
(* attempts are used up.  It is surfaced as a message, the record that      *)
(* _active_task holds is finished, and _run_turn returns normally.          *)
Crash ==
    /\ pc \in {"start", "top", "call", "stream", "run", "tools"}
    /\ EndTurn(filed, "failed")
    /\ crashed' = crashed \cup {lock}
    /\ UNCHANGED <<userVars, stop, loopVars, rowVars, queue, review, issued>>

(* The turn is over, and the lock free.  (What is said of a typed one is    *)
(* left out.)                                                               *)
Leave ==
    /\ pc = "leave"
    /\ active' = FALSE
    /\ at' = [at EXCEPT ![lock] = "over"]
    /\ lock' = Nobody
    /\ pc' = "idle"
    /\ turn' = 0 /\ attempt' = 0 /\ alike' = 0 /\ issued' = 0
    /\ surplus' = 0
    /\ UNCHANGED <<stop, owed, dangling, taskVars, injected, crashed, queue, review>>

-----------------------------------------------------------------------------
(* The user, the supervisor and the refine round.                           *)

Interrupt ==
    /\ ~stop
    /\ stop' = TRUE /\ issued' = 0
    /\ UNCHANGED <<userVars, pc, loopVars, taskVars, rowVars, crashed, queue, review>>

(* The watchdog finds a turn active and something to review, and asks the   *)
(* LLM about it.  (The cooldown only makes corrections rarer.)              *)
Review ==
    /\ ~review /\ active
    /\ review' = TRUE
    /\ UNCHANGED <<userVars, stop, pc, loopVars, taskVars, rowVars, crashed, queue, issued>>

(* In a full queue the oldest interjection gives way.                       *)
Push == queue' = IF queue = QueueLen THEN queue ELSE queue + 1

(* The verdict: nothing, or a correction, whichever turn is on by then; the *)
(* oldest gives way in a full queue.                                        *)
Verdict ==
    /\ review /\ review' = FALSE
    /\ Push \/ UNCHANGED queue
    /\ UNCHANGED <<userVars, stop, pc, loopVars, taskVars, rowVars, crashed, issued>>

RefineEnds ==
    /\ reviewing /\ reviewing' = FALSE
    /\ UNCHANGED <<userVars, stop, pc, loopVars, record, filed, charged, reviewed, rowVars,
                   crashed, queue, review, issued>>

-----------------------------------------------------------------------------
Loop ==
    \/ Begin \/ OpenRecord \/ Stopped \/ Drain
    \/ Issue \/ StreamBreaks \/ ReEmit \/ Continue \/ Answer \/ LastPass \/ Calls
    \/ RunTools \/ ToolResult \/ Crash \/ Leave

Next ==
    \/ \E t \in Turn : Ask(t) \/ Acquire(t)
    \/ Loop
    \/ Interrupt \/ Review \/ Verdict \/ RefineEnds

(* The turn thread runs on (requests and tools carry timeouts), and a       *)
(* thread that waits for the lock gets it when it is free.                  *)
Spec ==
    /\ Init /\ [][Next]_vars
    /\ WF_vars(Loop) /\ WF_vars(\E t \in Turn : Acquire(t))

-----------------------------------------------------------------------------
TypeOK ==
    /\ at \in [Turn -> {"new", "waiting", "going", "over"}]
    /\ lock \in Turn \cup {Nobody}
    /\ {active, stop, dangling} \subseteq BOOLEAN
    /\ pc \in {"idle", "begin", "start", "top", "call", "stream", "run", "tools", "leave"}
    /\ turn \in 0..MaxToolTurns
    /\ attempt \in 0..(MaxRetries + 1)
    /\ owed \in 0..MaxCalls
    /\ record \in [Turn -> {"none", "open", "lost", "complete", "interrupted", "failed"}]
    /\ filed \in Turn \cup {Nobody}
    /\ {charged[t] : t \in Turn} \cup {injected[t] : t \in Turn} \cup {surplus} \subseteq Nat
    /\ queue \in 0..QueueLen /\ review \in BOOLEAN

(* Every request to the LLM has each tool call answered by its result, with *)
(* nothing in between, whatever nudges, stall messages and interjections    *)
(* were added on the way; only a turn that crashed while it ran tools       *)
(* leaves calls unanswered behind.                                          *)
CallsAnswered == pc = "stream" => owed = 0 /\ (dangling => crashed # {})

(* At most one turn has an open task record, the one whose loop is running: *)
(* however a turn ends (an answer, the last pass, the stop event, an        *)
(* exception) its record is closed, and no pass is left by the silent exit  *)
(* that the loop's else clause guards against.  A closed record charges the *)
(* user with none of the nudges and stall messages written in his name.  It *)
(* is not what the documents say, though, as soon as the supervisor spoke:  *)
(* "Supervisor interjections are deliberately excluded" (task_tracker.py    *)
(* 298-300, docs/task_tracking.md 65), but the record charges exactly as    *)
(* many interventions as corrections were injected, none of them the user's *)
(* effort.                                                                  *)
RecordsClosed ==
    \A t \in Turn :
        /\ record[t] = "open" => lock = t /\ active /\ pc # "leave"
        /\ record[t] \in {"complete", "interrupted", "failed"} => charged[t] = injected[t]

(* A task is given to the refine hook once: a second time only by a turn    *)
(* that crashed before it had a record of its own, when _active_task still  *)
(* holds the one before.                                                    *)
ReviewedOnce ==
    \A t \in Turn : reviewed[t] > 1 => \E u \in crashed \ {t} : record[u] = "none"

(* After an interrupt no further pass begins: at most the attempts of the   *)
(* current one are still made.                                              *)
StopIsPrompt == issued <= MaxRetries + 1

(* Every turn that was asked for is over in the end, and the lock is free   *)
(* for the next, whatever the user and the supervisor do.                   *)
TurnsEnd == \A t \in Turn : at[t] = "waiting" ~> at[t] = "over"

=============================================================================
