------------------------------ MODULE ChatTurns ------------------------------
(***************************************************************************)
(* The full-screen terminal chat (tui2): one UI thread that runs the key   *)
(* handlers and the "call" events one at a time, turn worker threads that  *)
(* run one conversation turn each, and the threads of a background team    *)
(* run and of side questions.  Modelled: starting and quitting, messages   *)
(* from the keyboard, the control socket and the voice bridge, how one     *)
(* that comes while a turn runs becomes a redirect, how Ctrl+Q queues one, *)
(* how a goal continues itself, what the end of a turn starts next, the    *)
(* tool gate (plan mode, checkpoint before an edit, approval prompt with   *)
(* its single slot and its time limit) and its settings.  The threads      *)
(* share unlocked attributes: what looks at one and then writes another is *)
(* two steps, in the handlers of the UI thread as in a worker's wind-down. *)
(***************************************************************************)
EXTENDS Integers, Sequences, FiniteSets

CONSTANTS Workers,      \* turn threads (an identity is reused once it is dead)
          Runs,         \* threads of background team runs
          Sides,        \* threads of side questions
          MaxCommands,  \* bound on what the user and the control socket do
          MaxCalls,     \* bound on the gated tool calls of one turn or run
          Tools,        \* tools called: an editing one, one prompted for, both
          GoalTurns,    \* _goal_budget: auto-continue turns of a goal
          Habits        \* bound: what happens in one behaviour, the kinds of
                        \* commands and whether tools are called

ASSUME ChatTurnsAssumption ==
    /\ Workers \cup Runs \cup Sides \subseteq Nat \ {0}
    /\ Workers \cap Runs = {} /\ (Workers \cup Runs) \cap Sides = {}
    /\ Tools \subseteq {"edit", "shell", "mail"}
    /\ MaxCommands \in Nat /\ MaxCalls \in Nat /\ GoalTurns \in Nat
    /\ Habits \subseteq SUBSET {"queue", "goal", "plan", "approve", "team",
                                "side", "session", "voice", "tools"}

VARIABLES
    ui,     \* started, running, gate installed, plan mode, approval settings,
            \* voice bridge; commands used, and the kinds used
    chat,   \* handle, redirect, queue, stop event, busy, lock, _turn_mutated,
            \* transcripts heard and messages posted as "call" events; what
            \* the UI thread is in the middle of, with which message, and
            \* what of checkpoints there was since it reset the edit window
    goal,   \* the /goal record
    agent,  \* per thread: where it is, its message, its tool, its calls left
    ask,    \* the approval slot and the record of each prompt
    team,   \* _team_state
    fate    \* history: how often a message was sent, those let go of, and
            \* those that two threads had in the redirect slot

vars == <<ui, chat, goal, agent, ask, team, fate>>

Agents == Workers \cup Runs \cup Sides
Nobody == 0
Texts == 1..MaxCommands           \* what the user typed, numbered
NoText == 0
NoTool == "none"
GoalText == MaxCommands + 1       \* an auto-continue prompt of the goal
Mutating == {"edit", "shell"}     \* _file_mutating_tools
Gated == {"shell", "mail"}        \* the initial _risky_tools

\* The UI thread is between two handlers.
Between == chat.doing = "none"
Options == {"redirect", "begin"}  \* what _start_turn goes on to do

TypeOK ==
    /\ ui \in [started : BOOLEAN, running : BOOLEAN, gate : BOOLEAN,
               plan : BOOLEAN, asks : BOOLEAN, risky : SUBSET Tools,
               voice : BOOLEAN, used : 0..MaxCommands, does : Habits]
    /\ chat \in [handle : Workers \cup {Nobody}, redirect : 0..GoalText,
                 queue : Seq(Texts), stop : BOOLEAN, busy : BOOLEAN,
                 lock : Workers \cup {Nobody}, mutated : BOOLEAN,
                 heard : Seq(Texts), posted : Seq(Texts),
                 doing : {"none", "append"} \cup Options,
                 text : Texts \cup {NoText}, tried : BOOLEAN, early : BOOLEAN]
    /\ ~Between => chat.text \in Texts
    /\ goal \in [on : BOOLEAN, left : 0..GoalTurns]
    /\ agent \in [Agents -> [at : {"dead", "start", "turn", "save", "ask",
                                   "yes", "no", "tool", "wind", "read", "quiet",
                                   "chain", "rest", "popped"} \cup Options,
                             text : 0..GoalText, tool : Tools \cup {NoTool},
                             calls : 0..MaxCalls, tried : BOOLEAN,
                             early : BOOLEAN]]
    /\ ask \in [slot : Agents \cup {Nobody},
                of : [Agents -> [yes : BOOLEAN, set : BOOLEAN,
                                 prompted : BOOLEAN, own : BOOLEAN,
                                 since : BOOLEAN, crossed : BOOLEAN]]]
    /\ team \in [thread : Runs \cup {Nobody}, stopped : BOOLEAN,
                 told : SUBSET Runs,
                 status : {"idle", "running", "done", "stopped"}]
    /\ fate \in [sent : [Texts -> Nat], gone : SUBSET Texts,
                 raced : SUBSET Texts]

Dead == [at |-> "dead", text |-> NoText, tool |-> NoTool, calls |-> 0,
         tried |-> FALSE, early |-> FALSE]
NoPrompt == [yes |-> FALSE, set |-> FALSE, prompted |-> FALSE, own |-> FALSE,
             since |-> FALSE, crossed |-> FALSE]

Init ==
    /\ \E does \in Habits :
          ui = [started |-> FALSE, running |-> FALSE, gate |-> FALSE,
                plan |-> FALSE, asks |-> TRUE, risky |-> Gated \cap Tools,
                voice |-> FALSE, used |-> 0, does |-> does]
    /\ chat = [handle |-> Nobody, redirect |-> NoText, queue |-> <<>>,
               stop |-> FALSE, busy |-> FALSE, lock |-> Nobody,
               mutated |-> FALSE, heard |-> <<>>, posted |-> <<>>,
               doing |-> "none", text |-> NoText,
               tried |-> FALSE, early |-> FALSE]
    /\ goal = [on |-> FALSE, left |-> 0]
    /\ agent = [a \in Agents |-> Dead]
    /\ ask = [slot |-> Nobody, of |-> [a \in Agents |-> NoPrompt]]
    /\ team = [thread |-> Nobody, stopped |-> FALSE, told |-> {},
               status |-> "idle"]
    /\ fate = [sent |-> [t \in Texts |-> 0], gone |-> {}, raced |-> {}]

Move(a, at) == [agent EXCEPT ![a].at = at]
End(a) == [agent EXCEPT ![a] = Dead]
Saving(ag) == \E a \in Agents : ag[a].at = "save"
LetGo(T) == [fate EXCEPT !.gone = @ \cup (T \cap Texts)]

-----------------------------------------------------------------------------
(* Starting a turn *)

\* Whether this thread is alive, and the identity a new one gets.
Goes(w, ag) == w # Nobody /\ ag[w].at # "dead"
Free(w, ag) ==
    ag[w].at = "dead" /\ \A v \in Workers : ag[v].at = "dead" => w <= v

NewTurn(t, from) ==
    [at |-> "start", text |-> t, tool |-> NoTool, calls |-> MaxCalls,
     tried |-> from.tried, early |-> from.early]

\* The message in the redirect slot, unless a worker has read it already.
AlreadyRead ==
    {agent[w].text : w \in {v \in Workers : agent[v].at = "read"}}
Waiting == {chat.redirect} \ AlreadyRead

\* What _start_turn sees, from the chat record `c`: a live turn, or none.
Looked(c) == IF Goes(c.handle, agent) THEN "redirect" ELSE "begin"

\* Mutant: a new turn keeps the edit window of the last one.
TakeUpKeepsWindow(c, t) ==
    chat' = [c EXCEPT !.doing = Looked(c), !.text = t,
                      !.early = Saving(agent)]

\* _start_turn on the UI thread, from the chat record `c`: the edit window is
\* reset (early, if another thread is at a checkpoint), and the thread of the
\* turn before looked at.
TakeUp(c, t) ==
    chat' = [c EXCEPT !.mutated = FALSE, !.doing = Looked(c), !.text = t,
                      !.early = Saving(agent)]

\* ... a live turn is told to stop and the message waits in the single redirect
\* slot (a message already there is let go of) ...
Redirect(c, t) ==
    /\ chat' = [c EXCEPT !.redirect = t, !.stop = TRUE]
    /\ fate' = LetGo(Waiting)

\* ... or a new thread is started.
StartThread(c, ag, t, from) ==
    \E w \in Workers :
        /\ Free(w, ag)
        /\ chat' = [c EXCEPT !.handle = w]
        /\ agent' = [ag EXCEPT ![w] = NewTurn(t, from)]

\* The handler of the UI thread goes on with what it saw.
GoOn ==
    LET c == [chat EXCEPT !.doing = "none", !.text = NoText,
                          !.tried = FALSE, !.early = FALSE]
    IN  /\ \/ /\ chat.doing = "redirect"
              /\ Redirect(c, chat.text) /\ UNCHANGED agent
           \/ /\ chat.doing = "begin"
              /\ StartThread(c, agent, chat.text, chat) /\ UNCHANGED fate
           \/ /\ chat.doing = "append"
              /\ chat' = [c EXCEPT !.queue = Append(@, chat.text)]
              /\ UNCHANGED <<agent, fate>>
        /\ UNCHANGED <<ui, goal, ask, team>>

\* The worker gets the send lock; the stop event is cleared and the message
\* enters the history.
BeginTurn(w) ==
    /\ agent[w].at = "start" /\ chat.lock = Nobody
    /\ chat' = [chat EXCEPT !.lock = w, !.stop = FALSE, !.busy = TRUE]
    /\ agent' = Move(w, "turn")
    /\ fate' = IF agent[w].text \in Texts
               THEN [fate EXCEPT !.sent[agent[w].text] = @ + 1] ELSE fate
    /\ UNCHANGED <<ui, goal, ask, team>>

\* The conversation loop is over, or saw the stop event.
EndTurn(w) ==
    /\ w \in Workers /\ agent[w].at = "turn"
    /\ chat' = [chat EXCEPT !.lock = Nobody, !.busy = FALSE]
    /\ agent' = Move(w, "wind")
    /\ UNCHANGED <<ui, goal, ask, team, fate>>

-----------------------------------------------------------------------------
(* What the end of a turn starts next: redirect, then goal, then queue *)

\* _finalize_turn reads the redirect.  (One that another worker has read too
\* will be sent twice.)
ReadRedirect(w) ==
    /\ agent[w].at = "wind"
    /\ agent' = [agent EXCEPT ![w].at = "read", ![w].text = chat.redirect]
    /\ fate' = [fate EXCEPT
                   !.raced = @ \cup ({chat.redirect} \cap AlreadyRead \cap Texts)]
    /\ UNCHANGED <<ui, chat, goal, ask, team>>

\* Where the thread goes with what it read; the handle is cleared first, because
\* the thread that runs this is still alive.
Onward(w) == Move(w, IF agent[w].text = NoText THEN "quiet" ELSE "chain")
HandleKept(w) == IF agent[w].text = NoText THEN chat.handle ELSE Nobody

\* Mutant: the redirect is read and not cleared.
ClearRedirectKept(w) ==
    /\ agent[w].at = "read"
    /\ chat' = [chat EXCEPT !.handle = HandleKept(w)]
    /\ agent' = Onward(w)
    /\ UNCHANGED <<ui, goal, ask, team, fate>>

\* It clears the slot; what came there since it was read is lost.
ClearRedirect(w) ==
    /\ agent[w].at = "read"
    /\ chat' = [chat EXCEPT !.redirect = NoText, !.handle = HandleKept(w)]
    /\ agent' = Onward(w)
    /\ fate' = [fate EXCEPT !.raced = @ \cup (Waiting \cap Texts)]
    /\ UNCHANGED <<ui, goal, ask, team>>

\* _goal_next_prompt: one more turn towards the goal.
ContinueGoal(w) ==
    /\ agent[w].at = "quiet" /\ goal.on /\ goal.left > 0
    /\ goal' = [goal EXCEPT !.left = @ - 1]
    /\ chat' = [chat EXCEPT !.handle = Nobody]
    /\ agent' = [agent EXCEPT ![w].at = "chain", ![w].text = GoalText]
    /\ UNCHANGED <<ui, ask, team, fate>>

\* Mutant: the queue is not looked at when no goal was running.
WindDownSkipsQueue(w) ==
    /\ agent[w].at = "quiet"
    /\ goal' = [goal EXCEPT !.on = FALSE]
    /\ agent' = IF goal.on THEN Move(w, "rest") ELSE End(w)
    /\ UNCHANGED <<ui, chat, ask, team, fate>>

\* No redirect and no goal, or a goal that is reported complete or has used
\* up its turns.
WindDown(w) ==
    /\ agent[w].at = "quiet"
    /\ goal' = [goal EXCEPT !.on = FALSE]
    /\ agent' = Move(w, "rest")
    /\ UNCHANGED <<ui, chat, ask, team, fate>>

\* _start_turn on the worker's thread, down to what it sees: the UI thread may
\* have started a turn meanwhile.  When the app is quitting, the message is let
\* go of (and a redirect or goal goes on to the queue).
Chain(w) ==
    /\ agent[w].at \in {"chain", "popped"}
    /\ IF ui.running
       THEN /\ chat' = [chat EXCEPT !.mutated = FALSE]
            /\ agent' = [agent EXCEPT ![w].at = Looked(chat), ![w].tried = FALSE,
                                      ![w].early = Saving(agent)]
            /\ UNCHANGED fate
       ELSE /\ agent' = IF agent[w].at = "chain"
                        THEN [agent EXCEPT ![w].at = "rest", ![w].text = NoText]
                        ELSE End(w)
            /\ fate' = LetGo({agent[w].text})
            /\ UNCHANGED chat
    /\ UNCHANGED <<ui, goal, ask, team>>

\* ... and what it does then, before it ends.
ChainOn(w) ==
    /\ \/ /\ agent[w].at = "redirect"
          /\ Redirect(chat, agent[w].text) /\ agent' = End(w)
       \/ /\ agent[w].at = "begin"
          /\ StartThread(chat, End(w), agent[w].text, agent[w])
          /\ UNCHANGED fate
    /\ UNCHANGED <<ui, goal, ask, team>>

\* _process_next_queued, up to its note: the handle is cleared and the next
\* queued message is taken.
PopQueued(w) ==
    /\ agent[w].at = "rest"
    /\ IF chat.queue = <<>>
       THEN agent' = End(w) /\ UNCHANGED chat
       ELSE /\ chat' = [chat EXCEPT !.handle = Nobody, !.queue = Tail(@)]
            /\ agent' = [agent EXCEPT ![w].at = "popped",
                                      ![w].text = Head(chat.queue)]
    /\ UNCHANGED <<ui, goal, ask, team, fate>>

-----------------------------------------------------------------------------
(* The tool gate, on the thread of a turn or of a team run *)

MayCall(a) ==
    /\ agent[a].at = "turn" /\ agent[a].calls > 0 /\ "tools" \in ui.does
    /\ a \in Workers => ~chat.stop
    /\ a \in Runs => a \notin team.told

Spend(a, at, k) == [agent EXCEPT ![a].at = at, ![a].tool = k,
                                 ![a].calls = @ - 1]

\* Plan mode answers an editing tool itself.
PlanBlocks(a, k) ==
    /\ MayCall(a) /\ ui.gate /\ ui.plan /\ k \in Mutating
    /\ agent' = Spend(a, "turn", NoTool)
    /\ UNCHANGED <<ui, chat, goal, ask, team, fate>>

GateLetsBy(k) == ~ui.gate \/ ~(ui.plan /\ k \in Mutating)

\* The first editing tool since a turn was started has the tree recorded.
Unsaved(k) == ui.gate /\ k \in Mutating /\ ~chat.mutated

\* _auto_checkpoint: git is tried, for every turn that is alive or being started
\* by now.  It records the tree, or there is no repository, or it fails: the
\* tool goes on.
Checkpoint(a, k) ==
    /\ MayCall(a) /\ GateLetsBy(k) /\ Unsaved(k)
    /\ agent' = [b \in Agents |-> [Spend(a, "save", k)[b] EXCEPT !.tried = TRUE]]
    /\ chat' = [chat EXCEPT !.tried = ~Between]
    /\ UNCHANGED <<ui, goal, ask, team, fate>>

\* The tool may run, or be prompted for: it needs no checkpoint, or
\* _auto_checkpoint has returned.
Through(a, k) ==
    \/ MayCall(a) /\ GateLetsBy(k) /\ ~Unsaved(k)
    \/ agent[a].at = "save" /\ agent[a].tool = k

\* _turn_mutated is set after the checkpoint, however long that took.
GoesOn(a, k, at) ==
    IF agent[a].at = "save"
    THEN chat' = [chat EXCEPT !.mutated = TRUE] /\ agent' = Move(a, at)
    ELSE agent' = Spend(a, at, k) /\ UNCHANGED chat

\* The gate asks: a call that is in it already does not see its removal.
Asks(a, k) ==
    (ui.gate \/ agent[a].at = "save") /\ ui.asks /\ k \in ui.risky

\* A tool that needs no approval runs.
RunTool(a, k) ==
    /\ Through(a, k) /\ ~Asks(a, k)
    /\ GoesOn(a, k, "tool")
    /\ UNCHANGED <<ui, goal, ask, team, fate>>

\* _prompt_approval: a new prompt record goes into the one slot, whatever was
\* there, and the thread waits on its own event.  (`crossed` remembers that this
\* happened to a thread while it waited.)
Prompt(a, k) ==
    /\ Through(a, k) /\ Asks(a, k)
    /\ GoesOn(a, k, "ask")
    /\ ask' = [slot |-> a,
               of |-> [b \in Agents |->
                         IF b = a THEN [NoPrompt EXCEPT !.prompted = TRUE]
                         ELSE [ask.of[b] EXCEPT
                                 !.crossed = @ \/ agent[b].at = "ask"]]]
    /\ UNCHANGED <<ui, goal, team, fate>>

\* Mutant: a thread that finds the slot empty takes that for a yes.
ResumeOnEmptySlot(a) ==
    /\ agent[a].at = "ask"
    /\ agent' = Move(a, IF ask.slot = Nobody \/ ask.of[ask.slot].yes
                        THEN "yes" ELSE "no")
    /\ UNCHANGED <<ui, chat, goal, ask, team, fate>>

\* The wait is over: the thread reads the answer of the prompt in the slot,
\* whichever that is, if there is one ...
Resume(a) ==
    /\ agent[a].at = "ask"
    /\ agent' = Move(a, IF ask.slot # Nobody /\ ask.of[ask.slot].yes
                        THEN "yes" ELSE "no")
    /\ UNCHANGED <<ui, chat, goal, ask, team, fate>>

\* ... and empties the slot, whatever is there by now.
Settle(a) ==
    /\ \/ /\ agent[a].at = "yes" /\ agent' = Move(a, "tool")
          /\ ask' = [ask EXCEPT !.slot = Nobody]
       \/ /\ agent[a].at = "no"
          /\ agent' = [agent EXCEPT ![a].at = "turn", ![a].tool = NoTool]
          /\ ask' = [ask EXCEPT !.slot = Nobody, !.of[a] = NoPrompt]
    /\ UNCHANGED <<ui, chat, goal, team, fate>>

\* ev.wait returns because the prompt's own event was set, or after its 300
\* seconds.
Wake(a) == ask.of[a].set /\ Resume(a)
TimeOut(a) == Resume(a)

FinishTool(a) ==
    /\ agent[a].at = "tool"
    /\ agent' = [agent EXCEPT ![a].at = "turn", ![a].tool = NoTool]
    /\ ask' = [ask EXCEPT !.of[a] = NoPrompt]
    /\ UNCHANGED <<ui, chat, goal, team, fate>>

\* The answer goes into the record in the slot; `own` and `since` remember, for
\* every waiting thread, a yes to its own prompt and a yes to any.
Answered(a, yes) ==
    [ask.of[a] EXCEPT !.yes = IF a = ask.slot THEN yes ELSE @,
                      !.set = @ \/ a = ask.slot,
                      !.own = @ \/ (yes /\ a = ask.slot /\ agent[a].at = "ask"),
                      !.since = @ \/ (yes /\ agent[a].at = "ask")]
Answer(yes) == [ask EXCEPT !.of = [a \in Agents |-> Answered(a, yes)]]

\* The y / n / a keys of the prompt; "a" also stops prompting for the tool.
AnswerKey(key) ==
    /\ ui.running /\ Between /\ ask.slot # Nobody
    /\ ask' = Answer(key # "n")
    /\ ui' = IF key = "a"
             THEN [ui EXCEPT !.risky = @ \ {agent[ask.slot].tool}] ELSE ui
    /\ UNCHANGED <<chat, goal, agent, team, fate>>

-----------------------------------------------------------------------------
(* What the user, the control socket and the voice bridge do *)

NextText == ui.used + 1
\* A command of this kind, from whatever thread it comes.
Command(kind) ==
    ui.running /\ ui.used < MaxCommands /\ kind \in ui.does \cup {"submit"}
\* A key press reaches these only when no approval prompt captures it.
Key(kind) == Command(kind) /\ Between /\ ask.slot = Nobody
Used == [ui EXCEPT !.used = @ + 1]

\* run: the control socket, the voice bridge (which may fail to start) and the
\* gate, then the loop of the UI thread.
StartUp ==
    /\ ~ui.started
    /\ \E voice \in BOOLEAN :
          /\ voice => "voice" \in ui.does
          /\ ui' = [ui EXCEPT !.started = TRUE, !.running = TRUE, !.gate = TRUE,
                              !.voice = voice]
    /\ UNCHANGED <<chat, goal, agent, ask, team, fate>>

\* A message from the keyboard; one that came with a prompt on the screen was
\* on its way before it.
Submit ==
    /\ Command("submit") /\ Between /\ ui' = Used
    /\ TakeUp(chat, NextText)
    /\ UNCHANGED <<goal, agent, ask, team, fate>>

\* `send` of the control socket: its thread puts a "call" on the events.
Post ==
    /\ Command("voice") /\ ui' = Used
    /\ chat' = [chat EXCEPT !.posted = Append(@, NextText)]
    /\ UNCHANGED <<goal, agent, ask, team, fate>>

\* The laptop client gives the voice bridge a transcript ...
Hear ==
    /\ Command("voice") /\ ui.voice /\ ui' = Used
    /\ chat' = [chat EXCEPT !.heard = Append(@, NextText)]
    /\ UNCHANGED <<goal, agent, ask, team, fate>>

\* ... and _voice_inbound_loop makes a "call" of it, also when the bridge has
\* been stopped meanwhile.
Relay ==
    /\ chat.heard # <<>>
    /\ chat' = [chat EXCEPT !.heard = Tail(@),
                            !.posted = Append(@, Head(chat.heard))]
    /\ UNCHANGED <<ui, goal, agent, ask, team, fate>>

\* The UI thread runs the next "call": the message is submitted, prompt or not.
Deliver ==
    /\ ui.running /\ Between /\ chat.posted # <<>>
    /\ TakeUp([chat EXCEPT !.posted = Tail(@)], Head(chat.posted))
    /\ UNCHANGED <<ui, goal, agent, ask, team, fate>>

\* A busy turn is seen, and the message then appended to the queue (GoOn).
QueueOrStart(t) ==
    IF chat.busy
    THEN chat' = [chat EXCEPT !.doing = "append", !.text = t]
    ELSE TakeUp(chat, t)

\* Ctrl+Q: queue behind a running turn, else submit.
QueueKey ==
    /\ Key("queue") /\ ui' = Used
    /\ QueueOrStart(NextText)
    /\ UNCHANGED <<goal, agent, ask, team, fate>>

\* /tpl <name>: the text of a template that exists goes the same way.
Template ==
    /\ Key("queue") /\ ui' = Used
    /\ QueueOrStart(NextText)
    /\ UNCHANGED <<goal, agent, ask, team, fate>>

\* /retry refuses while a turn is busy.
Retry ==
    /\ Key("queue") /\ ~chat.busy /\ ui' = Used
    /\ TakeUp(chat, NextText)
    /\ UNCHANGED <<goal, agent, ask, team, fate>>

\* /goal <objective>
StartGoal ==
    /\ Key("goal") /\ ui' = Used
    /\ goal' = [on |-> TRUE, left |-> GoalTurns]
    /\ IF chat.busy
       THEN fate' = LetGo({NextText}) /\ UNCHANGED chat
       ELSE TakeUp(chat, NextText) /\ UNCHANGED fate
    /\ UNCHANGED <<agent, ask, team>>

\* /goal stop, /goal clear
StopGoal ==
    /\ Key("goal") /\ goal.on /\ ui' = Used
    /\ goal' = [goal EXCEPT !.on = FALSE]
    /\ fate' = LetGo({NextText})
    /\ UNCHANGED <<chat, agent, ask, team>>

\* /queue clear
ClearQueue ==
    /\ Key("queue") /\ chat.queue # <<>> /\ ui' = Used
    /\ chat' = [chat EXCEPT !.queue = <<>>]
    /\ fate' = LetGo({NextText} \cup {chat.queue[i] : i \in DOMAIN chat.queue})
    /\ UNCHANGED <<goal, agent, ask, team>>

\* /new, /load and the session picker reset the pending redirect.
SessionChanged ==
    /\ Key("session") /\ chat.redirect # NoText /\ ui' = Used
    /\ chat' = [chat EXCEPT !.redirect = NoText]
    /\ fate' = LetGo({NextText} \cup Waiting)
    /\ UNCHANGED <<goal, agent, ask, team>>

\* /plan on|off
TogglePlan ==
    /\ Key("plan") /\ ui' = [Used EXCEPT !.plan = ~@]
    /\ fate' = LetGo({NextText})
    /\ UNCHANGED <<chat, goal, agent, ask, team>>

Prompts(asks, risky) ==
    /\ Key("approve")
    /\ ui' = [Used EXCEPT !.asks = asks, !.risky = risky]
    /\ fate' = LetGo({NextText})
    /\ UNCHANGED <<chat, goal, agent, ask, team>>

\* /approve on|off, add|rm <tool>
Approve ==
    \/ \E asks \in BOOLEAN : Prompts(asks, ui.risky)
    \/ \E k \in Tools :
          Prompts(ui.asks, ui.risky \cup {k}) \/ Prompts(ui.asks, ui.risky \ {k})

\* /settings approve on|off, risky <tools>
Settings ==
    \/ \E asks \in BOOLEAN : Prompts(asks, ui.risky)
    \/ \E risky \in SUBSET Tools \ {{}} : Prompts(ui.asks, risky)

\* Ctrl+C and Esc: decline a prompt, else interrupt a busy turn; an idle
\* Ctrl+C quits (Quit).
Interrupt ==
    /\ ui.running /\ Between
    /\ IF ask.slot # Nobody
       THEN ask' = Answer(FALSE) /\ UNCHANGED chat
       ELSE /\ chat.busy /\ chat' = [chat EXCEPT !.stop = TRUE]
            /\ UNCHANGED ask
    /\ UNCHANGED <<ui, goal, agent, team, fate>>

\* Ctrl+C when idle, Ctrl+D on an empty line, /quit, or quit from the socket.
Quit ==
    /\ ui.running /\ Between
    /\ ui' = [ui EXCEPT !.running = FALSE]
    /\ UNCHANGED <<chat, goal, agent, ask, team, fate>>

\* run, after the loop: the voice bridge is stopped and the gate removed, the
\* pending prompt declined and its slot emptied.
RemoveGate ==
    /\ ~ui.running /\ Between /\ ui.gate
    /\ ui' = [ui EXCEPT !.gate = FALSE, !.voice = FALSE]
    /\ ask' = [Answer(FALSE) EXCEPT !.slot = Nobody]
    /\ UNCHANGED <<chat, goal, agent, team, fate>>

-----------------------------------------------------------------------------
(* /team: a background run with its own workers *)

\* /team <goal>: refused only while the state says running and its thread is
\* alive.
StartTeam ==
    /\ Key("team") /\ ~(team.status = "running" /\ Goes(team.thread, agent))
    /\ ui' = Used /\ fate' = LetGo({NextText})
    /\ \E r \in Runs :
          /\ agent[r].at = "dead"
          /\ agent' = [agent EXCEPT ![r].at = "turn", ![r].calls = MaxCalls]
          /\ team' = [thread |-> r, stopped |-> FALSE,
                      told |-> team.told \ {r}, status |-> "running"]
    /\ UNCHANGED <<chat, goal, ask>>

\* /team stop: the workers are interrupted, the state says stopped at once.
StopTeam ==
    /\ Key("team") /\ team.status = "running" /\ ui' = Used
    /\ team' = [team EXCEPT !.told = @ \cup ({team.thread} \cap Runs),
                            !.stopped = TRUE, !.status = "stopped"]
    /\ fate' = LetGo({NextText})
    /\ UNCHANGED <<chat, goal, agent, ask>>

\* The run is over; it writes its status into the shared state, whichever run
\* that state now describes, unless the user stopped it.
EndTeam(r) ==
    /\ r \in Runs /\ agent[r].at = "turn"
    /\ agent' = End(r)
    /\ team' = [team EXCEPT !.thread = Nobody,
                            !.status = IF team.stopped THEN @ ELSE "done"]
    /\ UNCHANGED <<ui, chat, goal, ask, fate>>

-----------------------------------------------------------------------------
(* /btw: a side question to an agent of its own *)

\* Refused while a turn is busy; the agent has its own lock and stop event.
AskAside(b) ==
    /\ b \in Sides /\ agent[b].at = "dead"
    /\ Key("side") /\ ~chat.busy
    /\ ui' = Used /\ fate' = LetGo({NextText})
    /\ agent' = [agent EXCEPT ![b].at = "turn", ![b].calls = MaxCalls]
    /\ UNCHANGED <<chat, goal, ask, team>>

\* It has replied, or failed.
EndAside(b) ==
    /\ b \in Sides /\ agent[b].at = "turn"
    /\ agent' = End(b)
    /\ UNCHANGED <<ui, chat, goal, ask, team, fate>>

-----------------------------------------------------------------------------
UserStep ==
    \/ Submit \/ Post \/ Hear \/ Deliver
    \/ QueueKey \/ Template \/ Retry \/ StartGoal \/ StopGoal \/ ClearQueue
    \/ SessionChanged \/ TogglePlan \/ Approve \/ Settings \/ Interrupt \/ Quit
    \/ StartTeam \/ StopTeam
    \/ \E b \in Sides : AskAside(b)
    \/ \E key \in {"y", "n", "a"} : AnswerKey(key)

WindUp(w) ==
    ReadRedirect(w) \/ ClearRedirect(w) \/ ContinueGoal(w) \/ WindDown(w)
        \/ PopQueued(w) \/ Chain(w) \/ ChainOn(w)

Call(a) ==
    \E k \in Tools :
        PlanBlocks(a, k) \/ Checkpoint(a, k) \/ RunTool(a, k) \/ Prompt(a, k)

WorkerStep(w) == BeginTurn(w) \/ EndTurn(w) \/ WindUp(w)

Next ==
    \/ StartUp \/ UserStep \/ GoOn \/ RemoveGate \/ Relay
    \/ \E w \in Workers : WorkerStep(w)
    \/ \E r \in Runs : EndTeam(r)
    \/ \E b \in Sides : EndAside(b)
    \/ \E a \in Agents :
          Call(a) \/ Wake(a) \/ TimeOut(a) \/ Settle(a) \/ FinishTool(a)

\* Threads are scheduled, a turn's loop and a tool end, and the prompt has a
\* time limit.  The user need do nothing.
Fairness ==
    /\ \A w \in Workers : WF_vars(WorkerStep(w))
    /\ \A r \in Runs : WF_vars(EndTeam(r))
    /\ \A a \in Agents :
          /\ WF_vars(Wake(a) \/ TimeOut(a)) /\ WF_vars(Settle(a))
          /\ WF_vars(FinishTool(a)) /\ WF_vars(agent[a].at = "save" /\ Call(a))
    /\ WF_vars(Deliver) /\ WF_vars(GoOn) /\ WF_vars(Relay)

Spec == Init /\ [][Next]_vars /\ Fairness

-----------------------------------------------------------------------------
\* The threads that hold a message they will start a turn for or pass on.
Holding == {"start", "popped", "read", "chain"} \cup Options

Held(t) ==
    Cardinality({w \in Workers : /\ agent[w].at \in Holding
                                 /\ agent[w].text = t})
    + (IF t \in Waiting THEN 1 ELSE 0)
    + (IF chat.doing # "none" /\ chat.text = t THEN 1 ELSE 0)
    + Cardinality({i \in DOMAIN chat.queue : chat.queue[i] = t})
    + Cardinality({i \in DOMAIN chat.heard : chat.heard[i] = t})
    + Cardinality({i \in DOMAIN chat.posted : chat.posted[i] = t})

\* Whatever the user typed or said is in exactly one place - on its way to the
\* UI thread, in one of its handlers, in the redirect slot, in the queue or on a
\* thread about to run it, sent to the model, or let go of by a later command:
\* the interleavings of the UI thread, the bridge's threads and the wind-down of
\* a turn neither lose a message nor send it twice.  The one exception is
\* exact: a message that came into the slot, or was read from it by a second
\* worker, while a worker was between reading the slot (app.py:825) and clearing
\* it (826), unlocked, may be lost or sent twice - where app.py:732 says that
\* the message is sent "as soon as it winds down".
EveryTextOnce ==
    \A t \in 1..ui.used :
        t \notin fate.raced =>
            Held(t) + fate.sent[t] + (IF t \in fate.gone THEN 1 ELSE 0) = 1

\* A tool that was put to the user runs only on a yes to its own prompt, given
\* while it waited: neither a late answer to a prompt that timed out nor one
\* given to another thread's earlier prompt lets it through (_prompt_approval).
\* When another thread's prompt came into the single slot during the wait, all
\* the code gives is a yes to one of the prompts of that time: a tool whose own
\* time ran out reads whichever record is there (app.py:1230), although the
\* docstring (1208-1210) has it decline by itself.
FreshYes ==
    \A a \in Agents :
        agent[a].at = "tool" /\ ask.of[a].prompted =>
            IF ask.of[a].crossed THEN ask.of[a].since ELSE ask.of[a].own

\* An editing tool of a turn runs only after a checkpoint has been tried since
\* that turn was started, whichever thread did it and whatever was typed in
\* between (_turn_mutated, _auto_checkpoint) - unless another thread was at it
\* when the turn was started: it sets the flag of the new turn too.  Tried, not
\* taken: without a git repository, or when git fails, the edit goes ahead
\* without one ("best-effort", app.py:1171 and 1774).
CheckpointFirst ==
    \A w \in Workers :
        /\ agent[w].at = "tool" /\ agent[w].tool \in Mutating /\ ui.gate
        => agent[w].tried \/ agent[w].early

\* A queued message does not stay in the queue while a turn's thread is there
\* that has yet to look at it: redirects, goal turns and prompts in between only
\* delay it (_process_next_queued).  One that Ctrl+Q appends after the last
\* thread has looked (app.py:476, 477) waits for the next turn, where the
\* docstring (463-466) says that the wind-down runs it.
QueueDrains ==
    /\ chat.queue # <<>>
    /\ \E w \in Workers : agent[w].at \notin {"dead", "redirect"}
    ~> chat.queue = <<>> \/ ~ui.running

=============================================================================
