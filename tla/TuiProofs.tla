------------------------------ MODULE TuiProofs ------------------------------
(***************************************************************************)
(* The full-screen terminal UI.  ChatTurns, for any number of turn         *)
(* threads, team runs and side questions: every step keeps the types, a    *)
(* tool that was prompted for runs only on a yes given while it waited, an *)
(* editing tool of a turn only with its checkpoint tried, and what the     *)
(* user typed is in one place, sent once or let go of once; each with its  *)
(* exception, where two threads meet in a slot that has no lock.           *)
(* TuiKeys, for any keystrokes typed and any cuts of what is read: the     *)
(* cursor stays in the buffer's first line, the undo stack is a chain of   *)
(* texts that ends in the one shown, and where a read ends changes the     *)
(* keys only behind an ESC.                                                *)
(***************************************************************************)
EXTENDS ChatTurns, TuiKeys, FiniteSetTheorems, SequenceTheorems, WellFoundedInduction, TLAPS

Stages == {"dead", "start", "turn", "save", "ask", "yes", "no", "tool", "wind", "read",
           "quiet", "chain", "rest", "popped"} \cup Options
Doings == {"none", "append"} \cup Options

UiStates == [started : BOOLEAN, running : BOOLEAN, gate : BOOLEAN,
             plan : BOOLEAN, asks : BOOLEAN, risky : SUBSET Tools,
             voice : BOOLEAN, used : 0..MaxCommands, does : Habits]
ChatRecords == [handle : Workers \cup {Nobody}, redirect : 0..GoalText,
                queue : Seq(Texts), stop : BOOLEAN, busy : BOOLEAN,
                lock : Workers \cup {Nobody}, mutated : BOOLEAN,
                heard : Seq(Texts), posted : Seq(Texts), doing : Doings,
                text : Texts \cup {NoText}, tried : BOOLEAN, early : BOOLEAN]
ChatStates == {c \in ChatRecords : c.doing # "none" => c.text \in Texts}
ThreadStates == [at : Stages, text : 0..GoalText, tool : Tools \cup {NoTool},
                 calls : 0..MaxCalls, tried : BOOLEAN, early : BOOLEAN]
PromptStates == [yes : BOOLEAN, set : BOOLEAN, prompted : BOOLEAN, own : BOOLEAN,
                 since : BOOLEAN, crossed : BOOLEAN]
Fates == [sent : [Texts -> Nat], gone : SUBSET Texts, raced : SUBSET Texts]

(* The types of what a thread works with, and of what it leaves behind.     *)
ThreadTypes ==
    /\ chat \in ChatStates
    /\ agent \in [Agents -> ThreadStates]
    /\ fate \in Fates

(* What the rest is.                                                        *)
OtherTypes ==
    /\ ui \in UiStates
    /\ goal \in [on : BOOLEAN, left : 0..GoalTurns]
    /\ ask \in [slot : Agents \cup {Nobody}, of : [Agents -> PromptStates]]
    /\ team \in [thread : Runs \cup {Nobody}, stopped : BOOLEAN, told : SUBSET Runs,
                 status : {"idle", "running", "done", "stopped"}]

LEMMA TypesAre ==
    (TypeOK <=> ThreadTypes /\ OtherTypes) /\ (TypeOK' <=> ThreadTypes' /\ OtherTypes')
  BY DEF TypeOK, ThreadTypes, OtherTypes, UiStates, ChatStates, ThreadStates, PromptStates,
         Fates, Stages, Doings, ChatRecords, Between

LEMMA Numbers ==
    /\ MaxCommands \in Nat /\ MaxCalls \in Nat /\ GoalTurns \in Nat
    /\ MaxCalls \in 0..MaxCalls
    /\ Texts \subseteq 0..GoalText /\ GoalText \in 0..GoalText /\ 0 \in 0..GoalText
    /\ 0 \notin Texts /\ 0 \notin Agents
  BY ChatTurnsAssumption
  DEF ChatTurnsAssumption, Texts, GoalText, Agents

(* A message is let go of, or put in the redirect slot.                     *)
LEMMA LetGoTypes ==
    ASSUME fate \in Fates, NEW T
    PROVE  LetGo(T) \in Fates
  BY DEF LetGo, Fates

LEMMA RedirectTypes ==
    ASSUME NEW c \in ChatStates, NEW t \in 0..GoalText, fate \in Fates, Redirect(c, t)
    PROVE  chat' \in ChatStates /\ fate' \in Fates
  BY LetGoTypes DEF Redirect, ChatStates, ChatRecords

(* A thread is started for it.                                              *)
LEMMA StartThreadTypes ==
    ASSUME NEW c \in ChatStates, NEW ag \in [Agents -> ThreadStates], NEW t \in 0..GoalText,
           NEW from, from.tried \in BOOLEAN, from.early \in BOOLEAN,
           StartThread(c, ag, t, from)
    PROVE  chat' \in ChatStates /\ agent' \in [Agents -> ThreadStates]
<1>1. PICK w \in Workers :
          /\ chat' = [c EXCEPT !.handle = w]
          /\ agent' = [ag EXCEPT ![w] = NewTurn(t, from)]
  BY DEF StartThread
<1>2. NewTurn(t, from) \in ThreadStates
  BY Numbers DEF NewTurn, ThreadStates, Stages, NoTool
<1>3. chat' \in ChatStates
  BY <1>1 DEF ChatStates, ChatRecords
<1>4. agent' \in [Agents -> ThreadStates]
  BY <1>1, <1>2 DEF Agents
<1> QED
  BY <1>3, <1>4

(* What _start_turn sees on the UI thread.                                  *)
LEMMA TakeUpTypes ==
    ASSUME NEW c \in ChatStates, NEW t \in Texts, TakeUp(c, t)
    PROVE  chat' \in ChatStates
<1>1. Looked(c) \in Doings /\ Saving(agent) \in BOOLEAN
  BY DEF Looked, Doings, Options, Saving
<1> QED
  BY <1>1 DEF TakeUp, ChatStates, ChatRecords

-----------------------------------------------------------------------------
(* The parts of TypeOK that an action touches.                              *)

(* The steps of a turn thread.                                              *)
LEMMA WorkerTypes ==
    ASSUME TypeOK, NEW w \in Workers, WorkerStep(w)
    PROVE  TypeOK'
<1> USE TypesAre
<1>1. w \in Agents /\ ThreadTypes /\ OtherTypes
  BY DEF Agents
<1>2. End(w) \in [Agents -> ThreadStates]
  BY <1>1, Numbers DEF End, Dead, ThreadTypes, ThreadStates, Stages, NoText, NoTool
<1>3. \A at \in Stages : Move(w, at) \in [Agents -> ThreadStates]
  BY <1>1 DEF Move, ThreadTypes, ThreadStates
<1>5. CASE BeginTurn(w)
  <2>1. chat' \in ChatStates
    BY <1>1, <1>5 DEF BeginTurn, ThreadTypes, ChatStates, ChatRecords
  <2>2. fate' \in Fates
    BY <1>1, <1>5 DEF BeginTurn, ThreadTypes, Fates
  <2>3. agent' \in [Agents -> ThreadStates]
    BY <1>3, <1>5 DEF BeginTurn, Stages
  <2> QED
    BY <1>1, <1>5, <2>1, <2>2, <2>3 DEF BeginTurn, ThreadTypes, OtherTypes
<1>6. CASE EndTurn(w)
  <2>1. chat' \in ChatStates
    BY <1>1, <1>6 DEF EndTurn, ThreadTypes, ChatStates, ChatRecords
  <2>2. agent' \in [Agents -> ThreadStates]
    BY <1>3, <1>6 DEF EndTurn, Stages
  <2> QED
    BY <1>1, <1>6, <2>1, <2>2 DEF EndTurn, ThreadTypes, OtherTypes
<1>4. chat \in ChatStates /\ agent[w] \in ThreadStates /\ fate \in Fates
  BY <1>1 DEF ThreadTypes
<1>7. CASE ReadRedirect(w)
  <2>1. agent' \in [Agents -> ThreadStates]
    <3>1. chat.redirect \in 0..GoalText
      BY <1>4 DEF ChatStates, ChatRecords
    <3>2. [agent[w] EXCEPT !.at = "read", !.text = chat.redirect] \in ThreadStates
      BY <1>4, <3>1 DEF ThreadStates, Stages
    <3>3. agent' = [agent EXCEPT ![w].at = "read", ![w].text = chat.redirect]
      BY <1>7 DEF ReadRedirect
    <3> QED
      BY <1>1, <3>2, <3>3 DEF ThreadTypes
  <2>2. fate' \in Fates
    BY <1>4, <1>7 DEF ReadRedirect, Fates
  <2> QED
    BY <1>1, <1>7, <2>1, <2>2 DEF ReadRedirect, ThreadTypes, OtherTypes
<1>70. CASE ClearRedirect(w)
  <2>1. chat' \in ChatStates
    <3>1. HandleKept(w) \in Workers \cup {Nobody}
      BY <1>4 DEF HandleKept, ChatStates, ChatRecords
    <3> QED
      BY <1>4, <1>70, <3>1, Numbers DEF ClearRedirect, ChatStates, ChatRecords, NoText
  <2>2. fate' \in Fates
    BY <1>4, <1>70 DEF ClearRedirect, Fates
  <2>3. agent' \in [Agents -> ThreadStates]
    BY <1>3, <1>70 DEF ClearRedirect, Onward, Stages
  <2> QED
    BY <1>1, <1>70, <2>1, <2>2, <2>3 DEF ClearRedirect, ThreadTypes, OtherTypes
<1>8. CASE ContinueGoal(w)
  <2>1. chat' \in ChatStates
    BY <1>4, <1>8 DEF ContinueGoal, ChatStates, ChatRecords
  <2>2. agent' \in [Agents -> ThreadStates]
    <3>1. [agent[w] EXCEPT !.at = "chain", !.text = GoalText] \in ThreadStates
      BY <1>4, Numbers DEF ThreadStates, Stages
    <3>2. agent' = [agent EXCEPT ![w].at = "chain", ![w].text = GoalText]
      BY <1>8 DEF ContinueGoal
    <3> QED
      BY <1>1, <3>1, <3>2 DEF ThreadTypes
  <2>3. goal' \in [on : BOOLEAN, left : 0..GoalTurns]
    BY <1>1, <1>8, Numbers DEF ContinueGoal, OtherTypes
  <2> QED
    BY <1>1, <1>8, <2>1, <2>2, <2>3 DEF ContinueGoal, ThreadTypes, OtherTypes
<1>9. CASE WindDown(w)
  BY <1>1, <1>3, <1>9 DEF WindDown, ThreadTypes, OtherTypes, Stages
<1>10. CASE PopQueued(w)
  <2>1. CASE chat.queue = <<>>
    BY <1>1, <1>2, <1>10, <2>1 DEF PopQueued, ThreadTypes, OtherTypes
  <2>2. CASE chat.queue # <<>>
    <3>1. chat.queue \in Seq(Texts)
      BY <1>1 DEF ThreadTypes, ChatStates, ChatRecords
    <3>2. Head(chat.queue) \in Texts /\ Tail(chat.queue) \in Seq(Texts)
      BY <2>2, <3>1
    <3>3. chat' \in ChatStates
      BY <1>1, <1>10, <2>2, <3>2 DEF PopQueued, ThreadTypes, ChatStates, ChatRecords
    <3>4. agent' \in [Agents -> ThreadStates]
      <4>1. agent \in [Agents -> ThreadStates] /\ Head(chat.queue) \in 0..GoalText
        BY <1>1, <3>2, Numbers DEF ThreadTypes
      <4>2. [agent[w] EXCEPT !.at = "popped", !.text = Head(chat.queue)] \in ThreadStates
        BY <1>1, <4>1 DEF ThreadStates, Stages
      <4>3. agent' = [agent EXCEPT ![w].at = "popped", ![w].text = Head(chat.queue)]
        BY <1>10, <2>2 DEF PopQueued
      <4> QED
        BY <4>1, <4>2, <4>3
    <3> QED
      BY <1>1, <1>10, <3>3, <3>4 DEF PopQueued, ThreadTypes, OtherTypes
  <2> QED
    BY <2>1, <2>2
<1>11. CASE Chain(w)
  <2>1. CASE ui.running
    <3>1. chat' \in ChatStates
      BY <1>4, <1>11, <2>1 DEF Chain, ChatStates, ChatRecords
    <3>2. Looked(chat) \in Stages /\ Saving(agent) \in BOOLEAN
      BY DEF Looked, Stages, Options, Saving
    <3>3. [agent[w] EXCEPT !.at = Looked(chat), !.tried = FALSE, !.early = Saving(agent)]
             \in ThreadStates
      BY <1>4, <3>2 DEF ThreadStates
    <3>4. agent' = [agent EXCEPT ![w].at = Looked(chat), ![w].tried = FALSE,
                                 ![w].early = Saving(agent)]
      BY <1>11, <2>1 DEF Chain
    <3>5. agent' \in [Agents -> ThreadStates]
      BY <1>1, <3>3, <3>4 DEF ThreadTypes
    <3> QED
      BY <1>1, <1>11, <2>1, <3>1, <3>5 DEF Chain, ThreadTypes, OtherTypes
  <2>2. CASE ~ui.running
    <3>1. [agent[w] EXCEPT !.at = "rest", !.text = NoText] \in ThreadStates
      BY <1>4, Numbers DEF ThreadStates, Stages, NoText
    <3>2. [agent EXCEPT ![w].at = "rest", ![w].text = NoText] \in [Agents -> ThreadStates]
      BY <1>1, <3>1 DEF ThreadTypes
    <3>3. agent' \in [Agents -> ThreadStates]
      BY <1>2, <1>11, <2>2, <3>2 DEF Chain
    <3> QED
      BY <1>1, <1>4, <1>11, <2>2, <3>3, LetGoTypes DEF Chain, ThreadTypes, OtherTypes
  <2> QED
    BY <2>1, <2>2
<1>12. CASE ChainOn(w)
  <2>1. agent[w].text \in 0..GoalText
    BY <1>4 DEF ThreadStates
  <2>2. ThreadTypes'
    <3>1. CASE agent[w].at = "redirect"
      <4>1. Redirect(chat, agent[w].text) /\ agent' = End(w)
        BY <1>12, <3>1 DEF ChainOn
      <4> QED
        BY <1>2, <1>4, <2>1, <4>1, RedirectTypes DEF ThreadTypes
    <3>2. CASE agent[w].at # "redirect"
      <4>1. StartThread(chat, End(w), agent[w].text, agent[w]) /\ fate' = fate
        BY <1>12, <3>2 DEF ChainOn
      <4>2. agent[w].tried \in BOOLEAN /\ agent[w].early \in BOOLEAN
        BY <1>4 DEF ThreadStates
      <4> QED
        BY <1>2, <1>4, <2>1, <4>1, <4>2, StartThreadTypes DEF ThreadTypes
    <3> QED
      BY <3>1, <3>2
  <2> QED
    BY <1>1, <1>12, <2>2 DEF ChainOn, OtherTypes
<1> QED
  BY <1>5, <1>6, <1>7, <1>70, <1>8, <1>9, <1>10, <1>11, <1>12 DEF WorkerStep, WindUp

(* A call that a thread may make is counted.                                *)
LEMMA SpendTypes ==
    ASSUME TypeOK, NEW a \in Agents, MayCall(a),
           NEW at \in Stages, NEW k \in Tools \cup {NoTool}
    PROVE  Spend(a, at, k) \in [Agents -> ThreadStates]
<1>1. agent \in [Agents -> ThreadStates]
  BY TypesAre DEF ThreadTypes
<1>2. agent[a].calls - 1 \in 0..MaxCalls
  BY <1>1, Numbers DEF MayCall, ThreadStates
<1>3. [agent[a] EXCEPT !.at = at, !.tool = k, !.calls = @ - 1] \in ThreadStates
  BY <1>1, <1>2 DEF ThreadStates
<1> QED
  BY <1>1, <1>3 DEF Spend

(* The tool gate.                                                           *)
LEMMA GateTypes ==
    ASSUME TypeOK, NEW a \in Agents,
           Call(a) \/ Wake(a) \/ TimeOut(a) \/ Settle(a) \/ FinishTool(a)
    PROVE  TypeOK'
<1> USE TypesAre
<1>1. ThreadTypes /\ OtherTypes
  OBVIOUS
<1>2. \A at \in Stages : Move(a, at) \in [Agents -> ThreadStates]
  BY <1>1 DEF Move, ThreadTypes, ThreadStates
<1>3. \A at \in Stages, k \in Tools \cup {NoTool} :
        MayCall(a) => Spend(a, at, k) \in [Agents -> ThreadStates]
  BY SpendTypes
<1>4. ASSUME NEW k \in Tools, NEW at \in Stages, Through(a, k), GoesOn(a, k, at)
      PROVE  chat' \in ChatStates /\ agent' \in [Agents -> ThreadStates]
  <2>1. CASE agent[a].at = "save"
    <3>1. chat' = [chat EXCEPT !.mutated = TRUE] /\ agent' = Move(a, at)
      BY <1>4, <2>1 DEF GoesOn
    <3>2. chat' \in ChatStates
      BY <1>1, <3>1 DEF ThreadTypes, ChatStates, ChatRecords
    <3> QED
      BY <1>2, <3>1, <3>2
  <2>2. CASE agent[a].at # "save"
    BY <1>1, <1>3, <1>4, <2>2 DEF GoesOn, Through, ThreadTypes
  <2> QED
    BY <2>1, <2>2
<1>5. ASSUME NEW k \in Tools, PlanBlocks(a, k)
      PROVE  TypeOK'
  BY <1>1, <1>3, <1>5 DEF PlanBlocks, ThreadTypes, OtherTypes, Stages
<1>6. ASSUME NEW k \in Tools, Checkpoint(a, k)
      PROVE  TypeOK'
  <2>1. Spend(a, "save", k) \in [Agents -> ThreadStates]
    BY <1>3, <1>6 DEF Checkpoint, Stages
  <2>2. agent' \in [Agents -> ThreadStates]
    BY <1>6, <2>1 DEF Checkpoint, ThreadStates
  <2>3. chat' \in ChatStates
    BY <1>1, <1>6 DEF Checkpoint, Between, ThreadTypes, ChatStates, ChatRecords
  <2> QED
    BY <1>1, <1>6, <2>2, <2>3 DEF Checkpoint, ThreadTypes, OtherTypes
<1>7. ASSUME NEW k \in Tools, RunTool(a, k)
      PROVE  TypeOK'
  BY <1>1, <1>4, <1>7 DEF RunTool, ThreadTypes, OtherTypes, Stages
<1>8. ASSUME NEW k \in Tools, Prompt(a, k)
      PROVE  TypeOK'
  <2>1. [NoPrompt EXCEPT !.prompted = TRUE] \in PromptStates
    BY DEF NoPrompt, PromptStates
  <2>2. \A b \in Agents :
          [ask.of[b] EXCEPT !.crossed = @ \/ agent[b].at = "ask"] \in PromptStates
    <3> SUFFICES ASSUME NEW b \in Agents
                 PROVE  [ask.of[b] EXCEPT !.crossed = @ \/ agent[b].at = "ask"]
                           \in PromptStates
      OBVIOUS
    <3> DEFINE crossed == ask.of[b].crossed \/ agent[b].at = "ask"
    <3>1. ask.of[b] \in PromptStates /\ crossed \in BOOLEAN
      BY <1>1 DEF OtherTypes
    <3> HIDE DEF crossed
    <3>2. [ask.of[b] EXCEPT !.crossed = crossed] \in PromptStates
      BY <3>1 DEF PromptStates
    <3>3. [ask.of[b] EXCEPT !.crossed = crossed]
             = [ask.of[b] EXCEPT !.crossed = @ \/ agent[b].at = "ask"]
      BY <3>1 DEF crossed, PromptStates
    <3> QED
      BY <3>2, <3>3
  <2>3. ask' = [slot |-> a,
                of |-> [b \in Agents |->
                          IF b = a THEN [NoPrompt EXCEPT !.prompted = TRUE]
                          ELSE [ask.of[b] EXCEPT
                                  !.crossed = @ \/ agent[b].at = "ask"]]]
    BY <1>8 DEF Prompt
  <2>4. ask' \in [slot : Agents \cup {Nobody}, of : [Agents -> PromptStates]]
    BY <2>1, <2>2, <2>3
  <2> QED
    BY <1>1, <1>4, <1>8, <2>4 DEF Prompt, ThreadTypes, OtherTypes, Stages
<1>9. [agent EXCEPT ![a].at = "turn", ![a].tool = NoTool] \in [Agents -> ThreadStates]
  <2>1. agent \in [Agents -> ThreadStates]
    BY <1>1 DEF ThreadTypes
  <2>2. [agent[a] EXCEPT !.at = "turn", !.tool = NoTool] \in ThreadStates
    BY <2>1 DEF ThreadStates, Stages
  <2> QED
    BY <2>1, <2>2
<1>10. /\ [ask EXCEPT !.slot = Nobody]
             \in [slot : Agents \cup {Nobody}, of : [Agents -> PromptStates]]
       /\ [ask EXCEPT !.slot = Nobody, !.of[a] = NoPrompt]
             \in [slot : Agents \cup {Nobody}, of : [Agents -> PromptStates]]
  BY <1>1 DEF OtherTypes, NoPrompt, PromptStates
<1>11. CASE Resume(a)
  <2>1. agent' \in [Agents -> ThreadStates]
    BY <1>2, <1>11 DEF Resume, Stages
  <2> QED
    BY <1>1, <1>11, <2>1 DEF Resume, ThreadTypes, OtherTypes
<1>13. CASE Settle(a)
  <2>1. agent' \in [Agents -> ThreadStates]
    BY <1>2, <1>9, <1>13 DEF Settle, Stages
  <2>2. ask' \in [slot : Agents \cup {Nobody}, of : [Agents -> PromptStates]]
    BY <1>10, <1>13 DEF Settle
  <2> QED
    BY <1>1, <1>13, <2>1, <2>2 DEF Settle, ThreadTypes, OtherTypes
<1>12. CASE FinishTool(a)
  <2>1. agent' \in [Agents -> ThreadStates]
    BY <1>9, <1>12 DEF FinishTool
  <2>2. NoPrompt \in PromptStates
    BY DEF NoPrompt, PromptStates
  <2>3. ask' \in [slot : Agents \cup {Nobody}, of : [Agents -> PromptStates]]
    BY <1>1, <1>12, <2>2 DEF FinishTool, OtherTypes
  <2> QED
    BY <1>1, <1>12, <2>1, <2>3 DEF FinishTool, ThreadTypes, OtherTypes
<1> QED
  BY <1>5, <1>6, <1>7, <1>8, <1>11, <1>12, <1>13 DEF Call, Wake, TimeOut

(* What the user and the other threads do.                                  *)
LEMMA OthersTypes ==
    ASSUME TypeOK,
           StartUp \/ UserStep \/ GoOn \/ RemoveGate \/ Relay \/ (\E r \in Runs : EndTeam(r))
              \/ (\E b \in Sides : EndAside(b))
    PROVE  TypeOK'
<1> USE TypesAre
<1>1. ThreadTypes /\ OtherTypes
  OBVIOUS
<1>2. \A kind : Command(kind) =>
        NextText \in Texts /\ NextText \in 0..GoalText /\ Used \in UiStates
  <2>1. ui \in UiStates
    BY <1>1 DEF OtherTypes
  <2>2. \A kind : Command(kind) =>
          ui.used + 1 \in 0..MaxCommands /\ ui.used + 1 \in 1..MaxCommands
    BY <2>1, Numbers DEF Command, UiStates
  <2>3. \A kind : Command(kind) => Used \in UiStates
    BY <2>1, <2>2 DEF Used, UiStates
  <2> QED
    BY <2>2, <2>3, Numbers DEF NextText, Texts
<1>3. \A T : LetGo(T) \in Fates
  BY <1>1 DEF ThreadTypes, LetGo, Fates
<1>4. \A t \in Texts : TakeUp(chat, t) => chat' \in ChatStates
  BY <1>1, TakeUpTypes DEF ThreadTypes
<1>5. \A yes \in BOOLEAN :
        Answer(yes) \in [slot : Agents \cup {Nobody}, of : [Agents -> PromptStates]]
  <2> SUFFICES ASSUME NEW yes \in BOOLEAN
               PROVE  Answer(yes) \in [slot : Agents \cup {Nobody}, of : [Agents -> PromptStates]]
    OBVIOUS
  <2>1. ask \in [slot : Agents \cup {Nobody}, of : [Agents -> PromptStates]]
    BY <1>1 DEF OtherTypes
  <2>2. ASSUME NEW a \in Agents
        PROVE  Answered(a, yes) \in PromptStates
    <3> DEFINE y == IF a = ask.slot THEN yes ELSE ask.of[a].yes
               s == ask.of[a].set \/ a = ask.slot
               o == ask.of[a].own \/ (yes /\ a = ask.slot /\ agent[a].at = "ask")
               n == ask.of[a].since \/ (yes /\ agent[a].at = "ask")
    <3>1. ask.of[a] \in PromptStates
      BY <2>1, <2>2
    <3>2. y \in BOOLEAN /\ s \in BOOLEAN /\ o \in BOOLEAN /\ n \in BOOLEAN
      BY <3>1 DEF PromptStates
    <3>3. Answered(a, yes) = [ask.of[a] EXCEPT !.yes = y, !.set = s, !.own = o, !.since = n]
      BY <3>1, Zenon DEF Answered, PromptStates
    <3> HIDE DEF y, s, o, n
    <3> QED
      BY <3>1, <3>2, <3>3 DEF PromptStates
  <2>3. [a \in Agents |-> Answered(a, yes)] \in [Agents -> PromptStates]
    BY <2>2
  <2> QED
    BY <2>1, <2>3 DEF Answer
<1>6. \A t \in Texts : QueueOrStart(t) => chat' \in ChatStates
  <2> SUFFICES ASSUME NEW t \in Texts, QueueOrStart(t) PROVE chat' \in ChatStates
    OBVIOUS
  <2>1. CASE chat.busy
    <3>1. chat' = [chat EXCEPT !.doing = "append", !.text = t]
      BY <2>1 DEF QueueOrStart
    <3> QED
      BY <1>1, <3>1 DEF ThreadTypes, ChatStates, ChatRecords, Doings
  <2>2. CASE ~chat.busy
    BY <1>4, <2>2 DEF QueueOrStart
  <2> QED
    BY <2>1, <2>2
<1>7. \A asks \in BOOLEAN, risky \in SUBSET Tools : Prompts(asks, risky) => TypeOK'
  <2> SUFFICES ASSUME NEW asks \in BOOLEAN, NEW risky \in SUBSET Tools, Prompts(asks, risky)
               PROVE  TypeOK'
    OBVIOUS
  <2>1. Used \in UiStates
    BY <1>2 DEF Prompts, Key
  <2>2. ui' \in UiStates
    BY <2>1 DEF Prompts, UiStates
  <2> QED
    BY <1>1, <1>3, <2>2 DEF Prompts, ThreadTypes, OtherTypes
<1>8. CASE StartUp
  <2>1. ui' \in UiStates
    <3>1. PICK voice \in BOOLEAN :
             ui' = [ui EXCEPT !.started = TRUE, !.running = TRUE, !.gate = TRUE,
                              !.voice = voice]
      BY <1>8 DEF StartUp
    <3> QED
      BY <1>1, <3>1 DEF OtherTypes, UiStates
  <2> QED
    BY <1>1, <1>8, <2>1 DEF StartUp, ThreadTypes, OtherTypes
<1>9. CASE Submit
  BY <1>1, <1>2, <1>4, <1>9 DEF Submit, ThreadTypes, OtherTypes
<1>10. CASE Post
  <2>1. chat.posted \in Seq(Texts)
    BY <1>1 DEF ThreadTypes, ChatStates, ChatRecords
  <2>2. Append(chat.posted, NextText) \in Seq(Texts)
    BY <1>2, <1>10, <2>1 DEF Post
  <2>3. chat' \in ChatStates
    BY <1>1, <1>10, <2>2 DEF Post, ThreadTypes, ChatStates, ChatRecords
  <2> QED
    BY <1>1, <1>2, <1>10, <2>3 DEF Post, ThreadTypes, OtherTypes
<1>11. CASE Hear
  <2>1. chat.heard \in Seq(Texts)
    BY <1>1 DEF ThreadTypes, ChatStates, ChatRecords
  <2>2. Append(chat.heard, NextText) \in Seq(Texts)
    BY <1>2, <1>11, <2>1 DEF Hear
  <2>3. chat' \in ChatStates
    BY <1>1, <1>11, <2>2 DEF Hear, ThreadTypes, ChatStates, ChatRecords
  <2> QED
    BY <1>1, <1>2, <1>11, <2>3 DEF Hear, ThreadTypes, OtherTypes
<1>12. CASE Relay
  <2>1. chat.heard \in Seq(Texts) /\ chat.posted \in Seq(Texts)
    BY <1>1 DEF ThreadTypes, ChatStates, ChatRecords
  <2>2. Head(chat.heard) \in Texts /\ Tail(chat.heard) \in Seq(Texts)
    BY <1>12, <2>1 DEF Relay
  <2>3. Append(chat.posted, Head(chat.heard)) \in Seq(Texts)
    BY <2>1, <2>2
  <2>4. chat' \in ChatStates
    BY <1>1, <1>12, <2>2, <2>3 DEF Relay, ThreadTypes, ChatStates, ChatRecords
  <2> QED
    BY <1>1, <1>12, <2>4 DEF Relay, ThreadTypes, OtherTypes
<1>13. CASE Deliver
  <2>1. chat.posted \in Seq(Texts)
    BY <1>1 DEF ThreadTypes, ChatStates, ChatRecords
  <2>2. Head(chat.posted) \in Texts /\ Tail(chat.posted) \in Seq(Texts)
    BY <1>13, <2>1 DEF Deliver
  <2>3. [chat EXCEPT !.posted = Tail(@)] \in ChatStates
    BY <1>1, <2>2 DEF ThreadTypes, ChatStates, ChatRecords
  <2>4. TakeUp([chat EXCEPT !.posted = Tail(@)], Head(chat.posted))
    BY <1>13 DEF Deliver
  <2>5. chat' \in ChatStates
    BY <2>2, <2>3, <2>4, TakeUpTypes
  <2> QED
    BY <1>1, <1>13, <2>5 DEF Deliver, ThreadTypes, OtherTypes
<1>33. CASE GoOn
  <2> DEFINE c == [chat EXCEPT !.doing = "none", !.text = NoText,
                               !.tried = FALSE, !.early = FALSE]
  <2>1. /\ chat \in ChatStates /\ agent \in [Agents -> ThreadStates] /\ fate \in Fates
        /\ chat.tried \in BOOLEAN /\ chat.early \in BOOLEAN /\ chat.queue \in Seq(Texts)
    BY <1>1 DEF ThreadTypes, ChatStates, ChatRecords
  <2>2. c \in ChatStates
    BY <2>1 DEF ChatStates, ChatRecords, Doings
  <2>3. chat.text \in Texts /\ chat.text \in 0..GoalText
    BY <1>33, <2>1, Numbers DEF GoOn, ChatStates
  <2>4. ThreadTypes'
    <3>1. CASE chat.doing = "redirect"
      <4>1. Redirect(c, chat.text) /\ agent' = agent
        BY <1>33, <3>1 DEF GoOn
      <4> QED
        BY <2>1, <2>2, <2>3, <4>1, RedirectTypes DEF ThreadTypes
    <3>2. CASE chat.doing = "begin"
      <4>1. StartThread(c, agent, chat.text, chat) /\ fate' = fate
        BY <1>33, <3>2 DEF GoOn
      <4> QED
        BY <2>1, <2>2, <2>3, <4>1, StartThreadTypes DEF ThreadTypes
    <3>3. CASE chat.doing = "append"
      <4>1. Append(chat.queue, chat.text) \in Seq(Texts)
        BY <2>1, <2>3
      <4>2. [c EXCEPT !.queue = Append(@, chat.text)] \in ChatStates
        BY <2>1, <2>2, <4>1 DEF ChatStates, ChatRecords
      <4>3. chat' = [c EXCEPT !.queue = Append(@, chat.text)] /\ agent' = agent /\ fate' = fate
        BY <1>33, <3>3 DEF GoOn
      <4> QED
        BY <2>1, <4>2, <4>3 DEF ThreadTypes
    <3> QED
      BY <1>33, <3>1, <3>2, <3>3 DEF GoOn
  <2> QED
    BY <1>1, <1>33, <2>4 DEF GoOn, OtherTypes
<1>14. CASE QueueKey \/ Template
  BY <1>1, <1>2, <1>6, <1>14 DEF QueueKey, Template, Key, ThreadTypes, OtherTypes
<1>15. CASE Retry
  BY <1>1, <1>2, <1>4, <1>15 DEF Retry, Key, ThreadTypes, OtherTypes
<1>16. CASE StartGoal
  <2>1. goal' \in [on : BOOLEAN, left : 0..GoalTurns]
    BY <1>16, Numbers DEF StartGoal
  <2>2. ThreadTypes'
    BY <1>1, <1>2, <1>3, <1>4, <1>16 DEF StartGoal, Key, ThreadTypes
  <2> QED
    BY <1>1, <1>2, <1>16, <2>1, <2>2 DEF StartGoal, Key, OtherTypes
<1>17. CASE StopGoal
  <2>1. goal' \in [on : BOOLEAN, left : 0..GoalTurns]
    BY <1>1, <1>17 DEF StopGoal, OtherTypes
  <2> QED
    BY <1>1, <1>2, <1>3, <1>17, <2>1 DEF StopGoal, Key, ThreadTypes, OtherTypes
<1>18. CASE ClearQueue
  <2>1. chat' \in ChatStates
    <3>1. <<>> \in Seq(Texts)
      OBVIOUS
    <3> QED
      BY <1>1, <1>18, <3>1 DEF ClearQueue, ThreadTypes, ChatStates, ChatRecords
  <2> QED
    BY <1>1, <1>2, <1>3, <1>18, <2>1 DEF ClearQueue, Key, ThreadTypes, OtherTypes
<1>19. CASE SessionChanged
  <2>1. chat' \in ChatStates
    BY <1>1, <1>19, Numbers DEF SessionChanged, ThreadTypes, ChatStates, ChatRecords, NoText
  <2> QED
    BY <1>1, <1>2, <1>3, <1>19, <2>1 DEF SessionChanged, Key, ThreadTypes, OtherTypes
<1>20. CASE TogglePlan
  <2>1. Used \in UiStates
    BY <1>2, <1>20 DEF TogglePlan, Key
  <2>2. ui' \in UiStates
    BY <1>20, <2>1 DEF TogglePlan, UiStates
  <2> QED
    BY <1>1, <1>3, <1>20, <2>2 DEF TogglePlan, ThreadTypes, OtherTypes
<1>21. CASE Approve \/ Settings
  <2>1. ui.asks \in BOOLEAN /\ ui.risky \in SUBSET Tools
    BY <1>1 DEF OtherTypes, UiStates
  <2>2. \A k \in Tools : ui.risky \cup {k} \in SUBSET Tools /\ ui.risky \ {k} \in SUBSET Tools
    BY <2>1
  <2> QED
    BY <1>7, <1>21, <2>1, <2>2 DEF Approve, Settings
<1>22. CASE Interrupt
  <2>1. [chat EXCEPT !.stop = TRUE] \in ChatStates
    BY <1>1 DEF ThreadTypes, ChatStates, ChatRecords
  <2> QED
    BY <1>1, <1>5, <1>22, <2>1 DEF Interrupt, ThreadTypes, OtherTypes
<1>23. CASE Quit
  <2>1. ui' \in UiStates
    BY <1>1, <1>23 DEF Quit, OtherTypes, UiStates
  <2> QED
    BY <1>1, <1>23, <2>1 DEF Quit, ThreadTypes, OtherTypes
<1>24. CASE RemoveGate
  <2>1. ui' \in UiStates
    BY <1>1, <1>24 DEF RemoveGate, OtherTypes, UiStates
  <2>2. ask' \in [slot : Agents \cup {Nobody}, of : [Agents -> PromptStates]]
    BY <1>5, <1>24 DEF RemoveGate
  <2> QED
    BY <1>1, <1>24, <2>1, <2>2 DEF RemoveGate, ThreadTypes, OtherTypes
<1>25. CASE StartTeam
  <2>1. PICK r \in Runs :
          /\ agent' = [agent EXCEPT ![r].at = "turn", ![r].calls = MaxCalls]
          /\ team' = [thread |-> r, stopped |-> FALSE, told |-> team.told \ {r},
                      status |-> "running"]
    BY <1>25 DEF StartTeam
  <2>2. agent \in [Agents -> ThreadStates] /\ r \in Agents
    BY <1>1 DEF ThreadTypes, Agents
  <2>3. [agent[r] EXCEPT !.at = "turn", !.calls = MaxCalls] \in ThreadStates
    BY <2>2, Numbers DEF ThreadStates, Stages
  <2>4. agent' \in [Agents -> ThreadStates]
    BY <2>1, <2>2, <2>3
  <2>5. team' \in [thread : Runs \cup {Nobody}, stopped : BOOLEAN, told : SUBSET Runs,
                   status : {"idle", "running", "done", "stopped"}]
    BY <1>1, <2>1 DEF OtherTypes
  <2> QED
    BY <1>1, <1>2, <1>3, <1>25, <2>4, <2>5 DEF StartTeam, Key, ThreadTypes, OtherTypes
<1>26. CASE StopTeam
  <2>1. team' \in [thread : Runs \cup {Nobody}, stopped : BOOLEAN, told : SUBSET Runs,
                   status : {"idle", "running", "done", "stopped"}]
    BY <1>1, <1>26 DEF StopTeam, OtherTypes
  <2> QED
    BY <1>1, <1>2, <1>3, <1>26, <2>1 DEF StopTeam, Key, ThreadTypes, OtherTypes
<1>27. ASSUME NEW r \in Agents
       PROVE  End(r) \in [Agents -> ThreadStates]
  BY <1>1, <1>27, Numbers DEF End, Dead, ThreadTypes, ThreadStates, Stages, NoText, NoTool
<1>28. ASSUME NEW r \in Runs, EndTeam(r)
       PROVE  TypeOK'
  <2>1. team' \in [thread : Runs \cup {Nobody}, stopped : BOOLEAN, told : SUBSET Runs,
                   status : {"idle", "running", "done", "stopped"}]
    BY <1>1, <1>28 DEF EndTeam, OtherTypes
  <2> QED
    BY <1>1, <1>27, <1>28, <2>1 DEF EndTeam, ThreadTypes, OtherTypes, Agents
<1>29. ASSUME NEW b \in Sides, AskAside(b)
       PROVE  TypeOK'
  <2>1. agent \in [Agents -> ThreadStates] /\ b \in Agents
    BY <1>1 DEF ThreadTypes, Agents
  <2>2. [agent[b] EXCEPT !.at = "turn", !.calls = MaxCalls] \in ThreadStates
    BY <2>1, Numbers DEF ThreadStates, Stages
  <2>3. agent' \in [Agents -> ThreadStates]
    BY <1>29, <2>1, <2>2 DEF AskAside
  <2> QED
    BY <1>1, <1>2, <1>3, <1>29, <2>3 DEF AskAside, Key, ThreadTypes, OtherTypes
<1>30. ASSUME NEW b \in Sides, EndAside(b)
       PROVE  TypeOK'
  BY <1>1, <1>27, <1>30 DEF EndAside, ThreadTypes, OtherTypes, Agents
<1>31. ASSUME NEW key, AnswerKey(key)
       PROVE  TypeOK'
  <2>1. ui' \in UiStates
    BY <1>1, <1>31 DEF AnswerKey, OtherTypes, UiStates
  <2>2. ask' \in [slot : Agents \cup {Nobody}, of : [Agents -> PromptStates]]
    BY <1>5, <1>31 DEF AnswerKey
  <2> QED
    BY <1>1, <1>31, <2>1, <2>2 DEF AnswerKey, ThreadTypes, OtherTypes
<1>32. CASE UserStep
  BY <1>9, <1>10, <1>11, <1>13, <1>14, <1>15, <1>16, <1>17, <1>18, <1>19, <1>20, <1>21,
     <1>22, <1>23, <1>25, <1>26, <1>29, <1>31, <1>32 DEF UserStep
<1> QED
  BY <1>8, <1>12, <1>24, <1>28, <1>30, <1>32, <1>33

(* Every step keeps the types: ui.used counts up to its bound, a thread's   *)
(* calls down to none, and what is in a slot or a queue is a message.       *)
LEMMA TypeStep == TypeOK /\ [Next]_vars => TypeOK'
<1> SUFFICES ASSUME TypeOK, [Next]_vars PROVE TypeOK'
  OBVIOUS
<1>1. CASE UNCHANGED vars
  BY <1>1 DEF vars, TypeOK, Between
<1>2. CASE Next
  BY <1>2, WorkerTypes, GateTypes, OthersTypes DEF Next
<1> QED
  BY <1>1, <1>2

LEMMA TypeStart == Init => TypeOK
<1> SUFFICES ASSUME Init PROVE TypeOK
  OBVIOUS
<1>1. ui \in UiStates
  BY Numbers DEF Init, UiStates, Gated
<1>2. chat \in ChatStates
  BY Numbers DEF Init, ChatStates, ChatRecords, NoText, Doings
<1>3. agent \in [Agents -> ThreadStates]
  BY Numbers DEF Init, Dead, ThreadStates, Stages, NoText, NoTool
<1>4. fate \in Fates
  BY DEF Init, Fates
<1>5. OtherTypes
  BY <1>1, Numbers DEF Init, OtherTypes, NoPrompt, PromptStates
<1> QED
  BY <1>2, <1>3, <1>4, <1>5, TypesAre DEF ThreadTypes

(* Type correctness, for all values of the constants.                       *)
THEOREM ChatTypes == Spec => []TypeOK
  BY TypeStart, TypeStep, PTL DEF Spec

-----------------------------------------------------------------------------
(* How threads move when no call is at the gate: a thread that is not in a  *)
(* call goes on or ends.  One that goes on with a turn knows what the UI    *)
(* thread or a turn thread knew of checkpoints, or the edit window has just *)
(* been reset and it knows whether a checkpoint is under way.               *)
NoCall == {"dead", "start", "turn", "wind", "read", "quiet", "chain", "rest", "popped"}
             \cup Options

Knows(r) ==
    \/ ~chat'.mutated /\ r.early = Saving(agent)
    \/ chat.doing \in Options /\ r.tried = chat.tried /\ r.early = chat.early
    \/ \E w \in Workers : /\ agent[w].at # "dead"
                          /\ r.tried = agent[w].tried /\ r.early = agent[w].early
GoesAlong(a) ==
    /\ agent[a].at \in NoCall /\ agent'[a].at \in NoCall
    /\ agent'[a].at = "dead" \/ a \notin Workers \/ Knows(agent'[a])

Moved ==
    /\ chat'.mutated => chat.mutated
    /\ \A a \in Agents : agent'[a] = agent[a] \/ GoesAlong(a)
    /\ chat'.doing \in Options => Knows(chat')

(* A thread is started, when the threads are as they were or one has ended. *)
LEMMA StartThreadMoves ==
    ASSUME TypeOK, NEW c \in ChatStates, NEW t \in 0..GoalText, NEW ag, NEW from,
           ag = agent \/ \E w \in Agents : agent[w].at \in NoCall /\ ag = End(w),
           StartThread(c, ag, t, from), c.mutated = chat.mutated,
           c.doing \in Options => c.doing = chat.doing /\ c.tried = chat.tried
                                   /\ c.early = chat.early,
           \/ chat.doing \in Options /\ from = chat
           \/ \E w \in Workers : agent[w].at # "dead" /\ from = agent[w]
    PROVE  Moved
<1>1. agent \in [Agents -> ThreadStates] /\ ag \in [Agents -> ThreadStates]
  <2>1. agent \in [Agents -> ThreadStates] /\ Dead \in ThreadStates
    BY TypesAre, Numbers DEF Dead, ThreadTypes, ThreadStates, Stages, NoText, NoTool
  <2> QED
    BY <2>1 DEF End
<1>2. \A a \in Agents : ag[a] = agent[a] \/ (agent[a].at \in NoCall /\ ag[a].at = "dead")
  BY <1>1 DEF End, Dead
<1>3. PICK v \in Workers : /\ Free(v, ag) /\ chat' = [c EXCEPT !.handle = v]
                           /\ agent' = [ag EXCEPT ![v] = NewTurn(t, from)]
  BY DEF StartThread
<1>4. /\ chat'.mutated = c.mutated /\ chat'.doing = c.doing
      /\ chat'.tried = c.tried /\ chat'.early = c.early
  BY <1>3 DEF ChatStates, ChatRecords
<1>5. v \in Agents
  BY DEF Agents
<1>6. /\ agent'[v].at = "start"
      /\ agent'[v].tried = from.tried /\ agent'[v].early = from.early
  BY <1>1, <1>3, <1>5 DEF NewTurn
<1>7. agent[v].at \in NoCall
  BY <1>2, <1>3, <1>5 DEF Free, NoCall
<1>8. \A a \in Agents \ {v} : agent'[a] = agent[a] \/ GoesAlong(a)
  <2>1. \A a \in Agents \ {v} : agent'[a] = ag[a]
    BY <1>1, <1>3
  <2> QED
    BY <1>2, <2>1 DEF GoesAlong, NoCall
<1>9. GoesAlong(v)
  BY <1>6, <1>7 DEF GoesAlong, Knows, NoCall
<1>10. chat'.doing \in Options => Knows(chat')
  BY <1>4 DEF Knows
<1> QED
  BY <1>4, <1>8, <1>9, <1>10 DEF Moved

(* One thread goes on, or ends, and the UI thread does nothing.             *)
LEMMA OneMoves ==
    ASSUME NEW a \in Agents, agent[a].at \in NoCall, agent'[a].at \in NoCall,
           \/ agent'[a].at = "dead" \/ a \notin Workers
           \/ /\ agent[a].at # "dead"
              /\ agent'[a].tried = agent[a].tried /\ agent'[a].early = agent[a].early,
           \A b \in Agents \ {a} : agent'[b] = agent[b],
           chat'.mutated => chat.mutated, chat'.doing = chat.doing,
           chat'.tried = chat.tried, chat'.early = chat.early
    PROVE  Moved
  BY DEF Moved, GoesAlong, Knows

LEMMA WorkerMoves ==
    ASSUME TypeOK, NEW w \in Workers, WorkerStep(w)
    PROVE  Moved /\ UNCHANGED <<ui, ask>> /\ agent[w].at # "dead"
<1>1. /\ w \in Agents /\ chat \in ChatStates /\ agent \in [Agents -> ThreadStates]
      /\ agent[w] \in ThreadStates /\ chat \in ChatRecords
  BY TypesAre DEF Agents, ThreadTypes, ChatStates
<1> DEFINE same == /\ chat'.mutated = chat.mutated /\ chat'.doing = chat.doing
                   /\ chat'.tried = chat.tried /\ chat'.early = chat.early
           past == agent[w].at \in NoCall \ {"dead"}
<1>2. \A at \in NoCall : past /\ same /\ agent' = Move(w, at) => Moved
  <2> SUFFICES ASSUME NEW at \in NoCall, past, same, agent' = Move(w, at) PROVE Moved
    OBVIOUS
  <2>1. /\ agent'[w].at = at
        /\ agent'[w].tried = agent[w].tried /\ agent'[w].early = agent[w].early
        /\ \A b \in Agents \ {w} : agent'[b] = agent[b]
    BY <1>1 DEF Move, ThreadStates
  <2> QED
    BY <1>1, <2>1, OneMoves
<1>3. \A at \in NoCall : \A x :
        past /\ same /\ agent' = [agent EXCEPT ![w].at = at, ![w].text = x] => Moved
  <2> SUFFICES ASSUME NEW at \in NoCall, NEW x, past, same,
                      agent' = [agent EXCEPT ![w].at = at, ![w].text = x]
               PROVE  Moved
    OBVIOUS
  <2>1. /\ agent'[w].at = at
        /\ agent'[w].tried = agent[w].tried /\ agent'[w].early = agent[w].early
        /\ \A b \in Agents \ {w} : agent'[b] = agent[b]
    BY <1>1 DEF ThreadStates
  <2> QED
    BY <1>1, <2>1, OneMoves
<1>4. past /\ same /\ agent' = End(w) => Moved
  <2> SUFFICES ASSUME past, same, agent' = End(w) PROVE Moved
    OBVIOUS
  <2>1. /\ agent'[w].at = "dead"
        /\ \A b \in Agents \ {w} : agent'[b] = agent[b]
    BY <1>1 DEF End, Dead
  <2> QED
    BY <1>1, <2>1, OneMoves DEF NoCall
<1>5. CASE BeginTurn(w)
  <2>1. same
    BY <1>1, <1>5 DEF BeginTurn, ChatRecords
  <2> QED
    BY <1>2, <1>5, <2>1 DEF BeginTurn, NoCall
<1>6. CASE EndTurn(w)
  <2>1. same
    BY <1>1, <1>6 DEF EndTurn, ChatRecords
  <2> QED
    BY <1>2, <1>6, <2>1 DEF EndTurn, NoCall
<1>7. CASE ReadRedirect(w)
  BY <1>3, <1>7 DEF ReadRedirect, NoCall
<1>8. CASE ClearRedirect(w)
  <2>1. same
    BY <1>1, <1>8 DEF ClearRedirect, ChatRecords
  <2> QED
    BY <1>2, <1>8, <2>1 DEF ClearRedirect, Onward, NoCall
<1>9. CASE ContinueGoal(w)
  <2>1. same
    BY <1>1, <1>9 DEF ContinueGoal, ChatRecords
  <2> QED
    BY <1>3, <1>9, <2>1 DEF ContinueGoal, NoCall
<1>10. CASE WindDown(w)
  BY <1>2, <1>10 DEF WindDown, NoCall
<1>11. CASE PopQueued(w)
  <2>1. same
    BY <1>1, <1>11 DEF PopQueued, ChatRecords
  <2> QED
    BY <1>3, <1>4, <1>11, <2>1 DEF PopQueued, NoCall
<1>12. ASSUME Chain(w) PROVE Moved
  <2>1. past
    BY <1>12 DEF Chain, NoCall
  <2>2. CASE ~ui.running
    BY <1>3, <1>4, <1>12, <2>1, <2>2 DEF Chain, NoCall
  <2>3. CASE ui.running
    <3>1. /\ chat' = [chat EXCEPT !.mutated = FALSE]
          /\ agent' = [agent EXCEPT ![w].at = Looked(chat), ![w].tried = FALSE,
                                    ![w].early = Saving(agent)]
      BY <1>12, <2>3 DEF Chain
    <3>2. /\ ~chat'.mutated /\ chat'.doing = chat.doing
          /\ chat'.tried = chat.tried /\ chat'.early = chat.early
      BY <1>1, <3>1 DEF ChatRecords
    <3>3. /\ agent'[w].at = Looked(chat) /\ agent'[w].early = Saving(agent)
          /\ \A b \in Agents \ {w} : agent'[b] = agent[b]
      BY <1>1, <3>1 DEF ThreadStates
    <3>4. GoesAlong(w)
      BY <2>1, <3>2, <3>3 DEF GoesAlong, Knows, Looked, Options, NoCall
    <3>5. chat'.doing \in Options => Knows(chat')
      BY <3>2 DEF Knows
    <3>6. \A a \in Agents : agent'[a] = agent[a] \/ GoesAlong(a)
      BY <3>3, <3>4
    <3> QED
      BY <3>2, <3>5, <3>6 DEF Moved
  <2> QED
    BY <2>2, <2>3
<1>13. ASSUME ChainOn(w) PROVE Moved
  <2>1. past /\ agent[w].text \in 0..GoalText
    BY <1>1, <1>13 DEF ChainOn, NoCall, Options, ThreadStates
  <2>2. CASE agent[w].at = "redirect"
    <3>1. Redirect(chat, agent[w].text) /\ agent' = End(w)
      BY <1>13, <2>2 DEF ChainOn
    <3>2. same
      BY <1>1, <3>1 DEF Redirect, ChatRecords
    <3>3. past
      BY <2>1
    <3> HIDE DEF same, past
    <3> QED
      BY <1>4, <3>1, <3>2, <3>3
  <2>3. CASE agent[w].at # "redirect"
    <3>1. StartThread(chat, End(w), agent[w].text, agent[w])
      BY <1>13, <2>3 DEF ChainOn
    <3>2. agent[w].at \in NoCall /\ agent[w].at # "dead"
      BY <2>1
    <3>3. \E v \in Agents : agent[v].at \in NoCall /\ End(w) = End(v)
      BY <1>1, <3>2
    <3>4. \E v \in Workers : agent[v].at # "dead" /\ agent[w] = agent[v]
      BY <1>1, <3>2
    <3>5. agent[w].text \in 0..GoalText
      BY <2>1
    <3> HIDE DEF same, past
    <3> QED
      BY <1>1, <3>1, <3>3, <3>4, <3>5, StartThreadMoves
  <2> QED
    BY <2>2, <2>3
<1>14. Moved
  BY <1>5, <1>6, <1>7, <1>8, <1>9, <1>10, <1>11, <1>12, <1>13 DEF WorkerStep, WindUp
<1>15. UNCHANGED <<ui, ask>> /\ agent[w].at # "dead"
  BY DEF WorkerStep, WindUp, BeginTurn, EndTurn, ReadRedirect, ClearRedirect, ContinueGoal,
         WindDown, PopQueued, Chain, ChainOn
<1> QED
  BY <1>14, <1>15

(* The steps of the other threads, and of the user: an answer goes into the *)
(* records of all that wait, and moves no thread.                           *)
LEMMA OthersMove ==
    ASSUME TypeOK,
           \/ StartUp \/ UserStep \/ GoOn \/ RemoveGate \/ Relay
           \/ \E r \in Runs : EndTeam(r)
           \/ \E b \in Sides : EndAside(b)
    PROVE  /\ Moved
           /\ ui'.gate => ui.gate \/ ~ui.started
           /\ ask' # ask => /\ agent' = agent
                            /\ ask'.slot \in {ask.slot, Nobody}
                            /\ \E yes \in BOOLEAN :
                                  ask'.of = [a \in Agents |-> Answered(a, yes)]
<1>1. /\ chat \in ChatStates /\ chat \in ChatRecords
      /\ agent \in [Agents -> ThreadStates] /\ ui \in UiStates
      /\ ask \in [slot : Agents \cup {Nobody}, of : [Agents -> PromptStates]]
  BY TypesAre DEF ThreadTypes, OtherTypes, ChatStates
<1>2. NextText \in 0..GoalText \/ ui.used = MaxCommands
  BY <1>1, Numbers DEF NextText, UiStates, GoalText
<1>3. \A c \in ChatStates : \A t : agent' = agent /\ TakeUp(c, t) => Moved
  <2> SUFFICES ASSUME NEW c \in ChatStates, NEW t, agent' = agent, TakeUp(c, t) PROVE Moved
    OBVIOUS
  <2>1. ~chat'.mutated /\ chat'.early = Saving(agent)
    BY DEF TakeUp, ChatStates, ChatRecords
  <2> QED
    BY <2>1 DEF Moved, Knows
<1> DEFINE same == /\ chat'.mutated = chat.mutated /\ chat'.doing = chat.doing
                   /\ chat'.tried = chat.tried /\ chat'.early = chat.early
<1>4. agent' = agent /\ same => Moved
  BY DEF Moved, Knows
<1>still. chat' = chat => same
  OBVIOUS
<1>5. Used.gate = ui.gate /\ \A k \in BOOLEAN : [Used EXCEPT !.plan = k].gate = ui.gate
  BY <1>1 DEF Used, UiStates
<1>6. CASE Submit \/ Retry
  BY <1>1, <1>3, <1>5, <1>6 DEF Submit, Retry
<1>7. CASE Post \/ Hear \/ Relay \/ ClearQueue \/ SessionChanged
  <2>1. same
    BY <1>1, <1>7 DEF Post, Hear, Relay, ClearQueue, SessionChanged, ChatRecords
  <2> QED
    BY <1>4, <1>5, <1>7, <2>1 DEF Post, Hear, Relay, ClearQueue, SessionChanged
<1>8. CASE Deliver
  <2>1. [chat EXCEPT !.posted = Tail(@)] \in ChatStates
    <3>1. Tail(chat.posted) \in Seq(Texts)
      BY <1>1, <1>8 DEF Deliver, ChatRecords
    <3> QED
      BY <1>1, <3>1 DEF ChatStates, ChatRecords
  <2> QED
    BY <1>3, <1>8, <2>1 DEF Deliver
<1>9. CASE QueueKey \/ Template
  <2>1. QueueOrStart(NextText) /\ agent' = agent /\ ask' = ask
    BY <1>9 DEF QueueKey, Template
  <2>2. Moved
    <3>1. CASE chat.busy
      <4>1. chat'.mutated = chat.mutated /\ chat'.doing = "append"
        BY <1>1, <2>1, <3>1 DEF QueueOrStart, ChatRecords
      <4> QED
        BY <2>1, <4>1 DEF Moved, Options
    <3>2. CASE ~chat.busy
      BY <1>1, <1>3, <2>1, <3>2 DEF QueueOrStart
    <3> QED
      BY <3>1, <3>2
  <2> QED
    BY <1>5, <1>9, <2>1, <2>2 DEF QueueKey, Template
<1>10. CASE StartGoal
  <2>1. CASE chat.busy
    BY <1>4, <1>still, <1>5, <1>10, <2>1 DEF StartGoal
  <2>2. CASE ~chat.busy
    BY <1>1, <1>3, <1>5, <1>10, <2>2 DEF StartGoal
  <2> QED
    BY <2>1, <2>2
<1>11. CASE StopGoal \/ TogglePlan
  BY <1>1, <1>4, <1>still, <1>5, <1>11 DEF StopGoal, TogglePlan, UiStates
<1>12. ASSUME NEW asks, NEW risky, Prompts(asks, risky)
       PROVE  Moved /\ ask' = ask /\ ui'.gate = ui.gate
  BY <1>1, <1>4, <1>still, <1>12 DEF Prompts, Used, UiStates
<1>13. CASE Approve \/ Settings
  BY <1>12, <1>13 DEF Approve, Settings
<1>14. CASE Interrupt
  <2>1. agent' = agent /\ ui' = ui /\ same
    BY <1>1, <1>14 DEF Interrupt, ChatRecords
  <2>2. ask' = ask \/ ask' = Answer(FALSE)
    BY <1>14 DEF Interrupt
  <2> QED
    BY <1>1, <1>4, <2>1, <2>2 DEF Answer
<1>15. CASE Quit
  BY <1>1, <1>4, <1>still, <1>15 DEF Quit, UiStates
<1>16. CASE StartUp
  BY <1>4, <1>still, <1>16 DEF StartUp
<1>17. CASE RemoveGate
  BY <1>1, <1>4, <1>still, <1>17 DEF RemoveGate, Answer, UiStates
<1>18. ASSUME NEW key, AnswerKey(key)
       PROVE  /\ Moved /\ agent' = agent /\ ui'.gate = ui.gate
              /\ ask'.slot = ask.slot
              /\ \E yes \in BOOLEAN : ask'.of = [a \in Agents |-> Answered(a, yes)]
  <2>1. ui'.gate = ui.gate
    BY <1>1, <1>18 DEF AnswerKey, UiStates
  <2>2. (key # "n") \in BOOLEAN /\ ask' = Answer(key # "n")
    BY <1>18 DEF AnswerKey
  <2>3. ask'.slot = ask.slot /\ ask'.of = [a \in Agents |-> Answered(a, key # "n")]
    BY <1>1, <2>2 DEF Answer
  <2> QED
    BY <1>4, <1>still, <1>18, <2>1, <2>2, <2>3 DEF AnswerKey
<1>19. CASE StartTeam
  <2>1. PICK r \in Runs :
          agent[r].at = "dead" /\ agent' = [agent EXCEPT ![r].at = "turn", ![r].calls = MaxCalls]
    BY <1>19 DEF StartTeam
  <2>2. r \in Agents /\ r \notin Workers
    BY ChatTurnsAssumption DEF ChatTurnsAssumption, Agents
  <2>3. agent'[r].at = "turn" /\ \A a \in Agents \ {r} : agent'[a] = agent[a]
    BY <1>1, <2>1, <2>2 DEF ThreadStates
  <2> QED
    BY <1>5, <1>19, <2>1, <2>2, <2>3, OneMoves DEF StartTeam, NoCall
<1>20. CASE StopTeam
  BY <1>4, <1>still, <1>5, <1>20 DEF StopTeam
<1>21. ASSUME NEW b \in Sides, AskAside(b)
       PROVE  Moved /\ ask' = ask /\ ui'.gate = ui.gate
  <2>1. b \in Agents /\ b \notin Workers
    BY ChatTurnsAssumption DEF ChatTurnsAssumption, Agents
  <2>2. /\ agent[b].at = "dead" /\ agent'[b].at = "turn"
        /\ \A a \in Agents \ {b} : agent'[a] = agent[a]
    BY <1>1, <1>21, <2>1 DEF AskAside, ThreadStates
  <2> QED
    BY <1>5, <1>21, <2>1, <2>2, OneMoves DEF AskAside, NoCall
<1>22. ASSUME NEW a \in Agents, agent[a].at = "turn", agent' = End(a), chat' = chat
       PROVE  Moved
  <2>1. agent'[a].at = "dead" /\ \A b \in Agents \ {a} : agent'[b] = agent[b]
    BY <1>1, <1>22 DEF End, Dead
  <2> QED
    BY <1>22, <2>1, OneMoves DEF NoCall
<1>23. CASE \E r \in Runs : EndTeam(r)
  BY <1>22, <1>23 DEF EndTeam, Agents
<1>24. CASE \E b \in Sides : EndAside(b)
  BY <1>22, <1>24 DEF EndAside, Agents
<1>25. CASE UserStep
  BY <1>6, <1>7, <1>8, <1>9, <1>10, <1>11, <1>13, <1>14, <1>15, <1>18, <1>19, <1>20, <1>21,
     <1>25 DEF UserStep
<1>26. CASE GoOn
  <2> DEFINE c == [chat EXCEPT !.doing = "none", !.text = NoText,
                               !.tried = FALSE, !.early = FALSE]
  <2>1. /\ c \in ChatStates /\ c.mutated = chat.mutated /\ c.doing = "none"
        /\ \A s \in Seq(Texts) : [c EXCEPT !.queue = s].mutated = chat.mutated
                                /\ [c EXCEPT !.queue = s].doing = "none"
    BY <1>1 DEF ChatStates, ChatRecords, Doings
  <2>2. UNCHANGED <<ui, ask>>
    BY <1>26 DEF GoOn
  <2>3. Moved
    <3>1. CASE chat.doing = "redirect"
      <4>1. Redirect(c, chat.text) /\ agent' = agent
        BY <1>26, <3>1 DEF GoOn
      <4>2. chat'.mutated = chat.mutated /\ chat'.doing = "none"
        BY <2>1, <4>1 DEF Redirect, ChatStates, ChatRecords
      <4> QED
        BY <4>1, <4>2 DEF Moved, Options
    <3>2. CASE chat.doing = "append"
      <4>1. chat' = [c EXCEPT !.queue = Append(@, chat.text)] /\ agent' = agent
        BY <1>26, <3>2 DEF GoOn
      <4>2. Append(c.queue, chat.text) \in Seq(Texts)
        BY <1>1, <3>2 DEF ChatStates, ChatRecords
      <4>3. chat'.mutated = chat.mutated /\ chat'.doing = "none"
        BY <2>1, <4>1, <4>2 DEF ChatStates, ChatRecords
      <4> QED
        BY <4>1, <4>3 DEF Moved, Options
    <3>3. CASE chat.doing = "begin"
      <4>1. StartThread(c, agent, chat.text, chat)
        BY <1>26, <3>3 DEF GoOn
      <4>2. chat.text \in 0..GoalText
        BY <1>1, Numbers DEF ChatRecords, NoText
      <4> HIDE DEF c
      <4> QED
        BY <2>1, <3>3, <4>1, <4>2, StartThreadMoves DEF Options
    <3> QED
      BY <1>26, <3>1, <3>2, <3>3 DEF GoOn
  <2> QED
    BY <2>2, <2>3
<1> QED
  BY <1>7, <1>16, <1>17, <1>23, <1>24, <1>25, <1>26

-----------------------------------------------------------------------------
(* A prompted tool runs on a fresh yes                                      *)

InCall == {"ask", "yes", "no", "tool"}

(* The yes a prompted call goes on with.                                    *)
FreshFor(a) == IF ask.of[a].crossed THEN ask.of[a].since ELSE ask.of[a].own
LetThrough ==
    \A a \in Agents :
        agent[a].at \in {"yes", "tool"} /\ ask.of[a].prompted => FreshFor(a)

(* While a yes stands in the slot, every thread that waits has seen one     *)
(* given; a thread whose wait no other prompt came into finds its own       *)
(* record there, or none; a prompt's record is marked as long as its call   *)
(* lasts.                                                                   *)
YesSeen ==
    ask.slot # Nobody /\ ask.of[ask.slot].yes
    => \A a \in Agents : agent[a].at = "ask" => ask.of[a].since
AloneInSlot ==
    \A a \in Agents :
        agent[a].at = "ask"
        => /\ ~ask.of[a].crossed => ask.slot \in {a, Nobody}
           /\ ask.of[a].yes => ask.of[a].own
Marked == \A a \in Agents : ask.of[a].prompted => agent[a].at \in InCall

PromptInv == LetThrough /\ YesSeen /\ AloneInSlot /\ Marked

(* No thread enters or leaves a call by the steps that are not at the gate. *)
LEMMA MovesKeepPrompts ==
    ASSUME TypeOK, PromptInv, Moved, UNCHANGED ask
    PROVE  PromptInv'
<1>1. \A a \in Agents :
        /\ agent[a].at \in InCall => agent'[a] = agent[a]
        /\ agent'[a].at \in InCall => agent'[a] = agent[a]
  BY DEF Moved, GoesAlong, NoCall, Options, InCall
<1>2. LetThrough'
  BY <1>1 DEF PromptInv, LetThrough, FreshFor, InCall
<1>3. YesSeen'
  BY <1>1 DEF PromptInv, YesSeen, InCall
<1>4. AloneInSlot'
  BY <1>1 DEF PromptInv, AloneInSlot, InCall
<1>5. Marked'
  BY <1>1 DEF PromptInv, Marked
<1> QED
  BY <1>2, <1>3, <1>4, <1>5 DEF PromptInv

(* An answer: a no leaves no yes in the slot, a yes is seen by all.         *)
LEMMA AnswerKeepsPrompts ==
    ASSUME TypeOK, PromptInv, agent' = agent, ask'.slot \in {ask.slot, Nobody},
           NEW yes \in BOOLEAN, ask'.of = [a \in Agents |-> Answered(a, yes)]
    PROVE  PromptInv'
<1>1. /\ \A a \in Agents : ask.of[a] \in PromptStates
      /\ ask.slot \in Agents \cup {Nobody}
  BY TypesAre DEF OtherTypes
<1>2. \A a \in Agents :
        /\ a = ask.slot => (ask'.of[a].yes <=> yes)
        /\ a # ask.slot => (ask'.of[a].yes <=> ask.of[a].yes)
        /\ ask'.of[a].prompted <=> ask.of[a].prompted
        /\ ask'.of[a].crossed <=> ask.of[a].crossed
        /\ ask'.of[a].own <=> ask.of[a].own \/ (yes /\ a = ask.slot /\ agent[a].at = "ask")
        /\ ask'.of[a].since <=> ask.of[a].since \/ (yes /\ agent[a].at = "ask")
  <2> TAKE a \in Agents
  <2>1. ask'.of[a] = Answered(a, yes)
    OBVIOUS
  <2>2. /\ a = ask.slot => (Answered(a, yes).yes <=> yes)
        /\ a # ask.slot => (Answered(a, yes).yes <=> ask.of[a].yes)
    BY <1>1 DEF Answered, PromptStates
  <2>3. /\ Answered(a, yes).prompted <=> ask.of[a].prompted
        /\ Answered(a, yes).crossed <=> ask.of[a].crossed
    BY <1>1 DEF Answered, PromptStates
  <2>4. Answered(a, yes).since <=> ask.of[a].since \/ (yes /\ agent[a].at = "ask")
    BY <1>1 DEF Answered, PromptStates
  <2>5. Answered(a, yes).own
        <=> ask.of[a].own \/ (yes /\ a = ask.slot /\ agent[a].at = "ask")
    BY <1>1 DEF Answered, PromptStates
  <2> QED
    BY <2>1, <2>2, <2>3, <2>4, <2>5
<1>3. LetThrough'
  BY <1>2 DEF PromptInv, LetThrough, FreshFor
<1>4. YesSeen'
  BY <1>1, <1>2 DEF YesSeen
<1>5. AloneInSlot'
  BY <1>2 DEF PromptInv, AloneInSlot
<1>6. Marked'
  BY <1>2 DEF PromptInv, Marked
<1> QED
  BY <1>3, <1>4, <1>5, <1>6 DEF PromptInv

(* The steps of a thread at the gate: where they put it, and that no other  *)
(* thread enters or leaves a call.                                          *)
LEMMA GateMoves ==
    ASSUME TypeOK, NEW a \in Agents
    PROVE  /\ \A at \in Stages :
                /\ Move(a, at)[a].at = at
                /\ \A b \in Agents \ {a} : Move(a, at)[b] = agent[b]
           /\ \A at \in Stages, k \in Tools \cup {NoTool} :
                /\ Spend(a, at, k)[a].at = at
                /\ \A b \in Agents \ {a} : Spend(a, at, k)[b] = agent[b]
           /\ \A k \in Tools : Checkpoint(a, k) =>
                /\ agent'[a].at = "save"
                /\ \A b \in Agents \ {a} : agent'[b].at = agent[b].at
           /\ \A at \in Stages, k \in Tools : GoesOn(a, k, at) =>
                /\ agent'[a].at = at
                /\ \A b \in Agents \ {a} : agent'[b] = agent[b]
<1>1. agent \in [Agents -> ThreadStates]
  BY TypesAre DEF ThreadTypes
<1>2. \A at \in Stages :
        /\ Move(a, at)[a].at = at
        /\ \A b \in Agents \ {a} : Move(a, at)[b] = agent[b]
  BY <1>1 DEF Move, ThreadStates
<1>3. \A at \in Stages, k \in Tools \cup {NoTool} :
        /\ Spend(a, at, k)[a].at = at
        /\ \A b \in Agents \ {a} : Spend(a, at, k)[b] = agent[b]
  BY <1>1 DEF Spend, ThreadStates
<1>4. ASSUME NEW k \in Tools, Checkpoint(a, k)
      PROVE  /\ agent'[a].at = "save"
             /\ \A b \in Agents \ {a} : agent'[b].at = agent[b].at
  <2>1. Spend(a, "save", k) \in [Agents -> ThreadStates] /\ Spend(a, "save", k)[a].at = "save"
    BY <1>3, <1>4, SpendTypes DEF Checkpoint, Stages
  <2>2. \A b \in Agents : agent'[b].at = Spend(a, "save", k)[b].at
    BY <1>4, <2>1 DEF Checkpoint, ThreadStates
  <2> QED
    BY <1>3, <2>1, <2>2 DEF Stages
<1>5. ASSUME NEW at \in Stages, NEW k \in Tools, GoesOn(a, k, at)
      PROVE  /\ agent'[a].at = at
             /\ \A b \in Agents \ {a} : agent'[b] = agent[b]
  BY <1>2, <1>3, <1>5 DEF GoesOn
<1> QED
  BY <1>2, <1>3, <1>4, <1>5

LEMMA GateKeepsPrompts ==
    ASSUME TypeOK, PromptInv, NEW a \in Agents,
           Call(a) \/ Wake(a) \/ TimeOut(a) \/ Settle(a) \/ FinishTool(a)
    PROVE  PromptInv'
<1>1. /\ agent \in [Agents -> ThreadStates]
      /\ ask \in [slot : Agents \cup {Nobody}, of : [Agents -> PromptStates]]
      /\ a # Nobody
  BY TypesAre, Numbers DEF ThreadTypes, OtherTypes, Nobody
<1>2. {"turn", "save", "ask", "yes", "no", "tool"} \subseteq Stages
  BY DEF Stages
<1>3. ASSUME UNCHANGED ask, agent[a].at \notin InCall, agent'[a].at # "ask",
             \A b \in Agents \ {a} : agent'[b].at = agent[b].at
      PROVE  PromptInv'
  <2>1. ~ask.of[a].prompted
    BY <1>3 DEF PromptInv, Marked
  <2>2. LetThrough'
    BY <1>3, <2>1 DEF PromptInv, LetThrough, FreshFor
  <2>3. YesSeen'
    BY <1>3 DEF PromptInv, YesSeen
  <2>4. AloneInSlot'
    BY <1>3 DEF PromptInv, AloneInSlot
  <2>5. Marked'
    BY <1>3, <2>1 DEF PromptInv, Marked
  <2> QED
    BY <2>2, <2>3, <2>4, <2>5 DEF PromptInv
<1>4. ASSUME NEW k \in Tools, PlanBlocks(a, k)
      PROVE  PromptInv'
  BY <1>2, <1>3, <1>4, GateMoves DEF PlanBlocks, MayCall, InCall
<1>5. ASSUME NEW k \in Tools, Checkpoint(a, k)
      PROVE  PromptInv'
  BY <1>3, <1>5, GateMoves DEF Checkpoint, MayCall, InCall
<1>6. ASSUME NEW k \in Tools, RunTool(a, k)
      PROVE  PromptInv'
  BY <1>2, <1>3, <1>6, GateMoves DEF RunTool, Through, MayCall, InCall
<1>7. ASSUME NEW k \in Tools, Prompt(a, k)
      PROVE  PromptInv'
  <2>1. /\ ask'.slot = a
        /\ \A b \in Agents :
              ask'.of[b] = IF b = a THEN [NoPrompt EXCEPT !.prompted = TRUE]
                           ELSE [ask.of[b] EXCEPT !.crossed = @ \/ agent[b].at = "ask"]
    BY <1>7 DEF Prompt
  <2>2. ~ask'.of[a].yes
    BY <2>1 DEF NoPrompt
  <2>3. \A b \in Agents \ {a} :
          /\ ask'.of[b].yes = ask.of[b].yes /\ ask'.of[b].own = ask.of[b].own
          /\ ask'.of[b].since = ask.of[b].since /\ ask'.of[b].prompted = ask.of[b].prompted
          /\ ask'.of[b].crossed <=> ask.of[b].crossed \/ agent[b].at = "ask"
    <3> TAKE b \in Agents \ {a}
    <3>1. ask'.of[b] = [ask.of[b] EXCEPT !.crossed = @ \/ agent[b].at = "ask"]
      BY <2>1
    <3>2. ask.of[b] \in PromptStates
      BY <1>1
    <3> QED
      BY <3>1, <3>2 DEF PromptStates
  <2>4. agent'[a].at = "ask" /\ \A b \in Agents \ {a} : agent'[b] = agent[b]
    BY <1>2, <1>7, GateMoves DEF Prompt
  <2>5. LetThrough'
    <3> SUFFICES ASSUME NEW b \in Agents, agent'[b].at \in {"yes", "tool"},
                        ask'.of[b].prompted
                 PROVE  FreshFor(b)'
      BY DEF LetThrough
    <3>1. b # a /\ agent[b].at # "ask"
      BY <2>4
    <3> QED
      BY <2>3, <2>4, <3>1 DEF PromptInv, LetThrough, FreshFor
  <2>6. YesSeen'
    BY <2>1, <2>2 DEF YesSeen
  <2>7. AloneInSlot'
    BY <2>1, <2>2, <2>3, <2>4 DEF PromptInv, AloneInSlot
  <2>8. Marked'
    BY <2>3, <2>4 DEF PromptInv, Marked, InCall
  <2> QED
    BY <2>5, <2>6, <2>7, <2>8 DEF PromptInv
<1>8. ASSUME ask'.of = [ask.of EXCEPT ![a] = NoPrompt], ask'.slot \in {ask.slot, Nobody},
             agent'[a].at = "turn", \A b \in Agents \ {a} : agent'[b] = agent[b]
      PROVE  PromptInv'
  <2>1. /\ ~ask'.of[a].yes /\ ~ask'.of[a].prompted
        /\ \A b \in Agents \ {a} : ask'.of[b] = ask.of[b]
    BY <1>1, <1>8 DEF NoPrompt
  <2>2. LetThrough'
    BY <1>8, <2>1 DEF PromptInv, LetThrough, FreshFor
  <2>3. YesSeen'
    BY <1>1, <1>8, <2>1 DEF PromptInv, YesSeen
  <2>4. AloneInSlot'
    BY <1>8, <2>1 DEF PromptInv, AloneInSlot
  <2>5. Marked'
    BY <1>8, <2>1 DEF PromptInv, Marked
  <2> QED
    BY <2>2, <2>3, <2>4, <2>5 DEF PromptInv
<1>9. CASE Resume(a)
  <2>1. agent[a].at = "ask" /\ ask' = ask
    BY <1>9 DEF Resume
  <2>2. /\ agent'[a].at \in {"yes", "no"}
        /\ agent'[a].at = "yes" => ask.slot # Nobody /\ ask.of[ask.slot].yes
        /\ \A b \in Agents \ {a} : agent'[b] = agent[b]
    BY <1>2, <1>9, GateMoves DEF Resume
  <2>3. agent'[a].at = "yes" => FreshFor(a)
    BY <2>1, <2>2 DEF PromptInv, YesSeen, AloneInSlot, FreshFor
  <2>4. LetThrough'
    BY <2>1, <2>2, <2>3 DEF PromptInv, LetThrough, FreshFor
  <2>5. YesSeen' /\ AloneInSlot'
    BY <2>1, <2>2 DEF PromptInv, YesSeen, AloneInSlot
  <2>6. Marked'
    BY <2>1, <2>2 DEF PromptInv, Marked, InCall
  <2> QED
    BY <2>4, <2>5, <2>6 DEF PromptInv
<1>10. CASE Settle(a)
  <2>1. CASE agent[a].at = "yes"
    <3>1. ask'.slot = Nobody /\ ask'.of = ask.of /\ agent' = Move(a, "tool")
      BY <1>1, <1>10, <2>1 DEF Settle
    <3>2. agent'[a].at = "tool" /\ \A b \in Agents \ {a} : agent'[b] = agent[b]
      BY <1>2, <3>1, GateMoves
    <3>3. LetThrough'
      BY <2>1, <3>1, <3>2 DEF PromptInv, LetThrough, FreshFor
    <3>4. YesSeen' /\ AloneInSlot'
      BY <3>1, <3>2 DEF PromptInv, YesSeen, AloneInSlot
    <3>5. Marked'
      BY <3>1, <3>2 DEF PromptInv, Marked, InCall
    <3> QED
      BY <3>3, <3>4, <3>5 DEF PromptInv
  <2>2. CASE agent[a].at # "yes"
    <3>1. ask'.slot = Nobody /\ ask'.of = [ask.of EXCEPT ![a] = NoPrompt]
      BY <1>1, <1>10, <2>2 DEF Settle
    <3>2. agent'[a].at = "turn" /\ \A b \in Agents \ {a} : agent'[b] = agent[b]
      BY <1>1, <1>10, <2>2 DEF Settle, ThreadStates
    <3> QED
      BY <1>8, <3>1, <3>2
  <2> QED
    BY <2>1, <2>2
<1>11. CASE FinishTool(a)
  <2>1. ask'.slot = ask.slot /\ ask'.of = [ask.of EXCEPT ![a] = NoPrompt]
    BY <1>1, <1>11 DEF FinishTool
  <2>2. agent'[a].at = "turn" /\ \A b \in Agents \ {a} : agent'[b] = agent[b]
    BY <1>1, <1>11 DEF FinishTool, ThreadStates
  <2> QED
    BY <1>8, <2>1, <2>2
<1> QED
  BY <1>4, <1>5, <1>6, <1>7, <1>9, <1>10, <1>11 DEF Call, Wake, TimeOut

(* FreshYes, for all values of the constants: the late answer to a prompt   *)
(* that timed out, and the answer to another thread's earlier prompt, never *)
(* let a tool through (_prompt_approval and its single slot).  A thread     *)
(* into whose wait another prompt came may go on with the yes to that one:  *)
(* for it the theorem says only that one was given during the wait.         *)
THEOREM ChatFreshYes == Spec => []FreshYes
<1>1. Init => PromptInv
  BY DEF Init, PromptInv, LetThrough, YesSeen, AloneInSlot, Marked, NoPrompt, Dead
<1>2. TypeOK /\ PromptInv /\ [Next]_vars => PromptInv'
  <2> SUFFICES ASSUME TypeOK, PromptInv, [Next]_vars PROVE PromptInv'
    OBVIOUS
  <2>1. CASE UNCHANGED vars
    BY <2>1, MovesKeepPrompts DEF vars, Moved, Knows
  <2>2. ASSUME NEW w \in Workers, WorkerStep(w) PROVE PromptInv'
    BY <2>2, WorkerMoves, MovesKeepPrompts
  <2>3. ASSUME NEW a \in Agents,
               Call(a) \/ Wake(a) \/ TimeOut(a) \/ Settle(a) \/ FinishTool(a)
        PROVE  PromptInv'
    BY <2>3, GateKeepsPrompts
  <2>4. CASE \/ StartUp \/ UserStep \/ GoOn \/ RemoveGate \/ Relay
             \/ \E r \in Runs : EndTeam(r)
             \/ \E b \in Sides : EndAside(b)
    BY <2>4, OthersMove, MovesKeepPrompts, AnswerKeepsPrompts
  <2> QED
    BY <2>1, <2>2, <2>3, <2>4 DEF Next
<1>3. PromptInv => FreshYes
  BY DEF PromptInv, LetThrough, FreshFor, FreshYes
<1> QED
  BY <1>1, <1>2, <1>3, ChatTypes, PTL DEF Spec

-----------------------------------------------------------------------------
(* An editing tool runs with its checkpoint tried                           *)

(* A checkpoint was tried for this turn, or under way when it was started.  *)
Covered(r) == r.tried \/ r.early

(* No thread runs before the app has started.                               *)
StartedInv ==
    /\ ui.running => ui.started
    /\ ~ui.started => Between /\ \A a \in Agents : agent[a].at = "dead"

(* Once _turn_mutated is set, and while a checkpoint is being tried, every  *)
(* turn is covered, the one the UI thread is about to start as well.        *)
AllCovered ==
    /\ \A w \in Workers : agent[w].at # "dead" => Covered(agent[w])
    /\ chat.doing \in Options => Covered(chat)
EditsCovered ==
    \A w \in Workers :
        agent[w].at \in {"ask", "yes", "tool"} /\ agent[w].tool \in Mutating /\ ui.gate
        => Covered(agent[w])
SaveInv ==
    /\ StartedInv
    /\ chat.mutated \/ Saving(agent) => AllCovered
    /\ EditsCovered

LEMMA StartedKept ==
    ASSUME TypeOK, StartedInv,
           \/ StartUp \/ UserStep \/ GoOn \/ RemoveGate \/ Relay
           \/ \E r \in Runs : EndTeam(r)
           \/ \E b \in Sides : EndAside(b)
    PROVE  StartedInv'
<1>1. ui \in UiStates
  BY TypesAre DEF OtherTypes
<1>2. Used.started = ui.started /\ Used.running = ui.running
  BY <1>1 DEF Used, UiStates
<1>3. ASSUME ui.started, ui'.started = ui.started PROVE StartedInv'
  BY <1>3 DEF StartedInv
<1>4. CASE UserStep
  <2>1. ui.running
    BY <1>4 DEF UserStep, Submit, Post, Hear, Deliver, QueueKey, Template, Retry, StartGoal,
        StopGoal, ClearQueue, SessionChanged, TogglePlan, Approve, Settings, Prompts,
        Interrupt, Quit, StartTeam, StopTeam, AskAside, AnswerKey, Key, Command
  <2>2. CASE Submit \/ Post \/ Hear \/ Deliver \/ QueueKey \/ Template \/ Retry \/ StartGoal
             \/ StopGoal \/ ClearQueue \/ SessionChanged \/ Interrupt \/ StartTeam \/ StopTeam
             \/ \E b \in Sides : AskAside(b)
    BY <1>2, <2>1, <1>3, <2>2 DEF StartedInv, Submit, Post, Hear, Deliver, QueueKey, Template,
        Retry, StartGoal, StopGoal, ClearQueue, SessionChanged, Interrupt, StartTeam, StopTeam,
        AskAside
  <2>3. CASE TogglePlan \/ Quit
    BY <1>1, <2>1, <1>3, <2>3 DEF StartedInv, TogglePlan, Quit, Used, UiStates
  <2>4. ASSUME NEW asks, NEW risky, Prompts(asks, risky) PROVE ui'.started = ui.started
    BY <1>1, <2>4 DEF Prompts, Used, UiStates
  <2>5. CASE Approve \/ Settings
    BY <1>3, <2>1, <2>4, <2>5 DEF StartedInv, Approve, Settings
  <2>6. ASSUME NEW key, AnswerKey(key) PROVE ui'.started = ui.started
    BY <1>1, <2>6 DEF AnswerKey, UiStates
  <2> QED
    BY <1>3, <1>4, <2>1, <2>2, <2>3, <2>5, <2>6 DEF StartedInv, UserStep
<1>5. CASE StartUp
  BY <1>1, <1>5 DEF StartUp, StartedInv, UiStates
<1>6. CASE RemoveGate
  BY <1>1, <1>6 DEF RemoveGate, StartedInv, Between, UiStates
<1>7. CASE Relay
  <2>1. chat'.doing = chat.doing
    BY <1>7, TypesAre DEF Relay, ThreadTypes, ChatStates, ChatRecords
  <2> QED
    BY <1>7, <2>1 DEF Relay, StartedInv, Between
<1>8. CASE \E r \in Runs : EndTeam(r)
  BY <1>3, <1>8 DEF EndTeam, StartedInv, Agents
<1>9. CASE \E b \in Sides : EndAside(b)
  BY <1>3, <1>9 DEF EndAside, StartedInv, Agents
<1>10. CASE GoOn
  BY <1>3, <1>10 DEF GoOn, StartedInv, Between
<1> QED
  BY <1>4, <1>5, <1>6, <1>7, <1>8, <1>9, <1>10

(* A turn begins without the flag, and knows of a checkpoint being taken.   *)
LEMMA MovesKeepSaves ==
    ASSUME TypeOK, SaveInv, Moved, StartedInv', ui'.gate => ui.gate \/ ~ui.started
    PROVE  SaveInv'
<1>1. Workers \subseteq Agents
  BY DEF Agents
<1>2. Saving(agent)' => Saving(agent)
  BY DEF Saving, Moved, GoesAlong, NoCall, Options
<1>3. ASSUME NEW r, Knows(r), chat'.mutated \/ Saving(agent)' PROVE Covered(r)
  <2>1. AllCovered
    BY <1>2, <1>3 DEF SaveInv, Moved
  <2>2. CASE ~chat'.mutated /\ r.early = Saving(agent)
    BY <1>2, <1>3, <2>2 DEF Covered
  <2>3. CASE ~(~chat'.mutated /\ r.early = Saving(agent))
    BY <1>3, <2>1, <2>3 DEF Knows, AllCovered, Covered
  <2> QED
    BY <2>2, <2>3
<1>4. (chat.mutated \/ Saving(agent) => AllCovered)'
  <2> SUFFICES ASSUME chat'.mutated \/ Saving(agent)' PROVE AllCovered'
    OBVIOUS
  <2>1. AllCovered
    BY <1>2 DEF SaveInv, Moved
  <2>2. ASSUME NEW w \in Workers, agent'[w].at # "dead" PROVE Covered(agent[w])'
    <3>1. CASE agent'[w] = agent[w]
      BY <2>1, <2>2, <3>1 DEF AllCovered, Covered
    <3>2. CASE GoesAlong(w)
      <4>1. Knows(agent'[w])
        BY <2>2, <3>2 DEF GoesAlong
      <4>2. Covered(agent'[w])
        BY <1>3, <4>1
      <4> QED
        BY <4>2 DEF Covered
    <3> QED
      BY <1>1, <2>2, <3>1, <3>2 DEF Moved
  <2>3. ASSUME chat'.doing \in Options PROVE Covered(chat)'
    <3>1. Covered(chat')
      BY <1>3, <2>3 DEF Moved
    <3> QED
      BY <3>1 DEF Covered
  <2> QED
    BY <2>2, <2>3 DEF AllCovered
<1>5. EditsCovered'
  <2> SUFFICES ASSUME NEW w \in Workers, agent'[w].at \in {"ask", "yes", "tool"},
                      agent'[w].tool \in Mutating, ui'.gate
               PROVE  Covered(agent[w])'
    BY DEF EditsCovered
  <2>1. agent'[w] = agent[w]
    BY <1>1 DEF Moved, GoesAlong, NoCall, Options
  <2>2. ui.gate
    BY <1>1, <2>1 DEF SaveInv, StartedInv
  <2> QED
    BY <2>1, <2>2 DEF SaveInv, EditsCovered, Covered
<1> QED
  BY <1>4, <1>5 DEF SaveInv

LEMMA GateKeepsSaves ==
    ASSUME TypeOK, SaveInv, NEW a \in Agents,
           Call(a) \/ Wake(a) \/ TimeOut(a) \/ Settle(a) \/ FinishTool(a)
    PROVE  SaveInv'
<1>1. /\ chat \in ChatRecords /\ agent \in [Agents -> ThreadStates]
      /\ Workers \subseteq Agents
  BY TypesAre DEF ThreadTypes, ChatStates, Agents
<1> DEFINE same == /\ chat'.doing = chat.doing
                   /\ chat'.tried = chat.tried /\ chat'.early = chat.early
<1>2. ASSUME UNCHANGED ui, same, agent[a].at # "dead",
             agent'[a].at \in {"turn", "ask", "yes", "no", "tool"},
             agent'[a].tried = agent[a].tried, agent'[a].early = agent[a].early,
             \A b \in Agents \ {a} : agent'[b] = agent[b],
             chat'.mutated => chat.mutated \/ Saving(agent),
             /\ a \in Workers /\ agent'[a].at \in {"ask", "yes", "tool"}
             /\ agent'[a].tool \in Mutating /\ ui.gate
             => Covered(agent[a])
      PROVE  SaveInv'
  <2>1. StartedInv'
    BY <1>2 DEF SaveInv, StartedInv
  <2>2. Saving(agent)' => Saving(agent)
    BY <1>2 DEF Saving
  <2>3. \A w \in Workers : (Covered(agent[w])' <=> Covered(agent[w]))
                            /\ (agent'[w].at # "dead" => agent[w].at # "dead")
    BY <1>1, <1>2 DEF Covered
  <2>4. Covered(chat)' <=> Covered(chat)
    BY <1>2 DEF Covered
  <2>5. (chat.mutated \/ Saving(agent) => AllCovered)'
    BY <1>2, <2>2, <2>3, <2>4 DEF SaveInv, AllCovered
  <2>6. EditsCovered'
    BY <1>1, <1>2, <2>3 DEF SaveInv, EditsCovered
  <2> QED
    BY <2>1, <2>5, <2>6 DEF SaveInv
<1>3. ASSUME NEW at \in {"turn", "ask", "yes", "no", "tool"}, NEW k \in Tools \cup {NoTool}
      PROVE  /\ Spend(a, at, k)[a].at = at /\ Spend(a, at, k)[a].tool = k
             /\ Spend(a, at, k)[a].tried = agent[a].tried
             /\ Spend(a, at, k)[a].early = agent[a].early
             /\ Move(a, at)[a].at = at /\ Move(a, at)[a].tool = agent[a].tool
             /\ Move(a, at)[a].tried = agent[a].tried
             /\ Move(a, at)[a].early = agent[a].early
             /\ \A b \in Agents \ {a} :
                   Spend(a, at, k)[b] = agent[b] /\ Move(a, at)[b] = agent[b]
  BY <1>1 DEF Spend, Move, ThreadStates
<1>4. ASSUME NEW k \in Tools, PlanBlocks(a, k) PROVE SaveInv'
  BY <1>2, <1>3, <1>4 DEF PlanBlocks, MayCall
<1>5. ASSUME NEW k \in Tools, Checkpoint(a, k) PROVE SaveInv'
  <2>1. \A b \in Agents : agent'[b].tried
    <3>1. Spend(a, "save", k) \in [Agents -> ThreadStates]
      BY <1>5, SpendTypes DEF Checkpoint, Stages
    <3> QED
      BY <1>5, <3>1 DEF Checkpoint, ThreadStates
  <2>2. StartedInv'
    BY <1>5 DEF Checkpoint, MayCall, SaveInv, StartedInv
  <2>3. chat'.doing \in Options => chat'.tried
    BY <1>1, <1>5 DEF Checkpoint, Options, Between, ChatRecords
  <2>4. AllCovered' /\ EditsCovered'
    BY <1>1, <2>1, <2>3 DEF AllCovered, EditsCovered, Covered
  <2> QED
    BY <2>2, <2>4 DEF SaveInv
<1>6. ASSUME NEW k \in Tools, NEW at \in {"ask", "tool"}, UNCHANGED ui,
             Through(a, k), GoesOn(a, k, at)
      PROVE  SaveInv'
  <2>1. CASE agent[a].at = "save"
    <3>1. Saving(agent)
      BY <2>1 DEF Saving
    <3>2. a \in Workers => Covered(agent[a])
      BY <2>1, <3>1 DEF SaveInv, AllCovered
    <3>3. agent' = Move(a, at) /\ same
      BY <1>1, <1>6, <2>1 DEF GoesOn, ChatRecords
    <3>4. agent[a].at # "dead"
      BY <2>1
    <3> HIDE DEF same
    <3> QED
      BY <1>2, <1>3, <1>6, <3>1, <3>2, <3>3, <3>4
  <2>2. CASE agent[a].at # "save"
    <3>1. MayCall(a) /\ ~Unsaved(k) /\ agent' = Spend(a, at, k) /\ chat' = chat
      BY <1>6, <2>2 DEF Through, GoesOn
    <3>2. a \in Workers /\ k \in Mutating /\ ui.gate => Covered(agent[a])
      BY <3>1 DEF Unsaved, MayCall, SaveInv, AllCovered
    <3> QED
      BY <1>2, <1>3, <1>6, <3>1, <3>2 DEF MayCall
  <2> QED
    BY <2>1, <2>2
<1>7. ASSUME NEW k \in Tools, RunTool(a, k) \/ Prompt(a, k) PROVE SaveInv'
  BY <1>6, <1>7 DEF RunTool, Prompt
<1>8. ASSUME agent[a].at \in {"no", "tool"}, UNCHANGED <<ui, chat>>,
             agent' = [agent EXCEPT ![a].at = "turn", ![a].tool = NoTool]
      PROVE  SaveInv'
  <2>1. /\ agent'[a].at = "turn"
        /\ agent'[a].tried = agent[a].tried /\ agent'[a].early = agent[a].early
        /\ \A b \in Agents \ {a} : agent'[b] = agent[b]
    BY <1>1, <1>8 DEF ThreadStates
  <2> QED
    BY <1>2, <1>8, <2>1
<1>9. ASSUME agent[a].at \in {"ask", "yes"}, UNCHANGED <<ui, chat>>,
             NEW at \in {"yes", "no", "tool"}, agent' = Move(a, at)
      PROVE  SaveInv'
  <2>1. /\ agent'[a].at = at /\ agent'[a].tool = agent[a].tool
        /\ agent'[a].tried = agent[a].tried /\ agent'[a].early = agent[a].early
        /\ \A b \in Agents \ {a} : agent'[b] = agent[b]
    BY <1>1, <1>9 DEF Move, ThreadStates
  <2>2. a \in Workers /\ agent[a].tool \in Mutating /\ ui.gate => Covered(agent[a])
    BY <1>9 DEF SaveInv, EditsCovered
  <2> QED
    BY <1>2, <1>9, <2>1, <2>2
<1>10. CASE Resume(a)
  BY <1>9, <1>10 DEF Resume
<1>11. CASE Settle(a) \/ FinishTool(a)
  BY <1>8, <1>9, <1>11 DEF Settle, FinishTool
<1> QED
  BY <1>4, <1>5, <1>7, <1>10, <1>11 DEF Call, Wake, TimeOut

(* CheckpointFirst, for all values of the constants: whatever is typed, and *)
(* however turns, team runs and checkpoints overlap, an editing tool of a   *)
(* turn runs only with a checkpoint tried since that turn was started, or   *)
(* being tried then (_turn_mutated, _auto_checkpoint).  Tried is all the    *)
(* code promises: it goes on when git has failed or is not there.           *)
THEOREM ChatCheckpointFirst == Spec => []CheckpointFirst
<1>1. Init => SaveInv
  BY DEF Init, SaveInv, StartedInv, Saving, EditsCovered, Between, Dead, Agents
<1>2. TypeOK /\ SaveInv /\ [Next]_vars => SaveInv'
  <2> SUFFICES ASSUME TypeOK, SaveInv, [Next]_vars PROVE SaveInv'
    OBVIOUS
  <2>1. CASE UNCHANGED vars
    BY <2>1 DEF vars, SaveInv, StartedInv, AllCovered, EditsCovered, Between, Saving, Covered
  <2>2. ASSUME NEW w \in Workers, WorkerStep(w) PROVE SaveInv'
    <3>1. Moved /\ UNCHANGED <<ui, ask>> /\ agent[w].at # "dead"
      BY <2>2, WorkerMoves
    <3>2. StartedInv'
      BY <3>1 DEF SaveInv, StartedInv, Agents
    <3> QED
      BY <3>1, <3>2, MovesKeepSaves
  <2>3. ASSUME NEW a \in Agents,
               Call(a) \/ Wake(a) \/ TimeOut(a) \/ Settle(a) \/ FinishTool(a)
        PROVE  SaveInv'
    BY <2>3, GateKeepsSaves
  <2>4. CASE \/ StartUp \/ UserStep \/ GoOn \/ RemoveGate \/ Relay
             \/ \E r \in Runs : EndTeam(r)
             \/ \E b \in Sides : EndAside(b)
    BY <2>4, OthersMove, StartedKept, MovesKeepSaves DEF SaveInv
  <2> QED
    BY <2>1, <2>2, <2>3, <2>4 DEF Next
<1>3. SaveInv => CheckpointFirst
  BY DEF SaveInv, EditsCovered, CheckpointFirst, Covered
<1> QED
  BY <1>1, <1>2, <1>3, ChatTypes, PTL DEF Spec
-----------------------------------------------------------------------------
(* Every text is in one place                                               *)

(* The turn threads that hold a text, how often it is listed, whether it    *)
(* waits in the redirect slot, and whether the UI thread has it in hand.    *)
Holders(ag, t) == {w \in Workers : ag[w].at \in Holding /\ ag[w].text = t}
Own(ag, t) == Cardinality(Holders(ag, t))
Places(s, t) == {i \in DOMAIN s : s[i] = t}
Listed(c, t) ==
    Cardinality(Places(c.queue, t)) + Cardinality(Places(c.heard, t))
    + Cardinality(Places(c.posted, t))
HasRead(ag, t) == \E w \in Workers : ag[w].at = "read" /\ ag[w].text = t
Waits(c, ag, t) == c.redirect = t /\ ~HasRead(ag, t)
InHand(c, t) == c.doing # "none" /\ c.text = t

Unit(b) == IF b THEN 1 ELSE 0

(* How often a text is there, whatever became of it.                        *)
Load(c, ag, f, t) ==
    Own(ag, t) + Unit(Waits(c, ag, t)) + Unit(InHand(c, t)) + Listed(c, t)
    + f.sent[t] + Unit(t \in f.gone)

(* What was typed is there once, what was not yet typed is nowhere.         *)
OnceInv ==
    \A t \in Texts :
        /\ IsFiniteSet(Holders(agent, t))
        /\ t \notin fate.raced => Load(chat, agent, fate, t) = Unit(t <= ui.used)

LEMMA PlacesFinite ==
    ASSUME NEW s \in Seq(Texts), NEW t
    PROVE  /\ IsFiniteSet(Places(s, t)) /\ Cardinality(Places(s, t)) \in Nat
           /\ Cardinality(Places(s, t)) = 0 <=> \A i \in DOMAIN s : s[i] # t
<1>1. DOMAIN s = 1..Len(s) /\ Len(s) \in Nat
  OBVIOUS
<1>2. IsFiniteSet(DOMAIN s)
  BY <1>1, FS_Interval
<1>3. Places(s, t) \in SUBSET DOMAIN s
  BY DEF Places
<1>4. IsFiniteSet(Places(s, t))
  BY <1>2, <1>3, FS_Subset
<1>5. Cardinality(Places(s, t)) = 0 <=> Places(s, t) = {}
  BY <1>4, FS_EmptySet
<1> QED
  BY <1>4, <1>5, FS_CardinalityType DEF Places

LEMMA PlacesAppend ==
    ASSUME NEW s \in Seq(Texts), NEW x \in Texts, NEW t
    PROVE  Cardinality(Places(Append(s, x), t)) = Cardinality(Places(s, t)) + Unit(x = t)
<1>1. /\ DOMAIN s = 1..Len(s) /\ DOMAIN Append(s, x) = 1..(Len(s) + 1) /\ Len(s) \in Nat
      /\ \A i \in 1..Len(s) : Append(s, x)[i] = s[i]
      /\ Append(s, x)[Len(s) + 1] = x
  OBVIOUS
<1>2. IsFiniteSet(Places(s, t)) /\ Cardinality(Places(s, t)) \in Nat
  BY PlacesFinite
<1>3. CASE x = t
  <2>1. Places(Append(s, x), t) = Places(s, t) \cup {Len(s) + 1}
    BY <1>1, <1>3 DEF Places
  <2>2. Len(s) + 1 \notin Places(s, t)
    BY <1>1 DEF Places
  <2> QED
    BY <1>2, <1>3, <2>1, <2>2, FS_AddElement DEF Unit
<1>4. CASE x # t
  <2>1. Places(Append(s, x), t) = Places(s, t)
    BY <1>1, <1>4 DEF Places
  <2> QED
    BY <1>2, <1>4, <2>1 DEF Unit
<1> QED
  BY <1>3, <1>4

LEMMA PlacesTail ==
    ASSUME NEW s \in Seq(Texts), s # <<>>, NEW t
    PROVE  Cardinality(Places(s, t)) = Cardinality(Places(Tail(s), t)) + Unit(Head(s) = t)
<1>1. /\ DOMAIN s = 1..Len(s) /\ Len(s) \in Nat \ {0} /\ Head(s) = s[1]
      /\ DOMAIN Tail(s) = 1..(Len(s) - 1) /\ Tail(s) \in Seq(Texts)
      /\ \A i \in 1..(Len(s) - 1) : Tail(s)[i] = s[i + 1]
  OBVIOUS
<1> DEFINE old == Places(s, t) \ {1}
           new == Places(Tail(s), t)
           back == [i \in new |-> i + 1]
<1>2. \A i \in new : i \in 1..(Len(s) - 1) /\ s[i + 1] = t
  BY <1>1 DEF Places
<1>3. \A j \in old : j \in 2..Len(s) /\ s[j] = t /\ j - 1 \in new
  BY <1>1 DEF Places
<1>4. \A i \in new : i + 1 \in old
  BY <1>1, <1>2 DEF Places
<1>5. back \in Bijection(new, old)
  <2>1. back \in [new -> old]
    BY <1>4
  <2>2. \A i, j \in new : back[i] = back[j] => i = j
    BY <1>2
  <2>3. \A j \in old : back[j - 1] = j
    BY <1>3
  <2> QED
    BY <2>1, <2>2, <2>3, <1>3 DEF Bijection, Injection, Surjection, IsInjective
<1>6. IsFiniteSet(new) /\ IsFiniteSet(Places(s, t)) /\ Cardinality(Places(s, t)) \in Nat
  BY <1>1, PlacesFinite
<1>7. Cardinality(old) = Cardinality(new)
  BY <1>5, <1>6, FS_Bijection DEF ExistsBijection
<1>8. Cardinality(old) = IF 1 \in Places(s, t) THEN Cardinality(Places(s, t)) - 1
                                               ELSE Cardinality(Places(s, t))
  BY <1>6, FS_RemoveElement
<1>9. 1 \in Places(s, t) <=> Head(s) = t
  BY <1>1 DEF Places
<1> QED
  BY <1>6, <1>7, <1>8, <1>9 DEF Unit

(* One thread is given another record.                                      *)
LEMMA HoldersAt ==
    ASSUME NEW ag, NEW bg, NEW w \in Workers, NEW t, IsFiniteSet(Holders(ag, t)),
           \A v \in Workers : v # w => /\ bg[v].at = ag[v].at
                                       /\ bg[v].text = ag[v].text
    PROVE  /\ IsFiniteSet(Holders(bg, t))
           /\ Cardinality(Holders(ag, t)) \in Nat /\ Cardinality(Holders(bg, t)) \in Nat
           /\ Cardinality(Holders(bg, t)) + Unit(w \in Holders(ag, t))
                = Cardinality(Holders(ag, t)) + Unit(w \in Holders(bg, t))
<1> DEFINE rest == Holders(ag, t) \ {w}
<1>1. rest = Holders(bg, t) \ {w}
  BY DEF Holders
<1>2. IsFiniteSet(rest) /\ Cardinality(rest) \in Nat
  BY FS_RemoveElement, FS_CardinalityType
<1>3. Cardinality(rest \cup {w}) = Cardinality(rest) + 1 /\ IsFiniteSet(rest \cup {w})
  BY <1>2, FS_AddElement
<1> HIDE DEF rest
<1>4. Cardinality(Holders(ag, t)) = Cardinality(rest) + Unit(w \in Holders(ag, t))
  <2>1. CASE w \in Holders(ag, t)
    <3>1. Holders(ag, t) = rest \cup {w}
      BY <2>1 DEF rest
    <3> QED
      BY <1>3, <2>1, <3>1 DEF Unit
  <2>2. CASE w \notin Holders(ag, t)
    <3>1. Holders(ag, t) = rest
      BY <2>2 DEF rest
    <3> QED
      BY <1>2, <2>2, <3>1 DEF Unit
  <2> QED
    BY <2>1, <2>2
<1>5. /\ IsFiniteSet(Holders(bg, t))
      /\ Cardinality(Holders(bg, t)) = Cardinality(rest) + Unit(w \in Holders(bg, t))
  <2>1. CASE w \in Holders(bg, t)
    <3>1. Holders(bg, t) = rest \cup {w}
      BY <1>1, <2>1
    <3> QED
      BY <1>3, <2>1, <3>1 DEF Unit
  <2>2. CASE w \notin Holders(bg, t)
    <3>1. Holders(bg, t) = rest
      BY <1>1, <2>2
    <3> QED
      BY <1>2, <2>2, <3>1 DEF Unit
  <2> QED
    BY <2>1, <2>2
<1> QED
  BY <1>2, <1>4, <1>5 DEF Unit
(* The threads that hold a text are as they were.                           *)
AsBefore(ag, bg) ==
    \A v \in Workers : \/ bg[v].at = ag[v].at /\ bg[v].text = ag[v].text
                       \/ ag[v].at \notin Holding /\ bg[v].at \notin Holding

LEMMA HoldersSame ==
    ASSUME NEW ag, NEW bg, NEW t, AsBefore(ag, bg)
    PROVE  Holders(bg, t) = Holders(ag, t) /\ (HasRead(bg, t) <=> HasRead(ag, t))
  BY DEF Holders, HasRead, AsBefore, Holding

(* What a load is the sum of.                                               *)
LEMMA ListedParts ==
    ASSUME NEW c \in ChatStates, NEW t
    PROVE  /\ Cardinality(Places(c.queue, t)) \in Nat
           /\ Cardinality(Places(c.heard, t)) \in Nat
           /\ Cardinality(Places(c.posted, t)) \in Nat
           /\ Listed(c, t) \in Nat
<1>1. c.queue \in Seq(Texts) /\ c.heard \in Seq(Texts) /\ c.posted \in Seq(Texts)
  BY DEF ChatStates, ChatRecords
<1>2. /\ Cardinality(Places(c.queue, t)) \in Nat /\ Cardinality(Places(c.heard, t)) \in Nat
      /\ Cardinality(Places(c.posted, t)) \in Nat
  BY <1>1, PlacesFinite
<1> QED
  BY <1>2 DEF Listed

LEMMA LoadParts ==
    ASSUME NEW c \in ChatStates, NEW ag, NEW f \in Fates, NEW t \in Texts,
           IsFiniteSet(Holders(ag, t))
    PROVE  /\ Own(ag, t) \in Nat /\ Listed(c, t) \in Nat /\ f.sent[t] \in Nat
           /\ Own(ag, t) = 0 => ~HasRead(ag, t)
           /\ Load(c, ag, f, t)
                = Own(ag, t) + Unit(Waits(c, ag, t)) + Unit(InHand(c, t)) + Listed(c, t)
                    + f.sent[t] + Unit(t \in f.gone)
<1>1. Own(ag, t) \in Nat /\ (Own(ag, t) = 0 => Holders(ag, t) = {})
  BY FS_CardinalityType, FS_EmptySet DEF Own
<1>2. Holders(ag, t) = {} => ~HasRead(ag, t)
  BY DEF Holders, HasRead, Holding
<1>3. f.sent[t] \in Nat
  BY DEF Fates
<1> QED
  BY <1>1, <1>2, <1>3, ListedParts DEF Load

(* A message is let go of.                                                  *)
LEMMA LetGoParts ==
    ASSUME fate \in Fates, NEW T, NEW t \in Texts
    PROVE  /\ LetGo(T).sent[t] = fate.sent[t] /\ LetGo(T).raced = fate.raced
           /\ t \in LetGo(T).gone <=> t \in fate.gone \/ t \in T
  BY DEF LetGo, Fates

LEMMA WaitingIs ==
    ASSUME NEW t
    PROVE  t \in Waiting <=> Waits(chat, agent, t)
  BY DEF Waiting, AlreadyRead, Waits, HasRead

(* A message is given to a new turn thread.                                 *)
LEMMA StartThreadLoad ==
    ASSUME NEW c \in ChatStates, NEW ag \in [Agents -> ThreadStates], NEW x, NEW from,
           NEW t \in Texts, IsFiniteSet(Holders(ag, t)), StartThread(c, ag, x, from)
    PROVE  /\ IsFiniteSet(Holders(agent', t))
           /\ Own(agent', t) = Own(ag, t) + Unit(x = t)
           /\ Waits(chat', agent', t) <=> Waits(c, ag, t)
           /\ InHand(chat', t) <=> InHand(c, t)
           /\ Listed(chat', t) = Listed(c, t)
<1>1. PICK w \in Workers : /\ Free(w, ag)
                           /\ chat' = [c EXCEPT !.handle = w]
                           /\ agent' = [ag EXCEPT ![w] = NewTurn(x, from)]
  BY DEF StartThread
<1>2. /\ chat'.redirect = c.redirect /\ chat'.doing = c.doing /\ chat'.text = c.text
      /\ chat'.queue = c.queue /\ chat'.heard = c.heard /\ chat'.posted = c.posted
  BY <1>1 DEF ChatStates, ChatRecords
<1>3. \A v \in Workers : v # w => agent'[v].at = ag[v].at /\ agent'[v].text = ag[v].text
  BY <1>1
<1>4. ag[w].at = "dead" /\ agent'[w].at = "start" /\ agent'[w].text = x
  BY <1>1 DEF Free, NewTurn, Agents
<1>5. w \notin Holders(ag, t) /\ (w \in Holders(agent', t) <=> x = t)
  BY <1>4 DEF Holders, Holding, Options
<1>6. /\ IsFiniteSet(Holders(agent', t))
      /\ Cardinality(Holders(ag, t)) \in Nat /\ Cardinality(Holders(agent', t)) \in Nat
      /\ Cardinality(Holders(agent', t)) + Unit(w \in Holders(ag, t))
           = Cardinality(Holders(ag, t)) + Unit(w \in Holders(agent', t))
  BY <1>3, HoldersAt
<1>7. HasRead(agent', t) <=> HasRead(ag, t)
  BY <1>3, <1>4 DEF HasRead
<1> QED
  BY <1>2, <1>5, <1>6, <1>7 DEF Own, Waits, InHand, Listed, Unit

(* A message is put in the redirect slot, and the one that waits there is   *)
(* let go of.                                                               *)
LEMMA RedirectLoad ==
    ASSUME NEW c \in ChatStates, NEW x, NEW t \in Texts, fate \in Fates, Redirect(c, x),
           HasRead(agent', t) <=> HasRead(agent, t), x = t => ~HasRead(agent, t),
           Waits(chat, agent, t) => t \notin fate.gone
    PROVE  /\ Unit(Waits(chat', agent', t)) + Unit(t \in fate'.gone)
                = Unit(x = t) + Unit(Waits(chat, agent, t)) + Unit(t \in fate.gone)
           /\ InHand(chat', t) <=> InHand(c, t)
           /\ Listed(chat', t) = Listed(c, t)
           /\ fate'.sent[t] = fate.sent[t] /\ fate'.raced = fate.raced
<1>1. /\ chat'.redirect = x /\ chat'.doing = c.doing /\ chat'.text = c.text
      /\ chat'.queue = c.queue /\ chat'.heard = c.heard /\ chat'.posted = c.posted
  BY DEF Redirect, ChatStates, ChatRecords
<1>2. /\ fate'.sent[t] = fate.sent[t] /\ fate'.raced = fate.raced
      /\ t \in fate'.gone <=> t \in fate.gone \/ Waits(chat, agent, t)
  BY LetGoParts, WaitingIs DEF Redirect
<1>3. Waits(chat', agent', t) <=> x = t
  BY <1>1 DEF Waits
<1>4. Unit(Waits(chat', agent', t)) + Unit(t \in fate'.gone)
        = Unit(x = t) + Unit(Waits(chat, agent, t)) + Unit(t \in fate.gone)
  BY <1>2, <1>3 DEF Unit
<1> QED
  BY <1>1, <1>2, <1>4 DEF InHand, Listed

(* What a step does that touches no message and nothing that holds one.     *)
Untouched ==
    /\ chat'.redirect = chat.redirect /\ chat'.doing = chat.doing
    /\ chat'.text = chat.text /\ chat'.queue = chat.queue
    /\ chat'.heard = chat.heard /\ chat'.posted = chat.posted

LEMMA QuietLoad ==
    ASSUME OnceInv, NEW t \in Texts, AsBefore(agent, agent'), Untouched
    PROVE  /\ IsFiniteSet(Holders(agent', t))
           /\ Load(chat', agent', fate, t) = Load(chat, agent, fate, t)
<1>1. Holders(agent', t) = Holders(agent, t) /\ (HasRead(agent', t) <=> HasRead(agent, t))
  BY HoldersSame
<1>2. Waits(chat', agent', t) <=> Waits(chat, agent, t)
  BY <1>1 DEF Waits, Untouched
<1>3. InHand(chat', t) <=> InHand(chat, t)
  BY DEF InHand, Untouched
<1>4. Listed(chat', t) = Listed(chat, t)
  BY DEF Listed, Untouched
<1> QED
  BY <1>1, <1>2, <1>3, <1>4 DEF OnceInv, Load, Own, Unit

-----------------------------------------------------------------------------
(* A turn begins with its message, ends, and starts the next one.           *)
LEMMA WorkersKeepTexts ==
    ASSUME TypeOK, OnceInv, NEW w \in Workers, WorkerStep(w)
    PROVE  OnceInv'
<1> SUFFICES ASSUME NEW t \in Texts
             PROVE  /\ IsFiniteSet(Holders(agent', t))
                    /\ t \notin fate'.raced => Load(chat', agent', fate', t) = Unit(t <= ui'.used)
  BY DEF OnceInv
<1>1. /\ w \in Agents /\ chat \in ChatStates /\ agent \in [Agents -> ThreadStates]
      /\ agent[w] \in ThreadStates /\ chat \in ChatRecords
      /\ fate \in Fates /\ TypeOK' /\ chat' \in ChatStates /\ fate' \in Fates
      /\ agent' \in [Agents -> ThreadStates]
  BY TypesAre, WorkerTypes DEF Agents, ThreadTypes, ChatStates
<1>2. ui' = ui
  BY WorkerMoves
<1>3. /\ IsFiniteSet(Holders(agent, t))
      /\ t \notin fate.raced => Load(chat, agent, fate, t) = Unit(t <= ui.used)
  BY DEF OnceInv
<1>4. /\ End(w) \in [Agents -> ThreadStates] /\ End(w)[w].at = "dead"
      /\ \A v \in Workers \ {w} : End(w)[v] = agent[v]
  BY <1>1, Numbers DEF End, Dead, ThreadStates, Stages, NoText, NoTool, Agents
<1>5. \A at \in Stages :
        /\ Move(w, at)[w].at = at /\ Move(w, at)[w].text = agent[w].text
        /\ \A v \in Workers \ {w} : Move(w, at)[v] = agent[v]
  BY <1>1 DEF Move, ThreadStates, Agents
<1>6. NoText # t /\ GoalText # t /\ t \in 0..GoalText
  BY Numbers DEF Texts, GoalText, NoText
(* One thread may have begun or stopped holding it.                         *)
<1>7. ASSUME NEW bg, \A v \in Workers \ {w} : bg[v] = agent[v]
      PROVE  /\ IsFiniteSet(Holders(bg, t)) /\ Own(agent, t) \in Nat /\ Own(bg, t) \in Nat
             /\ Own(bg, t) + Unit(w \in Holders(agent, t))
                  = Own(agent, t) + Unit(w \in Holders(bg, t))
             /\ agent[w].at # "read" /\ bg[w].at # "read"
                => (HasRead(bg, t) <=> HasRead(agent, t))
  <2>1. \A v \in Workers : v # w => bg[v].at = agent[v].at /\ bg[v].text = agent[v].text
    BY <1>7
  <2>2. /\ IsFiniteSet(Holders(bg, t))
        /\ Cardinality(Holders(agent, t)) \in Nat /\ Cardinality(Holders(bg, t)) \in Nat
        /\ Cardinality(Holders(bg, t)) + Unit(w \in Holders(agent, t))
             = Cardinality(Holders(agent, t)) + Unit(w \in Holders(bg, t))
    BY <1>3, <2>1, HoldersAt
  <2>3. agent[w].at # "read" /\ bg[w].at # "read" => (HasRead(bg, t) <=> HasRead(agent, t))
    BY <2>1 DEF HasRead
  <2> QED
    BY <2>2, <2>3 DEF Own
(* It has gone on, and holds no text before or after.                       *)
<1>quiet. ASSUME agent[w].at \notin Holding, agent'[w].at \notin Holding,
              \A v \in Workers \ {w} : agent'[v] = agent[v], Untouched, fate' = fate
       PROVE  /\ IsFiniteSet(Holders(agent', t))
              /\ t \notin fate'.raced => Load(chat', agent', fate', t) = Unit(t <= ui'.used)
  <2>1. AsBefore(agent, agent')
    BY <1>quiet DEF AsBefore
  <2> QED
    BY <1>2, <1>3, <1>quiet, <2>1, QuietLoad
(* What it is to add up to, when no two workers read the same redirect.     *)
<1>sum. ASSUME IsFiniteSet(Holders(agent', t)), t \notin fate.raced,
              Own(agent', t) + Unit(Waits(chat', agent', t)) + Unit(InHand(chat', t))
                  + Listed(chat', t) + fate'.sent[t] + Unit(t \in fate'.gone)
              = Own(agent, t) + Unit(Waits(chat, agent, t)) + Unit(InHand(chat, t))
                  + Listed(chat, t) + fate.sent[t] + Unit(t \in fate.gone)
       PROVE  Load(chat', agent', fate', t) = Unit(t <= ui'.used)
  BY <1>2, <1>3, <1>sum DEF Load
<1>9. CASE BeginTurn(w)
  <2>1. agent[w].at = "start" /\ agent' = Move(w, "turn")
    BY <1>9 DEF BeginTurn
  <2>2. w \in Holders(agent, t) <=> agent[w].text = t
    BY <2>1 DEF Holders, Holding
  <2>3. /\ w \notin Holders(agent', t) /\ agent'[w].at = "turn"
        /\ \A v \in Workers \ {w} : agent'[v] = agent[v]
    BY <1>5, <2>1 DEF Holders, Holding, Options, Stages
  <2>4. Untouched
    BY <1>1, <1>9 DEF BeginTurn, Untouched, ChatRecords
  <2>5. /\ fate'.sent[t] = fate.sent[t] + Unit(agent[w].text = t) /\ fate'.gone = fate.gone
        /\ fate'.raced = fate.raced
    BY <1>1, <1>9 DEF BeginTurn, Fates, Unit
  <2>6. /\ IsFiniteSet(Holders(agent', t)) /\ Own(agent, t) \in Nat /\ Own(agent', t) \in Nat
        /\ Own(agent', t) + Unit(agent[w].text = t) = Own(agent, t)
        /\ HasRead(agent', t) <=> HasRead(agent, t)
    BY <1>7, <2>1, <2>2, <2>3 DEF Unit
  <2>7. /\ Waits(chat', agent', t) <=> Waits(chat, agent, t)
        /\ InHand(chat', t) <=> InHand(chat, t)
        /\ Listed(chat', t) = Listed(chat, t) /\ Listed(chat, t) \in Nat
        /\ fate.sent[t] \in Nat
    BY <1>1, <1>3, <2>4, <2>6, LoadParts DEF Waits, InHand, Listed, Untouched
  <2> QED
    BY <1>sum, <2>5, <2>6, <2>7 DEF Unit
<1>10. CASE EndTurn(w)
  <2>1. Untouched
    BY <1>1, <1>10 DEF EndTurn, Untouched, ChatRecords
  <2>2. agent[w].at = "turn" /\ agent' = Move(w, "wind") /\ fate' = fate
    BY <1>10 DEF EndTurn
  <2> QED
    BY <1>5, <1>quiet, <2>1, <2>2 DEF Stages, Holding, Options
<1>11. CASE ReadRedirect(w)
  <2>1. /\ agent[w].at = "wind" /\ chat' = chat
        /\ agent' = [agent EXCEPT ![w].at = "read", ![w].text = chat.redirect]
    BY <1>11 DEF ReadRedirect
  <2>2. /\ agent'[w].at = "read" /\ agent'[w].text = chat.redirect
        /\ \A v \in Workers \ {w} : agent'[v] = agent[v]
    BY <1>1, <2>1 DEF ThreadStates, Agents
  <2>3. /\ fate'.sent[t] = fate.sent[t] /\ fate'.gone = fate.gone
        /\ t \in fate'.raced <=> t \in fate.raced \/ (chat.redirect = t /\ HasRead(agent, t))
    BY <1>1, <1>11 DEF ReadRedirect, Fates, AlreadyRead, HasRead
  <2>4. w \notin Holders(agent, t) /\ (w \in Holders(agent', t) <=> chat.redirect = t)
    BY <2>1, <2>2 DEF Holders, Holding, Options
  <2>5. /\ IsFiniteSet(Holders(agent', t)) /\ Own(agent, t) \in Nat
        /\ Own(agent', t) = Own(agent, t) + Unit(chat.redirect = t)
    BY <1>7, <2>2, <2>4 DEF Unit
  <2>6. ~Waits(chat', agent', t)
    BY <2>1, <2>2 DEF Waits, HasRead
  <2>7. t \notin fate'.raced => (Waits(chat, agent, t) <=> chat.redirect = t)
    BY <2>3 DEF Waits
  <2>8. /\ InHand(chat', t) <=> InHand(chat, t)
        /\ Listed(chat', t) = Listed(chat, t) /\ Listed(chat, t) \in Nat
        /\ fate.sent[t] \in Nat
    BY <1>1, <1>3, <2>1, LoadParts
  <2> QED
    BY <1>sum, <2>3, <2>5, <2>6, <2>7, <2>8 DEF Unit
<1>12. CASE ClearRedirect(w)
  <2>1. agent[w].at = "read" /\ agent' = Onward(w)
    BY <1>12 DEF ClearRedirect
  <2>2. /\ agent'[w].at = (IF agent[w].text = NoText THEN "quiet" ELSE "chain")
        /\ agent'[w].text = agent[w].text
        /\ \A v \in Workers \ {w} : agent'[v] = agent[v]
    BY <1>5, <2>1 DEF Onward, Stages
  <2>3. w \in Holders(agent', t) <=> w \in Holders(agent, t)
    BY <1>6, <2>1, <2>2 DEF Holders, Holding
  <2>4. /\ IsFiniteSet(Holders(agent', t)) /\ Own(agent, t) \in Nat
        /\ Own(agent', t) = Own(agent, t)
    BY <1>7, <2>2, <2>3 DEF Unit
  <2>5. /\ chat'.redirect = NoText
        /\ chat'.doing = chat.doing /\ chat'.text = chat.text /\ chat'.queue = chat.queue
        /\ chat'.heard = chat.heard /\ chat'.posted = chat.posted
    BY <1>1, <1>12, Numbers DEF ClearRedirect, ChatRecords, NoText
  <2>6. /\ fate'.sent[t] = fate.sent[t] /\ fate'.gone = fate.gone
        /\ t \in fate'.raced <=> t \in fate.raced \/ Waits(chat, agent, t)
    BY <1>1, <1>12, WaitingIs DEF ClearRedirect, Fates
  <2>7. ~Waits(chat', agent', t) /\ (InHand(chat', t) <=> InHand(chat, t))
        /\ Listed(chat', t) = Listed(chat, t) /\ Listed(chat, t) \in Nat
        /\ fate.sent[t] \in Nat
    BY <1>1, <1>3, <1>6, <2>5, LoadParts DEF Waits, InHand, Listed
  <2> QED
    BY <1>sum, <2>4, <2>6, <2>7 DEF Unit
<1>13. CASE ContinueGoal(w)
  <2>1. agent[w].at = "quiet" /\ fate' = fate
    BY <1>13 DEF ContinueGoal
  <2>2. /\ agent'[w].at = "chain" /\ agent'[w].text = GoalText
        /\ \A v \in Workers \ {w} : agent'[v] = agent[v]
    BY <1>1, <1>13 DEF ContinueGoal, ThreadStates, Agents
  <2>3. w \notin Holders(agent, t) /\ w \notin Holders(agent', t)
    BY <1>6, <2>1, <2>2 DEF Holders, Holding, Options
  <2>4. /\ IsFiniteSet(Holders(agent', t)) /\ Own(agent, t) \in Nat
        /\ Own(agent', t) = Own(agent, t) /\ (HasRead(agent', t) <=> HasRead(agent, t))
    BY <1>7, <2>1, <2>2, <2>3 DEF Unit
  <2>5. Untouched
    BY <1>1, <1>13 DEF ContinueGoal, Untouched, ChatRecords
  <2>6. /\ Waits(chat', agent', t) <=> Waits(chat, agent, t)
        /\ InHand(chat', t) <=> InHand(chat, t)
        /\ Listed(chat', t) = Listed(chat, t)
    BY <2>4, <2>5 DEF Waits, InHand, Listed, Untouched
  <2> QED
    BY <1>sum, <2>1, <2>4, <2>6 DEF Unit
<1>14. CASE WindDown(w)
  <2>1. agent[w].at = "quiet" /\ agent' = Move(w, "rest") /\ UNCHANGED <<chat, fate>>
    BY <1>14 DEF WindDown
  <2> QED
    BY <1>5, <1>quiet, <2>1 DEF Stages, Holding, Options, Untouched
<1>15. CASE PopQueued(w)
  <2>1. agent[w].at = "rest" /\ fate' = fate
    BY <1>15 DEF PopQueued
  <2>2. CASE chat.queue = <<>>
    <3>1. agent' = End(w) /\ chat' = chat
      BY <1>15, <2>2 DEF PopQueued
    <3> QED
      BY <1>4, <1>quiet, <2>1, <3>1 DEF Holding, Options, Untouched
  <2>3. CASE chat.queue # <<>>
    <3>1. chat.queue \in Seq(Texts)
      BY <1>1 DEF ChatRecords
    <3>2. /\ chat'.queue = Tail(chat.queue) /\ chat'.redirect = chat.redirect
          /\ chat'.doing = chat.doing /\ chat'.text = chat.text
          /\ chat'.heard = chat.heard /\ chat'.posted = chat.posted
      BY <1>1, <1>15, <2>3 DEF PopQueued, ChatRecords
    <3>3. /\ agent'[w].at = "popped" /\ agent'[w].text = Head(chat.queue)
          /\ \A v \in Workers \ {w} : agent'[v] = agent[v]
      <4>1. agent' = [agent EXCEPT ![w].at = "popped", ![w].text = Head(chat.queue)]
        BY <1>15, <2>3 DEF PopQueued
      <4> QED
        BY <1>1, <4>1 DEF ThreadStates, Agents
    <3>4. Cardinality(Places(chat.queue, t))
            = Cardinality(Places(chat'.queue, t)) + Unit(Head(chat.queue) = t)
      BY <2>3, <3>1, <3>2, PlacesTail
    <3>5. Listed(chat, t) = Listed(chat', t) + Unit(Head(chat.queue) = t)
      BY <1>1, <3>2, <3>4, ListedParts DEF Listed, Unit
    <3>6. w \notin Holders(agent, t) /\ (w \in Holders(agent', t) <=> Head(chat.queue) = t)
      BY <2>1, <3>3 DEF Holders, Holding, Options
    <3>7. /\ IsFiniteSet(Holders(agent', t)) /\ Own(agent, t) \in Nat
          /\ Own(agent', t) = Own(agent, t) + Unit(Head(chat.queue) = t)
          /\ HasRead(agent', t) <=> HasRead(agent, t)
      BY <1>7, <2>1, <3>3, <3>6 DEF Unit
    <3>8. /\ Waits(chat', agent', t) <=> Waits(chat, agent, t)
          /\ InHand(chat', t) <=> InHand(chat, t)
          /\ Listed(chat', t) \in Nat /\ Listed(chat, t) \in Nat /\ fate.sent[t] \in Nat
      BY <1>1, <1>3, <3>2, <3>7, LoadParts, ListedParts DEF Waits, InHand
    <3> QED
      BY <1>sum, <2>1, <3>5, <3>7, <3>8 DEF Unit
  <2> QED
    BY <2>2, <2>3
<1>16. CASE Chain(w)
  <2>1. agent[w].at \in {"chain", "popped"} /\ (w \in Holders(agent, t) <=> agent[w].text = t)
    BY <1>16 DEF Chain, Holders, Holding
  <2>2. CASE ui.running
    <3>1. /\ chat' = [chat EXCEPT !.mutated = FALSE] /\ fate' = fate
          /\ agent' = [agent EXCEPT ![w].at = Looked(chat), ![w].tried = FALSE,
                                    ![w].early = Saving(agent)]
      BY <1>16, <2>2 DEF Chain
    <3>2. /\ agent'[w].at = Looked(chat) /\ agent'[w].text = agent[w].text
          /\ \A v \in Workers \ {w} : agent'[v] = agent[v]
      BY <1>1, <3>1 DEF ThreadStates, Agents
    <3>3. agent'[w].at \in Options
      BY <3>2 DEF Looked, Options
    <3>4. w \in Holders(agent', t) <=> w \in Holders(agent, t)
      BY <2>1, <3>2, <3>3 DEF Holders, Holding
    <3>5. /\ IsFiniteSet(Holders(agent', t)) /\ Own(agent, t) \in Nat
          /\ Own(agent', t) = Own(agent, t) /\ (HasRead(agent', t) <=> HasRead(agent, t))
      BY <1>7, <2>1, <3>2, <3>3, <3>4 DEF Unit, Options
    <3>6. Untouched
      BY <1>1, <3>1 DEF Untouched, ChatRecords
    <3>7. /\ Waits(chat', agent', t) <=> Waits(chat, agent, t)
          /\ InHand(chat', t) <=> InHand(chat, t)
          /\ Listed(chat', t) = Listed(chat, t)
      BY <3>5, <3>6 DEF Waits, InHand, Listed, Untouched
    <3> QED
      BY <1>sum, <3>1, <3>5, <3>7 DEF Unit
  <2>3. CASE ~ui.running
    <3>1. /\ chat' = chat /\ fate' = LetGo({agent[w].text})
          /\ \/ agent' = [agent EXCEPT ![w].at = "rest", ![w].text = NoText]
             \/ agent' = End(w)
      BY <1>16, <2>3 DEF Chain
    <3>2. /\ agent'[w].at \in {"rest", "dead"}
          /\ \A v \in Workers \ {w} : agent'[v] = agent[v]
      BY <1>1, <1>4, <3>1 DEF ThreadStates, Agents
    <3>3. w \notin Holders(agent', t)
      BY <3>2 DEF Holders, Holding, Options
    <3>4. /\ fate'.sent[t] = fate.sent[t] /\ fate'.raced = fate.raced
          /\ t \in fate'.gone <=> t \in fate.gone \/ t = agent[w].text
      BY <1>1, <3>1, LetGoParts
    <3>5. /\ IsFiniteSet(Holders(agent', t)) /\ Own(agent, t) \in Nat /\ Own(agent', t) \in Nat
          /\ Own(agent', t) + Unit(agent[w].text = t) = Own(agent, t)
          /\ HasRead(agent', t) <=> HasRead(agent, t)
      BY <1>7, <2>1, <3>2, <3>3 DEF Unit
    <3>6. Waits(chat', agent', t) <=> Waits(chat, agent, t)
      BY <3>1, <3>5 DEF Waits
    <3>7. t \notin fate.raced /\ agent[w].text = t => t \notin fate.gone
      BY <1>1, <1>3, <3>5, LoadParts DEF Unit
    <3>8. Listed(chat, t) \in Nat /\ fate.sent[t] \in Nat
      BY <1>1, <1>3, LoadParts
    <3> QED
      BY <1>sum, <3>1, <3>4, <3>5, <3>6, <3>7, <3>8 DEF Unit
  <2> QED
    BY <2>2, <2>3
<1>17. CASE ChainOn(w)
  <2>1. /\ agent[w].at \in Options /\ agent[w].text \in 0..GoalText
        /\ w \in Holders(agent, t) <=> agent[w].text = t
    BY <1>1, <1>17 DEF ChainOn, Holders, Holding, Options, ThreadStates
  <2>2. w \notin Holders(End(w), t)
    BY <1>4 DEF Holders, Holding, Options
  <2>3. /\ IsFiniteSet(Holders(End(w), t)) /\ Own(agent, t) \in Nat /\ Own(End(w), t) \in Nat
        /\ Own(End(w), t) + Unit(agent[w].text = t) = Own(agent, t)
        /\ HasRead(End(w), t) <=> HasRead(agent, t)
    BY <1>4, <1>7, <2>1, <2>2 DEF Unit, Options
  <2>4. /\ Listed(chat, t) \in Nat /\ fate.sent[t] \in Nat
        /\ Own(End(w), t) = 0 => ~HasRead(End(w), t)
    BY <1>1, <1>3, <2>3, LoadParts
  <2>5. CASE agent[w].at = "redirect"
    <3>1. Redirect(chat, agent[w].text) /\ agent' = End(w)
      BY <1>17, <2>5 DEF ChainOn
    <3>2. t \notin fate.raced =>
            /\ agent[w].text = t => Own(End(w), t) = 0
            /\ Waits(chat, agent, t) => t \notin fate.gone
      BY <1>1, <1>3, <2>3, <2>4, LoadParts DEF Unit
    <3>3. fate'.raced = fate.raced
      BY <1>1, <3>1 DEF Redirect, LetGo, Fates
    <3>4. ASSUME t \notin fate.raced
          PROVE  /\ Unit(Waits(chat', agent', t)) + Unit(t \in fate'.gone)
                      = Unit(agent[w].text = t) + Unit(Waits(chat, agent, t))
                          + Unit(t \in fate.gone)
                 /\ InHand(chat', t) <=> InHand(chat, t)
                 /\ Listed(chat', t) = Listed(chat, t)
                 /\ fate'.sent[t] = fate.sent[t]
      BY <1>1, <2>3, <2>4, <3>1, <3>2, <3>4, RedirectLoad
    <3> QED
      BY <1>sum, <2>3, <2>4, <3>1, <3>3, <3>4 DEF Unit
  <2>6. CASE agent[w].at # "redirect"
    <3>1. StartThread(chat, End(w), agent[w].text, agent[w]) /\ fate' = fate
      BY <1>17, <2>6 DEF ChainOn
    <3>2. /\ IsFiniteSet(Holders(agent', t))
          /\ Own(agent', t) = Own(End(w), t) + Unit(agent[w].text = t)
          /\ Waits(chat', agent', t) <=> Waits(chat, End(w), t)
          /\ InHand(chat', t) <=> InHand(chat, t)
          /\ Listed(chat', t) = Listed(chat, t)
      BY <1>1, <1>4, <2>3, <3>1, StartThreadLoad
    <3>3. Waits(chat', agent', t) <=> Waits(chat, agent, t)
      BY <2>3, <3>2 DEF Waits
    <3> QED
      BY <1>sum, <2>3, <3>1, <3>2, <3>3 DEF Unit
  <2> QED
    BY <2>5, <2>6
<1> QED
  BY <1>9, <1>10, <1>11, <1>12, <1>13, <1>14, <1>15, <1>16, <1>17 DEF WorkerStep, WindUp

(* The tool gate touches no message.                                        *)
LEMMA GateKeepsTexts ==
    ASSUME TypeOK, OnceInv, NEW a \in Agents,
           Call(a) \/ Wake(a) \/ TimeOut(a) \/ Settle(a) \/ FinishTool(a)
    PROVE  OnceInv'
<1>1. /\ a \in Agents /\ chat \in ChatRecords /\ agent \in [Agents -> ThreadStates]
      /\ Workers \subseteq Agents
  BY TypesAre DEF ThreadTypes, ChatStates, Agents
<1> DEFINE calling == {"turn", "save", "ask", "yes", "no", "tool"}
           alone == /\ agent[a].at \in calling /\ agent'[a].at \in calling
                    /\ \A b \in Agents \ {a} : agent'[b] = agent[b]
<1>2. alone => AsBefore(agent, agent')
  BY <1>1 DEF AsBefore, Holding, Options
<1>3. AsBefore(agent, agent') /\ Untouched /\ UNCHANGED <<ui, fate>> => OnceInv'
  BY QuietLoad DEF OnceInv
<1> HIDE DEF alone
<1>4. ASSUME NEW k \in Tools, Checkpoint(a, k)
      PROVE  OnceInv'
  <2>1. UNCHANGED <<fate, ui>> /\ agent[a].at = "turn"
    BY <1>4 DEF Checkpoint, MayCall
  <2>2. Untouched
    BY <1>1, <1>4 DEF Checkpoint, Untouched, ChatRecords
  <2>3. agent' = [b \in Agents |-> [Spend(a, "save", k)[b] EXCEPT !.tried = TRUE]]
    BY <1>4 DEF Checkpoint
  <2>4. \A b \in Agents \ {a} : Spend(a, "save", k)[b] = agent[b]
    BY <1>1 DEF Spend
  <2>5. agent'[a].at = "save"
    BY <1>4, GateMoves
  <2>6. \A b \in Agents \ {a} : agent'[b].at = agent[b].at /\ agent'[b].text = agent[b].text
    BY <1>1, <2>3, <2>4 DEF ThreadStates
  <2>7. AsBefore(agent, agent')
    BY <1>1, <2>1, <2>5, <2>6 DEF AsBefore, Holding, Options
  <2> QED
    BY <1>3, <2>1, <2>2, <2>7
<1>5. ASSUME NEW k \in Tools, NEW at \in {"ask", "tool"}, Through(a, k), GoesOn(a, k, at),
             UNCHANGED <<ui, fate>>
      PROVE  OnceInv'
  <2>1. alone
    BY <1>5, GateMoves DEF alone, Through, MayCall, Stages
  <2>2. Untouched
    BY <1>1, <1>5 DEF GoesOn, Untouched, ChatRecords
  <2> QED
    BY <1>2, <1>3, <1>5, <2>1, <2>2
<1>6. ASSUME NEW k \in Tools, PlanBlocks(a, k)
      PROVE  OnceInv'
  <2>1. alone
    BY <1>6, GateMoves DEF alone, PlanBlocks, MayCall, Stages
  <2> QED
    BY <1>2, <1>3, <1>6, <2>1 DEF PlanBlocks, Untouched
<1>7. CASE Resume(a) \/ Settle(a) \/ FinishTool(a)
  <2>1. \/ \E at \in {"yes", "no", "tool"} : agent' = Move(a, at)
        \/ agent' = [agent EXCEPT ![a].at = "turn", ![a].tool = NoTool]
    BY <1>7 DEF Resume, Settle, FinishTool
  <2>2. agent[a].at \in calling /\ UNCHANGED <<ui, chat, fate>>
    BY <1>7 DEF Resume, Settle, FinishTool
  <2>3. agent'[a].at \in calling /\ \A b \in Agents \ {a} : agent'[b] = agent[b]
    BY <1>1, <2>1 DEF Move, ThreadStates
  <2>4. alone
    BY <2>2, <2>3 DEF alone
  <2> QED
    BY <1>2, <1>3, <2>2, <2>4 DEF Untouched
<1> QED
  BY <1>4, <1>5, <1>6, <1>7 DEF Call, Wake, TimeOut, RunTool, Prompt

(* What the UI thread does next with the message it has in hand.            *)
LEMMA HandlerKeepsTexts ==
    ASSUME TypeOK, OnceInv, GoOn
    PROVE  OnceInv'
<1> SUFFICES ASSUME NEW t \in Texts
             PROVE  /\ IsFiniteSet(Holders(agent', t))
                    /\ t \notin fate'.raced => Load(chat', agent', fate', t) = Unit(t <= ui'.used)
  BY DEF OnceInv
<1> DEFINE c == [chat EXCEPT !.doing = "none", !.text = NoText,
                             !.tried = FALSE, !.early = FALSE]
           x == chat.text
<1>1. /\ chat \in ChatStates /\ chat \in ChatRecords /\ agent \in [Agents -> ThreadStates]
      /\ fate \in Fates
  BY TypesAre DEF ThreadTypes, ChatStates
<1>2. /\ c \in ChatStates /\ c.redirect = chat.redirect /\ c.doing = "none"
      /\ c.queue = chat.queue /\ c.heard = chat.heard /\ c.posted = chat.posted
  BY <1>1 DEF ChatStates, ChatRecords, Doings
<1>3. ~InHand(c, t) /\ Listed(c, t) = Listed(chat, t)
      /\ (Waits(c, agent, t) <=> Waits(chat, agent, t))
  BY <1>2 DEF InHand, Listed, Waits
<1>4. /\ ui' = ui /\ x \in Texts /\ (InHand(chat, t) <=> x = t)
      /\ chat.doing \in {"redirect", "begin", "append"}
  BY <1>1 DEF GoOn, InHand, ChatStates
<1>5. /\ IsFiniteSet(Holders(agent, t)) /\ Own(agent, t) \in Nat /\ Listed(chat, t) \in Nat
      /\ fate.sent[t] \in Nat /\ (Own(agent, t) = 0 => ~HasRead(agent, t))
      /\ t \notin fate.raced => Load(chat, agent, fate, t) = Unit(t <= ui.used)
      /\ Load(chat, agent, fate, t)
           = Own(agent, t) + Unit(Waits(chat, agent, t)) + Unit(x = t) + Listed(chat, t)
               + fate.sent[t] + Unit(t \in fate.gone)
  BY <1>1, <1>4, LoadParts DEF OnceInv, Unit
<1> HIDE DEF c, x
<1>6. ASSUME IsFiniteSet(Holders(agent', t)), t \notin fate.raced,
             Own(agent', t) + Unit(Waits(chat', agent', t)) + Unit(InHand(chat', t))
                 + Listed(chat', t) + fate'.sent[t] + Unit(t \in fate'.gone)
             = Own(agent, t) + Unit(Waits(chat, agent, t)) + Unit(x = t)
                 + Listed(chat, t) + fate.sent[t] + Unit(t \in fate.gone)
      PROVE  Load(chat', agent', fate', t) = Unit(t <= ui'.used)
  BY <1>4, <1>5, <1>6 DEF Load
<1>7. CASE chat.doing = "redirect"
  <2>1. Redirect(c, x) /\ agent' = agent
    BY <1>7 DEF GoOn, c, x
  <2>2. fate'.raced = fate.raced
    BY <1>1, <2>1 DEF Redirect, LetGo, Fates
  <2>3. t \notin fate.raced =>
          /\ x = t => ~HasRead(agent, t)
          /\ Waits(chat, agent, t) => t \notin fate.gone
    BY <1>5 DEF Unit
  <2>4. ASSUME t \notin fate.raced
        PROVE  /\ Unit(Waits(chat', agent', t)) + Unit(t \in fate'.gone)
                    = Unit(x = t) + Unit(Waits(chat, agent, t)) + Unit(t \in fate.gone)
               /\ InHand(chat', t) <=> InHand(c, t)
               /\ Listed(chat', t) = Listed(c, t)
               /\ fate'.sent[t] = fate.sent[t]
    BY <1>1, <1>2, <2>1, <2>3, <2>4, RedirectLoad
  <2> QED
    BY <1>3, <1>5, <1>6, <2>1, <2>2, <2>4 DEF Unit
<1>8. CASE chat.doing = "begin"
  <2>1. StartThread(c, agent, x, chat) /\ fate' = fate
    BY <1>8 DEF GoOn, c, x
  <2>2. /\ IsFiniteSet(Holders(agent', t))
        /\ Own(agent', t) = Own(agent, t) + Unit(x = t)
        /\ Waits(chat', agent', t) <=> Waits(c, agent, t)
        /\ InHand(chat', t) <=> InHand(c, t)
        /\ Listed(chat', t) = Listed(c, t)
    BY <1>1, <1>2, <1>5, <2>1, StartThreadLoad
  <2> QED
    BY <1>3, <1>5, <1>6, <2>1, <2>2 DEF Unit
<1>9. CASE chat.doing = "append"
  <2>1. chat' = [c EXCEPT !.queue = Append(@, x)] /\ agent' = agent /\ fate' = fate
    BY <1>9 DEF GoOn, c, x
  <2>2. Append(c.queue, x) \in Seq(Texts) /\ c.queue \in Seq(Texts)
    BY <1>2, <1>4 DEF ChatStates, ChatRecords
  <2>3. /\ chat'.queue = Append(chat.queue, x) /\ chat'.heard = chat.heard
        /\ chat'.posted = chat.posted /\ chat'.redirect = chat.redirect
        /\ chat'.doing = "none"
    BY <1>2, <2>1, <2>2 DEF ChatStates, ChatRecords
  <2>4. Cardinality(Places(chat'.queue, t)) = Cardinality(Places(chat.queue, t)) + Unit(x = t)
    BY <1>2, <1>4, <2>2, <2>3, PlacesAppend
  <2>5. Listed(chat', t) = Listed(chat, t) + Unit(x = t)
    BY <1>1, <2>3, <2>4, ListedParts DEF Listed, Unit
  <2>6. ~InHand(chat', t) /\ (Waits(chat', agent', t) <=> Waits(chat, agent, t))
    BY <2>1, <2>3 DEF InHand, Waits
  <2> QED
    BY <1>5, <1>6, <2>1, <2>5, <2>6 DEF Unit
<1> QED
  BY <1>4, <1>7, <1>8, <1>9

(* The user, the control socket and the voice bridge.                       *)
LEMMA OthersKeepTexts ==
    ASSUME TypeOK, OnceInv,
           \/ StartUp \/ UserStep \/ RemoveGate \/ Relay
           \/ \E r \in Runs : EndTeam(r)
           \/ \E b \in Sides : EndAside(b)
    PROVE  OnceInv'
<1> SUFFICES ASSUME NEW t \in Texts
             PROVE  /\ IsFiniteSet(Holders(agent', t))
                    /\ t \notin fate'.raced => Load(chat', agent', fate', t) = Unit(t <= ui'.used)
  BY DEF OnceInv
<1> DEFINE Goal ==
        /\ IsFiniteSet(Holders(agent', t))
        /\ t \notin fate'.raced => Load(chat', agent', fate', t) = Unit(t <= ui'.used)
<1>1. /\ chat \in ChatStates /\ chat \in ChatRecords /\ agent \in [Agents -> ThreadStates]
      /\ ui \in UiStates /\ fate \in Fates /\ t \in Nat /\ t # NoText
  BY TypesAre, Numbers DEF ThreadTypes, OtherTypes, ChatStates, Texts, NoText
<1>2. /\ IsFiniteSet(Holders(agent, t)) /\ Own(agent, t) \in Nat /\ Listed(chat, t) \in Nat
      /\ fate.sent[t] \in Nat
      /\ t \notin fate.raced => Load(chat, agent, fate, t) = Unit(t <= ui.used)
      /\ Load(chat, agent, fate, t)
           = Own(agent, t) + Unit(Waits(chat, agent, t)) + Unit(InHand(chat, t))
               + Listed(chat, t) + fate.sent[t] + Unit(t \in fate.gone)
  BY <1>1, LoadParts DEF OnceInv
(* The threads hold what they held; what is it to add up to?                *)
<1>3. ASSUME \A v \in Workers : agent'[v] = agent[v], fate'.raced = fate.raced,
             t \notin fate.raced =>
                Unit(Waits(chat', agent, t)) + Unit(InHand(chat', t)) + Listed(chat', t)
                    + fate'.sent[t] + Unit(t \in fate'.gone) + Unit(t <= ui.used)
                = Unit(Waits(chat, agent, t)) + Unit(InHand(chat, t)) + Listed(chat, t)
                    + fate.sent[t] + Unit(t \in fate.gone) + Unit(t <= ui'.used),
             Listed(chat', t) \in Nat, fate'.sent[t] \in Nat
      PROVE  Goal
  <2>1. Holders(agent', t) = Holders(agent, t) /\ (HasRead(agent', t) <=> HasRead(agent, t))
    BY <1>3, HoldersSame DEF AsBefore
  <2>2. Own(agent', t) = Own(agent, t) /\ (Waits(chat', agent', t) <=> Waits(chat', agent, t))
    BY <2>1 DEF Own, Waits
  <2>3. Load(chat', agent', fate', t)
          = Own(agent, t) + Unit(Waits(chat', agent, t)) + Unit(InHand(chat', t))
              + Listed(chat', t) + fate'.sent[t] + Unit(t \in fate'.gone)
    BY <2>2 DEF Load, Unit
  <2>4. t \notin fate'.raced => Load(chat', agent', fate', t) = Unit(t <= ui'.used)
    <3> DEFINE rest == Unit(Waits(chat, agent, t)) + Unit(InHand(chat, t)) + Listed(chat, t)
                         + fate.sent[t] + Unit(t \in fate.gone)
               rest1 == Unit(Waits(chat', agent, t)) + Unit(InHand(chat', t))
                          + Listed(chat', t) + fate'.sent[t] + Unit(t \in fate'.gone)
               due == Unit(t <= ui.used)
               due1 == Unit(t <= ui'.used)
    <3>1. /\ Load(chat, agent, fate, t) = Own(agent, t) + rest
          /\ Load(chat', agent', fate', t) = Own(agent, t) + rest1
          /\ rest \in Nat /\ rest1 \in Nat /\ due \in Nat /\ due1 \in Nat
      BY <1>2, <1>3, <2>3 DEF Unit
    <3>2. t \notin fate.raced => /\ rest1 + due = rest + due1
                                 /\ Load(chat, agent, fate, t) = due
      BY <1>2, <1>3
    <3> HIDE DEF rest, rest1, due
    <3>3. t \notin fate.raced => Load(chat', agent', fate', t) = due1
      <4> HIDE DEF due1
      <4> QED
        BY <1>2, <3>1, <3>2
    <3> QED
      BY <1>3, <3>3
  <2> QED
    BY <1>2, <2>1, <2>4
(* Nothing that holds a text is touched.                                    *)
<1>4. ASSUME Untouched, fate' = fate, ui'.used = ui.used,
             \A v \in Workers : agent'[v] = agent[v]
      PROVE  Goal
  <2>1. AsBefore(agent, agent')
    BY <1>4 DEF AsBefore
  <2> QED
    BY <1>2, <1>4, <2>1, QuietLoad
(* What is typed is a text of its own.                                      *)
<1>5. ASSUME \E kind : Command(kind), ui'.used = ui.used + 1
      PROVE  /\ NextText \in Texts
             /\ Unit(t <= ui'.used) = Unit(t <= ui.used) + Unit(NextText = t)
             /\ NextText = t /\ t \notin fate.raced => Load(chat, agent, fate, t) = 0
  <2>1. ui.used \in Nat /\ MaxCommands \in Nat /\ ui.used < MaxCommands
    BY <1>1, <1>5, Numbers DEF UiStates, Command
  <2>2. NextText \in Texts
    BY <2>1 DEF NextText, Texts
  <2> QED
    BY <1>1, <1>2, <1>5, <2>1, <2>2 DEF NextText, Unit
<1>6. Used.used = ui.used + 1
  BY <1>1 DEF Used, UiStates
(* The UI thread takes a message up.                                        *)
<1>7. ASSUME NEW c \in ChatStates, NEW x, TakeUp(c, x), ~InHand(c, t),
             c.redirect = chat.redirect
      PROVE  /\ Waits(chat', agent, t) <=> Waits(chat, agent, t)
             /\ InHand(chat', t) <=> x = t
             /\ Listed(chat', t) = Listed(c, t) /\ Listed(c, t) \in Nat
  <2>1. /\ chat'.redirect = c.redirect /\ chat'.doing \in Options /\ chat'.text = x
        /\ chat'.queue = c.queue /\ chat'.heard = c.heard /\ chat'.posted = c.posted
    BY <1>7 DEF TakeUp, Looked, Options, ChatStates, ChatRecords
  <2> QED
    BY <1>7, <2>1, ListedParts DEF Waits, InHand, Listed, Options
<1>8. ASSUME \E kind : Command(kind), ui' = Used, Between, TakeUp(chat, NextText),
             UNCHANGED <<agent, fate>>
      PROVE  Goal
  <2>1. ~InHand(chat, t)
    BY <1>8 DEF InHand, Between
  <2>2. /\ Waits(chat', agent, t) <=> Waits(chat, agent, t)
        /\ InHand(chat', t) <=> NextText = t
        /\ Listed(chat', t) = Listed(chat, t)
    BY <1>1, <1>7, <1>8, <2>1
  <2>3. Unit(t <= ui'.used) = Unit(t <= ui.used) + Unit(NextText = t)
    BY <1>5, <1>6, <1>8
  <2> QED
    BY <1>2, <1>3, <1>8, <2>1, <2>2, <2>3 DEF Unit
(* A command that is no message counts as one let go of.                    *)
<1>9. ASSUME \E kind : Command(kind), ui'.used = ui.used + 1,
             NEW T, fate' = LetGo(T), NextText \in T, T \subseteq {NextText} \cup Waiting,
             chat'.redirect = IF T = {NextText} THEN chat.redirect ELSE NoText,
             T = {NextText} \/ T = {NextText} \cup Waiting,
             chat'.doing = chat.doing, chat'.text = chat.text,
             chat'.queue = chat.queue, chat'.heard = chat.heard,
             chat'.posted = chat.posted,
             \A v \in Workers : agent'[v] = agent[v]
      PROVE  Goal
  <2>1. /\ Unit(t <= ui'.used) = Unit(t <= ui.used) + Unit(NextText = t)
        /\ NextText = t /\ t \notin fate.raced => Load(chat, agent, fate, t) = 0
    BY <1>5, <1>9
  <2>2. /\ fate'.sent[t] = fate.sent[t] /\ fate'.raced = fate.raced
        /\ t \in fate'.gone <=> t \in fate.gone \/ t \in T
    BY <1>1, <1>9, LetGoParts
  <2>3. (InHand(chat', t) <=> InHand(chat, t)) /\ Listed(chat', t) = Listed(chat, t)
    BY <1>9 DEF InHand, Listed
  <2>4. t \notin fate.raced =>
          /\ Waits(chat, agent, t) => t \notin fate.gone /\ NextText # t
          /\ NextText = t => t \notin fate.gone
    BY <1>2, <2>1 DEF Unit
  <2>5. t \notin fate.raced =>
          Unit(Waits(chat', agent, t)) + Unit(t \in fate'.gone)
          = Unit(Waits(chat, agent, t)) + Unit(t \in fate.gone) + Unit(NextText = t)
    <3>1. CASE T = {NextText}
      <4>1. Waits(chat', agent, t) <=> Waits(chat, agent, t)
        BY <1>9, <3>1 DEF Waits
      <4> QED
        BY <2>2, <2>4, <3>1, <4>1 DEF Unit
    <3>2. CASE T # {NextText}
      <4>1. ~Waits(chat', agent, t)
        BY <1>1, <1>9, <3>2 DEF Waits
      <4>2. t \in T <=> NextText = t \/ Waits(chat, agent, t)
        BY <1>9, <3>2, WaitingIs
      <4> QED
        BY <2>2, <2>4, <4>1, <4>2 DEF Unit
    <3> QED
      BY <3>1, <3>2
  <2> QED
    BY <1>2, <1>3, <1>9, <2>1, <2>2, <2>3, <2>5 DEF Unit
<1>10. ASSUME \E kind : Command(kind), ui'.used = ui.used + 1, fate' = LetGo({NextText}),
              chat' = chat, \A v \in Workers : agent'[v] = agent[v]
       PROVE  Goal
  BY <1>9, <1>10
<1>11. CASE StartUp \/ RemoveGate \/ Quit
  <2>1. ui'.used = ui.used
    BY <1>1, <1>11 DEF StartUp, RemoveGate, Quit, UiStates
  <2>2. UNCHANGED <<chat, agent, fate>>
    BY <1>11 DEF StartUp, RemoveGate, Quit
  <2> QED
    BY <1>4, <2>1, <2>2 DEF Untouched
<1>12. CASE Interrupt
  <2>1. Untouched
    BY <1>1, <1>12 DEF Interrupt, Untouched, ChatRecords
  <2> QED
    BY <1>4, <1>12, <2>1 DEF Interrupt
<1>13. ASSUME NEW key, AnswerKey(key)
       PROVE  Goal
  <2>1. ui'.used = ui.used
    BY <1>1, <1>13 DEF AnswerKey, UiStates
  <2>2. UNCHANGED <<chat, agent, fate>>
    BY <1>13 DEF AnswerKey
  <2> QED
    BY <1>4, <2>1, <2>2 DEF Untouched
<1>14. CASE Submit
  BY <1>8, <1>14 DEF Submit
<1>15. CASE Retry
  BY <1>8, <1>15 DEF Retry, Key
(* A text joins a list.                                                     *)
<1>16. ASSUME \E kind : Command(kind), ui'.used = ui.used + 1, UNCHANGED <<agent, fate>>,
              chat'.redirect = chat.redirect, chat'.doing = chat.doing,
              chat'.text = chat.text,
              Listed(chat', t) = Listed(chat, t) + Unit(NextText = t)
       PROVE  Goal
  <2>1. Unit(t <= ui'.used) = Unit(t <= ui.used) + Unit(NextText = t)
    BY <1>5, <1>16
  <2>2. /\ Waits(chat', agent, t) <=> Waits(chat, agent, t)
        /\ InHand(chat', t) <=> InHand(chat, t)
    BY <1>16 DEF Waits, InHand
  <2> QED
    BY <1>2, <1>3, <1>16, <2>1, <2>2 DEF Unit
<1>17. ASSUME NEW s \in Seq(Texts), NextText \in Texts
       PROVE  Cardinality(Places(Append(s, NextText), t))
                = Cardinality(Places(s, t)) + Unit(NextText = t)
  BY <1>17, PlacesAppend
<1>18. CASE Post \/ Hear
  <2>1. (\E kind : Command(kind)) /\ ui'.used = ui.used + 1 /\ UNCHANGED <<agent, fate>>
    BY <1>6, <1>18 DEF Post, Hear
  <2>2. /\ chat'.redirect = chat.redirect /\ chat'.doing = chat.doing
        /\ chat'.text = chat.text /\ chat'.queue = chat.queue
        /\ \/ /\ chat'.posted = Append(chat.posted, NextText)
              /\ chat'.heard = chat.heard
           \/ /\ chat'.heard = Append(chat.heard, NextText)
              /\ chat'.posted = chat.posted
    BY <1>1, <1>18 DEF Post, Hear, ChatRecords
  <2>3. NextText \in Texts /\ chat.posted \in Seq(Texts) /\ chat.heard \in Seq(Texts)
    BY <1>1, <1>5, <2>1 DEF ChatRecords
  <2>4. Listed(chat', t) = Listed(chat, t) + Unit(NextText = t)
    <3>1. CASE chat'.posted = Append(chat.posted, NextText) /\ chat'.heard = chat.heard
      <4>1. Cardinality(Places(chat'.posted, t))
              = Cardinality(Places(chat.posted, t)) + Unit(NextText = t)
        BY <1>17, <2>3, <3>1
      <4> QED
        BY <1>1, <2>2, <3>1, <4>1, ListedParts DEF Listed, Unit
    <3>2. CASE chat'.heard = Append(chat.heard, NextText) /\ chat'.posted = chat.posted
      <4>1. Cardinality(Places(chat'.heard, t))
              = Cardinality(Places(chat.heard, t)) + Unit(NextText = t)
        BY <1>17, <2>3, <3>2
      <4> QED
        BY <1>1, <2>2, <3>2, <4>1, ListedParts DEF Listed, Unit
    <3> QED
      BY <2>2, <3>1, <3>2
  <2> QED
    BY <1>16, <2>1, <2>2, <2>4
<1>19. CASE QueueKey \/ Template
  <2>1. /\ (\E kind : Command(kind)) /\ ui' = Used /\ QueueOrStart(NextText)
        /\ Between /\ UNCHANGED <<agent, fate>>
    BY <1>19 DEF QueueKey, Template, Key
  <2>2. CASE ~chat.busy
    BY <1>8, <2>1, <2>2 DEF QueueOrStart
  <2>3. CASE chat.busy
    <3>1. /\ chat'.redirect = chat.redirect /\ chat'.doing = "append"
          /\ chat'.text = NextText /\ chat'.queue = chat.queue
          /\ chat'.heard = chat.heard /\ chat'.posted = chat.posted
      BY <1>1, <2>1, <2>3 DEF QueueOrStart, ChatRecords
    <3>2. /\ Waits(chat', agent, t) <=> Waits(chat, agent, t)
          /\ InHand(chat', t) <=> NextText = t
          /\ ~InHand(chat, t) /\ Listed(chat', t) = Listed(chat, t)
      BY <2>1, <3>1 DEF Waits, InHand, Listed, Between
    <3>3. Unit(t <= ui'.used) = Unit(t <= ui.used) + Unit(NextText = t)
      BY <1>5, <1>6, <2>1
    <3> QED
      BY <1>2, <1>3, <2>1, <3>2, <3>3 DEF Unit
  <2> QED
    BY <2>2, <2>3
<1>20. CASE StartGoal
  <2>1. (\E kind : Command(kind)) /\ ui' = Used /\ Between /\ agent' = agent
    BY <1>20 DEF StartGoal, Key
  <2>2. CASE ~chat.busy
    BY <1>8, <1>20, <2>1, <2>2 DEF StartGoal
  <2>3. CASE chat.busy
    BY <1>6, <1>10, <1>20, <2>1, <2>3 DEF StartGoal
  <2> QED
    BY <2>2, <2>3
(* A text goes from the bridge to the events, and from there to a handler.  *)
<1>21. CASE Relay
  <2>1. chat.heard \in Seq(Texts) /\ chat.heard # <<>> /\ chat.posted \in Seq(Texts)
    BY <1>1, <1>21 DEF Relay, ChatRecords
  <2>2. Head(chat.heard) \in Texts
    BY <2>1
  <2>3. /\ chat'.redirect = chat.redirect /\ chat'.doing = chat.doing
        /\ chat'.text = chat.text /\ chat'.queue = chat.queue
        /\ chat'.heard = Tail(chat.heard)
        /\ chat'.posted = Append(chat.posted, Head(chat.heard))
    BY <1>1, <1>21 DEF Relay, ChatRecords
  <2>4. /\ Cardinality(Places(chat.heard, t))
             = Cardinality(Places(chat'.heard, t)) + Unit(Head(chat.heard) = t)
        /\ Cardinality(Places(chat'.posted, t))
             = Cardinality(Places(chat.posted, t)) + Unit(Head(chat.heard) = t)
    BY <2>1, <2>2, <2>3, PlacesTail, PlacesAppend
  <2>5. Tail(chat.heard) \in Seq(Texts)
    BY <2>1
  <2>6. Cardinality(Places(chat'.heard, t)) \in Nat
    BY <2>3, <2>5, PlacesFinite
  <2>7. Listed(chat', t) = Listed(chat, t)
    BY <1>1, <2>3, <2>4, <2>6, ListedParts DEF Listed, Unit
  <2>8. UNCHANGED <<ui, agent, fate>>
    BY <1>21 DEF Relay
  <2>9. /\ Waits(chat', agent, t) <=> Waits(chat, agent, t)
        /\ InHand(chat', t) <=> InHand(chat, t)
    BY <2>3 DEF Waits, InHand
  <2> QED
    BY <1>2, <1>3, <2>7, <2>8, <2>9 DEF Unit
<1>22. CASE Deliver
  <2> DEFINE c == [chat EXCEPT !.posted = Tail(@)]
             x == Head(chat.posted)
  <2>1. chat.posted \in Seq(Texts) /\ chat.posted # <<>>
    BY <1>1, <1>22 DEF Deliver, ChatRecords
  <2>2. Tail(chat.posted) \in Seq(Texts)
    BY <2>1
  <2>3. /\ c \in ChatStates /\ c.redirect = chat.redirect /\ c.queue = chat.queue
        /\ c.heard = chat.heard /\ c.posted = Tail(chat.posted)
        /\ c.doing = chat.doing /\ c.text = chat.text
    BY <1>1, <2>2 DEF ChatStates, ChatRecords
  <2>4. Cardinality(Places(chat.posted, t)) = Cardinality(Places(c.posted, t)) + Unit(x = t)
    BY <2>1, <2>3, PlacesTail
  <2>5. TakeUp(c, x) /\ UNCHANGED <<ui, agent, fate>>
    BY <1>22 DEF Deliver
  <2>6. ~InHand(chat, t) /\ ~InHand(c, t)
    BY <1>22, <2>3 DEF InHand, Deliver, Between
  <2> HIDE DEF c, x
  <2>7. Listed(chat, t) = Listed(c, t) + Unit(x = t)
    BY <1>1, <2>3, <2>4, ListedParts DEF Listed, Unit
  <2>8. /\ Waits(chat', agent, t) <=> Waits(chat, agent, t)
        /\ InHand(chat', t) <=> x = t
        /\ Listed(chat', t) = Listed(c, t) /\ Listed(c, t) \in Nat
    BY <1>7, <2>3, <2>5, <2>6
  <2> QED
    BY <1>2, <1>3, <2>5, <2>6, <2>7, <2>8 DEF Unit
(* Commands that let go of messages.                                        *)
<1>23. CASE ClearQueue
  <2> DEFINE T == {NextText} \cup {chat.queue[i] : i \in DOMAIN chat.queue}
             q == Cardinality(Places(chat.queue, t))
  <2>1. chat.queue \in Seq(Texts)
    BY <1>1 DEF ChatRecords
  <2>2. /\ chat'.redirect = chat.redirect /\ chat'.queue = <<>>
        /\ chat'.doing = chat.doing /\ chat'.text = chat.text
        /\ chat'.heard = chat.heard /\ chat'.posted = chat.posted
    BY <1>1, <1>23 DEF ClearQueue, ChatRecords
  <2>3. q \in Nat /\ (q = 0 <=> \A i \in DOMAIN chat.queue : chat.queue[i] # t)
    BY <2>1, PlacesFinite
  <2>4. Cardinality(Places(chat'.queue, t)) = 0
    <3>1. Places(<<>>, t) = {}
      BY DEF Places
    <3> QED
      BY <2>2, <3>1, FS_EmptySet
  <2>5. /\ fate'.sent[t] = fate.sent[t] /\ fate'.raced = fate.raced
        /\ t \in fate'.gone <=> t \in fate.gone \/ t \in T
    BY <1>1, <1>23, LetGoParts DEF ClearQueue
  <2>6. t \in T <=> NextText = t \/ q # 0
    BY <2>3
  <2>7. /\ Unit(t <= ui'.used) = Unit(t <= ui.used) + Unit(NextText = t)
        /\ NextText = t /\ t \notin fate.raced => Load(chat, agent, fate, t) = 0
        /\ agent' = agent
    BY <1>5, <1>6, <1>23 DEF ClearQueue, Key
  <2>8. Listed(chat, t) = Listed(chat', t) + q /\ Listed(chat', t) \in Nat
    BY <1>1, <2>2, <2>4, ListedParts DEF Listed
  <2>9. /\ Waits(chat', agent, t) <=> Waits(chat, agent, t)
        /\ InHand(chat', t) <=> InHand(chat, t)
    BY <2>2 DEF Waits, InHand
  <2> HIDE DEF T, q
  <2>10. t \notin fate.raced =>
           Unit(t \in fate'.gone) = Unit(t \in fate.gone) + q + Unit(NextText = t)
    BY <1>2, <2>3, <2>5, <2>6, <2>7, <2>8 DEF Unit
  <2> QED
    BY <1>2, <1>3, <2>3, <2>5, <2>7, <2>8, <2>9, <2>10 DEF Unit
<1>24. CASE SessionChanged
  <2>1. /\ chat'.redirect = NoText /\ chat'.queue = chat.queue
        /\ chat'.doing = chat.doing /\ chat'.text = chat.text
        /\ chat'.heard = chat.heard /\ chat'.posted = chat.posted
    BY <1>1, <1>24, Numbers DEF SessionChanged, ChatRecords, NoText
  <2>2. /\ \E kind : Command(kind)
        /\ ui'.used = ui.used + 1 /\ agent' = agent
        /\ fate' = LetGo({NextText} \cup Waiting)
    BY <1>6, <1>24 DEF SessionChanged, Key
  <2>3. /\ Unit(t <= ui'.used) = Unit(t <= ui.used) + Unit(NextText = t)
        /\ NextText = t /\ t \notin fate.raced => Load(chat, agent, fate, t) = 0
    BY <1>5, <2>2
  <2>4. /\ fate'.sent[t] = fate.sent[t] /\ fate'.raced = fate.raced
        /\ t \in fate'.gone <=> t \in fate.gone \/ NextText = t \/ Waits(chat, agent, t)
    <3> DEFINE T == {NextText} \cup Waiting
    <3>1. t \in T <=> NextText = t \/ Waits(chat, agent, t)
      BY WaitingIs
    <3> HIDE DEF T
    <3>2. fate' = LetGo(T)
      BY <2>2 DEF T
    <3> QED
      BY <1>1, <3>1, <3>2, LetGoParts
  <2>5. /\ ~Waits(chat', agent, t) /\ (InHand(chat', t) <=> InHand(chat, t))
        /\ Listed(chat', t) = Listed(chat, t)
    BY <1>1, <2>1 DEF Waits, InHand, Listed
  <2>6. t \notin fate.raced =>
          Unit(t \in fate'.gone)
          = Unit(Waits(chat, agent, t)) + Unit(t \in fate.gone) + Unit(NextText = t)
    BY <1>2, <2>3, <2>4 DEF Unit
  <2> QED
    BY <1>2, <1>3, <2>2, <2>3, <2>4, <2>5, <2>6 DEF Unit
<1>25. CASE StopGoal \/ StopTeam
  BY <1>6, <1>10, <1>25 DEF StopGoal, StopTeam, Key
<1>26. CASE TogglePlan \/ Approve \/ Settings
  <2>1. ui'.used = ui.used + 1
    BY <1>1, <1>26 DEF TogglePlan, Approve, Settings, Prompts, Used, UiStates
  <2>2. /\ \E kind : Command(kind)
        /\ fate' = LetGo({NextText}) /\ chat' = chat /\ agent' = agent
    BY <1>26 DEF TogglePlan, Approve, Settings, Prompts, Key
  <2> QED
    BY <1>10, <2>1, <2>2
<1>27. \A a \in Runs \cup Sides : a \notin Workers
  BY ChatTurnsAssumption DEF ChatTurnsAssumption
<1>28. CASE StartTeam
  <2>1. \A v \in Workers : agent'[v] = agent[v]
    BY <1>1, <1>27, <1>28 DEF StartTeam, Agents
  <2> QED
    BY <1>6, <1>10, <1>28, <2>1 DEF StartTeam, Key
<1>29. ASSUME NEW b \in Sides, AskAside(b)
       PROVE  Goal
  <2>1. \A v \in Workers : agent'[v] = agent[v]
    BY <1>1, <1>27, <1>29 DEF AskAside, Agents
  <2> QED
    BY <1>6, <1>10, <1>29, <2>1 DEF AskAside, Key
<1>30. ASSUME NEW r \in Runs, EndTeam(r)
       PROVE  Goal
  <2>1. \A v \in Workers : agent'[v] = agent[v]
    BY <1>1, <1>27, <1>30 DEF EndTeam, End, Agents
  <2> QED
    BY <1>4, <1>30, <2>1 DEF EndTeam, Untouched
<1>31. ASSUME NEW b \in Sides, EndAside(b)
       PROVE  Goal
  <2>1. \A v \in Workers : agent'[v] = agent[v]
    BY <1>1, <1>27, <1>31 DEF EndAside, End, Agents
  <2> QED
    BY <1>4, <1>31, <2>1 DEF EndAside, Untouched
<1>32. CASE UserStep
  BY <1>11, <1>12, <1>13, <1>14, <1>15, <1>18, <1>19, <1>20, <1>22, <1>23, <1>24, <1>25,
     <1>26, <1>28, <1>29, <1>32 DEF UserStep
<1> QED
  BY <1>11, <1>21, <1>30, <1>31, <1>32

(* EveryTextOnce, for all values of the constants: however the UI thread,   *)
(* the bridge's threads and the wind-downs of turns interleave, a message   *)
(* is in one place, sent once, or let go of once (_start_turn,              *)
(* _finalize_turn, _process_next_queued), unless it was in the redirect     *)
(* slot while a worker was between reading and clearing it.                 *)
THEOREM ChatEveryTextOnce == Spec => []EveryTextOnce
<1>1. Init => OnceInv
  <2> SUFFICES ASSUME Init, NEW t \in Texts
               PROVE  IsFiniteSet(Holders(agent, t))
                      /\ Load(chat, agent, fate, t) = Unit(t <= ui.used)
    BY DEF OnceInv
  <2>1. Holders(agent, t) = {}
    BY DEF Init, Holders, Holding, Options, Dead, Agents
  <2>2. t # NoText /\ ~(t <= ui.used)
    BY Numbers DEF Init, Texts, NoText
  <2>3. Places(<<>>, t) = {}
    BY DEF Places
  <2>4. Cardinality(Places(<<>>, t)) = 0
    BY <2>3, FS_EmptySet
  <2>5. Own(agent, t) = 0 /\ IsFiniteSet(Holders(agent, t))
    BY <2>1, FS_EmptySet DEF Own
  <2>6. /\ chat.redirect = NoText /\ chat.queue = <<>> /\ chat.heard = <<>>
        /\ chat.posted = <<>> /\ fate.sent[t] = 0 /\ t \notin fate.gone
        /\ chat.doing = "none"
    BY DEF Init
  <2>7. Listed(chat, t) = 0
    BY <2>4, <2>6 DEF Listed
  <2> QED
    BY <2>2, <2>5, <2>6, <2>7 DEF Load, Unit, Waits, InHand
<1>2. TypeOK /\ OnceInv /\ [Next]_vars => OnceInv'
  <2> SUFFICES ASSUME TypeOK, OnceInv, [Next]_vars PROVE OnceInv'
    OBVIOUS
  <2>1. CASE UNCHANGED vars
    <3>1. AsBefore(agent, agent') /\ Untouched /\ UNCHANGED <<fate, ui>>
      BY <2>1 DEF vars, AsBefore, Untouched
    <3> QED
      BY <3>1, QuietLoad DEF OnceInv
  <2>2. CASE Next
    BY <2>2, WorkersKeepTexts, GateKeepsTexts, HandlerKeepsTexts, OthersKeepTexts DEF Next
  <2> QED
    BY <2>1, <2>2
<1>3. TypeOK /\ OnceInv => EveryTextOnce
  <2> SUFFICES ASSUME TypeOK, OnceInv, NEW t \in 1..ui.used, t \notin fate.raced
               PROVE  Held(t) + fate.sent[t] + (IF t \in fate.gone THEN 1 ELSE 0) = 1
    BY DEF EveryTextOnce
  <2>1. chat \in ChatStates /\ fate \in Fates /\ ui \in UiStates
    BY TypesAre DEF ThreadTypes, OtherTypes
  <2>2. t \in Texts /\ t <= ui.used
    BY <2>1, Numbers DEF UiStates, Texts
  <2>3. IsFiniteSet(Holders(agent, t)) /\ Load(chat, agent, fate, t) = 1
    BY <2>2 DEF OnceInv, Unit
  <2>4. Held(t) = Own(agent, t) + Unit(Waits(chat, agent, t)) + Unit(InHand(chat, t))
                    + Cardinality(Places(chat.queue, t))
                    + Cardinality(Places(chat.heard, t))
                    + Cardinality(Places(chat.posted, t))
    <3>1. t \in Waiting <=> Waits(chat, agent, t)
      BY WaitingIs
    <3> QED
      BY <3>1 DEF Held, Own, Holders, Places, InHand, Unit
  <2>5. /\ Own(agent, t) \in Nat /\ fate.sent[t] \in Nat
        /\ Load(chat, agent, fate, t)
             = Own(agent, t) + Unit(Waits(chat, agent, t)) + Unit(InHand(chat, t))
                 + Listed(chat, t) + fate.sent[t] + Unit(t \in fate.gone)
    BY <2>1, <2>2, <2>3, LoadParts
  <2>6. Held(t) = Own(agent, t) + Unit(Waits(chat, agent, t)) + Unit(InHand(chat, t))
                    + Listed(chat, t)
    BY <2>1, <2>4, <2>5, ListedParts DEF Listed, Unit
  <2> QED
    BY <2>1, <2>3, <2>5, <2>6, ListedParts DEF Unit
<1> QED
  BY <1>1, <1>2, <1>3, ChatTypes, PTL DEF Spec

-----------------------------------------------------------------------------
(***************************************************************************)
(* The keyboard (TuiKeys).  The reader and the editor are recursive        *)
(* functions over Nat, so what they compute comes first: a family of       *)
(* functions that each agree with one step is that recursion (Iterates);   *)
(* then texts and lines, the editor's operations, the reader's loop, and   *)
(* the invariant.                                                          *)
(***************************************************************************)
(* A set of numbers with a member has a least one, so what holds of 0 and   *)
(* is handed on holds of them all.                                          *)
LEMMA Lowest ==
    ASSUME NEW T \in SUBSET Nat, T # {}
    PROVE  \E n \in T : \A m \in T : n <= m
<1> DEFINE Small(n) == T \cap (0..n)
           F == {Small(n) : n \in T}
<1>1. ASSUME NEW n \in T PROVE Small(n) \in FiniteSubsetsOf(T)
  <2>1. n \in Nat
    OBVIOUS
  <2>2. IsFiniteSet(0..n)
    BY <2>1, FS_Interval
  <2>3. IsFiniteSet(Small(n))
    BY <2>2, FS_Subset
  <2> QED
    BY <2>3 DEF FiniteSubsetsOf
<1>2. F \subseteq FiniteSubsetsOf(T) /\ F # {}
  BY <1>1
<1>3. IsWellFoundedOn(StrictSubsetOrdering(T), FiniteSubsetsOf(T))
  BY FS_StrictSubsetOrderingWellFounded
<1> HIDE DEF F
<1>4. PICK X \in F : \A Y \in F : ~(<<Y, X>> \in StrictSubsetOrdering(T))
  BY <1>2, <1>3, WFMin
<1>5. PICK n \in T : X = Small(n)
  BY <1>4 DEF F
<1>6. ASSUME NEW m \in T, m < n
      PROVE  FALSE
  <2>1. n \in Nat /\ m \in Nat /\ Small(m) \in F
    BY <1>5, <1>6 DEF F
  <2>2. Small(m) \subseteq X /\ n \in X /\ n \notin Small(m)
    BY <1>5, <1>6, <2>1
  <2>3. <<Small(m), X>> \in StrictSubsetOrdering(T)
    BY <1>5, <2>2 DEF StrictSubsetOrdering
  <2> QED
    BY <1>4, <2>1, <2>3
<1> QED
  BY <1>6

LEMMA Handed ==
    ASSUME NEW T, NEW N \in Nat, 0 \in T, \A k \in 1..N : k - 1 \in T => k \in T
    PROVE  \A k \in 0..N : k \in T
<1> DEFINE B == (0..N) \ T
<1>1. B \in SUBSET Nat
  OBVIOUS
<1>2. CASE B # {}
  <2>1. PICK k \in B : \A m \in B : k <= m
    <3> HIDE DEF B
    <3> QED
      BY <1>1, <1>2, Lowest
  <2>2. k \in 1..N /\ k - 1 \in 0..N /\ ~(k <= k - 1)
    BY <2>1
  <2>3. k - 1 \notin B
    BY <2>1, <2>2
  <2> QED
    BY <2>1, <2>2, <2>3
<1> QED
  BY <1>2

(* The largest and the least of some places.                                *)
LEMMA Bounds ==
    ASSUME NEW n \in Nat, NEW T \in SUBSET (0..n), T # {}
    PROVE  /\ Max(T) \in T /\ \A m \in T : m <= Max(T)
           /\ Min(T) \in T /\ \A m \in T : Min(T) <= m
<1> DEFINE Away == {n - t : t \in T}
<1>1. Away \in SUBSET Nat /\ Away # {}
  <2>1. \A t \in T : n - t \in Nat
    OBVIOUS
  <2> QED
    BY <2>1
<1>2. PICK k \in Away : \A j \in Away : k <= j
  <2> HIDE DEF Away
  <2> QED
    BY <1>1, Lowest
<1>3. PICK t \in T : k = n - t
  BY <1>2
<1>4. ASSUME NEW m \in T PROVE t >= m
  <2>1. n - m \in Away /\ m \in Nat /\ t \in Nat
    BY <1>3, <1>4
  <2>2. n - t <= n - m
    BY <1>2, <1>3, <2>1
  <2> QED
    BY <2>1, <2>2
<1>5. PICK x \in T : \A m \in T : x <= m
  <2>1. T \in SUBSET Nat
    OBVIOUS
  <2> QED
    BY <2>1, Lowest
<1> QED
  BY <1>3, <1>4, <1>5 DEF Max, Min

(* A function each place of which is made from the one before exists.      *)
HasIterates(N, X, base, step) ==
    \E f : /\ f = [n \in 0..N |-> f[n]] /\ f[0] = base
           /\ \A n \in 1..N : f[n] = step[n][f[n - 1]]
           /\ \A n \in 0..N : f[n] \in X

LEMMA SameFunction ==
    ASSUME NEW D, NEW f, NEW g, f = [x \in D |-> f[x]], g = [x \in D |-> g[x]],
           \A x \in D : f[x] = g[x]
    PROVE  f = g
OBVIOUS

LEMMA Iterates ==
    ASSUME NEW N \in Nat, NEW X, NEW base \in X, NEW step,
           \A k \in 1..N : \A x \in X : step[k][x] \in X
    PROVE  HasIterates(N, X, base, step)
<1> DEFINE F(f, k) == [n \in 0..k |-> IF n = 0 THEN base ELSE step[n][f[n - 1]]]
           T == {k \in 0..N : \E f : f = F(f, k) /\ \A n \in 0..k : f[n] \in X}
<1>1. 0 \in T
  <2> DEFINE f == [n \in 0..0 |-> base]
  <2>1. \A n \in 0..0 : n = 0
    OBVIOUS
  <2>2. f = F(f, 0) /\ \A n \in 0..0 : f[n] \in X
    BY <2>1
  <2>3. 0 \in 0..N
    OBVIOUS
  <2> HIDE DEF f
  <2> QED
    BY <2>2, <2>3
<1>2. ASSUME NEW k \in 1..N, k - 1 \in T PROVE k \in T
  <2>1. PICK f : f = F(f, k - 1) /\ \A n \in 0..(k - 1) : f[n] \in X
    BY <1>2
  <2> DEFINE g == F(f, k)
  <2>2. /\ k \in Nat /\ k \in 0..N /\ k - 1 \in 0..(k - 1)
        /\ \A n \in 0..k : n = k \/ n \in 0..(k - 1)
        /\ \A n \in 0..k : n # 0 => n - 1 \in 0..(k - 1)
    OBVIOUS
  <2>3. \A n \in 0..(k - 1) : f[n] = F(f, k - 1)[n]
    BY <2>1
  <2>4. \A n \in 0..(k - 1) : n \in 0..k /\ g[n] = f[n]
    BY <2>3
  <2>5. g[k] = step[k][f[k - 1]]
    BY <2>2
  <2>6. g = F(g, k)
    BY <2>2, <2>4
  <2>7. \A n \in 0..k : g[n] \in X
    BY <2>1, <2>2, <2>4, <2>5
  <2> HIDE DEF g
  <2> QED
    BY <2>2, <2>6, <2>7
<1>3. N \in T
  <2> HIDE DEF T
  <2>1. \A k \in 0..N : k \in T
    BY <1>1, <1>2, Handed
  <2> QED
    BY <2>1
<1>4. PICK f : f = F(f, N) /\ \A n \in 0..N : f[n] \in X
  BY <1>3
<1>5. f = [n \in 0..N |-> f[n]] /\ f[0] = base /\ \A n \in 1..N : f[n] = step[n][f[n - 1]]
  <2>1. \A n \in 0..N : f[n] = F(f, N)[n]
    BY <1>4
  <2>2. 0 \in 0..N /\ \A n \in 1..N : n \in 0..N /\ n # 0
    OBVIOUS
  <2> QED
    BY <1>4, <2>1, <2>2
<1> QED
  BY <1>4, <1>5 DEF HasIterates

-----------------------------------------------------------------------------
(* Texts are put together of lines and split at line breaks.                *)
Buffers == Seq(Text) \ {<<>>}

LEMMA TextParts ==
    /\ <<>> \in Text /\ <<NL>> \in Text /\ <<SP>> \in Text
    /\ \A ch \in Char : <<ch>> \in Text
    /\ \A t \in Text : t \o <<>> = t /\ <<>> \o t = t
    /\ \A t \in Text : Len(t) \in Nat /\ DOMAIN t = 1..Len(t)
    /\ \A t \in Text : \A k \in 1..Len(t) : t[k] \in Char
    /\ \A t \in Text : \A u \in Text : t \o u \in Text /\ Len(t \o u) = Len(t) + Len(u)
    /\ \A t \in Text : \A ch \in Char : Append(t, ch) \in Text
<1>1. NL \in Char /\ SP \in Char
  BY DEF Char
<1>2. \A ch \in Char : <<ch>> \in Text
  BY DEF Text
<1>3. \A t \in Text : t \o <<>> = t /\ <<>> \o t = t
  BY ConcatEmptySeq DEF Text
<1>4. \A t \in Text : Len(t) \in Nat /\ DOMAIN t = 1..Len(t)
  BY LenProperties DEF Text
<1>5. \A t \in Text : \A k \in 1..Len(t) : t[k] \in Char
  BY ElementOfSeq DEF Text
<1>6. \A t \in Text : \A u \in Text : t \o u \in Text /\ Len(t \o u) = Len(t) + Len(u)
  BY ConcatProperties DEF Text
<1>7. \A t \in Text : \A ch \in Char : Append(t, ch) \in Text
  BY AppendProperties DEF Text
<1>8. <<>> \in Text
  BY EmptySeq DEF Text
<1>9. <<NL>> \in Text /\ <<SP>> \in Text
  BY <1>1, <1>2
<1> QED
  BY <1>2, <1>3, <1>4, <1>5, <1>6, <1>7, <1>8, <1>9

LEMMA LinesParts ==
    ASSUME NEW lines \in Buffers
    PROVE  /\ lines \in Seq(Text) /\ Len(lines) \in Nat /\ Len(lines) # 0
           /\ DOMAIN lines = 1..Len(lines)
           /\ \A n \in 1..Len(lines) : lines[n] \in Text
<1>1. lines \in Seq(Text) /\ lines # <<>>
  BY DEF Buffers
<1> QED
  BY <1>1, EmptySeq, LenProperties

LEMMA JoinedBy ==
    ASSUME NEW lines \in Buffers
    PROVE  \E f : /\ Joined(lines) = f[Len(lines)] /\ f[1] = lines[1]
                  /\ \A k \in 2..Len(lines) : f[k] = f[k - 1] \o <<NL>> \o lines[k]
                  /\ \A k \in 0..Len(lines) : f[k] \in Text
<1> DEFINE N == Len(lines)
           next(n, t) == IF n = 1 THEN lines[1] ELSE t \o <<NL>> \o lines[n]
           step == [n \in 1..N |-> [t \in Text |-> next(n, t)]]
           F(f) == [n \in 0..N |-> IF n = 0 THEN <<>>
                                   ELSE IF n = 1 THEN lines[1]
                                   ELSE f[n - 1] \o <<NL>> \o lines[n]]
           G == CHOOSE f : f = F(f)
<1>1. /\ N \in Nat \ {0} /\ \A n \in 1..N : lines[n] \in Text
      /\ <<>> \in Text /\ <<NL>> \in Text
  BY LinesParts, TextParts
<1>2. \A n \in 1..N : \A t \in Text : next(n, t) \in Text
  <2> HIDE DEF N
  <2>1. lines[1] \in Text
    BY <1>1
  <2> QED
    BY <1>1, <2>1, TextParts
<1> HIDE DEF N
<1>3. \A n \in 1..N : \A t \in Text : step[n][t] = next(n, t) /\ step[n][t] \in Text
  BY <1>2
<1>4. PICK f : /\ f = [n \in 0..N |-> f[n]] /\ f[0] = <<>>
               /\ \A n \in 1..N : f[n] = step[n][f[n - 1]]
               /\ \A n \in 0..N : f[n] \in Text
  <2> HIDE DEF step
  <2>1. \A n \in 1..N : \A t \in Text : step[n][t] \in Text
    BY <1>3
  <2> QED
    <3>1. HasIterates(N, Text, <<>>, step)
      BY <1>1, <2>1, Iterates
    <3> QED
      BY <3>1 DEF HasIterates
<1>5. f = F(f)
  <2>1. \A n \in 0..N : n # 0 => n \in 1..N /\ n - 1 \in 0..N
    BY <1>1
  <2> HIDE DEF step
  <2>2. \A n \in 0..N : n # 0 => step[n][f[n - 1]] = next(n, f[n - 1])
    BY <1>3, <1>4, <2>1
  <2>3. \A n \in 0..N : f[n] = F(f)[n]
    BY <1>4, <2>1, <2>2
  <2>4. F(f) = [n \in 0..N |-> F(f)[n]]
    OBVIOUS
  <2> HIDE DEF F
  <2> QED
    BY <1>4, <2>3, <2>4, SameFunction
<1>6. G = F(G)
  BY <1>5
<1>7. Joined(lines) = G[N]
  BY DEF Joined, N
<1> HIDE DEF G
<1>8. /\ 0 \in 0..N /\ 1 \in 0..N /\ \A k \in 1..N : k \in 0..N /\ k # 0
      /\ \A k \in 2..N : k \in 0..N /\ k # 0 /\ k # 1
  BY <1>1
<1>9. G[1] = lines[1] /\ \A k \in 2..N : G[k] = G[k - 1] \o <<NL>> \o lines[k]
  BY <1>6, <1>8
<1>11. /\ G[0] = f[0] /\ f[1] = lines[1]
       /\ \A k \in 2..N : f[k] = f[k - 1] \o <<NL>> \o lines[k]
  BY <1>5, <1>6, <1>8
<1>10. \A k \in 0..N : f[k] = G[k]
  <2> DEFINE T == {k \in 0..N : f[k] = G[k]}
  <2> HIDE DEF F
  <2>1. 0 \in T
    BY <1>8, <1>11
  <2>2. ASSUME NEW k \in 1..N, k - 1 \in T PROVE k \in T
    <3>1. k \in 0..N /\ f[k - 1] = G[k - 1] /\ (k = 1 \/ k \in 2..N)
      BY <1>1, <2>2
    <3>2. f[k] = G[k]
      BY <1>9, <1>11, <3>1
    <3> QED
      BY <3>1, <3>2
  <2> HIDE DEF T
  <2>3. \A k \in 0..N : k \in T
    BY <1>1, <2>1, <2>2, Handed
  <2> QED
    BY <2>3 DEF T
<1> QED
  BY <1>4, <1>7, <1>9, <1>10 DEF N

LEMMA JoinedOne ==
    ASSUME NEW line \in Text
    PROVE  <<line>> \in Buffers /\ Joined(<<line>>) = line
<1>1. <<line>> \in Buffers /\ Len(<<line>>) = 1 /\ <<line>>[1] = line
  BY DEF Buffers
<1> QED
  BY <1>1, JoinedBy

LEMMA JoinedMore ==
    ASSUME NEW lines \in Buffers, NEW line \in Text
    PROVE  /\ Append(lines, line) \in Buffers
           /\ Joined(Append(lines, line)) = Joined(lines) \o <<NL>> \o line
<1> DEFINE more == Append(lines, line)
           N == Len(lines)
<1>1. /\ more \in Buffers /\ Len(more) = N + 1 /\ N \in Nat \ {0}
      /\ more[N + 1] = line /\ \A k \in 1..N : more[k] = lines[k]
  BY DEF Buffers
<1> HIDE DEF more
<1>2. PICK f : /\ Joined(lines) = f[N] /\ f[1] = lines[1]
               /\ \A k \in 2..N : f[k] = f[k - 1] \o <<NL>> \o lines[k]
               /\ \A k \in 0..N : f[k] \in Text
  BY JoinedBy
<1>3. PICK g : /\ Joined(more) = g[N + 1] /\ g[1] = more[1]
               /\ \A k \in 2..(N + 1) : g[k] = g[k - 1] \o <<NL>> \o more[k]
  <2>1. PICK g : /\ Joined(more) = g[Len(more)] /\ g[1] = more[1]
                 /\ \A k \in 2..Len(more) : g[k] = g[k - 1] \o <<NL>> \o more[k]
    BY <1>1, JoinedBy
  <2> QED
    BY <1>1, <2>1
<1> HIDE DEF N
<1>4. g[N] = f[N]
  <2> DEFINE T == {k \in 0..N : k # 0 => f[k] = g[k]}
  <2>1. 0 \in T
    BY <1>1
  <2>2. ASSUME NEW k \in 1..N, k - 1 \in T PROVE k \in T
    <3>1. CASE k = 1
      BY <1>1, <1>2, <1>3, <3>1
    <3>2. CASE k # 1
      <4>1. k \in 2..N /\ k \in 2..(N + 1) /\ k - 1 # 0
        BY <1>1, <3>2
      <4>2. f[k - 1] = g[k - 1] /\ more[k] = lines[k]
        BY <1>1, <2>2, <4>1
      <4>3. f[k] = g[k]
        BY <1>2, <1>3, <4>1, <4>2
      <4> QED
        BY <4>1, <4>3
    <3> QED
      BY <3>1, <3>2
  <2>3. \A k \in 0..N : k \in T
    <3> HIDE DEF T
    <3> QED
      BY <1>1, <2>1, <2>2, Handed
  <2> QED
    BY <1>1, <2>3
<1>5. Joined(more) = g[N] \o <<NL>> \o more[N + 1]
  <2>1. N + 1 \in 2..(N + 1) /\ (N + 1) - 1 = N
    BY <1>1
  <2> QED
    BY <1>3, <2>1
<1>6. more \in Buffers /\ Joined(more) = Joined(lines) \o <<NL>> \o line
  BY <1>1, <1>2, <1>4, <1>5
<1> QED
  BY <1>6 DEF more

LEMMA JoinedText ==
    ASSUME NEW lines \in Buffers
    PROVE  Joined(lines) \in Text
<1>1. Len(lines) \in 0..Len(lines)
  BY DEF Buffers
<1> QED
  BY <1>1, JoinedBy

(* A character more in the lines is one more in their text.                 *)
LEMMA JoinedWithChar ==
    ASSUME NEW lines \in Buffers, NEW ch \in Char
    PROVE  /\ WithChar(lines, ch) \in Buffers
           /\ Joined(WithChar(lines, ch)) = Append(Joined(lines), ch)
<1> DEFINE N == Len(lines)
           last == lines[N]
           rest == SubSeq(lines, 1, N - 1)
           new == WithChar(lines, ch)
<1>1. /\ N \in Nat \ {0} /\ last \in Text /\ <<>> \in Text /\ <<NL>> \in Text
      /\ Append(last, ch) \in Text /\ Joined(lines) \in Text
  <2>1. N \in Nat \ {0} /\ \A k \in 1..N : lines[k] \in Text
    BY LinesParts
  <2> HIDE DEF N
  <2>2. last \in Text
    BY <2>1
  <2> HIDE DEF last
  <2> QED
    BY <2>1, <2>2, JoinedText, TextParts
<1>2. CASE ch = NL
  <2>1. new = Append(lines, <<>>)
    BY <1>2 DEF WithChar
  <2>2. Append(lines, <<>>) \in Buffers /\
        Joined(Append(lines, <<>>)) = Joined(lines) \o <<NL>> \o <<>>
    BY <1>1, JoinedMore
  <2>3. Joined(lines) \o <<NL>> \o <<>> = Append(Joined(lines), ch)
    <3>1. ASSUME NEW t \in Seq(Char) PROVE t \o <<NL>> \o <<>> = Append(t, NL)
      BY DEF NL
    <3> QED
      BY <1>1, <1>2, <3>1 DEF Text
  <2> QED
    BY <2>1, <2>2, <2>3
<1>3. CASE ch # NL /\ N = 1
  <2>1. lines = <<last>> /\ new = <<Append(last, ch)>>
    BY <1>1, <1>3 DEF WithChar, Buffers
  <2>2. Joined(lines) = last
    BY <1>1, <2>1, JoinedOne
  <2> QED
    BY <1>1, <2>1, <2>2, JoinedOne
<1>4. CASE ch # NL /\ N # 1
  <2>1. /\ rest \in Buffers /\ lines = Append(rest, last)
        /\ new = Append(rest, Append(last, ch))
    <3>1. new = [lines EXCEPT ![N] = Append(last, ch)]
      BY <1>1, <1>4 DEF WithChar, Buffers
    <3>2. rest \in Seq(Text) /\ Len(rest) = N - 1 /\ \A k \in 1..(N - 1) : rest[k] = lines[k]
      BY <1>1 DEF Buffers
    <3>3. new \in Seq(Text) /\ Len(new) = N /\ \A k \in 1..N :
              new[k] = IF k = N THEN Append(last, ch) ELSE lines[k]
      <4>1. N \in 1..Len(lines) /\ Append(last, ch) \in Text /\ lines \in Seq(Text)
        BY <1>1, LinesParts
      <4> HIDE DEF last
      <4> QED
        BY <3>1, <4>1, ExceptSeq
    <3>4. lines \in Seq(Text)
      BY DEF Buffers
    <3> HIDE DEF new, rest, last, N
    <3>5. Append(rest, last) \in Seq(Text) /\ Len(Append(rest, last)) = N
          /\ \A k \in 1..N : Append(rest, last)[k] = IF k = N THEN last ELSE lines[k]
      BY <1>1, <3>2
    <3>6. Append(rest, Append(last, ch)) \in Seq(Text)
          /\ Len(Append(rest, Append(last, ch))) = N
          /\ \A k \in 1..N : Append(rest, Append(last, ch))[k]
                             = IF k = N THEN Append(last, ch) ELSE lines[k]
      <4> DEFINE add == Append(last, ch)
      <4>1. add \in Text
        BY <1>1
      <4> HIDE DEF add
      <4>2. Append(rest, add) \in Seq(Text) /\ Len(Append(rest, add)) = N
            /\ \A k \in 1..N : Append(rest, add)[k] = IF k = N THEN add ELSE lines[k]
        BY <1>1, <3>2, <4>1
      <4> QED
        BY <4>2 DEF add
    <3>7. new = Append(rest, Append(last, ch))
      BY <3>3, <3>6, SeqEqual
    <3>8. lines = Append(rest, last)
      BY <3>4, <3>5, SeqEqual DEF last, N
    <3>9. rest # <<>>
      BY <1>1, <1>4, <3>2
    <3> QED
      BY <3>2, <3>7, <3>8, <3>9 DEF Buffers
  <2> HIDE DEF new, rest, last
  <2>2. /\ Joined(lines) = Joined(rest) \o <<NL>> \o last
        /\ new \in Buffers /\ Joined(new) = Joined(rest) \o <<NL>> \o Append(last, ch)
    BY <1>1, <2>1, JoinedMore
  <2>3. Joined(rest) \in Text
    BY <2>1, JoinedText
  <2>4. Joined(new) = Append(Joined(lines), ch)
    <3>1. ASSUME NEW a \in Seq(Char), NEW b \in Seq(Char), NEW c \in Seq(Char)
          PROVE  a \o b \o Append(c, ch) = Append(a \o b \o c, ch)
      <4>1. /\ a \o b \in Seq(Char) /\ Append(c, ch) = c \o <<ch>>
            /\ Append(a \o b \o c, ch) = (a \o b \o c) \o <<ch>>
            /\ <<ch>> \in Seq(Char)
        BY AppendIsConcat, ConcatProperties
      <4> QED
        BY <4>1, ConcatAssociative
    <3>2. /\ Joined(rest) \in Seq(Char) /\ <<NL>> \in Seq(Char)
          /\ last \in Seq(Char)
      BY <1>1, <2>3 DEF Text
    <3> QED
      BY <2>2, <3>1, <3>2
  <2> QED
    BY <2>2, <2>4 DEF new
<1> QED
  BY <1>1, <1>2, <1>3, <1>4

LEMMA SplitBy ==
    ASSUME NEW text \in Text
    PROVE  \E f : /\ Split(text) = f[Len(text)] /\ f[0] = EmptyBuffer
                  /\ \A k \in 1..Len(text) : f[k] = WithChar(f[k - 1], text[k])
                  /\ \A k \in 0..Len(text) : f[k] \in Buffers
<1> DEFINE N == Len(text)
           step == [n \in 1..N |-> [l \in Buffers |-> WithChar(l, text[n])]]
           F(f) == [n \in 0..N |-> IF n = 0 THEN EmptyBuffer
                                   ELSE WithChar(f[n - 1], text[n])]
           G == CHOOSE f : f = F(f)
<1>1. N \in Nat /\ \A n \in 1..N : text[n] \in Char
  BY TextParts
<1>2. EmptyBuffer \in Buffers
  BY JoinedOne, TextParts DEF EmptyBuffer
<1> HIDE DEF N
<1>3. \A n \in 1..N : \A l \in Buffers :
          step[n][l] = WithChar(l, text[n]) /\ step[n][l] \in Buffers
  BY <1>1, JoinedWithChar
<1>4. PICK f : /\ f = [n \in 0..N |-> f[n]] /\ f[0] = EmptyBuffer
               /\ \A n \in 1..N : f[n] = step[n][f[n - 1]]
               /\ \A n \in 0..N : f[n] \in Buffers
  <2> HIDE DEF step
  <2>1. \A n \in 1..N : \A l \in Buffers : step[n][l] \in Buffers
    BY <1>3
  <2> QED
    <3>1. HasIterates(N, Buffers, EmptyBuffer, step)
      BY <1>1, <1>2, <2>1, Iterates
    <3> QED
      BY <3>1 DEF HasIterates
<1>5. f = F(f)
  <2>1. \A n \in 0..N : n # 0 => n \in 1..N /\ n - 1 \in 0..N
    BY <1>1
  <2> HIDE DEF step
  <2>2. \A n \in 0..N : n # 0 => step[n][f[n - 1]] = WithChar(f[n - 1], text[n])
    BY <1>3, <1>4, <2>1
  <2>3. \A n \in 0..N : f[n] = F(f)[n]
    BY <1>4, <2>1, <2>2
  <2>4. F(f) = [n \in 0..N |-> F(f)[n]]
    OBVIOUS
  <2> HIDE DEF F
  <2> QED
    BY <1>4, <2>3, <2>4, SameFunction
<1>6. G = F(G)
  BY <1>5
<1>7. Split(text) = G[N]
  BY DEF Split, N
<1> HIDE DEF G
<1>8. 0 \in 0..N /\ \A k \in 1..N : k \in 0..N /\ k # 0
  BY <1>1
<1>9. G[0] = EmptyBuffer /\ \A k \in 1..N : G[k] = WithChar(G[k - 1], text[k])
  BY <1>6, <1>8
<1>11. f[0] = EmptyBuffer /\ \A k \in 1..N : f[k] = WithChar(f[k - 1], text[k])
  BY <1>5, <1>8
<1>10. \A k \in 0..N : f[k] = G[k]
  <2> DEFINE T == {k \in 0..N : f[k] = G[k]}
  <2> HIDE DEF F
  <2>1. 0 \in T
    BY <1>8, <1>9, <1>11
  <2>2. ASSUME NEW k \in 1..N, k - 1 \in T PROVE k \in T
    <3>1. k \in 0..N /\ f[k - 1] = G[k - 1]
      BY <1>8, <2>2
    <3>2. f[k] = G[k]
      BY <1>9, <1>11, <3>1
    <3> QED
      BY <3>1, <3>2
  <2> HIDE DEF T
  <2>3. \A k \in 0..N : k \in T
    BY <1>1, <2>1, <2>2, Handed
  <2> QED
    BY <2>3 DEF T
<1> QED
  BY <1>4, <1>7, <1>9, <1>10 DEF N

(* What is split and put together again is the text it was.                 *)
LEMMA JoinedSplit ==
    ASSUME NEW text \in Text
    PROVE  Split(text) \in Buffers /\ Joined(Split(text)) = text
<1> DEFINE N == Len(text)
           upto(k) == SubSeq(text, 1, k)
<1>1. /\ N \in Nat /\ upto(0) = <<>> /\ upto(N) = text
      /\ \A k \in 1..N : text[k] \in Char
  BY DEF Text
<1>2. ASSUME NEW k \in 1..N PROVE upto(k) = Append(upto(k - 1), text[k])
  BY <1>1 DEF Text
<1>3. PICK f : /\ Split(text) = f[N] /\ f[0] = EmptyBuffer
               /\ \A k \in 1..N : f[k] = WithChar(f[k - 1], text[k])
               /\ \A k \in 0..N : f[k] \in Buffers
  BY SplitBy
<1> HIDE DEF N, upto
<1> DEFINE T == {k \in 0..N : Joined(f[k]) = upto(k)}
<1>4. 0 \in T
  <2>1. Joined(<<<<>>>>) = <<>>
    BY JoinedOne, TextParts
  <2> QED
    BY <1>1, <1>3, <2>1 DEF EmptyBuffer
<1>5. ASSUME NEW k \in 1..N, k - 1 \in T PROVE k \in T
  <2>1. k - 1 \in 0..N /\ k \in 0..N
    BY <1>1
  <2>2. Joined(f[k]) = Append(Joined(f[k - 1]), text[k])
    BY <1>1, <1>3, <2>1, JoinedWithChar
  <2> QED
    BY <1>2, <1>5, <2>1, <2>2
<1>6. \A k \in 0..N : k \in T
  <2> HIDE DEF T
  <2> QED
    BY <1>1, <1>4, <1>5, Handed
<1>7. N \in 0..N
  BY <1>1
<1> QED
  BY <1>1, <1>3, <1>6, <1>7

-----------------------------------------------------------------------------
(* An editor: lines, a cursor inside them, a chain of undo entries.         *)
Entries == [row : {1}, col : Nat, before : Text, after : Text]
Placed(e) ==
    /\ e \in [lines : Buffers, row : {1}, col : Nat, kill : Text, undo : Seq(Entries)]
    /\ e.row <= Len(e.lines) /\ e.col <= Len(e.lines[e.row])
Linked(undo, text) ==
    /\ \A i \in 1..(Len(undo) - 1) : undo[i].after = undo[i + 1].before
    /\ undo # <<>> => undo[Len(undo)].after = text
Good(e) == Placed(e) /\ Linked(e.undo, Joined(e.lines))

(* An edit recorded on a chain makes a longer one, whether or not the       *)
(* oldest entry falls off.                                                  *)
LEMMA Pushed ==
    ASSUME NEW undo \in Seq(Entries), NEW entry \in Entries, Linked(undo, entry.before)
    PROVE  /\ Append(undo, entry) \in Seq(Entries)
           /\ Linked(Append(undo, entry), entry.after)
           /\ Record(undo, entry) \in Seq(Entries)
           /\ Linked(Record(undo, entry), entry.after)
<1> DEFINE longer == Append(undo, entry)
           N == Len(undo)
<1>1. /\ longer \in Seq(Entries) /\ Len(longer) = N + 1 /\ N \in Nat /\ longer # <<>>
      /\ longer[N + 1] = entry /\ \A k \in 1..N : longer[k] = undo[k]
  OBVIOUS
<1>2. undo # <<>> => N # 0
  OBVIOUS
<1>3. Append(undo, entry) = longer
  OBVIOUS
<1> HIDE DEF longer
<1>4. Linked(longer, entry.after)
  <2>1. ASSUME NEW i \in 1..N PROVE longer[i].after = longer[i + 1].before
    <3>1. CASE i = N
      <4>1. undo # <<>> /\ undo[N].after = entry.before
        BY <1>1, <3>1 DEF Linked
      <4> QED
        BY <1>1, <3>1, <4>1
    <3>2. CASE i # N
      <4>1. i \in 1..(N - 1) /\ i + 1 \in 1..N
        BY <1>1, <3>2
      <4>2. undo[i].after = undo[i + 1].before
        BY <4>1 DEF Linked
      <4> QED
        BY <1>1, <4>1, <4>2
    <3> QED
      BY <3>1, <3>2
  <2> HIDE DEF N
  <2> QED
    BY <1>1, <2>1 DEF Linked
<1>5. CASE Len(longer) > UndoMax
  <2> DEFINE rest == Tail(longer)
  <2>1. /\ rest \in Seq(Entries) /\ Len(rest) = N
        /\ \A i \in 1..N : rest[i] = longer[i + 1]
    <3> HIDE DEF N
    <3>1. /\ Tail(longer) \in Seq(Entries) /\ Len(Tail(longer)) = Len(longer) - 1
          /\ \A i \in 1..Len(Tail(longer)) : Tail(longer)[i] = longer[i + 1]
      BY <1>1, HeadTailProperties
    <3> QED
      BY <1>1, <3>1
  <2>2. Linked(rest, entry.after)
    <3> HIDE DEF rest, N
    <3>1. \A i \in 1..(N - 1) : rest[i].after = rest[i + 1].before
      <4>1. \A i \in 1..N : longer[i].after = longer[i + 1].before
        BY <1>1, <1>4 DEF Linked
      <4>2. \A i \in 1..(N - 1) : i \in 1..N /\ i + 1 \in 1..N
        BY <1>1
      <4> QED
        BY <2>1, <4>1, <4>2
    <3>2. rest # <<>> => rest[N] = entry
      <4>1. rest # <<>> => N \in 1..N
        BY <1>1, <2>1
      <4> QED
        BY <1>1, <2>1, <4>1
    <3> QED
      BY <2>1, <3>1, <3>2 DEF Linked
  <2>3. Record(undo, entry) = rest
    BY <1>3, <1>5 DEF Record
  <2> QED
    BY <1>1, <1>3, <1>4, <2>1, <2>2, <2>3
<1>6. CASE ~(Len(longer) > UndoMax)
  BY <1>1, <1>3, <1>4, <1>6 DEF Record
<1> QED
  BY <1>5, <1>6

LEMMA FrontOf ==
    ASSUME NEW S, NEW s \in Seq(S), s # <<>>
    PROVE  /\ Len(s) \in Nat \ {0} /\ s[Len(s)] \in S
           /\ Front(s) \in Seq(S) /\ Len(Front(s)) = Len(s) - 1
           /\ \A k \in 1..(Len(s) - 1) : Front(s)[k] = s[k]
<1>1. Len(s) \in Nat \ {0}
  OBVIOUS
<1>2. s[Len(s)] \in S
  BY <1>1, ElementOfSeq
<1>3. ASSUME NEW n \in 0..Len(s)
      PROVE  /\ SubSeq(s, 1, n) \in Seq(S) /\ Len(SubSeq(s, 1, n)) = n
             /\ \A k \in 1..n : SubSeq(s, 1, n)[k] = s[k]
  OBVIOUS
<1>4. Len(s) - 1 \in 0..Len(s)
  BY <1>1
<1> QED
  BY <1>1, <1>2, <1>3, <1>4 DEF Front

(* What an undo leaves is a chain that ends in the text it brings back.     *)
LEMMA Popped ==
    ASSUME NEW undo \in Seq(Entries), undo # <<>>, NEW text, Linked(undo, text)
    PROVE  /\ Last(undo) \in Entries /\ Front(undo) \in Seq(Entries)
           /\ Linked(Front(undo), Last(undo).before)
<1> DEFINE N == Len(undo)
           rest == Front(undo)
<1>1. N \in Nat \ {0} /\ undo[N] \in Entries /\ Last(undo) = undo[N]
  BY FrontOf DEF Last
<1>2. /\ rest \in Seq(Entries) /\ Len(rest) = N - 1
      /\ \A k \in 1..(N - 1) : rest[k] = undo[k]
  BY FrontOf
<1>3. Front(undo) = rest
  OBVIOUS
<1> HIDE DEF rest
<1>4. \A i \in 1..(Len(rest) - 1) : rest[i].after = rest[i + 1].before
  <2>1. \A i \in 1..(N - 2) : i \in 1..(N - 1) /\ i + 1 \in 1..(N - 1)
    BY <1>1
  <2> QED
    BY <1>1, <1>2, <2>1 DEF Linked
<1>5. rest # <<>> => rest[Len(rest)].after = undo[N].before
  <2>1. CASE rest # <<>>
    <3>1. N - 1 \in 1..(N - 1) /\ (N - 1) + 1 = N
      BY <1>1, <1>2, <2>1
    <3> QED
      BY <1>2, <3>1 DEF Linked
  <2> QED
    BY <2>1
<1> QED
  BY <1>1, <1>2, <1>3, <1>4, <1>5 DEF Linked

(* The parts of an editor.                                                  *)
LEMMA EditorParts ==
    ASSUME NEW e, Placed(e)
    PROVE  /\ e.lines \in Buffers /\ e.row = 1 /\ e.row \in 1..Len(e.lines) /\ AtLine(e) \in Text
           /\ e.lines[e.row] = AtLine(e) /\ Len(AtLine(e)) \in Nat
           /\ e.col \in 0..Len(AtLine(e)) /\ e.kill \in Text /\ e.undo \in Seq(Entries)
           /\ Joined(e.lines) \in Text /\ Before(e) \in Text /\ After(e) \in Text
           /\ Len(Before(e)) = e.col
<1>1. /\ e.lines \in Buffers /\ e.row \in {1} /\ e.row <= Len(e.lines)
      /\ e.col \in Nat /\ e.col <= Len(e.lines[e.row]) /\ e.kill \in Text
      /\ e.undo \in Seq(Entries)
  BY DEF Placed
<1>2. e.row \in 1..Len(e.lines)
  <2>1. Len(e.lines) \in Nat
    BY <1>1, LinesParts
  <2> QED
    BY <1>1, <2>1
<1>3. AtLine(e) \in Text /\ e.lines[e.row] = AtLine(e) /\ Len(AtLine(e)) \in Nat
  <2>1. e.lines[e.row] \in Text
    BY <1>1, <1>2, LinesParts
  <2> QED
    BY <2>1, TextParts DEF AtLine
<1>4. e.col \in 0..Len(AtLine(e))
  BY <1>1, <1>3
<1>5. Before(e) \in Text /\ After(e) \in Text /\ Len(Before(e)) = e.col
  <2>1. ASSUME NEW line \in Seq(Char), NEW col \in 0..Len(line)
        PROVE  /\ SubSeq(line, 1, col) \in Seq(Char) /\ Len(SubSeq(line, 1, col)) = col
               /\ SubSeq(line, col + 1, Len(line)) \in Seq(Char)
    OBVIOUS
  <2> QED
    BY <1>3, <1>4, <2>1 DEF Before, After, Text
<1>6. Joined(e.lines) \in Text
  BY <1>1, JoinedText
<1> QED
  BY <1>1, <1>2, <1>3, <1>4, <1>5, <1>6

Rewritten(e, lines, row, col, undo) ==
    [e EXCEPT !.lines = lines, !.row = row, !.col = col, !.undo = undo]
Emptied(e, lines, row, col, kill, undo) ==
    [e EXCEPT !.lines = lines, !.row = row, !.col = col, !.kill = kill, !.undo = undo]
LEMMA EditorExcept ==
    ASSUME NEW e, Placed(e), NEW lines, NEW row, NEW col, NEW kill, NEW undo
    PROVE  /\ Rewritten(e, lines, row, col, undo)
              = [lines |-> lines, row |-> row, col |-> col, kill |-> e.kill, undo |-> undo]
           /\ Emptied(e, lines, row, col, kill, undo)
              = [lines |-> lines, row |-> row, col |-> col, kill |-> kill, undo |-> undo]
<1>1. e = [lines |-> e.lines, row |-> e.row, col |-> e.col, kill |-> e.kill, undo |-> e.undo]
  BY DEF Placed
<1>2. \A l, r, c, k, u : \A x : x = [lines |-> l, row |-> r, col |-> c, kill |-> k, undo |-> u] =>
          /\ [x EXCEPT !.lines = lines]
             = [lines |-> lines, row |-> r, col |-> c, kill |-> k, undo |-> u]
          /\ [x EXCEPT !.row = row]
             = [lines |-> l, row |-> row, col |-> c, kill |-> k, undo |-> u]
          /\ [x EXCEPT !.col = col]
             = [lines |-> l, row |-> r, col |-> col, kill |-> k, undo |-> u]
          /\ [x EXCEPT !.kill = kill]
             = [lines |-> l, row |-> r, col |-> c, kill |-> kill, undo |-> u]
          /\ [x EXCEPT !.undo = undo]
             = [lines |-> l, row |-> r, col |-> c, kill |-> k, undo |-> undo]
  OBVIOUS
<1> DEFINE e1 == [e EXCEPT !.lines = lines]
           e2 == [e1 EXCEPT !.row = row]
           e3 == [e2 EXCEPT !.col = col]
           e4 == [e3 EXCEPT !.kill = kill]
<1>3. e1 = [lines |-> lines, row |-> e.row, col |-> e.col, kill |-> e.kill, undo |-> e.undo]
  BY <1>1, <1>2
<1> HIDE DEF e1
<1>4. e2 = [lines |-> lines, row |-> row, col |-> e.col, kill |-> e.kill, undo |-> e.undo]
  BY <1>2, <1>3
<1> HIDE DEF e2
<1>5. e3 = [lines |-> lines, row |-> row, col |-> col, kill |-> e.kill, undo |-> e.undo]
  BY <1>2, <1>4
<1> HIDE DEF e3
<1>6. e4 = [lines |-> lines, row |-> row, col |-> col, kill |-> kill, undo |-> e.undo]
  BY <1>2, <1>5
<1> HIDE DEF e4
<1>7. [e3 EXCEPT !.undo = undo]
      = [lines |-> lines, row |-> row, col |-> col, kill |-> e.kill, undo |-> undo]
  BY <1>2, <1>5
<1>8. [e4 EXCEPT !.undo = undo]
      = [lines |-> lines, row |-> row, col |-> col, kill |-> kill, undo |-> undo]
  BY <1>2, <1>6
<1> QED
  BY <1>7, <1>8 DEF e1, e2, e3, e4, Rewritten, Emptied

LEMMA RecordPlaced ==
    ASSUME NEW lines \in Buffers, NEW row \in {1}, NEW col \in Nat, NEW kill \in Text,
           NEW undo \in Seq(Entries), row <= Len(lines), col <= Len(lines[row]), NEW e,
           e = [lines |-> lines, row |-> row, col |-> col, kill |-> kill, undo |-> undo]
    PROVE  Placed(e) /\ e.lines = lines /\ e.undo = undo
BY DEF Placed

(* An edit that leaves the stack to _apply keeps the editor good.           *)
LEMMA AppliedGood ==
    ASSUME NEW e, Good(e), NEW next, Placed(next), next.undo = e.undo
    PROVE  Good(Applied(e, next))
<1> DEFINE entry == Entry(next.row, next.col, Joined(e.lines), Joined(next.lines))
<1>1. Placed(e) /\ Linked(e.undo, Joined(e.lines))
  BY DEF Good
<1>2. CASE next.lines = e.lines
  BY <1>1, <1>2 DEF Applied, Good
<1>3. CASE next.lines # e.lines
  <2>1. entry \in Entries /\ entry.before = Joined(e.lines)
        /\ entry.after = Joined(next.lines)
    <3>1. Joined(e.lines) \in Text /\ Joined(next.lines) \in Text
      BY <1>1, EditorParts
    <3>2. next.row \in {1} /\ next.col \in Nat
      BY DEF Placed
    <3> QED
      BY <3>1, <3>2 DEF Entry, Entries
  <2>2. e.undo \in Seq(Entries)
    BY <1>1, EditorParts
  <2> HIDE DEF entry
  <2>3. Record(e.undo, entry) \in Seq(Entries) /\ Linked(Record(e.undo, entry), entry.after)
    BY <1>1, <2>1, <2>2, Pushed
  <2>4. Applied(e, next) = [next EXCEPT !.undo = Record(e.undo, entry)]
    BY <1>3 DEF Applied, entry
  <2>5. [next EXCEPT !.undo = Record(e.undo, entry)].undo = Record(e.undo, entry)
        /\ [next EXCEPT !.undo = Record(e.undo, entry)].lines = next.lines
        /\ Placed([next EXCEPT !.undo = Record(e.undo, entry)])
    BY <2>3 DEF Placed
  <2> QED
    BY <2>1, <2>3, <2>4, <2>5 DEF Good
<1> QED
  BY <1>2, <1>3

(* A change of the cursor's line.                                           *)
LEMMA WithLinePlaced ==
    ASSUME NEW e, Placed(e), NEW line \in Text, NEW col \in 0..Len(line)
    PROVE  /\ Placed(WithLine(e, line, col)) /\ WithLine(e, line, col).undo = e.undo
           /\ \A kill \in Text : LET killed == [WithLine(e, line, col) EXCEPT !.kill = kill]
                                IN Placed(killed) /\ killed.undo = e.undo
<1> DEFINE lines == [e.lines EXCEPT ![e.row] = line]
           next == [e EXCEPT !.lines = lines, !.col = col]
<1>1. e.lines \in Buffers /\ e.row \in 1..Len(e.lines)
  BY EditorParts
<1>2. e.lines \in Seq(Text) /\ Len(e.lines) # 0 /\ Len(e.lines) \in Nat
  BY <1>1, LinesParts
<1>3. lines \in Seq(Text) /\ Len(lines) = Len(e.lines) /\ lines[e.row] = line
  BY <1>1, <1>2, ExceptSeq
<1>4. lines \in Buffers
  <2> HIDE DEF lines
  <2>1. lines # <<>>
    BY <1>2, <1>3
  <2> QED
    BY <1>3, <2>1 DEF Buffers
<1>5. WithLine(e, line, col) = next
  <2>1. e = [e EXCEPT !.row = @]
    BY DEF Placed
  <2> QED
    BY DEF WithLine
<1>6. Placed(next) /\ next.undo = e.undo
  <2> HIDE DEF lines
  <2>1. col \in Nat /\ col <= Len(line)
    BY TextParts
  <2> QED
    BY <1>1, <1>3, <1>4, <2>1 DEF Placed
<1> HIDE DEF next
<1>7. ASSUME NEW kill \in Text
      PROVE  Placed([next EXCEPT !.kill = kill]) /\ [next EXCEPT !.kill = kill].undo = e.undo
  BY <1>6 DEF Placed
<1> QED
  BY <1>5, <1>6, <1>7

(* The line up to a place and from one on.                                  *)
LEMMA LineParts ==
    ASSUME NEW e, Placed(e), NEW k \in 0..Len(AtLine(e))
    PROVE  /\ SubSeq(AtLine(e), 1, k) \in Text /\ Len(SubSeq(AtLine(e), 1, k)) = k
           /\ SubSeq(AtLine(e), k + 1, Len(AtLine(e))) \in Text
           /\ \A j \in 0..Len(AtLine(e)) : SubSeq(AtLine(e), k + 1, j) \in Text
<1>1. ASSUME NEW line \in Seq(Char), NEW col \in 0..Len(line)
      PROVE  /\ SubSeq(line, 1, col) \in Seq(Char) /\ Len(SubSeq(line, 1, col)) = col
             /\ SubSeq(line, col + 1, Len(line)) \in Seq(Char)
             /\ \A j \in 0..Len(line) : SubSeq(line, col + 1, j) \in Seq(Char)
  OBVIOUS
<1>2. AtLine(e) \in Seq(Char)
  BY EditorParts DEF Text
<1> QED
  BY <1>1, <1>2 DEF Text

LEMMA EditGood ==
    ASSUME NEW e, Good(e), NEW line \in Text, NEW col \in 0..Len(line), NEW kill \in Text
    PROVE  /\ Good(Applied(e, WithLine(e, line, col)))
           /\ Good(Applied(e, [WithLine(e, line, col) EXCEPT !.kill = kill]))
<1>1. Placed(e)
  BY DEF Good
<1> DEFINE next == WithLine(e, line, col)
           killed == [next EXCEPT !.kill = kill]
<1>2. /\ Placed(next) /\ next.undo = e.undo
      /\ Placed(killed) /\ killed.undo = e.undo
  BY <1>1, WithLinePlaced
<1> HIDE DEF next, killed
<1>3. Good(Applied(e, next)) /\ Good(Applied(e, killed))
  BY <1>2, AppliedGood
<1> QED
  BY <1>3 DEF next, killed

LEMMA InsertGood ==
    ASSUME NEW e, Good(e), NEW text \in Text
    PROVE  Good(Insert(e, text))
<1> DEFINE line == Before(e) \o text \o After(e)
<1>1. Placed(e)
  BY DEF Good
<1>2. /\ Before(e) \in Text /\ After(e) \in Text /\ Len(Before(e)) = e.col
      /\ e.col \in Nat /\ e.kill \in Text
  BY <1>1, EditorParts
<1>3. line \in Text /\ e.col + Len(text) \in 0..Len(line)
  BY <1>2, TextParts
<1> HIDE DEF line
<1>4. Good(Applied(e, WithLine(e, line, e.col + Len(text))))
  BY <1>2, <1>3, EditGood
<1> QED
  BY <1>4 DEF Insert, line

LEMMA ReplaceRangeGood ==
    ASSUME NEW e, Good(e), NEW from \in 0..Len(AtLine(e)), NEW to \in 0..Len(AtLine(e)),
           NEW text \in Text
    PROVE  Good(ReplaceRange(e, from, to, text))
<1> DEFINE front == SubSeq(AtLine(e), 1, from)
           back == SubSeq(AtLine(e), to + 1, Len(AtLine(e)))
           line == front \o text \o back
<1>1. Placed(e)
  BY DEF Good
<1>2. front \in Text /\ Len(front) = from /\ back \in Text /\ e.kill \in Text
  BY <1>1, EditorParts, LineParts
<1> HIDE DEF front, back
<1>3. line \in Text /\ from + Len(text) \in 0..Len(line)
  BY <1>2, TextParts
<1> HIDE DEF line
<1>4. Good(Applied(e, WithLine(e, line, from + Len(text))))
  BY <1>2, <1>3, EditGood
<1> QED
  BY <1>4 DEF ReplaceRange, line, front, back

LEMMA KillToLineStartGood ==
    ASSUME NEW e, Good(e)
    PROVE  Good(KillToLineStart(e))
<1>1. Placed(e)
  BY DEF Good
<1>2. After(e) \in Text /\ Before(e) \in Text /\ 0 \in 0..Len(After(e))
  BY <1>1, EditorParts, TextParts
<1> QED
  BY <1>2, EditGood DEF KillToLineStart

LEMMA KillPreviousWordGood ==
    ASSUME NEW e, Good(e)
    PROVE  Good(KillPreviousWord(e))
<1> DEFINE start == WordStart(e)
           line == SubSeq(AtLine(e), 1, start) \o After(e)
           kill == SubSeq(AtLine(e), start + 1, e.col)
<1>1. Placed(e)
  BY DEF Good
<1>2. e.col \in 0..Len(AtLine(e)) /\ After(e) \in Text /\ Len(AtLine(e)) \in Nat
  BY <1>1, EditorParts
<1>3. start \in 0..e.col
  <2> DEFINE ink == {i \in 1..e.col : AtLine(e)[i] # SP}
             gap == {i \in 1..e.col : AtLine(e)[i] = SP /\ ink # {} /\ i < Max(ink)}
  <2>1. start = IF gap = {} THEN 0 ELSE Max(gap)
    BY DEF WordStart
  <2>2. e.col \in Nat /\ gap \in SUBSET (0..e.col)
    BY <1>2
  <2> HIDE DEF gap, start
  <2>3. gap # {} => Max(gap) \in gap
    BY <2>2, Bounds
  <2> QED
    BY <2>1, <2>2, <2>3
<1> HIDE DEF start
<1>4. start \in 0..Len(AtLine(e))
  BY <1>2, <1>3
<1>5. /\ SubSeq(AtLine(e), 1, start) \in Text /\ Len(SubSeq(AtLine(e), 1, start)) = start
      /\ kill \in Text
  BY <1>1, <1>2, <1>4, LineParts
<1>6. line \in Text /\ start \in 0..Len(line)
  BY <1>2, <1>4, <1>5, TextParts
<1> HIDE DEF line, kill
<1>7. Good(Applied(e, [WithLine(e, line, start) EXCEPT !.kill = kill]))
  BY <1>5, <1>6, EditGood
<1> QED
  BY <1>7 DEF KillPreviousWord, line, kill, start

LEMMA DeleteLeftGood ==
    ASSUME NEW e, Good(e)
    PROVE  Good(DeleteLeft(e))
<1>1. Placed(e)
  BY DEF Good
<1>2. /\ e.lines \in Buffers /\ e.row \in 1..Len(e.lines) /\ e.col \in 0..Len(AtLine(e))
      /\ After(e) \in Text /\ Before(e) \in Text /\ Len(Before(e)) = e.col
      /\ e.kill \in Text /\ AtLine(e) \in Text
  BY <1>1, EditorParts
<1>3. CASE e.col > 0
  <2> DEFINE line == Front(Before(e)) \o After(e)
  <2>1. Front(Before(e)) \in Text /\ Len(Front(Before(e))) = e.col - 1
    <3>1. Before(e) \in Seq(Char) /\ Before(e) # <<>>
      BY <1>2, <1>3 DEF Text
    <3>2. Front(Before(e)) \in Seq(Char) /\ Len(Front(Before(e))) = Len(Before(e)) - 1
      BY <3>1, FrontOf
    <3> QED
      BY <1>2, <3>2 DEF Text
  <2>2. line \in Text /\ e.col - 1 \in 0..Len(line)
    <3>1. e.col \in Nat
      BY <1>2
    <3> QED
      BY <1>2, <1>3, <2>1, <3>1, TextParts
  <2> HIDE DEF line
  <2>3. Good(Applied(e, WithLine(e, line, e.col - 1)))
    BY <1>2, <2>2, EditGood
  <2> QED
    BY <1>3, <2>3 DEF DeleteLeft, line
<1>4. CASE e.col = 0
  BY <1>4 DEF DeleteLeft
<1>5. e.col \in Nat
  BY <1>2
<1> QED
  BY <1>3, <1>4, <1>5

LEMMA YankGood ==
    ASSUME NEW e, Good(e)
    PROVE  Good(Yank(e))
<1>1. e.kill \in Text
  BY EditorParts DEF Good
<1> QED
  BY <1>1, InsertGood DEF Yank

(* A cursor that may be anywhere is brought into the buffer.                *)
LEMMA ClampedPlaced ==
    ASSUME NEW lines \in Buffers, NEW row \in {1}, NEW col \in Int, NEW kill \in Text,
           NEW undo \in Seq(Entries), NEW e,
           e = [lines |-> lines, row |-> row, col |-> col, kill |-> kill, undo |-> undo]
    PROVE  Placed(Clamped(e)) /\ Clamped(e).lines = lines /\ Clamped(e).undo = undo
<1> DEFINE to == IF row > Len(lines) THEN Len(lines) ELSE row
           top == Len(lines[to])
<1>1. Len(lines) \in Nat \ {0} /\ \A n \in 1..Len(lines) : lines[n] \in Text
  BY LinesParts
<1>2. to \in 1..Len(lines) /\ to \in {1} /\ to <= Len(lines)
  BY <1>1
<1> HIDE DEF to
<1>3. top \in Nat
  BY <1>1, <1>2, TextParts
<1> HIDE DEF top
<1>4. Clamp(col, top) \in Nat /\ Clamp(col, top) <= top
  BY <1>3 DEF Clamp
<1>5. Clamped(e) = [e EXCEPT !.row = to, !.col = Clamp(col, top)]
  BY DEF Clamped, to, top
<1>6. /\ Clamped(e) \in [lines : Buffers, row : {1}, col : Nat, kill : Text,
                         undo : Seq(Entries)]
      /\ Clamped(e).lines = lines /\ Clamped(e).undo = undo /\ Clamped(e).row = to
      /\ Clamped(e).col = Clamp(col, top)
  BY <1>2, <1>4, <1>5
<1>7. Placed(Clamped(e))
  BY <1>2, <1>4, <1>6 DEF Placed, top
<1> QED
  BY <1>6, <1>7

LEMMA LeftGood ==
    ASSUME NEW e, Good(e)
    PROVE  Good(Left(e))
<1> DEFINE moved == [e EXCEPT !.col = e.col - 1]
<1>1. Placed(e) /\ Linked(e.undo, Joined(e.lines))
  BY DEF Good
<1>2. /\ e.lines \in Buffers /\ e.row \in {1} /\ e.col - 1 \in Int /\ e.kill \in Text
      /\ e.undo \in Seq(Entries)
  BY <1>1 DEF Placed
<1>3. moved = [lines |-> e.lines, row |-> e.row, col |-> e.col - 1,
               kill |-> e.kill, undo |-> e.undo]
  BY <1>1 DEF Placed
<1> HIDE DEF moved
<1>4. Placed(Clamped(moved)) /\ Clamped(moved).lines = e.lines /\ Clamped(moved).undo = e.undo
  BY <1>2, <1>3, ClampedPlaced
<1> QED
  BY <1>1, <1>4 DEF Good, Left, moved

(* Undo brings back the text its entry holds, one link up the chain.        *)
LEMMA UndoGood ==
    ASSUME NEW e, Good(e)
    PROVE  Good(Undo(e))
<1>1. Placed(e) /\ Linked(e.undo, Joined(e.lines)) /\ e.undo \in Seq(Entries)
      /\ e.kill \in Text
  BY EditorParts DEF Good
<1>2. CASE e.undo = <<>>
  BY <1>2 DEF Undo
<1>3. CASE e.undo # <<>>
  <2> DEFINE edit == Last(e.undo)
             back == [e EXCEPT !.lines = Split(edit.before), !.row = edit.row,
                               !.col = edit.col, !.undo = Front(e.undo)]
  <2>1. /\ edit \in Entries /\ Front(e.undo) \in Seq(Entries)
        /\ Linked(Front(e.undo), edit.before)
    BY <1>1, <1>3, Popped
  <2> HIDE DEF edit
  <2>2. edit.row \in {1} /\ edit.col \in Int /\ edit.before \in Text
    BY <2>1 DEF Entries
  <2>3. Split(edit.before) \in Buffers /\ Joined(Split(edit.before)) = edit.before
    BY <2>2, JoinedSplit
  <2>4. back = [lines |-> Split(edit.before), row |-> edit.row, col |-> edit.col,
                kill |-> e.kill, undo |-> Front(e.undo)]
    <3>1. back = Rewritten(e, Split(edit.before), edit.row, edit.col, Front(e.undo))
      BY DEF Rewritten
    <3> HIDE DEF back
    <3> QED
      BY <1>1, <3>1, EditorExcept
  <2> HIDE DEF back
  <2>5. /\ Placed(Clamped(back)) /\ Clamped(back).lines = Split(edit.before)
        /\ Clamped(back).undo = Front(e.undo)
    BY <1>1, <2>1, <2>2, <2>3, <2>4, ClampedPlaced
  <2>6. Undo(e) = Clamped(back)
    BY <1>3 DEF Undo, back, edit
  <2> QED
    BY <2>1, <2>3, <2>5, <2>6 DEF Good
<1> QED
  BY <1>2, <1>3

LEMMA SetTextGood ==
    ASSUME NEW e, Good(e), NEW text \in Text
    PROVE  Good(SetText(e, text))
<1> DEFINE old == Joined(e.lines)
           entry == Entry(1, 0, old, text)
           undo == IF old = text THEN e.undo ELSE Record(e.undo, entry)
           next == [e EXCEPT !.lines = <<text>>, !.row = 1, !.col = Len(text),
                             !.kill = <<>>, !.undo = undo]
<1>1. /\ Placed(e) /\ Linked(e.undo, old) /\ e.undo \in Seq(Entries) /\ old \in Text
  BY EditorParts DEF Good
<1>2. entry \in Entries /\ entry.before = old /\ entry.after = text
  BY <1>1 DEF Entry, Entries
<1>3. undo \in Seq(Entries) /\ Linked(undo, text)
  <2>1. CASE old = text
    BY <1>1, <2>1
  <2>2. CASE old # text
    <3> HIDE DEF entry, old
    <3>1. Record(e.undo, entry) \in Seq(Entries)
          /\ Linked(Record(e.undo, entry), entry.after)
      BY <1>1, <1>2, Pushed
    <3> QED
      BY <1>2, <2>2, <3>1
  <2> QED
    BY <2>1, <2>2
<1>4. SetText(e, text) = next
  BY DEF SetText
<1> HIDE DEF undo
<1>5. <<text>> \in Buffers /\ Joined(<<text>>) = text
  BY JoinedOne
<1>6. Placed(next) /\ next.lines = <<text>> /\ next.undo = undo
  <2>1. <<>> \in Text /\ Len(text) \in Nat /\ Len(<<text>>) = 1 /\ <<text>>[1] = text
    BY TextParts
  <2>2. next = [lines |-> <<text>>, row |-> 1, col |-> Len(text), kill |-> <<>>,
                undo |-> undo]
    <3>1. next = Emptied(e, <<text>>, 1, Len(text), <<>>, undo)
      BY DEF Emptied
    <3> HIDE DEF next
    <3> QED
      BY <1>1, <3>1, EditorExcept
  <2> HIDE DEF next
  <2>3. 1 \in {1} /\ 1 <= Len(<<text>>) /\ Len(text) <= Len(<<text>>[1])
    BY <2>1
  <2> QED
    BY <1>3, <1>5, <2>1, <2>2, <2>3, RecordPlaced
<1> HIDE DEF next
<1> QED
  BY <1>3, <1>4, <1>5, <1>6 DEF Good

LEMMA ClearGood ==
    ASSUME NEW e, Good(e)
    PROVE  Good(Clear(e))
<1> DEFINE entry == Entry(e.row, e.col, Joined(e.lines), <<>>)
           undo == Append(e.undo, entry)
           next == [e EXCEPT !.lines = EmptyBuffer, !.row = 1, !.col = 0, !.undo = undo]
<1>1. CASE e.lines = EmptyBuffer /\ e.undo = <<>>
  BY <1>1 DEF Clear
<1>2. CASE ~(e.lines = EmptyBuffer /\ e.undo = <<>>)
  <2>1. /\ Placed(e) /\ Linked(e.undo, Joined(e.lines)) /\ e.undo \in Seq(Entries)
        /\ Joined(e.lines) \in Text
    BY EditorParts DEF Good
  <2>2. <<>> \in Text
    BY TextParts
  <2>3. entry \in Entries /\ entry.before = Joined(e.lines) /\ entry.after = <<>>
    BY <2>1, <2>2 DEF Entry, Entries, Placed
  <2>4. Clear(e) = next
    BY <1>2 DEF Clear
  <2> HIDE DEF entry
  <2>5. undo \in Seq(Entries) /\ Linked(undo, <<>>)
    BY <2>1, <2>3, Pushed
  <2> HIDE DEF undo
  <2>6. EmptyBuffer \in Buffers /\ Joined(EmptyBuffer) = <<>>
    BY <2>2, JoinedOne DEF EmptyBuffer
  <2>7. Len(EmptyBuffer) = 1 /\ EmptyBuffer[1] = <<>> /\ Len(<<>>) = 0
    BY DEF EmptyBuffer
  <2>8. Placed(next) /\ next.lines = EmptyBuffer /\ next.undo = undo
    <3>1. e.kill \in Text
      BY <2>1 DEF Placed
    <3>2. next = [lines |-> EmptyBuffer, row |-> 1, col |-> 0, kill |-> e.kill, undo |-> undo]
      <4>1. next = Rewritten(e, EmptyBuffer, 1, 0, undo)
        BY DEF Rewritten
      <4> HIDE DEF next
      <4> QED
        BY <2>1, <4>1, EditorExcept
    <3> HIDE DEF next
    <3>3. 1 \in {1} /\ 0 \in Nat /\ 1 <= Len(EmptyBuffer) /\ 0 <= Len(EmptyBuffer[1])
      BY <2>7
    <3> QED
      BY <2>5, <2>6, <3>1, <3>2, <3>3, RecordPlaced
  <2> HIDE DEF next
  <2> QED
    BY <2>4, <2>5, <2>6, <2>8 DEF Good
<1> QED
  BY <1>1, <1>2

-----------------------------------------------------------------------------
(* The reader: one key of a buffer, then every key of it.                   *)
KeyNames == Char \cup {"up", "down", "left", "enter", "backspace", "tab", "space", "paste",
                       "paste-start", "unknown", "escape"}
Keys == [name : KeyNames, payload : Text]
Opens(buf, second) == Len(buf) >= 2 /\ buf[1] = ESC /\ buf[2] = second
Started(buf) == Opens(buf, "[")
Short(buf) == Opens(buf, "O")

(* What stands first in a buffer still does when more is behind it.         *)
LEMMA MoreBehind ==
    ASSUME NEW buf \in Text, NEW more \in Text
    PROVE  /\ buf \o more \in Text /\ Len(buf \o more) = Len(buf) + Len(more)
           /\ Len(buf) \in Nat /\ Len(more) \in Nat
           /\ \A i \in 1..Len(buf) : (buf \o more)[i] = buf[i]
           /\ \A i \in Nat \ {0} : \A j \in 0..Len(buf) :
                  SubSeq(buf \o more, i, j) = SubSeq(buf, i, j)
           /\ \A k \in 0..Len(buf) : SubSeq(buf \o more, k + 1, Len(buf \o more))
                                    = SubSeq(buf, k + 1, Len(buf)) \o more
<1>1. buf \in Seq(Char) /\ more \in Seq(Char) /\ Len(buf) \in Nat /\ Len(more) \in Nat
  BY TextParts DEF Text
<1> DEFINE all == buf \o more
<1>2. /\ all \in Seq(Char) /\ Len(all) = Len(buf) + Len(more)
      /\ \A i \in 1..(Len(buf) + Len(more)) : all[i] = IF i <= Len(buf) THEN buf[i]
                                                      ELSE more[i - Len(buf)]
  BY <1>1, ConcatProperties
<1> HIDE DEF all
<1>3. \A i \in 1..Len(buf) : all[i] = buf[i] /\ i \in 1..Len(all)
  BY <1>1, <1>2
<1>4. ASSUME NEW i \in Nat \ {0}, NEW j \in 0..Len(buf)
      PROVE  SubSeq(all, i, j) = SubSeq(buf, i, j)
  BY <1>1, <1>2, <1>3
<1>5. ASSUME NEW k \in 0..Len(buf)
      PROVE  SubSeq(all, k + 1, Len(all)) = SubSeq(buf, k + 1, Len(buf)) \o more
  <2> DEFINE rest == SubSeq(buf, k + 1, Len(buf))
             left == SubSeq(all, k + 1, Len(all))
  <2>1. /\ rest \in Seq(Char) /\ Len(rest) = Len(buf) - k
        /\ \A i \in 1..(Len(buf) - k) : rest[i] = buf[k + i]
    BY <1>1
  <2>2. /\ left \in Seq(Char) /\ Len(left) = Len(all) - k
        /\ \A i \in 1..(Len(all) - k) : left[i] = all[k + i]
    BY <1>1, <1>2
  <2> HIDE DEF rest, left
  <2>3. /\ rest \o more \in Seq(Char) /\ Len(rest \o more) = Len(rest) + Len(more)
        /\ \A i \in 1..(Len(rest) + Len(more)) : (rest \o more)[i] =
               IF i <= Len(rest) THEN rest[i] ELSE more[i - Len(rest)]
    BY <1>1, <2>1, ConcatProperties
  <2>4. ASSUME NEW i \in 1..Len(left) PROVE left[i] = (rest \o more)[i]
    <3>1. /\ i \in 1..(Len(all) - k) /\ k + i \in 1..(Len(buf) + Len(more))
          /\ i \in 1..(Len(rest) + Len(more))
          /\ k + i <= Len(buf) <=> i <= Len(rest)
          /\ i <= Len(rest) => i \in 1..(Len(buf) - k)
          /\ (k + i) - Len(buf) = i - Len(rest)
      BY <1>1, <1>2, <2>1, <2>2
    <3> QED
      BY <1>2, <2>1, <2>2, <2>3, <3>1
  <2>5. Len(left) = Len(rest \o more)
    BY <1>1, <1>2, <2>1, <2>2, <2>3
  <2>6. left = rest \o more
    BY <2>2, <2>3, <2>4, <2>5, SeqEqual
  <2> QED
    BY <2>6 DEF left, rest
<1> QED
  BY <1>1, <1>2, <1>3, <1>4, <1>5 DEF all, Text

LEMMA OpensPrefix ==
    ASSUME NEW buf \in Text, NEW second \in Char
    PROVE  IsPrefix(<<ESC, second>>, buf) <=> Opens(buf, second)
<1> DEFINE head == <<ESC, second>>
<1>1. buf \in Seq(Char) /\ Len(buf) \in Nat
  BY TextParts DEF Text
<1>2. ESC \in Char /\ second \in Char
  BY DEF Char, Unprinted, Printable
<1>3. head \in Seq(Char) /\ Len(head) = 2 /\ head[1] = ESC /\ head[2] = second
  BY <1>2
<1> HIDE DEF head
<1>4. SubSeq(head, 1, 2) = head
  BY <1>3, SubSeqFull
<1>5. CASE Len(buf) >= 2
  <2> DEFINE two == SubSeq(buf, 1, 2)
  <2>1. two \in Seq(Char) /\ Len(two) = 2 /\ two[1] = buf[1] /\ two[2] = buf[2]
    BY <1>1, <1>5
  <2>2. head = SubSeq(buf, 1, 2) <=> (buf[1] = ESC /\ buf[2] = second)
    <3>1. \A i \in 1..2 : i = 1 \/ i = 2
      OBVIOUS
    <3>2. CASE buf[1] = ESC /\ buf[2] = second
      <4> HIDE DEF two
      <4>1. \A i \in 1..Len(head) : head[i] = two[i]
        BY <1>3, <2>1, <3>1, <3>2
      <4>2. head = two
        BY <1>3, <2>1, <4>1, SeqEqual
      <4> QED
        BY <3>2, <4>2 DEF two
    <3>3. CASE head = two
      BY <1>3, <2>1, <3>3
    <3> QED
      BY <3>2, <3>3
  <2> QED
    BY <1>3, <1>4, <1>5, <2>2 DEF IsPrefix, Opens, head
<1>6. CASE ~(Len(buf) >= 2)
  BY <1>1, <1>3, <1>6 DEF IsPrefix, Opens, head
<1> QED
  BY <1>5, <1>6

(* The least of some places stays the least when the others come later.     *)
Earliest(A, n, B, m) ==
    /\ n \in Nat /\ A \in SUBSET (0..n) /\ m \in Nat /\ B \in SUBSET (0..m)
    /\ A \subseteq B /\ \A a \in A : \A b \in B : b <= a => b \in A
LEMMA SameLeast ==
    ASSUME NEW A, NEW n, NEW B, NEW m, Earliest(A, n, B, m), A # {}
    PROVE  Min(B) = Min(A)
<1> USE DEF Earliest
<1>1. Min(A) \in A /\ \A a \in A : Min(A) <= a
  BY Bounds
<1>2. Min(B) \in B /\ \A b \in B : Min(B) <= b
  BY Bounds
<1>3. Min(B) <= Min(A) /\ Min(B) \in A
  BY <1>1, <1>2
<1>4. Min(A) <= Min(B)
  BY <1>1, <1>3
<1>5. \A a \in A : a \in Int
  OBVIOUS
<1>6. Min(A) \in Int /\ Min(B) \in Int
  BY <1>1, <1>3, <1>5
<1> QED
  BY <1>3, <1>4, <1>6

LEMMA PasteEndPlace ==
    ASSUME NEW buf \in Text, NEW more \in Text
    PROVE  /\ PasteEndAt(buf) = 0 \/ PasteEndAt(buf) \in 1..(Len(buf) - 2)
           /\ PasteEndAt(buf) # 0 => PasteEndAt(buf \o more) = PasteEndAt(buf)
<1> DEFINE all == buf \o more
           A == {i \in 1..(Len(buf) - 2) : SubSeq(buf, i, i + 2) = PasteEnd}
           B == {i \in 1..(Len(all) - 2) : SubSeq(all, i, i + 2) = PasteEnd}
<1>1. /\ Len(buf) \in Nat /\ Len(all) \in Nat /\ Len(buf) <= Len(all)
      /\ \A i \in Nat \ {0} : \A j \in 0..Len(buf) : SubSeq(all, i, j) = SubSeq(buf, i, j)
  BY MoreBehind
<1> HIDE DEF all
<1>2. A \in SUBSET (0..Len(buf)) /\ B \in SUBSET (0..Len(all))
  BY <1>1
<1>3. \A i \in 1..(Len(buf) - 2) : SubSeq(all, i, i + 2) = SubSeq(buf, i, i + 2)
  <2>1. \A i \in 1..(Len(buf) - 2) : i \in Nat \ {0} /\ i + 2 \in 0..Len(buf)
    BY <1>1
  <2> QED
    BY <1>1, <2>1
<1>4. A \subseteq B
  <2>1. \A i \in 1..(Len(buf) - 2) : i \in 1..(Len(all) - 2)
    BY <1>1
  <2> QED
    BY <1>3, <2>1
<1>5. \A a \in A : \A b \in B : b <= a => b \in A
  BY <1>1, <1>3
<1>6. /\ PasteEndAt(buf) = (IF A = {} THEN 0 ELSE Min(A))
      /\ PasteEndAt(all) = IF B = {} THEN 0 ELSE Min(B)
  BY DEF PasteEndAt
<1>7. A # {} => Min(A) \in 1..(Len(buf) - 2)
  <2>1. A # {} => Min(A) \in A
    <3> HIDE DEF A
    <3> QED
      BY <1>1, <1>2, Bounds
  <2> QED
    BY <2>1
<1>8. A # {} => Min(B) = Min(A)
  <2> HIDE DEF A, B
  <2>1. Earliest(A, Len(buf), B, Len(all))
    BY <1>1, <1>2, <1>4, <1>5 DEF Earliest
  <2> QED
    BY <2>1, SameLeast
<1> HIDE DEF A, B
<1> QED
  BY <1>4, <1>6, <1>7, <1>8 DEF all

LEMMA FinalPlace ==
    ASSUME NEW buf \in Text, NEW more \in Text
    PROVE  /\ FinalAt(buf) = 0 \/ FinalAt(buf) \in 3..Len(buf)
           /\ FinalAt(buf) # 0 => FinalAt(buf \o more) = FinalAt(buf)
<1> DEFINE all == buf \o more
           A == {i \in 3..Len(buf) : buf[i] \in Finals}
           B == {i \in 3..Len(all) : all[i] \in Finals}
<1>1. /\ Len(buf) \in Nat /\ Len(all) \in Nat /\ Len(buf) <= Len(all)
      /\ \A i \in 1..Len(buf) : all[i] = buf[i]
  BY MoreBehind
<1> HIDE DEF all
<1>2. A \in SUBSET (0..Len(buf)) /\ B \in SUBSET (0..Len(all))
  BY <1>1
<1>3. \A i \in 3..Len(buf) : all[i] = buf[i] /\ i \in 3..Len(all)
  BY <1>1
<1>4. A \subseteq B
  BY <1>3
<1>5. \A a \in A : \A b \in B : b <= a => b \in A
  <2>1. \A a \in 3..Len(buf) : \A b \in 3..Len(all) : b <= a => b \in 3..Len(buf)
    BY <1>1
  <2> QED
    BY <1>3, <2>1
<1>6. FinalAt(buf) = (IF A = {} THEN 0 ELSE Min(A)) /\ FinalAt(all) = IF B = {} THEN 0 ELSE Min(B)
  BY DEF FinalAt
<1>7. A # {} => Min(A) \in 3..Len(buf)
  <2>1. A # {} => Min(A) \in A
    <3> HIDE DEF A
    <3> QED
      BY <1>1, <1>2, Bounds
  <2> QED
    BY <2>1
<1>8. A # {} => Min(B) = Min(A)
  <2> HIDE DEF A, B
  <2>1. Earliest(A, Len(buf), B, Len(all))
    BY <1>1, <1>2, <1>4, <1>5 DEF Earliest
  <2> QED
    BY <2>1, SameLeast
<1> HIDE DEF A, B
<1> QED
  BY <1>4, <1>6, <1>7, <1>8 DEF all

(* The five ways _take_one goes.                                            *)
LEMMA TakeOneWays ==
    ASSUME NEW buf \in Text, NEW pasting \in BOOLEAN
    PROVE  /\ buf = <<>> => TakeOne(buf, pasting) = NotYet(pasting)
           /\ buf # <<>> /\ pasting => TakeOne(buf, pasting) = TakePasted(buf)
           /\ Started(buf) /\ ~pasting => TakeOne(buf, pasting) = TakeSequence(buf)
           /\ Short(buf) /\ ~pasting => TakeOne(buf, pasting) = TakeShort(buf)
           /\ buf # <<>> /\ ~Started(buf) /\ ~Short(buf) /\ ~pasting
              => TakeOne(buf, pasting) = TakePlain(buf[1])
           /\ Started(buf) \/ Short(buf) => buf # <<>>
<1>1. /\ IsPrefix(<<ESC, "[">>, buf) <=> Started(buf)
      /\ IsPrefix(<<ESC, "O">>, buf) <=> Short(buf)
  <2>1. "[" \in Char /\ "O" \in Char
    BY DEF Char, Printable
  <2> QED
    BY <2>1, OpensPrefix DEF Started, Short
<1>2. /\ Started(buf) \/ Short(buf) => buf # <<>>
      /\ Started(buf) => ~Short(buf)
  <2>1. Len(<<>>) = 0 /\ ~(0 >= 2)
    BY EmptySeq
  <2>2. "[" # "O"
    OBVIOUS
  <2> QED
    BY <2>1, <2>2 DEF Started, Short, Opens
<1>3. CASE buf = <<>>
  BY <1>1, <1>2, <1>3 DEF TakeOne
<1>4. CASE buf # <<>> /\ pasting
  BY <1>1, <1>2, <1>4 DEF TakeOne
<1>5. CASE Started(buf) /\ ~pasting
  BY <1>1, <1>2, <1>5 DEF TakeOne
<1>6. CASE Short(buf) /\ ~pasting
  BY <1>1, <1>2, <1>6 DEF TakeOne
<1>7. CASE buf # <<>> /\ ~Started(buf) /\ ~Short(buf) /\ ~pasting
  BY <1>1, <1>2, <1>7 DEF TakeOne
<1> QED
  BY <1>2, <1>3, <1>4, <1>5, <1>6, <1>7

(* Nothing is taken, or a key and a byte at least.                          *)
TookNone(one) == one.key = <<>> /\ one.pasting \in BOOLEAN
TookKey(one, size) ==
    /\ \E key \in Keys : one.key = <<key>>
    /\ one.used \in 1..size /\ one.pasting \in BOOLEAN

LEMMA TakenKey ==
    ASSUME NEW name \in KeyNames, NEW payload \in Text, NEW size \in Nat, NEW used \in 1..size,
           NEW pasting \in BOOLEAN
    PROVE  TookKey(Taken(Keypress(name, payload), used, pasting), size)
<1>1. Keypress(name, payload) \in Keys
  BY DEF Keypress, Keys
<1>2. /\ Taken(Keypress(name, payload), used, pasting).key = <<Keypress(name, payload)>>
      /\ Taken(Keypress(name, payload), used, pasting).used = used
      /\ Taken(Keypress(name, payload), used, pasting).pasting = pasting
  BY DEF Taken
<1> QED
  BY <1>1, <1>2 DEF TookKey

LEMMA NothingYet ==
    ASSUME NEW pasting \in BOOLEAN
    PROVE  TookNone(NotYet(pasting))
BY DEF TookNone, NotYet

LEMMA TakePastedTakes ==
    ASSUME NEW buf \in Text
    PROVE  \/ TookNone(TakePasted(buf)) /\ PasteEndAt(buf) = 0
           \/ TookKey(TakePasted(buf), Len(buf)) /\ PasteEndAt(buf) # 0
<1> DEFINE at == PasteEndAt(buf)
<1>1. Len(buf) \in Nat /\ <<>> \in Text
  BY TextParts
<1>2. at = 0 \/ at \in 1..(Len(buf) - 2)
  BY <1>1, PasteEndPlace
<1> HIDE DEF at
<1>3. CASE at = 0
  BY <1>3, NothingYet DEF TakePasted, at
<1>4. CASE at # 0
  <2>1. at - 1 \in 0..Len(buf) /\ at + 2 \in 1..Len(buf)
    BY <1>1, <1>2, <1>4
  <2>2. SubSeq(buf, 1, at - 1) \in Text
    <3>1. \A t \in Seq(Char) : \A j \in 0..Len(t) : SubSeq(t, 1, j) \in Seq(Char)
      OBVIOUS
    <3> QED
      BY <2>1, <3>1 DEF Text
  <2>3. "paste" \in KeyNames
    BY DEF KeyNames
  <2>4. TookKey(Taken(Keypress("paste", SubSeq(buf, 1, at - 1)), at + 2, FALSE), Len(buf))
    BY <1>1, <2>1, <2>2, <2>3, TakenKey
  <2> QED
    BY <1>4, <2>4 DEF TakePasted, at
<1> QED
  BY <1>3, <1>4

LEMMA TakeSequenceTakes ==
    ASSUME NEW buf \in Text
    PROVE  \/ TookNone(TakeSequence(buf)) /\ FinalAt(buf) = 0
           \/ TookKey(TakeSequence(buf), Len(buf)) /\ FinalAt(buf) # 0
<1> DEFINE end == FinalAt(buf)
           final == buf[end]
<1>1. Len(buf) \in Nat /\ <<>> \in Text
  BY TextParts
<1>2. end = 0 \/ end \in 3..Len(buf)
  BY <1>1, FinalPlace
<1> HIDE DEF end
<1>3. CASE end = 0
  <2>1. TakeSequence(buf) = NotYet(FALSE)
    BY <1>3 DEF TakeSequence, end
  <2> QED
    BY <1>3, <2>1, NothingYet DEF end
<1>4. CASE end # 0
  <2>1. end \in 1..Len(buf) /\ end \in 0..Len(buf)
    BY <1>1, <1>2, <1>4
  <2> HIDE DEF final
  <2>2. CASE end = 3 /\ final = "P"
    <3>1. TakeSequence(buf) = Taken(Keypress("paste-start", <<>>), end, TRUE)
      BY <1>4, <2>2 DEF TakeSequence, end, final, FinalName
    <3>2. "paste-start" \in KeyNames
      BY DEF KeyNames
    <3> QED
      BY <1>1, <1>4, <2>1, <3>1, <3>2, TakenKey DEF end
  <2>3. CASE end = 3 /\ final # "P" /\ final \in DOMAIN FinalName
    <3>1. TakeSequence(buf) = Taken(Keypress(FinalName[final], <<>>), end, FALSE)
      BY <1>4, <2>3 DEF TakeSequence, end, final
    <3>2. FinalName[final] \in KeyNames
      BY <2>3 DEF FinalName, KeyNames
    <3> QED
      BY <1>1, <1>4, <2>1, <3>1, <3>2, TakenKey DEF end
  <2>4. CASE end # 3 \/ (final # "P" /\ final \notin DOMAIN FinalName)
    <3>1. TakeSequence(buf) = Taken(Keypress("unknown", SubSeq(buf, 1, end)), end, FALSE)
      BY <1>4, <2>4 DEF TakeSequence, end, final
    <3>2. "unknown" \in KeyNames
      BY DEF KeyNames
    <3>3. SubSeq(buf, 1, end) \in Text
      <4>1. \A t \in Seq(Char) : \A j \in 0..Len(t) : SubSeq(t, 1, j) \in Seq(Char)
        OBVIOUS
      <4> QED
        BY <2>1, <4>1 DEF Text
    <3> QED
      BY <1>1, <1>4, <2>1, <3>1, <3>2, <3>3, TakenKey DEF end
  <2> QED
    BY <2>2, <2>3, <2>4
<1> QED
  BY <1>3, <1>4

LEMMA TakeShortTakes ==
    ASSUME NEW buf \in Text
    PROVE  \/ TookNone(TakeShort(buf)) /\ Len(buf) < 3
           \/ TookKey(TakeShort(buf), Len(buf)) /\ Len(buf) >= 3
<1>1. Len(buf) \in Nat /\ <<>> \in Text
  BY TextParts
<1>2. CASE Len(buf) < 3
  <2>0. ~(Len(buf) >= 3)
    BY <1>1, <1>2
  <2>1. TakeShort(buf) = NotYet(FALSE)
    BY <1>2, <2>0 DEF TakeShort
  <2> QED
    BY <1>2, <2>1, NothingYet
<1>3. CASE Len(buf) >= 3
  <2>1. 3 \in 1..Len(buf) /\ ~(Len(buf) < 3)
    BY <1>1, <1>3
  <2>2. CASE buf[3] \in DOMAIN FinalName
    <3>1. TakeShort(buf) = Taken(Keypress(FinalName[buf[3]], <<>>), 3, FALSE)
      BY <1>3, <2>1, <2>2 DEF TakeShort
    <3>2. FinalName[buf[3]] \in KeyNames
      BY <2>2 DEF FinalName, KeyNames
    <3> QED
      BY <1>1, <1>3, <2>1, <3>1, <3>2, TakenKey
  <2>3. CASE buf[3] \notin DOMAIN FinalName
    <3>1. TakeShort(buf) = Taken(Keypress("unknown", SubSeq(buf, 1, 3)), 3, FALSE)
      BY <2>1, <2>3 DEF TakeShort
    <3>2. "unknown" \in KeyNames
      BY DEF KeyNames
    <3>3. SubSeq(buf, 1, 3) \in Text
      <4>1. \A t \in Seq(Char) : \A j \in 1..Len(t) : SubSeq(t, 1, j) \in Seq(Char)
        OBVIOUS
      <4> QED
        BY <2>1, <4>1 DEF Text
    <3> QED
      BY <1>1, <1>3, <2>1, <3>1, <3>2, <3>3, TakenKey
  <2> QED
    BY <2>2, <2>3
<1> QED
  BY <1>1, <1>2, <1>3

LEMMA TakePlainTakes ==
    ASSUME NEW byte \in Char, NEW size \in Nat \ {0}
    PROVE  TookKey(TakePlain(byte), size)
<1>1. 1 \in 1..size /\ <<>> \in Text /\ size \in Nat
  BY TextParts
<1>2. CASE byte = ESC
  <2>1. TakePlain(byte) = Taken(Keypress("escape", <<>>), 1, FALSE)
    BY <1>2 DEF TakePlain, ESC, Controls
  <2>2. "escape" \in KeyNames
    BY DEF KeyNames
  <2> QED
    BY <1>1, <2>1, <2>2, TakenKey
<1>3. CASE byte # ESC /\ byte \in DOMAIN Controls
  <2>1. TakePlain(byte) = Taken(Keypress(Controls[byte], <<>>), 1, FALSE)
    BY <1>3 DEF TakePlain
  <2>2. Controls[byte] \in KeyNames
    BY <1>3 DEF Controls, KeyNames
  <2> QED
    BY <1>1, <2>1, <2>2, TakenKey
<1>4. CASE byte # ESC /\ byte \notin DOMAIN Controls
  <2>1. TakePlain(byte) = Taken(Keypress(byte, <<>>), 1, FALSE)
    BY <1>4 DEF TakePlain
  <2>2. byte \in KeyNames
    BY DEF KeyNames
  <2> QED
    BY <1>1, <2>1, <2>2, TakenKey
<1> QED
  BY <1>2, <1>3, <1>4

LEMMA TakeOneTakes ==
    ASSUME NEW buf \in Text, NEW pasting \in BOOLEAN
    PROVE  \/ TookNone(TakeOne(buf, pasting))
           \/ TookKey(TakeOne(buf, pasting), Len(buf)) /\ buf # <<>>
<1>1. CASE buf = <<>>
  BY <1>1, TakeOneWays, NothingYet
<1>2. CASE buf # <<>> /\ pasting
  BY <1>2, TakeOneWays, TakePastedTakes
<1>3. CASE Started(buf) /\ ~pasting
  BY <1>3, TakeOneWays, TakeSequenceTakes
<1>5. CASE Short(buf) /\ ~pasting
  BY <1>5, TakeOneWays, TakeShortTakes
<1>4. CASE buf # <<>> /\ ~Started(buf) /\ ~Short(buf) /\ ~pasting
  <2>1. buf[1] \in Char /\ Len(buf) \in Nat \ {0}
    <3>1. buf \in Seq(Char)
      BY DEF Text
    <3> QED
      BY <1>4, <3>1
  <2> QED
    BY <1>4, <2>1, TakeOneWays, TakePlainTakes
<1> QED
  BY <1>1, <1>2, <1>3, <1>4, <1>5

(* A key that is taken is the one taken with more bytes behind it, but for  *)
(* a lone ESC, which what comes next may make the start of a sequence.      *)
Apart(more) == more # <<>> => more[1] \notin {"[", "O"}
LEMMA TakeOneMore ==
    ASSUME NEW buf \in Text, NEW pasting \in BOOLEAN, NEW more \in Text,
           ~TookNone(TakeOne(buf, pasting)), pasting \/ buf # <<ESC>> \/ Apart(more)
    PROVE  TakeOne(buf \o more, pasting) = TakeOne(buf, pasting)
<1> DEFINE all == buf \o more
<1>1. /\ all \in Text /\ Len(buf) \in Nat /\ Len(all) = Len(buf) + Len(more)
      /\ Len(more) \in Nat /\ \A i \in 1..Len(buf) : all[i] = buf[i]
      /\ \A j \in 0..Len(buf) : SubSeq(all, 1, j) = SubSeq(buf, 1, j)
  <2>1. /\ all \in Text /\ Len(buf) \in Nat /\ Len(all) = Len(buf) + Len(more)
        /\ Len(more) \in Nat /\ \A i \in 1..Len(buf) : all[i] = buf[i]
        /\ \A i \in Nat \ {0} : \A j \in 0..Len(buf) : SubSeq(all, i, j) = SubSeq(buf, i, j)
    BY MoreBehind
  <2>2. 1 \in Nat \ {0}
    OBVIOUS
  <2> HIDE DEF all
  <2> QED
    BY <2>1, <2>2
<1>9. Len(buf) >= 2 => Len(all) >= 2 /\ all[1] = buf[1] /\ all[2] = buf[2]
  <2> DEFINE n == Len(buf)
             m == Len(more)
  <2>1. n \in Nat /\ m \in Nat /\ Len(all) = n + m /\ \A i \in 1..n : all[i] = buf[i]
    BY <1>1
  <2> HIDE DEF n, m, all
  <2>2. n >= 2 => n + m >= 2 /\ 1 \in 1..n /\ 2 \in 1..n
    BY <2>1
  <2> QED
    BY <2>1, <2>2 DEF n
<1>2. buf # <<>>
  BY TakeOneWays, NothingYet
<1>3. Len(buf) # 0 /\ Len(buf) >= 1 /\ buf \in Seq(Char)
  <2>1. buf \in Seq(Char)
    BY DEF Text
  <2> QED
    BY <1>2, <2>1
<1>4. (PasteEndAt(buf) # 0 => PasteEndAt(all) = PasteEndAt(buf))
      /\ (FinalAt(buf) # 0 => FinalAt(all) = FinalAt(buf))
  BY PasteEndPlace, FinalPlace
<1> HIDE DEF all
<1>5. all # <<>>
  <2>1. all = <<>> => Len(all) = 0
    BY EmptySeq
  <2> QED
    BY <1>1, <1>3, <2>1
<1>6. CASE pasting
  <2>1. TakeOne(buf, pasting) = TakePasted(buf) /\ TakeOne(all, pasting) = TakePasted(all)
    BY <1>1, <1>2, <1>5, <1>6, TakeOneWays
  <2>2. PasteEndAt(buf) # 0 /\ PasteEndAt(buf) - 1 \in 0..Len(buf)
    <3>1. PasteEndAt(buf) # 0
      BY <2>1, TakePastedTakes
    <3>2. PasteEndAt(buf) \in 1..(Len(buf) - 2)
      BY <1>1, <3>1, PasteEndPlace
    <3> QED
      BY <1>1, <3>1, <3>2
  <2>3. TakePasted(all) = TakePasted(buf)
    BY <1>1, <1>4, <2>2 DEF TakePasted
  <2> QED
    BY <2>1, <2>3 DEF all
<1>7. CASE ~pasting /\ Started(buf)
  <2>1. Started(all)
    BY <1>7, <1>9 DEF Started, Opens
  <2>2. TakeOne(buf, pasting) = TakeSequence(buf) /\ TakeOne(all, pasting) = TakeSequence(all)
    BY <1>1, <1>7, <2>1, TakeOneWays
  <2>3. FinalAt(buf) # 0 /\ FinalAt(buf) \in 1..Len(buf) /\ FinalAt(buf) \in 0..Len(buf)
    <3>1. FinalAt(buf) # 0
      BY <2>2, TakeSequenceTakes
    <3>2. FinalAt(buf) \in 3..Len(buf)
      BY <1>1, <3>1, FinalPlace
    <3> QED
      BY <1>1, <3>1, <3>2
  <2>4. /\ FinalAt(all) = FinalAt(buf) /\ all[FinalAt(buf)] = buf[FinalAt(buf)]
        /\ SubSeq(all, 1, FinalAt(buf)) = SubSeq(buf, 1, FinalAt(buf))
    BY <1>1, <1>4, <2>3
  <2>5. TakeSequence(all) = TakeSequence(buf)
    BY <2>4 DEF TakeSequence
  <2> QED
    BY <2>2, <2>5 DEF all
<1>8. CASE ~pasting /\ Short(buf)
  <2>1. Short(all)
    BY <1>8, <1>9 DEF Short, Opens
  <2>2. TakeOne(buf, pasting) = TakeShort(buf) /\ TakeOne(all, pasting) = TakeShort(all)
    BY <1>1, <1>8, <2>1, TakeOneWays
  <2>3. Len(buf) >= 3 /\ 3 \in 1..Len(buf) /\ 3 \in 0..Len(buf) /\ Len(all) >= 3
    <3> DEFINE n == Len(buf)
               m == Len(more)
    <3>1. n >= 3
      BY <2>2, TakeShortTakes
    <3>2. n \in Nat /\ m \in Nat /\ Len(all) = n + m
      BY <1>1
    <3> HIDE DEF n, m
    <3>3. 3 \in 1..n /\ 3 \in 0..n /\ n + m >= 3
      BY <3>1, <3>2
    <3> QED
      BY <3>1, <3>2, <3>3 DEF n
  <2>4. /\ all[3] = buf[3] /\ SubSeq(all, 1, 3) = SubSeq(buf, 1, 3)
        /\ ~(Len(buf) < 3) /\ ~(Len(all) < 3)
    <3>1. Len(all) \in Nat
      BY <1>1, TextParts
    <3> QED
      BY <1>1, <2>3, <3>1
  <2>5. TakeShort(all) = TakeShort(buf)
    BY <2>3, <2>4 DEF TakeShort
  <2> QED
    BY <2>2, <2>5 DEF all
<1>10. CASE ~pasting /\ ~Started(buf) /\ ~Short(buf)
  <2>1. ~Started(all) /\ ~Short(all)
    <3>1. CASE Len(buf) >= 2
      BY <1>9, <1>10, <3>1 DEF Started, Short, Opens
    <3>2. CASE ~(Len(buf) >= 2)
      <4>1. Len(buf) = 1
        <5> DEFINE n == Len(buf)
        <5>1. n \in Nat /\ n # 0 /\ ~(n >= 2)
          BY <1>1, <1>3, <3>2
        <5> HIDE DEF n
        <5>2. n = 1
          BY <5>1
        <5> QED
          BY <5>2 DEF n
      <4>2. buf = <<buf[1]>>
        BY <1>3, <4>1
      <4>3. CASE buf[1] # ESC
        BY <1>1, <4>1, <4>3 DEF Started, Short, Opens
      <4>4. CASE buf[1] = ESC
        <5>1. Apart(more)
          BY <1>10, <4>2, <4>4
        <5>2. CASE Len(all) >= 2
          <6>1. /\ more \in Seq(Char) /\ more # <<>> /\ all[2] = more[1]
            <7>1. more \in Seq(Char) /\ Len(more) >= 1
              BY <1>1, <4>1, <5>2 DEF Text
            <7>2. (buf \o more)[2] = more[1]
              <8>1. \A k \in 1..(Len(buf) + Len(more)) :
                        (buf \o more)[k] = IF k <= Len(buf) THEN buf[k] ELSE more[k - Len(buf)]
                BY <1>3, <7>1, ConcatProperties
              <8>2. Len(more) \in Nat
                BY <1>1
              <8> DEFINE m == Len(more)
              <8> HIDE DEF m
              <8>3. 2 \in 1..(1 + m)
                BY <7>1, <8>2 DEF m
              <8>4. ~(2 <= Len(buf)) /\ 2 - Len(buf) = 1
                BY <4>1
              <8> QED
                BY <4>1, <8>1, <8>3, <8>4 DEF m
            <7>3. more # <<>>
              <8>1. Len(<<>>) = 0
                BY EmptySeq
              <8> QED
                BY <7>1, <8>1
            <7> QED
              BY <7>1, <7>2, <7>3 DEF all
          <6>2. all[2] \notin {"[", "O"}
            BY <5>1, <6>1 DEF Apart
          <6> QED
            BY <6>2 DEF Started, Short, Opens
        <5>3. CASE ~(Len(all) >= 2)
          BY <5>3 DEF Started, Short, Opens
        <5> QED
          BY <5>2, <5>3
      <4> QED
        BY <4>3, <4>4
    <3> QED
      BY <3>1, <3>2
  <2>2. all[1] = buf[1]
    BY <1>1, <1>3
  <2>3. TakeOne(buf, pasting) = TakePlain(buf[1]) /\ TakeOne(all, pasting) = TakePlain(all[1])
    BY <1>1, <1>2, <1>5, <1>10, <2>1, TakeOneWays
  <2> QED
    BY <2>2, <2>3 DEF all
<1> QED
  BY <1>6, <1>7, <1>8, <1>10

-----------------------------------------------------------------------------
(* Taking every key there is.                                               *)
States == [keys : Seq(Keys), buf : Text, pasting : BOOLEAN]
Stuck(s) == TookNone(TakeOne(s.buf, s.pasting))
TakeAll(s) == TakeTimes(s, Len(s.buf))

LEMMA TakeNextTakes ==
    ASSUME NEW s \in States
    PROVE  /\ Len(s.buf) \in Nat
           /\ Stuck(s) => TakeNext(s) = s
           /\ ~Stuck(s) => /\ TookKey(TakeOne(s.buf, s.pasting), Len(s.buf)) /\ s.buf # <<>>
                           /\ TakeNext(s) =
                                 [keys |-> s.keys \o TakeOne(s.buf, s.pasting).key,
                                  buf |-> SubSeq(s.buf, TakeOne(s.buf, s.pasting).used + 1,
                                                 Len(s.buf)),
                                  pasting |-> TakeOne(s.buf, s.pasting).pasting]
                           /\ Len(TakeNext(s).buf) < Len(s.buf)
           /\ TakeNext(s) \in States
<1> DEFINE one == TakeOne(s.buf, s.pasting)
           next == [keys |-> s.keys \o one.key,
                    buf |-> SubSeq(s.buf, one.used + 1, Len(s.buf)), pasting |-> one.pasting]
<1>1. /\ s.keys \in Seq(Keys) /\ s.buf \in Seq(Char) /\ s.buf \in Text /\ s.pasting \in BOOLEAN
      /\ Len(s.buf) \in Nat
  <2>1. s.keys \in Seq(Keys) /\ s.buf \in Text /\ s.pasting \in BOOLEAN
    BY DEF States
  <2> QED
    BY <2>1, TextParts DEF Text
<1>2. TookNone(one) \/ (TookKey(one, Len(s.buf)) /\ s.buf # <<>>)
  BY <1>1, TakeOneTakes
<1>3. CASE Stuck(s)
  <2>1. one.key = <<>>
    BY <1>3 DEF Stuck, TookNone
  <2> QED
    BY <1>1, <1>3, <2>1 DEF TakeNext
<1>4. CASE ~Stuck(s)
  <2>1. TookKey(one, Len(s.buf)) /\ s.buf # <<>>
    BY <1>2, <1>4 DEF Stuck
  <2> HIDE DEF one
  <2>2. PICK key \in Keys : one.key = <<key>>
    BY <2>1 DEF TookKey
  <2>3. one.key # <<>> /\ one.used \in 1..Len(s.buf) /\ one.pasting \in BOOLEAN
    BY <2>1, <2>2 DEF TookKey
  <2>4. TakeNext(s) = next
    BY <2>3 DEF TakeNext, one
  <2>5. s.keys \o one.key \in Seq(Keys)
    <3>1. <<key>> \in Seq(Keys)
      OBVIOUS
    <3> QED
      BY <1>1, <2>2, <3>1, ConcatProperties
  <2>6. /\ SubSeq(s.buf, one.used + 1, Len(s.buf)) \in Text
        /\ Len(SubSeq(s.buf, one.used + 1, Len(s.buf))) < Len(s.buf)
    <3>1. ASSUME NEW t \in Seq(Char), NEW k \in 1..Len(t)
          PROVE  SubSeq(t, k + 1, Len(t)) \in Seq(Char) /\ Len(SubSeq(t, k + 1, Len(t))) < Len(t)
      OBVIOUS
    <3> QED
      BY <1>1, <2>3, <3>1 DEF Text
  <2>7. next \in States /\ next.buf = SubSeq(s.buf, one.used + 1, Len(s.buf))
    BY <2>3, <2>5, <2>6 DEF States
  <2> QED
    BY <1>1, <1>4, <2>1, <2>4, <2>6, <2>7 DEF one
<1> QED
  BY <1>3, <1>4

LEMMA TakeTimesBy ==
    ASSUME NEW s \in States, NEW N \in Nat
    PROVE  \E f : /\ TakeTimes(s, N) = f[N] /\ f[0] = s
                  /\ \A k \in 1..N : f[k] = TakeNext(f[k - 1])
                  /\ \A k \in 0..N : f[k] \in States
<1> DEFINE step == [n \in 1..N |-> [x \in States |-> TakeNext(x)]]
           F(f) == [n \in 0..N |-> IF n = 0 THEN s ELSE TakeNext(f[n - 1])]
           G == CHOOSE f : f = F(f)
<1>1. \A n \in 1..N : \A x \in States : step[n][x] = TakeNext(x) /\ step[n][x] \in States
  BY TakeNextTakes
<1>2. PICK f : /\ f = [n \in 0..N |-> f[n]] /\ f[0] = s
               /\ \A n \in 1..N : f[n] = step[n][f[n - 1]]
               /\ \A n \in 0..N : f[n] \in States
  <2> HIDE DEF step
  <2>1. \A n \in 1..N : \A x \in States : step[n][x] \in States
    BY <1>1
  <2>2. HasIterates(N, States, s, step)
    BY <2>1, Iterates
  <2> QED
    BY <2>2 DEF HasIterates
<1>3. f = F(f)
  <2>1. \A n \in 0..N : n # 0 => n \in 1..N /\ n - 1 \in 0..N
    OBVIOUS
  <2> HIDE DEF step
  <2>2. \A n \in 0..N : n # 0 => step[n][f[n - 1]] = TakeNext(f[n - 1])
    BY <1>1, <1>2, <2>1
  <2>3. \A n \in 0..N : f[n] = F(f)[n]
    BY <1>2, <2>1, <2>2
  <2>4. F(f) = [n \in 0..N |-> F(f)[n]]
    OBVIOUS
  <2> HIDE DEF F
  <2> QED
    BY <1>2, <2>3, <2>4, SameFunction
<1>4. G = F(G)
  BY <1>3
<1>5. TakeTimes(s, N) = G[N]
  BY DEF TakeTimes
<1> HIDE DEF G
<1>6. 0 \in 0..N /\ \A k \in 1..N : k \in 0..N /\ k # 0
  OBVIOUS
<1>7. G[0] = s /\ \A k \in 1..N : G[k] = TakeNext(G[k - 1])
  BY <1>4, <1>6
<1>8. f[0] = s /\ \A k \in 1..N : f[k] = TakeNext(f[k - 1])
  BY <1>3, <1>6
<1>9. \A k \in 0..N : f[k] = G[k]
  <2> DEFINE T == {k \in 0..N : f[k] = G[k]}
  <2> HIDE DEF F
  <2>1. 0 \in T
    BY <1>6, <1>7, <1>8
  <2>2. ASSUME NEW k \in 1..N, k - 1 \in T PROVE k \in T
    <3>1. k \in 0..N /\ f[k - 1] = G[k - 1]
      BY <1>6, <2>2
    <3>2. f[k] = G[k]
      BY <1>7, <1>8, <3>1
    <3> QED
      BY <3>1, <3>2
  <2> HIDE DEF T
  <2>3. \A k \in 0..N : k \in T
    BY <2>1, <2>2, Handed
  <2> QED
    BY <2>3 DEF T
<1>10. N \in 0..N
  OBVIOUS
<1>11. TakeTimes(s, N) = f[N]
  BY <1>5, <1>9, <1>10
<1> QED
  BY <1>2, <1>8, <1>11

(* Once more: the state taken from last, or the state taken from first.     *)
LEMMA TakeTimesLast ==
    ASSUME NEW s \in States, NEW n \in Nat
    PROVE  /\ TakeTimes(s, 0) = s /\ TakeTimes(s, n) \in States
           /\ TakeTimes(s, n + 1) = TakeNext(TakeTimes(s, n))
<1>1. PICK f : /\ TakeTimes(s, n) = f[n] /\ f[0] = s
               /\ \A k \in 1..n : f[k] = TakeNext(f[k - 1])
               /\ \A k \in 0..n : f[k] \in States
  BY TakeTimesBy
<1>2. PICK g : /\ TakeTimes(s, n + 1) = g[n + 1] /\ g[0] = s
               /\ \A k \in 1..(n + 1) : g[k] = TakeNext(g[k - 1])
  <2>1. n + 1 \in Nat
    OBVIOUS
  <2> QED
    BY <2>1, TakeTimesBy
<1>3. TakeTimes(s, 0) = s
  <2>1. 0 \in Nat
    OBVIOUS
  <2> QED
    BY <2>1, TakeTimesBy
<1> DEFINE T == {k \in 0..n : f[k] = g[k]}
<1>4. 0 \in T
  BY <1>1, <1>2
<1>5. ASSUME NEW k \in 1..n, k - 1 \in T PROVE k \in T
  <2>1. k \in 0..n /\ k \in 1..(n + 1) /\ f[k - 1] = g[k - 1]
    BY <1>5
  <2>2. f[k] = g[k]
    BY <1>1, <1>2, <2>1
  <2> QED
    BY <2>1, <2>2
<1>6. f[n] = g[n]
  <2> HIDE DEF T
  <2>1. \A k \in 0..n : k \in T
    BY <1>4, <1>5, Handed
  <2>2. n \in 0..n
    OBVIOUS
  <2> QED
    BY <2>1, <2>2 DEF T
<1>7. n \in 0..n /\ n + 1 \in 1..(n + 1) /\ (n + 1) - 1 = n
  OBVIOUS
<1>8. g[n + 1] = TakeNext(g[n])
  BY <1>2, <1>7
<1> QED
  BY <1>1, <1>2, <1>3, <1>6, <1>7, <1>8

LEMMA TakeTimesFirst ==
    ASSUME NEW s \in States, NEW n \in Nat
    PROVE  /\ TakeTimes(s, n + 1) = TakeTimes(TakeNext(s), n)
           /\ TakeNext(s) = s => TakeTimes(s, n) = s
<1> DEFINE first == TakeNext(s)
           T == {k \in 0..n : TakeTimes(s, k + 1) = TakeTimes(first, k)}
           U == {k \in 0..n : first = s => TakeTimes(s, k) = s}
<1>1. first \in States
  BY TakeNextTakes
<1>2. TakeNext(s) = first
  OBVIOUS
<1> HIDE DEF first
<1>3. 0 \in T
  <2>1. TakeTimes(s, 0) = s /\ TakeTimes(s, 0 + 1) = TakeNext(TakeTimes(s, 0))
    BY TakeTimesLast
  <2>2. TakeTimes(first, 0) = first
    BY <1>1, TakeTimesLast
  <2> QED
    BY <1>2, <2>1, <2>2
<1>4. ASSUME NEW k \in 1..n, k - 1 \in T PROVE k \in T
  <2>1. k \in Nat /\ k - 1 \in Nat /\ (k - 1) + 1 = k
    OBVIOUS
  <2>2. TakeTimes(s, k + 1) = TakeNext(TakeTimes(s, k))
    BY <2>1, TakeTimesLast
  <2>3. TakeTimes(first, k) = TakeNext(TakeTimes(first, k - 1))
    <3>1. TakeTimes(first, (k - 1) + 1) = TakeNext(TakeTimes(first, k - 1))
      BY <1>1, <2>1, TakeTimesLast
    <3> QED
      BY <2>1, <3>1
  <2>4. TakeTimes(s, k) = TakeTimes(first, k - 1)
    <3>1. TakeTimes(s, (k - 1) + 1) = TakeTimes(first, k - 1)
      BY <1>4
    <3> QED
      BY <2>1, <3>1
  <2> QED
    BY <2>1, <2>2, <2>3, <2>4
<1>5. 0 \in U
  BY TakeTimesLast
<1>6. ASSUME NEW k \in 1..n, k - 1 \in U PROVE k \in U
  <2>1. k \in Nat /\ k - 1 \in Nat /\ (k - 1) + 1 = k
    OBVIOUS
  <2>2. TakeTimes(s, (k - 1) + 1) = TakeNext(TakeTimes(s, k - 1))
    BY <2>1, TakeTimesLast
  <2>3. first = s => TakeTimes(s, k - 1) = s
    BY <1>6
  <2>4. first = s => TakeTimes(s, k) = s
    BY <1>2, <2>1, <2>2, <2>3
  <2> QED
    BY <2>1, <2>4
<1> HIDE DEF T, U
<1>7. (\A k \in 0..n : k \in T) /\ (\A k \in 0..n : k \in U)
  BY <1>3, <1>4, <1>5, <1>6, Handed
<1>8. n \in 0..n
  OBVIOUS
<1> QED
  BY <1>2, <1>7, <1>8 DEF T, U

(* What holds of a state with nothing to take, and of one whose next state  *)
(* has it, holds of every state: each key taken makes the buffer shorter.   *)
LEMMA OneByOne ==
    ASSUME NEW P, \A s \in States : Stuck(s) => s \in P,
           \A s \in States : ~Stuck(s) /\ TakeNext(s) \in P => s \in P
    PROVE  \A s \in States : s \in P
<1> SUFFICES ASSUME NEW s \in States PROVE s \in P
  OBVIOUS
<1> DEFINE N == Len(s.buf)
           T == {k \in 0..N : \A t \in States : Len(t.buf) <= k => t \in P}
<1>1. \A t \in States : Len(t.buf) \in Nat /\ TakeNext(t) \in States
  BY TakeNextTakes
<1>2. N \in Nat
  BY <1>1
<1> HIDE DEF N
<1>3. 0 \in T
  <2>1. ASSUME NEW t \in States, Len(t.buf) <= 0 PROVE t \in P
    <3>1. Stuck(t) \/ Len(TakeNext(t).buf) < Len(t.buf)
      BY TakeNextTakes
    <3>2. Len(TakeNext(t).buf) \in Nat /\ Len(t.buf) \in Nat
      BY <1>1
    <3> QED
      BY <2>1, <3>1, <3>2
  <2> QED
    BY <1>2, <2>1
<1>4. ASSUME NEW k \in 1..N, k - 1 \in T PROVE k \in T
  <2>1. ASSUME NEW t \in States, Len(t.buf) <= k PROVE t \in P
    <3>1. Stuck(t) \/ (~Stuck(t) /\ Len(TakeNext(t).buf) < Len(t.buf))
      BY TakeNextTakes
    <3>2. Len(TakeNext(t).buf) \in Nat /\ Len(t.buf) \in Nat /\ TakeNext(t) \in States
      BY <1>1
    <3>3. CASE ~Stuck(t) /\ Len(TakeNext(t).buf) < Len(t.buf)
      <4>1. Len(TakeNext(t).buf) <= k - 1
        BY <1>2, <2>1, <3>2, <3>3
      <4>2. TakeNext(t) \in P
        BY <1>4, <3>2, <4>1
      <4> QED
        BY <3>3, <4>2
    <3> QED
      BY <3>1, <3>3
  <2>2. k \in 0..N
    BY <1>2
  <2> QED
    BY <2>1, <2>2
<1>5. N \in T
  <2> HIDE DEF T
  <2>1. \A k \in 0..N : k \in T
    BY <1>2, <1>3, <1>4, Handed
  <2>2. N \in 0..N
    BY <1>2
  <2> QED
    BY <2>1, <2>2
<1>6. Len(s.buf) <= N
  BY <1>2 DEF N
<1> QED
  BY <1>5, <1>6

(* Taking as often as there are bytes, or oftener, takes all.               *)
LEMMA TakenEnough ==
    ASSUME NEW s \in States
    PROVE  \A n \in Nat : n >= Len(s.buf) => TakeTimes(s, n) = TakeAll(s)
<1> DEFINE P == {t \in States : \A n \in Nat : n >= Len(t.buf) => TakeTimes(t, n) = TakeAll(t)}
<1>1. ASSUME NEW t \in States, Stuck(t) PROVE t \in P
  <2>1. TakeNext(t) = t /\ Len(t.buf) \in Nat
    BY <1>1, TakeNextTakes
  <2>2. \A n \in Nat : TakeTimes(t, n) = t
    BY <2>1, TakeTimesFirst
  <2> QED
    BY <2>1, <2>2 DEF TakeAll
<1>2. ASSUME NEW t \in States, ~Stuck(t), TakeNext(t) \in P PROVE t \in P
  <2> DEFINE next == TakeNext(t)
  <2>1. /\ next \in States /\ Len(next.buf) \in Nat /\ Len(t.buf) \in Nat
        /\ Len(next.buf) < Len(t.buf)
    BY <1>2, TakeNextTakes
  <2>2. \A n \in Nat : TakeTimes(t, n + 1) = TakeTimes(next, n)
    BY TakeTimesFirst
  <2>3. \A n \in Nat : n >= Len(next.buf) => TakeTimes(next, n) = TakeAll(next)
    BY <1>2
  <2> HIDE DEF next
  <2>4. ASSUME NEW n \in Nat, n >= Len(t.buf) PROVE TakeTimes(t, n) = TakeAll(next)
    <3>1. n - 1 \in Nat /\ n - 1 >= Len(next.buf) /\ (n - 1) + 1 = n
      BY <2>1, <2>4
    <3>2. TakeTimes(t, (n - 1) + 1) = TakeTimes(next, n - 1)
      BY <2>2, <3>1
    <3> QED
      BY <2>3, <3>1, <3>2
  <2>5. TakeAll(t) = TakeAll(next)
    <3>1. Len(t.buf) >= Len(t.buf)
      BY <2>1
    <3>2. TakeTimes(t, Len(t.buf)) = TakeAll(next)
      BY <2>1, <2>4, <3>1
    <3> QED
      BY <3>2 DEF TakeAll
  <2> QED
    BY <2>4, <2>5
<1> HIDE DEF P
<1>3. s \in P
  BY <1>1, <1>2, OneByOne
<1> QED
  BY <1>3 DEF P

LEMMA TakeAllSteps ==
    ASSUME NEW s \in States
    PROVE  /\ TakeAll(s) \in States
           /\ Stuck(s) => TakeAll(s) = s
           /\ ~Stuck(s) => TakeAll(s) = TakeAll(TakeNext(s))
<1> DEFINE next == TakeNext(s)
           n == Len(s.buf)
<1>1. /\ next \in States /\ Len(next.buf) \in Nat /\ n \in Nat
      /\ Stuck(s) => next = s
      /\ ~Stuck(s) => Len(next.buf) < n
  BY TakeNextTakes
<1>2. TakeAll(s) = TakeTimes(s, n)
  BY DEF TakeAll
<1>3. TakeTimes(s, n) \in States
  BY <1>1, TakeTimesLast
<1>4. TakeNext(s) = next
  OBVIOUS
<1> HIDE DEF next, n
<1>5. Stuck(s) => TakeTimes(s, n) = s
  BY <1>1, <1>4, TakeTimesFirst
<1>6. CASE ~Stuck(s)
  <2>1. n - 1 \in Nat /\ n - 1 >= Len(next.buf) /\ (n - 1) + 1 = n
    BY <1>1, <1>6
  <2>2. TakeTimes(s, (n - 1) + 1) = TakeTimes(next, n - 1)
    BY <1>4, <2>1, TakeTimesFirst
  <2>3. TakeTimes(next, n - 1) = TakeAll(next)
    BY <1>1, <2>1, TakenEnough
  <2> QED
    BY <1>2, <1>3, <1>4, <1>6, <2>1, <2>2, <2>3
<1> QED
  BY <1>2, <1>3, <1>5, <1>6

(* The keys had before, and the bytes still to come.                        *)
Had(keys, s) == [keys |-> keys \o s.keys, buf |-> s.buf, pasting |-> s.pasting]
Behind(s, more) == [keys |-> s.keys, buf |-> s.buf \o more, pasting |-> s.pasting]

LEMMA HadBehind ==
    ASSUME NEW s \in States, NEW keys \in Seq(Keys), NEW more \in Text
    PROVE  Had(keys, s) \in States /\ Behind(s, more) \in States
<1>1. /\ s.keys \in Seq(Keys) /\ s.buf \in Text /\ s.pasting \in BOOLEAN
  BY DEF States
<1>2. keys \o s.keys \in Seq(Keys) /\ s.buf \o more \in Text
  BY <1>1, ConcatProperties, TextParts
<1> QED
  BY <1>1, <1>2 DEF Had, Behind, States

LEMMA TakeAllHad ==
    ASSUME NEW keys \in Seq(Keys), NEW s \in States
    PROVE  TakeAll(Had(keys, s)) = Had(keys, TakeAll(s))
<1> DEFINE P == {t \in States : TakeAll(Had(keys, t)) = Had(keys, TakeAll(t))}
<1>1. \A t \in States : Had(keys, t) \in States
  BY HadBehind, TextParts
<1>2. \A t \in States : Had(keys, t).buf = t.buf /\ Had(keys, t).pasting = t.pasting
                       /\ Had(keys, t).keys = keys \o t.keys
  BY DEF Had
<1>3. \A t \in States : Stuck(Had(keys, t)) <=> Stuck(t)
  BY <1>2 DEF Stuck
<1>4. ASSUME NEW t \in States, Stuck(t) PROVE t \in P
  BY <1>1, <1>3, <1>4, TakeAllSteps
<1>5. ASSUME NEW t \in States, ~Stuck(t), TakeNext(t) \in P PROVE t \in P
  <2> DEFINE one == TakeOne(t.buf, t.pasting)
  <2>1. /\ TookKey(one, Len(t.buf))
        /\ TakeNext(t) = [keys |-> t.keys \o one.key,
                          buf |-> SubSeq(t.buf, one.used + 1, Len(t.buf)),
                          pasting |-> one.pasting]
    BY <1>5, TakeNextTakes
  <2>2. TakeNext(Had(keys, t)) = [keys |-> (keys \o t.keys) \o one.key,
                                  buf |-> SubSeq(t.buf, one.used + 1, Len(t.buf)),
                                  pasting |-> one.pasting]
    <3> DEFINE had == Had(keys, t)
    <3>1. /\ had \in States /\ had.buf = t.buf /\ had.pasting = t.pasting
          /\ had.keys = keys \o t.keys /\ ~Stuck(had)
      BY <1>1, <1>2, <1>3, <1>5
    <3> HIDE DEF had
    <3>2. TakeNext(had) = [keys |-> had.keys \o TakeOne(had.buf, had.pasting).key,
                           buf |-> SubSeq(had.buf, TakeOne(had.buf, had.pasting).used + 1,
                                          Len(had.buf)),
                           pasting |-> TakeOne(had.buf, had.pasting).pasting]
      BY <3>1, TakeNextTakes
    <3>3. TakeNext(had) = [keys |-> (keys \o t.keys) \o one.key,
                           buf |-> SubSeq(t.buf, one.used + 1, Len(t.buf)),
                           pasting |-> one.pasting]
      BY <3>1, <3>2
    <3> QED
      BY <3>3 DEF had
  <2> HIDE DEF one
  <2>3. (keys \o t.keys) \o one.key = keys \o (t.keys \o one.key)
    <3>1. PICK key \in Keys : one.key = <<key>>
      BY <2>1 DEF TookKey
    <3>2. one.key \in Seq(Keys)
      BY <3>1
    <3>3. t.keys \in Seq(Keys)
      BY DEF States
    <3> QED
      <4>1. \A a \in Seq(Keys) : \A b \in Seq(Keys) : \A c \in Seq(Keys) :
                (a \o b) \o c = a \o (b \o c)
        BY ConcatAssociative
      <4> QED
        BY <3>2, <3>3, <4>1
  <2>4. TakeNext(Had(keys, t)) = Had(keys, TakeNext(t))
    BY <2>1, <2>2, <2>3 DEF Had
  <2>5. TakeAll(Had(keys, t)) = TakeAll(TakeNext(Had(keys, t)))
    BY <1>1, <1>3, <1>5, TakeAllSteps
  <2>6. TakeAll(t) = TakeAll(TakeNext(t))
    BY <1>5, TakeAllSteps
  <2> QED
    BY <1>5, <2>4, <2>5, <2>6
<1> HIDE DEF P
<1>6. s \in P
  BY <1>4, <1>5, OneByOne
<1> QED
  BY <1>6 DEF P

(* All of a buffer first, then what comes behind it: the same keys, when a  *)
(* part of a key was left over or a paste was open, or when what comes is   *)
(* apart.                                                                   *)
LEMMA TakeAllBehind ==
    ASSUME NEW more \in Text, NEW s \in States,
           TakeAll(s).pasting \/ TakeAll(s).buf # <<>> \/ Apart(more)
    PROVE  TakeAll(Behind(s, more)) = TakeAll(Behind(TakeAll(s), more))
<1> DEFINE Open(t) == TakeAll(t).pasting \/ TakeAll(t).buf # <<>>
           P == {t \in States : Open(t) \/ Apart(more)
                                => TakeAll(Behind(t, more)) = TakeAll(Behind(TakeAll(t), more))}
<1>1. \A t \in States : Behind(t, more) \in States
  BY HadBehind, EmptySeq
<1>2. \A t \in States : /\ Behind(t, more).buf = t.buf \o more
                       /\ Behind(t, more).pasting = t.pasting
                       /\ Behind(t, more).keys = t.keys
  BY DEF Behind
<1>3. ASSUME NEW t \in States, Stuck(t) PROVE t \in P
  BY <1>3, TakeAllSteps
<1>4. ASSUME NEW t \in States, ~Stuck(t), TakeNext(t) \in P PROVE t \in P
  <2> DEFINE one == TakeOne(t.buf, t.pasting)
             rest == SubSeq(t.buf, one.used + 1, Len(t.buf))
             next == TakeNext(t)
  <2>1. /\ TookKey(one, Len(t.buf)) /\ next \in States
        /\ next = [keys |-> t.keys \o one.key, buf |-> rest, pasting |-> one.pasting]
    BY <1>4, TakeNextTakes
  <2>2. TakeAll(t) = TakeAll(next)
    BY <1>4, TakeAllSteps
  <2>3. t.buf \in Text /\ t.pasting \in BOOLEAN /\ ~TookNone(one)
    BY <1>4 DEF States, Stuck
  <2>4. ASSUME Open(t), ~t.pasting, t.buf = <<ESC>> PROVE FALSE
    <3>1. Len(<<ESC>>) = 1 /\ <<ESC>>[1] = ESC /\ <<ESC>> # <<>>
      OBVIOUS
    <3>2. ~Started(t.buf)
      BY <2>4, <3>1 DEF Started, Opens
    <3>9. ~Short(t.buf)
      BY <2>4, <3>1 DEF Short, Opens
    <3>3. one = TakePlain(ESC)
      BY <2>3, <2>4, <3>1, <3>2, <3>9, TakeOneWays
    <3>4. one.used = 1 /\ one.pasting = FALSE
      BY <3>3 DEF TakePlain, Taken
    <3>5. rest = <<>>
      BY <2>4, <3>1, <3>4
    <3>6. next.buf = <<>> /\ next.pasting = FALSE
      BY <2>1, <3>4, <3>5
    <3>7. Stuck(next)
      <4>1. <<>> \in Text
        BY TextParts
      <4> QED
        BY <3>6, <4>1, TakeOneWays, NothingYet DEF Stuck
    <3>8. TakeAll(next) = next
      BY <2>1, <3>7, TakeAllSteps
    <3> QED
      BY <2>2, <2>4, <3>6, <3>8
  <2>5. ASSUME Open(t) \/ Apart(more)
        PROVE  TakeAll(Behind(t, more)) = TakeAll(Behind(TakeAll(t), more))
    <3>1. TakeOne(t.buf \o more, t.pasting) = one
      BY <2>3, <2>4, <2>5, TakeOneMore
    <3>2. /\ one.used \in 1..Len(t.buf) /\ Len(t.buf) \in Nat
          /\ one.used \in 0..Len(t.buf)
      BY <2>1, <2>3, TextParts DEF TookKey
    <3>3. SubSeq(t.buf \o more, one.used + 1, Len(t.buf \o more)) = rest \o more
      BY <2>3, <3>2, MoreBehind
    <3>4. ~Stuck(Behind(t, more))
      BY <1>2, <2>3, <3>1 DEF Stuck
    <3>5. TakeNext(Behind(t, more))
          = [keys |-> t.keys \o one.key, buf |-> rest \o more, pasting |-> one.pasting]
      <4> DEFINE all == Behind(t, more)
      <4>1. /\ all \in States /\ all.buf = t.buf \o more /\ all.pasting = t.pasting
            /\ all.keys = t.keys /\ ~Stuck(all)
        BY <1>1, <1>2, <3>4
      <4> HIDE DEF all, rest
      <4>2. TakeNext(all) = [keys |-> all.keys \o TakeOne(all.buf, all.pasting).key,
                             buf |-> SubSeq(all.buf, TakeOne(all.buf, all.pasting).used + 1,
                                            Len(all.buf)),
                             pasting |-> TakeOne(all.buf, all.pasting).pasting]
        BY <4>1, TakeNextTakes
      <4>3. TakeOne(all.buf, all.pasting) = one
        BY <3>1, <4>1
      <4> HIDE DEF one
      <4>4. TakeNext(all) = [keys |-> t.keys \o one.key, buf |-> rest \o more,
                             pasting |-> one.pasting]
        BY <3>3, <4>1, <4>2, <4>3
      <4> QED
        BY <4>4 DEF all
    <3> HIDE DEF one, rest, next
    <3>6. TakeNext(Behind(t, more)) = Behind(next, more)
      BY <2>1, <3>5 DEF Behind
    <3>7. TakeAll(Behind(t, more)) = TakeAll(Behind(next, more))
      BY <1>1, <3>4, <3>6, TakeAllSteps
    <3>8. TakeAll(Behind(next, more)) = TakeAll(Behind(TakeAll(next), more))
      BY <1>4, <2>2, <2>5 DEF next
    <3> QED
      BY <2>2, <3>7, <3>8
  <2> QED
    BY <2>5
<1> HIDE DEF P
<1>5. s \in P
  BY <1>3, <1>4, OneByOne
<1> QED
  BY <1>5 DEF P

-----------------------------------------------------------------------------
(* Feeding the reader.                                                      *)
Readers == [buf : Text, pasting : BOOLEAN]
Fresh(reader, chunk) ==
    [keys |-> <<>>, buf |-> reader.buf \o chunk, pasting |-> reader.pasting]

LEMMA FeedTakes ==
    ASSUME NEW reader \in Readers, NEW chunk \in Text
    PROVE  /\ Fresh(reader, chunk) \in States /\ TakeAll(Fresh(reader, chunk)) \in States
           /\ Feed(reader, chunk).keys = TakeAll(Fresh(reader, chunk)).keys
           /\ Feed(reader, chunk).reader.buf = TakeAll(Fresh(reader, chunk)).buf
           /\ Feed(reader, chunk).reader.pasting = TakeAll(Fresh(reader, chunk)).pasting
           /\ Feed(reader, chunk) \in [keys : Seq(Keys), reader : Readers]
<1> DEFINE s == Fresh(reader, chunk)
           all == TakeAll(s)
<1>1. reader.buf \o chunk \in Text /\ reader.pasting \in BOOLEAN
  BY TextParts DEF Readers
<1>2. s \in States /\ s.buf = reader.buf \o chunk
  BY <1>1, EmptySeq DEF Fresh, States
<1>3. all \in States
  <2> HIDE DEF s
  <2> QED
    BY <1>2, TakeAllSteps
<1>4. TakeTimes([keys |-> <<>>, buf |-> reader.buf \o chunk, pasting |-> reader.pasting],
                Len(reader.buf \o chunk)) = all
  BY DEF TakeAll, Fresh
<1> HIDE DEF all
<1>5. Feed(reader, chunk)
      = [keys |-> all.keys, reader |-> [buf |-> all.buf, pasting |-> all.pasting]]
  BY <1>4 DEF Feed
<1>6. all.keys \in Seq(Keys) /\ all.buf \in Text /\ all.pasting \in BOOLEAN
  BY <1>3 DEF States
<1>7. Feed(reader, chunk) \in [keys : Seq(Keys), reader : Readers]
  BY <1>5, <1>6 DEF Readers
<1> HIDE DEF s
<1>8. /\ Feed(reader, chunk).keys = all.keys /\ Feed(reader, chunk).reader.buf = all.buf
      /\ Feed(reader, chunk).reader.pasting = all.pasting
  BY <1>5
<1> QED
  BY <1>2, <1>3, <1>7, <1>8 DEF all, s

LEMMA FeedNothing ==
    /\ IdleReader \in Readers
    /\ Feed(IdleReader, <<>>) = [keys |-> <<>>, reader |-> IdleReader]
<1>1. <<>> \in Text /\ <<>> \o <<>> = <<>>
  BY TextParts
<1>2. IdleReader \in Readers /\ IdleReader.buf = <<>> /\ IdleReader.pasting = FALSE
  BY <1>1 DEF IdleReader, Readers
<1> DEFINE s == Fresh(IdleReader, <<>>)
<1>3. s = [keys |-> <<>>, buf |-> <<>>, pasting |-> FALSE] /\ s \in States
  BY <1>1, <1>2, FeedTakes DEF Fresh
<1> HIDE DEF s
<1>4. Stuck(s)
  BY <1>1, <1>3, TakeOneWays, NothingYet DEF Stuck
<1>5. TakeAll(s) = s
  BY <1>3, <1>4, TakeAllSteps
<1>6. /\ Feed(IdleReader, <<>>).keys = <<>> /\ Feed(IdleReader, <<>>).reader.buf = <<>>
      /\ Feed(IdleReader, <<>>).reader.pasting = FALSE
      /\ Feed(IdleReader, <<>>) \in [keys : Seq(Keys), reader : Readers]
  BY <1>1, <1>2, <1>3, <1>5, FeedTakes DEF s
<1>7. Feed(IdleReader, <<>>).reader = IdleReader
  BY <1>6 DEF Readers, IdleReader
<1> QED
  BY <1>2, <1>6, <1>7

LEMMA SameReader ==
    ASSUME NEW r \in Readers, NEW q \in Readers, r.buf = q.buf, r.pasting = q.pasting
    PROVE  r = q
<1>1. r = [buf |-> r.buf, pasting |-> r.pasting] /\ q = [buf |-> q.buf, pasting |-> q.pasting]
  BY DEF Readers
<1> QED
  BY <1>1, Zenon

(* Bytes read in two goes give the keys they give in one, unless the reader *)
(* was idle in between and what comes is not apart.                         *)
LEMMA FeedAgain ==
    ASSUME NEW fed \in Text, NEW more \in Text, NEW given \in Seq(Keys),
           NEW reader \in Readers, reader = IdleReader => fed = <<>> \/ Apart(more),
           Feed(IdleReader, fed) = [keys |-> given, reader |-> reader]
    PROVE  Feed(IdleReader, fed \o more)
           = [keys |-> given \o Feed(reader, more).keys, reader |-> Feed(reader, more).reader]
<1>1. /\ <<>> \in Text /\ \A t \in Text : <<>> \o t = t /\ t \o <<>> = t
      /\ fed \o more \in Text
  BY TextParts
<1>2. IdleReader \in Readers /\ IdleReader.buf = <<>> /\ IdleReader.pasting = FALSE
  BY FeedNothing DEF IdleReader
<1>3. CASE reader = IdleReader /\ fed = <<>>
  <2>1. fed = <<>> /\ given = <<>>
    BY <1>3, FeedNothing
  <2>2. Feed(IdleReader, more) \in [keys : Seq(Keys), reader : Readers]
    BY <1>2, FeedTakes
  <2>3. /\ Feed(IdleReader, more).keys \in Seq(Keys)
        /\ Feed(IdleReader, more) = [keys |-> Feed(IdleReader, more).keys,
                                     reader |-> Feed(IdleReader, more).reader]
    BY <2>2
  <2>4. <<>> \o Feed(IdleReader, more).keys = Feed(IdleReader, more).keys
    BY <2>3, ConcatEmptySeq
  <2> QED
    BY <1>1, <1>3, <2>1, <2>3, <2>4
<1>4. CASE reader # IdleReader \/ Apart(more)
  <2> DEFINE s == Fresh(IdleReader, fed)
             z == TakeAll(s)
             t == Fresh(reader, more)
             all == Fresh(IdleReader, fed \o more)
  <2>1. s \in States /\ z \in States /\ t \in States /\ all \in States /\ TakeAll(t) \in States
    BY <1>1, <1>2, FeedTakes
  <2>2. z.keys = given /\ z.buf = reader.buf /\ z.pasting = reader.pasting
    <3> DEFINE first == Feed(IdleReader, fed)
    <3>1. first.keys = given /\ first.reader = reader
      OBVIOUS
    <3>2. first.keys = z.keys /\ first.reader.buf = z.buf /\ first.reader.pasting = z.pasting
      BY <1>2, FeedTakes
    <3> HIDE DEF first, z
    <3> QED
      BY <3>1, <3>2
  <2>3. z.pasting \/ z.buf # <<>> \/ Apart(more)
    <3>1. CASE reader.buf = <<>> /\ reader.pasting = FALSE
      <4>1. reader = IdleReader
        BY <3>1 DEF Readers, IdleReader
      <4> QED
        BY <1>4, <4>1
    <3>2. reader.pasting \in BOOLEAN
      BY DEF Readers
    <3> HIDE DEF z
    <3> QED
      BY <2>2, <3>1, <3>2
  <2>4. all = Behind(s, more)
    BY <1>1, <1>2 DEF Fresh, Behind
  <2>5. Behind(z, more) = Had(given, t)
    <3> HIDE DEF z
    <3>1. given \o <<>> = given
      BY ConcatEmptySeq
    <3> QED
      BY <2>2, <3>1 DEF Behind, Had, Fresh
  <2> HIDE DEF s, t, all
  <2>6. TakeAll(all) = TakeAll(Behind(z, more))
    BY <2>1, <2>3, <2>4, TakeAllBehind
  <2>7. TakeAll(Had(given, t)) = Had(given, TakeAll(t))
    BY <2>1, TakeAllHad
  <2> HIDE DEF z
  <2>8. TakeAll(all) = Had(given, TakeAll(t))
    BY <2>5, <2>6, <2>7
  <2> DEFINE one == Feed(IdleReader, fed \o more)
             two == Feed(reader, more)
  <2>9. /\ one.keys = TakeAll(all).keys /\ one.reader.buf = TakeAll(all).buf
        /\ one.reader.pasting = TakeAll(all).pasting /\ one \in [keys : Seq(Keys), reader : Readers]
    BY <1>1, <1>2, FeedTakes DEF all
  <2>10. /\ two.keys = TakeAll(t).keys /\ two.reader.buf = TakeAll(t).buf
         /\ two.reader.pasting = TakeAll(t).pasting /\ two \in [keys : Seq(Keys), reader : Readers]
    BY FeedTakes DEF t
  <2> HIDE DEF one, two
  <2>11. /\ one.keys = given \o two.keys /\ one.reader.buf = two.reader.buf
         /\ one.reader.pasting = two.reader.pasting
    BY <2>8, <2>9, <2>10 DEF Had
  <2>12. one.reader = two.reader /\ one = [keys |-> one.keys, reader |-> one.reader]
    <3>1. one.reader \in Readers /\ two.reader \in Readers
          /\ one = [keys |-> one.keys, reader |-> one.reader]
      BY <2>9, <2>10
    <3> QED
      BY <2>11, <3>1, SameReader
  <2> QED
    BY <2>11, <2>12 DEF one, two
<1> QED
  BY <1>3, <1>4

-----------------------------------------------------------------------------
(* What a keystroke sends, what a key types, what the draft holds.          *)
LEMMA BytesTyped ==
    ASSUME NEW name \in DOMAIN BytesOf
    PROVE  BytesOf[name] \in Text
<1>1. /\ \A ch \in Char : <<ch>> \in Text
      /\ \A a \in Char : \A b \in Char : \A c \in Char : <<a, b, c>> \in Text
      /\ \A a \in Char : \A b \in Char : \A c \in Char : \A d \in Char : \A e \in Char :
             <<a, b, c, d, e>> \in Text
  BY DEF Text
<1>2. Char = Printable \cup Unprinted \cup {SP, NL, "f", "s"}
  BY DEF Char
<1>3. PasteEnd \in Text
  BY <1>1 DEF PasteEnd, Char, Unprinted, Printable
<1>4. <<ESC, "[", "P", "a", NL>> \o PasteEnd \in Text
  <2>1. <<ESC, "[", "P", "a", NL>> \in Text
    BY <1>1 DEF Char, Unprinted, Printable
  <2> QED
    BY <1>3, <2>1, TextParts
<1>5. /\ BytesOf.a \in Text /\ BytesOf.at \in Text /\ BytesOf.slash \in Text
      /\ BytesOf.space \in Text /\ BytesOf.n \in Text /\ BytesOf.y \in Text /\ BytesOf.j \in Text
  BY <1>1 DEF BytesOf, Char, Printable
<1>6. /\ BytesOf.enter \in Text /\ BytesOf.backspace \in Text /\ BytesOf.tab \in Text
      /\ BytesOf.escape \in Text
  BY <1>1 DEF BytesOf, Char, Unprinted
<1>7. /\ BytesOf.left \in Text /\ BytesOf.up \in Text /\ BytesOf.down \in Text
      /\ BytesOf.odd \in Text /\ BytesOf.upO \in Text /\ BytesOf.accent \in Text
  BY <1>1 DEF BytesOf, Char, Unprinted, Printable
<1>8. BytesOf.paste \in Text
  BY <1>4 DEF BytesOf
<1>9. /\ BytesOf.ctrlC \in Text /\ BytesOf.ctrlD \in Text /\ BytesOf.ctrlE \in Text
      /\ BytesOf.ctrlL \in Text /\ BytesOf.ctrlO \in Text /\ BytesOf.ctrlP \in Text
  BY <1>1 DEF BytesOf, Char, Unprinted
<1>10. /\ BytesOf.ctrlQ \in Text /\ BytesOf.ctrlR \in Text /\ BytesOf.ctrlU \in Text
       /\ BytesOf.ctrlW \in Text /\ BytesOf.ctrlY \in Text /\ BytesOf.ctrlZ \in Text
  BY <1>1 DEF BytesOf, Char, Unprinted
<1>11. name \in {"a", "at", "slash", "space", "n", "y", "j", "enter", "backspace", "tab", "escape",
                 "left", "up", "down", "odd", "upO", "accent", "paste", "ctrlC", "ctrlD", "ctrlE", "ctrlL", "ctrlO",
                 "ctrlP", "ctrlQ", "ctrlR", "ctrlU", "ctrlW", "ctrlY", "ctrlZ"}
  BY DEF BytesOf
<1> QED
  BY <1>5, <1>6, <1>7, <1>8, <1>9, <1>10, <1>11

LEMMA KeyTextTyped ==
    ASSUME NEW key \in Keys
    PROVE  KeyText(key) \in Text
<1>1. <<>> \in Text /\ <<SP>> \in Text /\ \A ch \in Char : <<ch>> \in Text
  BY TextParts
<1>2. key.payload \in Text /\ Printable \subseteq Char
  BY DEF Keys, Char
<1>3. CASE key.payload # <<>>
  BY <1>2, <1>3 DEF KeyText
<1>4. CASE key.payload = <<>> /\ key.name = "space"
  <2>1. KeyText(key) = <<SP>>
    BY <1>4 DEF KeyText, Printable
  <2> QED
    BY <1>1, <2>1
<1>5. CASE key.payload = <<>> /\ key.name # "space" /\ key.name \in Printable
  <2>1. KeyText(key) = <<key.name>>
    BY <1>5 DEF KeyText
  <2> QED
    BY <1>1, <1>2, <1>5, <2>1
<1>6. CASE key.payload = <<>> /\ key.name # "space" /\ key.name \notin Printable
  <2>1. KeyText(key) = <<>>
    BY <1>6 DEF KeyText
  <2> QED
    BY <1>1, <2>1
<1> QED
  BY <1>3, <1>4, <1>5, <1>6

LEMMA DraftTyped ==
    ASSUME NEW e, Placed(e)
    PROVE  Draft(e) \in Text
<1> DEFINE text == Joined(e.lines)
           ink == {i \in 1..Len(text) : text[i] \notin {SP, NL}}
<1>1. text \in Text /\ text \in Seq(Char) /\ Len(text) \in Nat /\ <<>> \in Text
  BY EditorParts, TextParts DEF Text
<1>2. Draft(e) = IF ink = {} THEN <<>> ELSE SubSeq(text, Min(ink), Max(ink))
  BY DEF Draft, Stripped
<1> HIDE DEF text
<1>3. ink \in SUBSET (0..Len(text)) /\ ink \subseteq 1..Len(text)
  BY <1>1
<1> HIDE DEF ink
<1>4. CASE ink # {}
  <2>1. Min(ink) \in 1..Len(text) /\ Max(ink) \in 1..Len(text)
    BY <1>1, <1>3, <1>4, Bounds
  <2>2. \A m \in 1..Len(text) : \A n \in 1..Len(text) : SubSeq(text, m, n) \in Seq(Char)
    BY <1>1
  <2> QED
    BY <1>2, <1>4, <2>1, <2>2 DEF Text
<1> QED
  BY <1>1, <1>2, <1>4

(* Every key that edits leaves a good editor.                               *)
LEMMA HandleGood ==
    ASSUME NEW e, Good(e), NEW name, NEW text \in Text
    PROVE  Good(Handle(e, name, text))
<1>1. /\ Good(DeleteLeft(e)) /\ Good(Left(e)) /\ Good(KillToLineStart(e))
      /\ Good(KillPreviousWord(e)) /\ Good(Yank(e)) /\ Good(Undo(e)) /\ Good(Insert(e, text))
  BY DeleteLeftGood, LeftGood, KillToLineStartGood, KillPreviousWordGood, YankGood, UndoGood,
     InsertGood
<1> QED
  BY <1>1 DEF Handle

LEMMA CompletedGood ==
    ASSUME NEW e, Good(e)
    PROVE  Good(Completed(e))
<1> DEFINE at == {i \in 1..e.col : AtLine(e)[i] = "@"}
           from == IF TokenAt(e) = 0 THEN e.col ELSE TokenAt(e) - 1
<1>1. e.col \in 0..Len(AtLine(e)) /\ Len(AtLine(e)) \in Nat
  BY EditorParts DEF Good
<1>2. TokenAt(e) = 0 \/ TokenAt(e) \in 1..e.col
  <2>1. at \in SUBSET (0..e.col) /\ at \subseteq 1..e.col /\ e.col \in Nat
    BY <1>1
  <2>2. TokenAt(e) = 0 \/ (at # {} /\ TokenAt(e) = Max(at))
    BY DEF TokenAt
  <2> HIDE DEF at
  <2>3. at # {} => Max(at) \in at
    BY <2>1, Bounds
  <2> QED
    BY <2>1, <2>2, <2>3
<1>3. from \in 0..Len(AtLine(e))
  BY <1>1, <1>2
<1> HIDE DEF from
<1>4. File \in Text
  <2>1. "f" \in Char
    BY DEF Char
  <2> QED
    BY <2>1, TextParts DEF File
<1>5. Good(ReplaceRange(e, from, e.col, File))
  BY <1>1, <1>3, <1>4, ReplaceRangeGood
<1> QED
  BY <1>5 DEF Completed, from

-----------------------------------------------------------------------------
(* The inductive invariant: a good editor; a history of texts that keeps    *)
(* its cap and holds the entry recalled; rows that are texts; and a reader  *)
(* that is where feeding it all at once since it was last idle, with no ESC  *)
(* just given, puts it.                                                     *)
TtyOK ==
    /\ tty \in [wire : Text, typed : Nat, cuts : Nat, reader : Readers, keys : Seq(Keys),
               fed : Text, given : Seq(Keys)]
    /\ Feed(IdleReader, tty.fed) = [keys |-> tty.given, reader |-> tty.reader]
RecallOK ==
    /\ recall \in [history : Seq(Text), pos : Nat, draft : Text]
    /\ Len(recall.history) <= HistoryMax /\ recall.pos <= Len(recall.history)
RowsOK == "rows" \in DOMAIN modal /\ modal.rows \subseteq Text
AppOK == app \in [running : BOOLEAN, busy : BOOLEAN, queue : Nat, events : 0..MaxEvents]
KeysInv == TtyOK /\ Good(ed) /\ RecallOK /\ RowsOK /\ AppOK

LEMMA EmptyEditor ==
    Good(NewEditor)
<1>1. <<>> \in Text /\ EmptyBuffer \in Buffers /\ <<>> \in Seq(Entries)
  BY TextParts, JoinedOne, EmptySeq DEF EmptyBuffer
<1>2. Len(EmptyBuffer) = 1 /\ EmptyBuffer[1] = <<>> /\ Len(<<>>) = 0
  BY DEF EmptyBuffer
<1>3. 1 \in Nat \ {0} /\ 0 \in Nat /\ 1 <= Len(EmptyBuffer) /\ 0 <= Len(EmptyBuffer[1])
  BY <1>2
<1>4. Placed(NewEditor) /\ NewEditor.undo = <<>>
  <2> DEFINE e == NewEditor
  <2>1. e = [lines |-> EmptyBuffer, row |-> 1, col |-> 0, kill |-> <<>>, undo |-> <<>>]
    BY DEF NewEditor
  <2> HIDE DEF e
  <2>2. Placed(e) /\ e.undo = <<>>
    BY <1>1, <1>3, <2>1 DEF Placed
  <2> QED
    BY <2>2 DEF e
<1>5. Linked(<<>>, Joined(NewEditor.lines))
  BY <1>2 DEF Linked
<1> QED
  BY <1>4, <1>5 DEF Good

LEMMA KeysInvInit ==
    KeysInit => KeysInv
<1> SUFFICES ASSUME KeysInit PROVE KeysInv
  OBVIOUS
<1> USE DEF KeysInit
<1>1. <<>> \in Text /\ <<>> \in Seq(Keys) /\ <<>> \in Seq(Text) /\ Len(<<>>) = 0
  BY TextParts, EmptySeq
<1>2. TtyOK
  BY <1>1, FeedNothing DEF TtyOK
<1>3. Good(ed)
  BY EmptyEditor
<1>4. RecallOK
  BY <1>1, TuiKeysAssumption DEF RecallOK, FreeTyping
<1>5. RowsOK
  BY DEF RowsOK
<1>6. AppOK
  BY TuiKeysAssumption DEF AppOK
<1> QED
  BY <1>2, <1>3, <1>4, <1>5, <1>6 DEF KeysInv

LEMMA KeyTaken ==
    ASSUME TtyOK, tty.keys # <<>>, KeyUsed
    PROVE  TtyOK' /\ Head(tty.keys) \in Keys
<1>1. /\ tty.keys \in Seq(Keys)
      /\ tty \in [wire : Text, typed : Nat, cuts : Nat, reader : Readers, keys : Seq(Keys),
                 fed : Text, given : Seq(Keys)]
  BY DEF TtyOK
<1>2. Tail(tty.keys) \in Seq(Keys) /\ Head(tty.keys) \in Keys
  BY <1>1, HeadTailProperties
<1>3. tty' = [tty EXCEPT !.keys = Tail(tty.keys)]
  BY DEF KeyUsed
<1>4. /\ tty' \in [wire : Text, typed : Nat, cuts : Nat, reader : Readers, keys : Seq(Keys),
                  fed : Text, given : Seq(Keys)]
      /\ tty'.fed = tty.fed /\ tty'.given = tty.given /\ tty'.reader = tty.reader
  BY <1>1, <1>2, <1>3
<1>5. /\ Feed(IdleReader, tty.fed) = [keys |-> tty.given, reader |-> tty.reader]
  BY DEF TtyOK
<1>6. TtyOK'
  BY <1>4, <1>5 DEF TtyOK
<1> QED
  BY <1>2, <1>6

LEMMA KeptWithin ==
    ASSUME NEW history \in Seq(Text), Len(history) <= HistoryMax, NEW text \in Text
    PROVE  /\ Kept(Append(history, text)) \in Seq(Text)
           /\ Len(Kept(Append(history, text))) <= HistoryMax
           /\ Len(history) <= Len(Kept(Append(history, text)))
<1> DEFINE more == Append(history, text)
           n == Len(history)
<1>1. more \in Seq(Text) /\ Len(more) = n + 1 /\ n \in Nat /\ HistoryMax \in Nat \ {0}
  BY TuiKeysAssumption
<1>2. n <= HistoryMax
  OBVIOUS
<1> HIDE DEF more, n
<1>3. CASE Len(more) > HistoryMax
  <2>1. n = HistoryMax /\ Len(more) - HistoryMax + 1 = 2
    BY <1>1, <1>2, <1>3
  <2>2. Kept(more) = SubSeq(more, 2, Len(more))
    BY <1>3, <2>1 DEF Kept
  <2>3. SubSeq(more, 2, Len(more)) \in Seq(Text) /\ Len(SubSeq(more, 2, Len(more))) = n
    <3>1. more # <<>>
      BY DEF more
    <3>2. Tail(more) = SubSeq(more, 2, Len(more))
      BY <1>1, <3>1, TailIsSubSeq
    <3>3. Tail(more) \in Seq(Text) /\ Len(Tail(more)) = Len(more) - 1
      BY <1>1, <3>1, HeadTailProperties
    <3> QED
      BY <1>1, <3>2, <3>3
  <2>4. Kept(more) \in Seq(Text) /\ Len(Kept(more)) <= HistoryMax /\ n <= Len(Kept(more))
    BY <1>1, <2>1, <2>2, <2>3
  <2> QED
    BY <2>4 DEF more, n
<1>4. CASE ~(Len(more) > HistoryMax)
  <2>1. Kept(more) = more
    BY <1>4 DEF Kept
  <2>2. Kept(more) \in Seq(Text) /\ Len(Kept(more)) <= HistoryMax /\ n <= Len(Kept(more))
    BY <1>1, <1>4, <2>1
  <2> QED
    BY <2>2 DEF more, n
<1> QED
  BY <1>3, <1>4

LEMMA LoadedTyped ==
    Loaded \subseteq Text /\ Palette \subseteq Text /\ Sessions \subseteq Text
<1>1. "a" \in Char /\ "/" \in Char /\ "s" \in Char
  BY DEF Char, Printable
<1>2. <<>> \in Text /\ <<"a">> \in Text /\ <<"s">> \in Text
  BY <1>1, TextParts
<1>3. <<"/", "a">> \in Text
  BY <1>1 DEF Text
<1> QED
  BY <1>2, <1>3 DEF Loaded, Palette, Sessions

LEMMA Submitted ==
    ASSUME RecallOK, AppOK, NEW text \in Text, NEW editor, Good(editor),
           NEW pos \in 0..Len(recall.history), SubmitText(text, editor, pos)
    PROVE  RecallOK' /\ AppOK' /\ Good(ed')
<1> DEFINE history == Kept(Append(recall.history, text))
<1>1. /\ recall \in [history : Seq(Text), pos : Nat, draft : Text]
      /\ Len(recall.history) <= HistoryMax /\ recall.history \in Seq(Text)
  BY DEF RecallOK
<1>2. /\ history \in Seq(Text) /\ Len(history) <= HistoryMax
      /\ Len(recall.history) <= Len(history)
  BY <1>1, KeptWithin
<1>3. recall' = [recall EXCEPT !.history = history, !.pos = pos]
  BY DEF SubmitText
<1> HIDE DEF history
<1>4. RecallOK'
  <2>1. pos \in Nat /\ pos <= Len(history)
    <3>1. Len(recall.history) \in Nat /\ Len(history) \in Nat
      BY <1>1, <1>2, LenProperties
    <3> QED
      BY <1>2, <3>1
  <2>2. /\ recall' \in [history : Seq(Text), pos : Nat, draft : Text]
        /\ recall'.history = history /\ recall'.pos = pos
    BY <1>1, <1>2, <1>3, <2>1
  <2> QED
    BY <1>2, <2>1, <2>2 DEF RecallOK
<1>5. CASE text[1] = "/"
  <2>1. app' = app /\ ed' \in {editor} \cup {SetText(editor, t) : t \in Loaded}
    BY <1>5 DEF SubmitText
  <2>2. \A t \in Loaded : Good(SetText(editor, t))
    BY LoadedTyped, SetTextGood
  <2>3. Good(ed')
    BY <2>1, <2>2
  <2>4. AppOK'
    BY <2>1 DEF AppOK
  <2> QED
    BY <1>4, <2>3, <2>4
<1>6. CASE text[1] # "/"
  <2>1. app' = [app EXCEPT !.busy = TRUE] /\ ed' = editor
    BY <1>6 DEF SubmitText
  <2>2. AppOK'
    BY <2>1 DEF AppOK
  <2> QED
    BY <1>4, <2>1, <2>2
<1> QED
  BY <1>5, <1>6

-----------------------------------------------------------------------------
(* One lemma per kind of step: what the terminal does, the keys, the rest.  *)
LEMMA StrokeKeeps ==
    ASSUME KeysInv, Stroke PROVE KeysInv'
<1>1. PICK name \in Strokes : tty' = [tty EXCEPT !.wire = tty.wire \o BytesOf[name],
                                                !.typed = tty.typed + 1]
  BY DEF Stroke
<1> DEFINE wire == tty.wire \o BytesOf[name]
<1>2. /\ tty \in [wire : Text, typed : Nat, cuts : Nat, reader : Readers, keys : Seq(Keys),
                 fed : Text, given : Seq(Keys)]
      /\ Feed(IdleReader, tty.fed) = [keys |-> tty.given, reader |-> tty.reader]
  BY DEF KeysInv, TtyOK
<1>3. wire \in Text
  <2>1. BytesOf[name] \in Text
    BY KeysTyped, BytesTyped
  <2> QED
    BY <1>2, <2>1, TextParts
<1>4. TtyOK'
  <2> DEFINE typed == tty.typed + 1
  <2>0. typed \in Nat /\ tty' = [tty EXCEPT !.wire = wire, !.typed = typed]
    BY <1>1, <1>2
  <2> HIDE DEF wire, typed
  <2>1. /\ tty' \in [wire : Text, typed : Nat, cuts : Nat, reader : Readers, keys : Seq(Keys),
                    fed : Text, given : Seq(Keys)]
        /\ tty'.fed = tty.fed /\ tty'.given = tty.given /\ tty'.reader = tty.reader
    BY <1>2, <1>3, <2>0
  <2> QED
    BY <1>2, <2>1 DEF TtyOK
<1> QED
  BY <1>4 DEF KeysInv, Stroke, RecallOK, RowsOK, AppOK

LEMMA WireParts ==
    ASSUME TtyOK, NEW n \in 1..Len(tty.wire)
    PROVE  /\ Chunk(n) \in Text /\ Unread(n) \in Text
           /\ Append(Chunk(n - 1), "rep") \in Text /\ <<"rep">> \o Unread(n) \in Text
<1>1. tty.wire \in Seq(Char) /\ Len(tty.wire) \in Nat
  BY TextParts DEF TtyOK, Text
<1>2. ASSUME NEW t \in Seq(Char), NEW k \in 0..Len(t)
      PROVE  SubSeq(t, 1, k) \in Seq(Char) /\ SubSeq(t, k + 1, Len(t)) \in Seq(Char)
  OBVIOUS
<1>3. n \in 0..Len(tty.wire) /\ n - 1 \in 0..Len(tty.wire)
  BY <1>1
<1>4. Chunk(n) \in Text /\ Unread(n) \in Text /\ Chunk(n - 1) \in Seq(Char)
  BY <1>1, <1>2, <1>3 DEF Chunk, Unread, Text
<1>5. "rep" \in Char
  BY DEF Char, Printable
<1>6. <<"rep">> \o Unread(n) \in Text
  BY <1>4, <1>5, TextParts
<1>7. \A t \in Seq(Char) : \A ch \in Char : Append(t, ch) \in Seq(Char)
  OBVIOUS
<1> QED
  BY <1>4, <1>5, <1>6, <1>7 DEF Text

(* What the reader has given since it was idle is what one read would give, *)
(* unless what is read now makes a sequence of the ESC it gave.             *)
LEMMA ReadGives ==
    ASSUME TtyOK, NEW chunk \in Text, ~AfterEscape(chunk)
    PROVE  Feed(IdleReader, tty.fed \o chunk)
           = [keys |-> tty.given \o Feed(tty.reader, chunk).keys,
              reader |-> Feed(tty.reader, chunk).reader]
<1>1. /\ tty.fed \in Text /\ tty.given \in Seq(Keys) /\ tty.reader \in Readers
      /\ Feed(IdleReader, tty.fed) = [keys |-> tty.given, reader |-> tty.reader]
  BY DEF TtyOK
<1>2. tty.reader = IdleReader => tty.fed = <<>> \/ Apart(chunk)
  BY DEF AfterEscape, Apart
<1> QED
  BY <1>1, <1>2, FeedAgain

LEMMA ParserTakesKeeps ==
    ASSUME TtyOK, NEW chunk \in Text, NEW left \in Text, NEW cuts \in Nat,
           ParserTakes(chunk, left, cuts)
    PROVE  TtyOK'
<1> DEFINE got == Feed(tty.reader, chunk)
           idle == /\ got.reader = IdleReader
                   /\ got.keys # <<>> => Last(got.keys).name # "escape"
           anew == AfterEscape(chunk)
           fed == IF idle THEN <<>> ELSE IF anew THEN chunk ELSE tty.fed \o chunk
           given == IF idle THEN <<>> ELSE IF anew THEN got.keys ELSE tty.given \o got.keys
<1>1. tty \in [wire : Text, typed : Nat, cuts : Nat, reader : Readers, keys : Seq(Keys),
               fed : Text, given : Seq(Keys)]
  BY DEF TtyOK
<1>2. got \in [keys : Seq(Keys), reader : Readers]
  BY <1>1, FeedTakes
<1>3. ~anew => Feed(IdleReader, tty.fed \o chunk) = [keys |-> tty.given \o got.keys,
                                                    reader |-> got.reader]
  BY ReadGives
<1>4. anew => Feed(IdleReader, chunk) = got
  BY DEF AfterEscape
<1>5. got = [keys |-> got.keys, reader |-> got.reader]
  <2> HIDE DEF got
  <2> QED
    BY <1>2
<1>6. tty' = [wire |-> left, typed |-> tty.typed, cuts |-> cuts, reader |-> got.reader,
              keys |-> got.keys, fed |-> fed, given |-> given]
  BY DEF ParserTakes
<1>9. idle => got.reader = IdleReader
  OBVIOUS
<1> HIDE DEF got, idle, anew
<1>7. /\ fed \in Text /\ given \in Seq(Keys)
      /\ Feed(IdleReader, fed) = [keys |-> given, reader |-> got.reader]
  <2>1. CASE idle
    BY <1>9, <2>1, TextParts, EmptySeq, FeedNothing
  <2>2. CASE ~idle /\ anew
    BY <1>2, <1>4, <1>5, <2>2
  <2>3. CASE ~idle /\ ~anew
    <3>1. tty.fed \o chunk \in Text
      BY <1>1, TextParts
    <3>2. tty.given \o got.keys \in Seq(Keys)
      BY <1>1, <1>2, ConcatProperties
    <3> QED
      BY <1>3, <2>3, <3>1, <3>2
  <2> QED
    BY <2>1, <2>2, <2>3
<1> HIDE DEF fed, given
<1>8. /\ tty' \in [wire : Text, typed : Nat, cuts : Nat, reader : Readers, keys : Seq(Keys),
                    fed : Text, given : Seq(Keys)]
      /\ tty'.fed = fed /\ tty'.given = given /\ tty'.reader = got.reader
  BY <1>1, <1>2, <1>6, <1>7
<1> QED
  BY <1>7, <1>8 DEF TtyOK

LEMMA ReadKeysKeeps ==
    ASSUME KeysInv, NEW n \in 1..Len(tty.wire), ReadKeys(n) \/ ReadHalf(n) PROVE KeysInv'
<1>1. TtyOK /\ tty.cuts + 1 \in Nat /\ tty.cuts + Cuts(n) \in Nat
  BY DEF KeysInv, TtyOK, Cuts
<1>2. TtyOK'
  <2>1. CASE ReadKeys(n)
    BY <1>1, <2>1, WireParts, ParserTakesKeeps DEF ReadKeys
  <2>2. CASE ReadHalf(n)
    BY <1>1, <2>2, WireParts, ParserTakesKeeps DEF ReadHalf
  <2> QED
    BY <2>1, <2>2
<1> QED
  BY <1>2 DEF KeysInv, ReadKeys, ReadHalf, RecallOK, RowsOK, AppOK

LEMMA WireTail ==
    ASSUME TtyOK, tty.wire # <<>>, NEW cuts \in Nat,
           tty' = [tty EXCEPT !.wire = Tail(tty.wire), !.cuts = cuts]
    PROVE  TtyOK'
<1>1. /\ tty \in [wire : Text, typed : Nat, cuts : Nat, reader : Readers, keys : Seq(Keys),
                 fed : Text, given : Seq(Keys)]
      /\ Feed(IdleReader, tty.fed) = [keys |-> tty.given, reader |-> tty.reader]
  BY DEF TtyOK
<1>2. Tail(tty.wire) \in Text
  <2>1. tty.wire \in Seq(Char)
    BY <1>1 DEF Text
  <2> QED
    BY <2>1, HeadTailProperties DEF Text
<1>3. /\ tty' \in [wire : Text, typed : Nat, cuts : Nat, reader : Readers, keys : Seq(Keys),
                  fed : Text, given : Seq(Keys)]
      /\ tty'.fed = tty.fed /\ tty'.given = tty.given /\ tty'.reader = tty.reader
  BY <1>1, <1>2
<1> QED
  BY <1>1, <1>3 DEF TtyOK

LEMMA AppStops ==
    ASSUME AppOK, StopLoop PROVE AppOK'
BY DEF AppOK, StopLoop

LEMMA RawKeeps ==
    ASSUME KeysInv, RawInterrupt \/ RawSubmit PROVE KeysInv'
<1>1. TtyOK /\ Good(ed) /\ RecallOK /\ RowsOK /\ AppOK
  BY DEF KeysInv
<1>2. tty.cuts + Cuts(1) \in Nat
  BY <1>1 DEF TtyOK, Cuts
<1>3. TtyOK'
  <2>1. tty.wire # <<>> /\ tty' = [tty EXCEPT !.wire = Tail(tty.wire), !.cuts = tty.cuts + Cuts(1)]
    BY DEF RawInterrupt, RawSubmit
  <2> QED
    BY <1>1, <1>2, <2>1, WireTail
<1>4. CASE RawInterrupt
  <2>1. RowsOK'
    BY <1>1, <1>4 DEF RawInterrupt, RowsOK
  <2>2. AppOK'
    <3>1. app' = app \/ StopLoop
      BY <1>4 DEF RawInterrupt
    <3> QED
      BY <1>1, <3>1, AppStops DEF AppOK
  <2> QED
    BY <1>1, <1>3, <1>4, <2>1, <2>2 DEF RawInterrupt, KeysInv, RecallOK
<1>5. CASE RawSubmit
  <2>1. RowsOK'
    BY <1>1, <1>5 DEF RawSubmit, RowsOK
  <2>2. Draft(ed) \in Text /\ Good(Clear(ed)) /\ recall.pos \in 0..Len(recall.history)
    <3>1. recall.history \in Seq(Text) /\ recall.pos \in Nat /\ recall.pos <= Len(recall.history)
      BY <1>1 DEF RecallOK
    <3>2. Len(recall.history) \in Nat
      BY <3>1, LenProperties
    <3> QED
      BY <1>1, <3>1, <3>2, DraftTyped, ClearGood DEF Good
  <2>3. CASE SubmitText(Draft(ed), Clear(ed), recall.pos)
    BY <1>1, <1>3, <2>1, <2>2, <2>3, Submitted DEF KeysInv
  <2>4. CASE StopLoop /\ UNCHANGED <<ed, recall>>
    BY <1>1, <1>3, <2>1, <2>4, AppStops DEF KeysInv, RecallOK
  <2> QED
    BY <1>5, <2>3, <2>4 DEF RawSubmit
<1> QED
  BY <1>4, <1>5

(* Keys that leave the editor, the recall and the turn alone.               *)
LEMMA ModalKeeps ==
    ASSUME KeysInv, PromptKey \/ BrowseToggle \/ BrowseKey \/ OpenPicker
    PROVE  KeysInv'
<1>1. TtyOK /\ Good(ed) /\ RecallOK /\ RowsOK /\ AppOK
  BY DEF KeysInv
<1>2. /\ tty.keys # <<>> /\ KeyUsed
      /\ ed' = ed /\ recall' = recall /\ app' = app
  BY DEF PromptKey, BrowseToggle, BrowseKey, OpenPicker, CanPress
<1>3. TtyOK'
  BY <1>1, <1>2, KeyTaken
<1>4. RowsOK'
  <2>1. CASE PromptKey
    BY <1>1, <2>1 DEF PromptKey, RowsOK
  <2>2. CASE BrowseToggle
    BY <1>1, <2>2 DEF BrowseToggle, RowsOK
  <2>3. CASE BrowseKey
    <3>1. \/ modal' = modal
          \/ \E s \in {"closed", "none", "found", "typed"} : modal' = [modal EXCEPT !.search = s]
          \/ modal' = [modal EXCEPT !.browse = FALSE]
      BY <2>3 DEF BrowseKey
    <3> QED
      BY <1>1, <3>1 DEF RowsOK
  <2>4. CASE OpenPicker
    <3> DEFINE kind == CASE Pressed("ctrl+l") -> "session"
                         [] Pressed("ctrl+p") -> "palette"
                         [] Pressed("ctrl+r") -> "search"
               rows == CASE Pressed("ctrl+l") -> Sessions
                         [] Pressed("ctrl+p") -> Palette
                         [] Pressed("ctrl+r") -> ToSet(recall.history)
    <3>1. modal' = [modal EXCEPT !.kind = kind, !.rows = rows]
      BY <2>4 DEF OpenPicker
    <3>2. Pressed("ctrl+l") \/ Pressed("ctrl+p") \/ Pressed("ctrl+r")
      BY <2>4 DEF OpenPicker, PressedOneOf, Pressed
    <3>3. ToSet(recall.history) \subseteq Text
      <4>1. recall.history \in Seq(Text)
        BY <1>1 DEF RecallOK
      <4>2. \A i \in DOMAIN recall.history : recall.history[i] \in Text
        BY <4>1, ElementOfSeq, LenProperties
      <4> QED
        BY <4>2 DEF ToSet
    <3>4. rows \subseteq Text
      BY <3>2, <3>3, LoadedTyped
    <3> HIDE DEF rows, kind
    <3> QED
      BY <1>1, <3>1, <3>4 DEF RowsOK
  <2> QED
    BY <2>1, <2>2, <2>3, <2>4
<1> QED
  BY <1>1, <1>2, <1>3, <1>4 DEF KeysInv, RecallOK, AppOK

(* Keys that put a text in the editor or take its draft.                    *)
LEMMA PickerKeeps ==
    ASSUME KeysInv, PickerKey PROVE KeysInv'
<1>1. TtyOK /\ Good(ed) /\ RecallOK /\ RowsOK /\ AppOK
  BY DEF KeysInv
<1>2. tty.keys # <<>> /\ KeyUsed /\ recall' = recall /\ app' = app
  BY DEF PickerKey, CanPress
<1>3. TtyOK'
  BY <1>1, <1>2, KeyTaken
<1>4. RowsOK'
  <2>1. modal' = modal \/ modal' = [modal EXCEPT !.kind = "none", !.rows = {}]
    BY DEF PickerKey
  <2> QED
    BY <1>1, <2>1 DEF RowsOK
<1>5. Good(ed')
  <2>1. ed' = ed \/ \E row \in modal.rows : ed' = Insert(ed, row)
    BY DEF PickerKey
  <2>2. modal.rows \subseteq Text
    BY <1>1 DEF RowsOK
  <2> QED
    BY <1>1, <2>1, <2>2, InsertGood
<1> QED
  BY <1>1, <1>2, <1>3, <1>4, <1>5 DEF KeysInv, RecallOK, AppOK

LEMMA DraftKeeps ==
    ASSUME KeysInv, QueueDraft \/ EditorKey \/ EscapeKey \/ StopKey PROVE KeysInv'
<1>1. TtyOK /\ Good(ed) /\ RecallOK /\ RowsOK /\ AppOK
  BY DEF KeysInv
<1>2. tty.keys # <<>> /\ KeyUsed /\ modal' = modal
  BY DEF QueueDraft, EditorKey, EscapeKey, StopKey, CanPress
<1>3. TtyOK' /\ RowsOK'
  BY <1>1, <1>2, KeyTaken DEF RowsOK
<1>4. Draft(ed) \in Text /\ Good(Clear(ed)) /\ recall.pos \in 0..Len(recall.history)
  <2>1. recall.history \in Seq(Text) /\ recall.pos \in Nat /\ recall.pos <= Len(recall.history)
    BY <1>1 DEF RecallOK
  <2>2. Len(recall.history) \in Nat
    BY <2>1, LenProperties
  <2> QED
    BY <1>1, <2>1, <2>2, DraftTyped, ClearGood DEF Good
<1>5. CASE QueueDraft
  <2>1. CASE UNCHANGED <<ed, recall, app>>
    BY <1>1, <1>3, <2>1 DEF KeysInv, RecallOK, AppOK
  <2>2. CASE app' = [app EXCEPT !.queue = app.queue + 1] /\ ed' = Clear(ed) /\ recall' = recall
    <3>1. AppOK'
      BY <1>1, <2>2 DEF AppOK
    <3> QED
      BY <1>1, <1>3, <1>4, <2>2, <3>1 DEF KeysInv, RecallOK
  <2>3. CASE SubmitText(Draft(ed), Clear(ed), recall.pos)
    BY <1>1, <1>3, <1>4, <2>3, Submitted DEF KeysInv
  <2> QED
    BY <1>5, <2>1, <2>2, <2>3 DEF QueueDraft
<1>6. CASE EditorKey
  <2>1. ed' = ed \/ \E t \in Loaded : ed' = SetText(ed, t)
    BY <1>6 DEF EditorKey
  <2>2. Good(ed')
    BY <1>1, <2>1, LoadedTyped, SetTextGood
  <2> QED
    BY <1>1, <1>3, <1>6, <2>2 DEF EditorKey, KeysInv, RecallOK, AppOK
<1>7. CASE EscapeKey
  <2>1. Good(ed')
    BY <1>1, <1>4, <1>7 DEF EscapeKey
  <2> QED
    BY <1>1, <1>3, <1>7, <2>1 DEF EscapeKey, KeysInv, RecallOK, AppOK
<1>8. CASE StopKey
  <2>1. AppOK' /\ ed' = ed /\ recall' = recall
    BY <1>1, <1>8, AppStops DEF StopKey
  <2> QED
    BY <1>1, <1>3, <2>1 DEF KeysInv, RecallOK
<1> QED
  BY <1>5, <1>6, <1>7, <1>8

LEMMA CompletionKeeps ==
    ASSUME KeysInv, CompletionKey PROVE KeysInv'
<1>1. TtyOK /\ Good(ed) /\ RecallOK /\ RowsOK /\ AppOK
  BY DEF KeysInv
<1>2. tty.keys # <<>> /\ KeyUsed /\ recall' = recall /\ app' = app
  BY DEF CompletionKey, CanPress
<1>3. TtyOK'
  BY <1>1, <1>2, KeyTaken
<1>4. RowsOK'
  <2>1. modal' = modal \/ modal' = [modal EXCEPT !.files = "closed"]
    BY DEF CompletionKey
  <2> QED
    BY <1>1, <2>1 DEF RowsOK
<1>5. Good(ed')
  <2>1. ed' = ed \/ ed' = Completed(ed)
    BY DEF CompletionKey
  <2> QED
    BY <1>1, <2>1, CompletedGood
<1> QED
  BY <1>1, <1>2, <1>3, <1>4, <1>5 DEF KeysInv, RecallOK, AppOK

LEMMA RecallKeeps ==
    ASSUME KeysInv, RecallKey PROVE KeysInv'
<1> DEFINE size == Len(recall.history)
           starts == recall.pos = FreeTyping
           pos == IF starts THEN size + 1 ELSE recall.pos
           to == IF Pressed("up") THEN pos - 1 ELSE pos + 1
<1>1. TtyOK /\ Good(ed) /\ RecallOK /\ RowsOK /\ AppOK
  BY DEF KeysInv
<1>2. tty.keys # <<>> /\ KeyUsed /\ modal' = modal /\ app' = app
  BY DEF RecallKey, CanPress
<1>3. TtyOK' /\ RowsOK'
  BY <1>1, <1>2, KeyTaken DEF RowsOK
<1>4. /\ recall \in [history : Seq(Text), pos : Nat, draft : Text]
      /\ size <= HistoryMax /\ recall.pos <= size
  BY <1>1 DEF RecallOK
<1>5. size \in Nat /\ \A i \in 1..size : recall.history[i] \in Text
  BY <1>4, LenProperties, ElementOfSeq
<1>6. <<>> \in Text /\ Draft(ed) \in Text
  BY <1>1, TextParts, DraftTyped DEF Good
<1>7. \/ UNCHANGED <<ed, recall>>
      \/ /\ ed' = SetText(ed, recall.draft)
         /\ recall' = [recall EXCEPT !.pos = FreeTyping, !.draft = <<>>]
      \/ /\ to # 0 /\ ~(to > size)
         /\ ed' = SetText(ed, recall.history[to])
         /\ recall' = [recall EXCEPT !.pos = to,
                                     !.draft = IF starts THEN Draft(ed) ELSE recall.draft]
  BY DEF RecallKey
<1>8. to \in Nat
  <2>1. pos \in Nat
    BY <1>4, <1>5
  <2>2. pos # 0
    BY <1>4, <1>5 DEF FreeTyping
  <2> HIDE DEF pos
  <2> QED
    BY <2>1, <2>2
<1> HIDE DEF to
<1>9. Good(ed') /\ RecallOK'
  <2>1. CASE UNCHANGED <<ed, recall>>
    BY <1>1, <2>1 DEF RecallOK
  <2>2. CASE /\ ed' = SetText(ed, recall.draft)
             /\ recall' = [recall EXCEPT !.pos = FreeTyping, !.draft = <<>>]
    <3>1. Good(ed')
      BY <1>1, <1>4, <2>2, SetTextGood
    <3>2. FreeTyping \in Nat /\ FreeTyping <= size
      BY <1>5 DEF FreeTyping
    <3>3. /\ recall' \in [history : Seq(Text), pos : Nat, draft : Text]
          /\ recall'.history = recall.history /\ recall'.pos = FreeTyping
      BY <1>4, <1>6, <2>2, <3>2
    <3>4. RecallOK'
      BY <1>4, <3>2, <3>3 DEF RecallOK
    <3> QED
      BY <3>1, <3>4
  <2>3. CASE /\ to # 0 /\ ~(to > size)
             /\ ed' = SetText(ed, recall.history[to])
             /\ recall' = [recall EXCEPT !.pos = to,
                                         !.draft = IF starts THEN Draft(ed) ELSE recall.draft]
    <3> DEFINE draft == IF starts THEN Draft(ed) ELSE recall.draft
    <3>1. to \in 1..size
      BY <1>5, <1>8, <2>3
    <3>2. Good(ed')
      BY <1>1, <1>5, <2>3, <3>1, SetTextGood
    <3>3. draft \in Text
      BY <1>4, <1>6
    <3>4. recall' = [recall EXCEPT !.pos = to, !.draft = draft]
      BY <2>3
    <3> HIDE DEF draft
    <3>5. /\ recall' \in [history : Seq(Text), pos : Nat, draft : Text]
          /\ recall'.history = recall.history /\ recall'.pos = to
      BY <1>4, <1>8, <3>3, <3>4
    <3>6. RecallOK'
      BY <1>4, <3>1, <3>5 DEF RecallOK
    <3> QED
      BY <3>2, <3>6
  <2> QED
    BY <1>7, <2>1, <2>2, <2>3
<1> QED
  BY <1>1, <1>2, <1>3, <1>9 DEF KeysInv, AppOK

LEMMA PasteKeeps ==
    ASSUME KeysInv, PasteKey PROVE KeysInv'
<1> DEFINE pasted == Head(tty.keys).payload
           flat == [i \in 1..Len(pasted) |-> IF pasted[i] = NL THEN SP ELSE pasted[i]]
<1>1. TtyOK /\ Good(ed) /\ RecallOK /\ RowsOK /\ AppOK
  BY DEF KeysInv
<1>2. tty.keys # <<>> /\ KeyUsed /\ recall' = recall /\ modal' = modal /\ app' = app
  BY DEF PasteKey, CanPress
<1>3. TtyOK' /\ Head(tty.keys) \in Keys
  BY <1>1, <1>2, KeyTaken
<1>4. pasted \in Text
  BY <1>3 DEF Keys
<1>5. ed' = Insert(ed, flat)
  BY DEF PasteKey
<1> HIDE DEF pasted
<1>6. flat \in Text
  <2>1. Len(pasted) \in Nat /\ SP \in Char /\ \A i \in 1..Len(pasted) : pasted[i] \in Char
    BY <1>4, TextParts DEF Char
  <2>2. flat \in [1..Len(pasted) -> Char]
    BY <2>1
  <2> HIDE DEF flat
  <2> QED
    BY <2>1, <2>2, SeqDef DEF Text
<1> HIDE DEF flat
<1>7. Good(ed')
  BY <1>1, <1>5, <1>6, InsertGood
<1> QED
  BY <1>1, <1>2, <1>3, <1>7 DEF KeysInv, RecallOK, RowsOK, AppOK

LEMMA EditKeeps ==
    ASSUME KeysInv, EditKey PROVE KeysInv'
<1>1. TtyOK /\ Good(ed) /\ RecallOK /\ RowsOK /\ AppOK
  BY DEF KeysInv
<1>2. tty.keys # <<>> /\ KeyUsed
  BY DEF EditKey, CanPress
<1>3. TtyOK' /\ Head(tty.keys) \in Keys
  BY <1>1, <1>2, KeyTaken
<1>4. RowsOK'
  <2>1. \E files : modal' = [modal EXCEPT !.files = files]
    BY DEF EditKey
  <2> QED
    BY <1>1, <2>1 DEF RowsOK
<1>5. Draft(ed) \in Text /\ Good(Clear(ed)) /\ FreeTyping \in 0..Len(recall.history)
  <2>1. Len(recall.history) \in Nat
    BY <1>1, LenProperties DEF RecallOK
  <2> QED
    BY <1>1, <2>1, DraftTyped, ClearGood DEF Good, FreeTyping
<1>6. CASE SubmitText(Draft(ed), Clear(ed), FreeTyping)
  BY <1>1, <1>3, <1>4, <1>5, <1>6, Submitted DEF KeysInv
<1>7. CASE /\ ed' = Clear(ed) \/ ed' = Handle(ed, Head(tty.keys).name, KeyText(Head(tty.keys)))
           /\ recall' = [recall EXCEPT !.pos = FreeTyping]
           /\ app' = app
  <2>1. KeyText(Head(tty.keys)) \in Text
    BY <1>3, KeyTextTyped
  <2>2. Good(ed')
    BY <1>1, <1>5, <1>7, <2>1, HandleGood
  <2>3. RecallOK'
    BY <1>1, <1>5, <1>7 DEF RecallOK, FreeTyping
  <2> QED
    BY <1>1, <1>3, <1>4, <1>7, <2>2, <2>3 DEF KeysInv, AppOK
<1> QED
  BY <1>6, <1>7 DEF EditKey

(* What happens between keys.                                               *)
LEMMA BetweenKeeps ==
    ASSUME KeysInv, TurnEnds \/ Asked \/ TimedOut \/ Message PROVE KeysInv'
<1>1. TtyOK /\ Good(ed) /\ RecallOK /\ RowsOK /\ AppOK
  BY DEF KeysInv
<1>2. tty' = tty /\ ed' = ed
  BY DEF TurnEnds, Asked, TimedOut, Message
<1>3. TtyOK' /\ Good(ed')
  BY <1>1, <1>2 DEF TtyOK
<1>4. RowsOK'
  <2>1. modal' = modal \/ modal' = [modal EXCEPT !.approval = TRUE]
        \/ modal' = [modal EXCEPT !.approval = FALSE]
    BY DEF TurnEnds, Asked, TimedOut, Message
  <2> QED
    BY <1>1, <2>1 DEF RowsOK
<1>5. RecallOK'
  <2>1. CASE recall' = recall
    BY <1>1, <2>1 DEF RecallOK
  <2>2. CASE \E text \in Sent :
               recall' = [recall EXCEPT !.history = Kept(Append(recall.history, text))]
    <3>1. PICK text \in Sent :
              recall' = [recall EXCEPT !.history = Kept(Append(recall.history, text))]
      BY <2>2
    <3> DEFINE history == Kept(Append(recall.history, text))
    <3>2. /\ recall \in [history : Seq(Text), pos : Nat, draft : Text]
          /\ Len(recall.history) <= HistoryMax /\ recall.pos <= Len(recall.history)
      BY <1>1 DEF RecallOK
    <3>3. /\ history \in Seq(Text) /\ Len(history) <= HistoryMax
          /\ Len(recall.history) <= Len(history)
      BY <3>2, KeysTyped, KeptWithin
    <3>4. recall' = [recall EXCEPT !.history = history]
      BY <3>1
    <3> HIDE DEF history
    <3>5. recall.pos <= Len(history)
      <4>1. Len(recall.history) \in Nat /\ Len(history) \in Nat
        BY <3>2, <3>3, LenProperties
      <4> QED
        BY <3>2, <3>3, <4>1
    <3> QED
      BY <3>2, <3>3, <3>4, <3>5 DEF RecallOK
  <2> QED
    BY <2>1, <2>2 DEF TurnEnds, Asked, TimedOut, Message
<1>6. AppOK'
  <2>1. CASE TurnEnds
    <3>1. \/ app.queue > 0 /\ app' = [app EXCEPT !.queue = app.queue - 1]
          \/ app' = [app EXCEPT !.busy = FALSE]
      BY <2>1 DEF TurnEnds
    <3>2. app.queue \in Nat
      BY <1>1 DEF AppOK
    <3>3. app.queue > 0 => app.queue - 1 \in Nat
      BY <3>2
    <3> DEFINE less == app.queue - 1
    <3> HIDE DEF less
    <3>4. \/ app' = [app EXCEPT !.queue = less] /\ less \in Nat
          \/ app' = [app EXCEPT !.busy = FALSE]
      BY <3>1, <3>3 DEF less
    <3> QED
      BY <1>1, <3>4 DEF AppOK
  <2>2. CASE Asked
    BY <1>1, <2>2, TuiKeysAssumption DEF Asked, Event, AppOK
  <2>3. CASE TimedOut
    BY <1>1, <2>3 DEF TimedOut, AppOK
  <2>4. CASE Message
    <3>1. app' = [app EXCEPT !.busy = TRUE, !.events = app.events + 1] /\ app.events < MaxEvents
      BY <2>4 DEF Message, Event
    <3> DEFINE events == app.events + 1
    <3>2. events \in 0..MaxEvents
      BY <1>1, <3>1, TuiKeysAssumption DEF AppOK
    <3>3. app' = [app EXCEPT !.busy = TRUE, !.events = events]
      BY <3>1
    <3> HIDE DEF events
    <3> QED
      BY <1>1, <3>2, <3>3 DEF AppOK
  <2> QED
    BY <2>1, <2>2, <2>3, <2>4
<1> QED
  BY <1>3, <1>4, <1>5, <1>6 DEF KeysInv

LEMMA KeysInvStep ==
    KeysInv /\ [KeysNext]_keysVars => KeysInv'
<1> SUFFICES ASSUME KeysInv, [KeysNext]_keysVars PROVE KeysInv'
  OBVIOUS
<1>1. CASE Stroke
  BY <1>1, StrokeKeeps
<1>2. CASE RawInterrupt \/ RawSubmit
  BY <1>2, RawKeeps
<1>3. CASE PressKey
  BY <1>3, ModalKeeps, PickerKeeps, DraftKeeps, CompletionKeeps, RecallKeeps, PasteKeeps,
     EditKeeps DEF PressKey
<1>4. CASE \E n \in 1..Len(tty.wire) : ReadKeys(n) \/ ReadHalf(n)
  BY <1>4, ReadKeysKeeps
<1>5. CASE TurnEnds \/ Asked \/ TimedOut \/ Message
  BY <1>5, BetweenKeeps
<1>6. CASE UNCHANGED keysVars
  BY <1>6 DEF keysVars, KeysInv, TtyOK, RecallOK, RowsOK, AppOK
<1> QED
  BY <1>1, <1>2, <1>3, <1>4, <1>5, <1>6 DEF KeysNext

LEMMA KeysInvAlways ==
    KeysSpec => []KeysInv
BY KeysInvInit, KeysInvStep, PTL DEF KeysSpec

(* KeysTypeOK: the cursor of the tui2 line editor never leaves its buffer,  *)
(* the recalled entry is one of the history, which keeps its cap, and a key *)
(* carries only what the terminal can send, for every set of keystrokes.    *)
THEOREM KeysTypes ==
    KeysSpec => []KeysTypeOK
<1>1. KeysInv => KeysTypeOK
  <2> SUFFICES ASSUME KeysInv PROVE KeysTypeOK
    OBVIOUS
  <2>1. TtyOK /\ Good(ed) /\ RecallOK /\ AppOK
    BY DEF KeysInv
  <2>2. ed.lines # <<>> /\ ed.row = 1 /\ ed.col \in 0..Len(AtLine(ed))
    BY <2>1, EditorParts DEF Good, Buffers
  <2>3. Len(recall.history) <= HistoryMax /\ recall.pos \in FreeTyping..Len(recall.history)
    <3>1. recall.history \in Seq(Text)
      BY <2>1 DEF RecallOK
    <3>2. Len(recall.history) \in Nat
      BY <3>1, LenProperties
    <3> QED
      BY <2>1, <3>2 DEF RecallOK, FreeTyping
  <2>4. \A i \in DOMAIN tty.keys : tty.keys[i].payload \in Text
    <3>1. tty.keys \in Seq(Keys)
      BY <2>1 DEF TtyOK
    <3>2. \A i \in DOMAIN tty.keys : tty.keys[i] \in Keys
      BY <3>1, ElementOfSeq, LenProperties
    <3> QED
      BY <3>2 DEF Keys
  <2>5. app.queue \in Nat /\ app.events \in 0..MaxEvents
    BY <2>1 DEF AppOK
  <2> QED
    BY <2>2, <2>3, <2>4, <2>5 DEF KeysTypeOK
<1> QED
  BY <1>1, KeysInvAlways, PTL

(* UndoLinks: whatever was typed, recalled, completed, loaded, cleared or   *)
(* undone, the entries of the undo stack are a chain of texts that ends in  *)
(* the text shown, for every UndoMax: an undo never jumps.                  *)
THEOREM KeysUndoLinks ==
    KeysSpec => []UndoLinks
<1>1. KeysInv => UndoLinks
  <2> SUFFICES ASSUME KeysInv PROVE UndoLinks
    OBVIOUS
  <2>1. Linked(ed.undo, Joined(ed.lines))
    BY DEF KeysInv, Good
  <2> QED
    BY <2>1 DEF UndoLinks, Linked, Last
<1> QED
  BY <1>1, KeysInvAlways, PTL

(* ChunksDontMatter: wherever the reads of the terminal cut a sequence or a *)
(* paste, the keys the reader has given since it was idle are those it      *)
(* gives when it reads all of these bytes at once; but after an ESC that    *)
(* "[" or "O" follows in the next read, where keys.py:16-17 says the same   *)
(* and the parser has given the key escape.                                 *)
THEOREM KeysChunksDontMatter ==
    KeysSpec => ChunksDontMatter
<1> DEFINE Agrees == \A n \in 1..Len(tty.wire) :
               ReadKeys(n) /\ ~AfterEscape(Chunk(n)) =>
                   tty.given \o tty'.keys = Feed(IdleReader, tty.fed \o Chunk(n)).keys
<1>1. KeysInv => Agrees
  <2> SUFFICES ASSUME KeysInv, NEW n \in 1..Len(tty.wire), ReadKeys(n),
                      ~AfterEscape(Chunk(n))
               PROVE  tty.given \o tty'.keys = Feed(IdleReader, tty.fed \o Chunk(n)).keys
    OBVIOUS
  <2>1. TtyOK
    BY DEF KeysInv
  <2>2. tty'.keys = Feed(tty.reader, Chunk(n)).keys
    BY DEF ReadKeys, ParserTakes
  <2> DEFINE gave == Feed(tty.reader, Chunk(n)).keys
             whole == Feed(IdleReader, tty.fed \o Chunk(n))
  <2>3. whole = [keys |-> tty.given \o gave, reader |-> Feed(tty.reader, Chunk(n)).reader]
    BY <2>1, WireParts, ReadGives
  <2> HIDE DEF whole
  <2>4. whole.keys = tty.given \o gave
    BY <2>3
  <2> QED
    BY <2>2, <2>4 DEF whole
<1>2. KeysInv => [Agrees]_keysVars
  BY <1>1
<1> QED
  BY <1>2, KeysInvAlways, PTL DEF ChunksDontMatter

=============================================================================
