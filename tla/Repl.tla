---------------------------------- MODULE Repl ---------------------------------
(***************************************************************************)
(* The line-based chat program (nbchat/tui/app.py): its main thread reads  *)
(* lines and gives each to a turn thread of the agent (send_async), while  *)
(* mail (EmailBridge), the words said at a laptop (voice/server.py,        *)
(* voice/laptop_client.py) and the supervisor's spoken remarks come in     *)
(* beside it.  Every turn is acknowledged on the voice bus                 *)
(* (voice/events.py), from which the laptop's client is told.              *)
(***************************************************************************)
EXTENDS EmailBridge

CONSTANTS
    Spoken,    (* turns of Typed that are said, not typed                    *)
    Plans,     (* bounds: the flags it is started with, whether a laptop     *)
               (* listens, the mail that comes, the turns asked for, how     *)
               (* often it is started                                        *)
    HearCap    (* maxsize of a subscriber's queue                            *)

ASSUME ReplAssumption ==
    /\ Spoken \subseteq Typed /\ HearCap \in Nat \ {0}
    /\ Plans \subseteq [flags : SUBSET {"email", "voice", "supervisor"}, laptop : BOOLEAN,
                       mail : 0..MaxMail, turns : SUBSET Typed, lives : 1..MaxLives]

VARIABLES
    plan,      (* what this behaviour is about                               *)
    args,      (* the parts of the program that run                          *)
    main,      (* where the main thread is                                   *)
    handle,    (* turn_thread                                                *)
    at,        (* of each turn of Typed: where it is                         *)
    ended,     (* of each turn of Typed: how its loop ended                  *)
    acks,      (* what was published on the bus in this process: kind, turn  *)
    client,    (* the laptop's stream: whether it is open, and its queue     *)
    remark     (* the turn the supervisor prepares a remark on               *)

turnVars == <<at, ended>>
voiceVars == <<acks, client, remark>>
bridgeVars == <<inboxVars, ending, detVars, seen, queue, workVars, mailVars, given>>
replVars == <<plan, args, main, handle, turnVars, voiceVars>>
allVars == <<vars, replVars>>

ReplInit ==
    /\ MailInit
    /\ plan \in Plans
    /\ args = plan.flags
    /\ main = "start" /\ handle = Nobody
    /\ at = [t \in Typed |-> "new"] /\ ended = [t \in Typed |-> "no"]
    /\ acks = <<>> /\ client = [conn |-> "off", queue |-> <<>>]
    /\ remark = Nobody

Running == main \notin {"start", "out"}
(* ... and its parts have not been told to stop.                            *)
Has(part) == Running /\ main # "stopped" /\ part \in args
Alive(t) == t \in Typed /\ at[t] \in {"waiting", "going"}
(* _turn_active: a turn has the lock and its loop runs.                     *)
Active == lock # Nobody /\ (lock \in Typed => ended[lock] = "no")
Put(t, where) == at' = [at EXCEPT ![t] = where]

-----------------------------------------------------------------------------
(* The voice bus and the laptop.                                            *)

(* publish: a subscriber whose queue is full is dropped.                    *)
Publish(said) ==
    IF "voice" \notin args THEN UNCHANGED <<acks, client>>
    ELSE /\ acks' = acks \o said
         /\ client' =
              IF client.conn # "on" THEN client
              ELSE IF Len(client.queue) + Len(said) <= HearCap
              THEN [client EXCEPT !.queue = @ \o said]
              ELSE [client EXCEPT !.conn = "dropped"]

(* voice_stream: the client's connection is a subscriber.                   *)
Connect ==
    /\ Has("voice") /\ plan.laptop /\ client.conn = "off"
    /\ client' = [conn |-> "on", queue |-> <<>>]
    /\ UNCHANGED <<vars, plan, args, main, handle, turnVars, acks, remark>>

(* The client speaks the next event.  One that was dropped gets what is     *)
(* left, and then keepalives for ever.                                      *)
Speak ==
    /\ Running /\ client.queue # <<>>
    /\ client' = [client EXCEPT !.queue = Tail(@)]
    /\ UNCHANGED <<vars, plan, args, main, handle, turnVars, acks, remark>>

(* The connection breaks, and is no subscriber any more.                    *)
Disconnect ==
    /\ Running /\ client.conn # "off"
    /\ client' = [conn |-> "off", queue |-> <<>>]
    /\ UNCHANGED <<vars, plan, args, main, handle, turnVars, acks, remark>>

(* The words said at the laptop are posted to the bridge's queue.           *)
Say(t) ==
    /\ Has("voice")
    /\ t \in Spoken \cap plan.turns /\ at[t] = "new"
    /\ Put(t, "inbound")
    /\ UNCHANGED <<vars, plan, args, main, handle, ended, voiceVars>>

(* _voice_inbound_loop: the receipt is acknowledged ...                     *)
TakeSaid(t) ==
    /\ Running /\ t \in Spoken /\ at[t] = "inbound"
    /\ \A u \in Typed : at[u] # "received"
    /\ Publish(<<<<"received", t>>>>)
    /\ Put(t, "received")
    /\ UNCHANGED <<vars, plan, args, main, handle, ended, remark>>

(* ... and then a turn thread is started, of which the main thread knows    *)
(* nothing.                                                                 *)
HandOver(t) ==
    /\ Running /\ at[t] = "received"
    /\ Put(t, "waiting")
    /\ UNCHANGED <<vars, plan, args, main, handle, ended, voiceVars>>

(* _voice_status: the supervisor looks at the turn that runs ... (Bound:    *)
(* until it has said something of the turn.)                                *)
LookAtTurn ==
    /\ Has("voice") /\ Has("supervisor")
    /\ remark = Nobody /\ Active
    /\ \A i \in DOMAIN acks : acks[i] # <<"status", lock>>
    /\ remark' = lock
    /\ UNCHANGED <<vars, plan, args, main, handle, turnVars, acks, client>>

(* ... asks the LLM, and says what it thinks of it, if anything.            *)
Remark ==
    /\ Running /\ remark # Nobody
    /\ remark' = Nobody
    /\ Publish(<<<<"status", remark>>>>) \/ UNCHANGED <<acks, client>>
    /\ UNCHANGED <<vars, plan, args, main, handle, turnVars>>

-----------------------------------------------------------------------------
(* The turn threads of send_async.                                          *)

(* The lock is taken, the start acknowledged.                               *)
BeginTurn(t) ==
    /\ Running /\ at[t] = "waiting"
    /\ Begins(t)
    /\ Publish(<<<<"started", t>>>>)
    /\ Put(t, "going")
    /\ UNCHANGED <<bridgeVars, plan, args, main, handle, ended, remark>>

(* A voice tag in the reply is spoken too.  (Bound: one of each turn.)      *)
VoiceTag ==
    /\ Running /\ "voice" \in args /\ Active
    /\ \A i \in DOMAIN acks : acks[i] # <<"tag", lock>>
    /\ Publish(<<<<"tag", lock>>>>)
    /\ UNCHANGED <<vars, plan, args, main, handle, turnVars, remark>>

(* _run_turn returns or raises: the loop saw the stop event; or it answered,*)
(* or failed and said so; or the turn raised before its loop.               *)
LoopEnds(t, how) ==
    /\ Running /\ at[t] = "going" /\ ended[t] = "no"
    /\ how = "stopped" => stop # Clear
    /\ how = "failed" => last = t
    /\ ended' = [ended EXCEPT ![t] = how]
    /\ UNCHANGED <<vars, plan, args, main, handle, at, voiceVars>>

(* What is said of a turn at its end: the stop event goes before anything.  *)
EndKind(t) ==
    IF stop # Clear THEN "interrupted"
    ELSE IF ended[t] = "raised" THEN "failed" ELSE "complete"

(* Mutant: the end is acknowledged when the lock is released.               *)
EndTurnUnlocked(t) ==
    /\ Running /\ ended[t] # "no"
    /\ \/ /\ lock = t /\ lock' = Nobody
          /\ UNCHANGED <<acks, client, at>>
       \/ /\ at[t] = "going" /\ lock # t
          /\ Publish(<<<<EndKind(t), t>>>>)
          /\ Put(t, "over") /\ UNCHANGED lock
    /\ UNCHANGED <<bridgeVars, stop, last, plan, args, main, handle, ended, remark>>

(* The end is acknowledged under the lock, which is then released.          *)
EndTurn(t) ==
    /\ Running /\ at[t] = "going" /\ ended[t] # "no"
    /\ Publish(<<<<EndKind(t), t>>>>)
    /\ lock' = Nobody
    /\ Put(t, "over")
    /\ UNCHANGED <<bridgeVars, stop, last, plan, args, main, handle, ended, remark>>

TurnThread(t) ==
    \/ BeginTurn(t) \/ EndTurn(t)
    \/ \E how \in {"answered", "stopped", "failed", "raised"} : LoopEnds(t, how)

-----------------------------------------------------------------------------
(* The main thread: run.                                                    *)

(* The parts asked for are started: the voice bridge may fail to, and the   *)
(* email bridge needs its password.                                         *)
Start ==
    /\ main = "start"
    /\ main' = "prompt"
    /\ \E failed \in SUBSET {"voice", "email"} : args' = args \ failed
    /\ UNCHANGED <<vars, plan, handle, turnVars, voiceVars>>

(* interrupt(): whichever turn has the lock.                                *)
Interrupts == stop' = lock /\ UNCHANGED <<bridgeVars, lock, last>>

(* A line of text.  When the turn of the line before is not over (it may    *)
(* still wait for the lock), whatever turn runs is interrupted.             *)
Line(t) ==
    /\ main = "prompt"
    /\ t \in plan.turns \ Spoken /\ at[t] = "new"
    /\ IF Alive(handle) THEN Interrupts ELSE UNCHANGED vars
    /\ handle' = t
    /\ Put(t, "waiting")
    /\ UNCHANGED <<plan, args, main, ended, voiceVars>>

(* /quit or /exit: whatever runs is left behind.                            *)
Quit ==
    /\ main = "prompt"
    /\ main' = "closing"
    /\ UNCHANGED <<vars, plan, args, handle, turnVars, voiceVars>>

(* Ctrl+C or the end of the input at the prompt.                            *)
Leave ==
    /\ main = "prompt"
    /\ IF Alive(handle) THEN Interrupts /\ main' = "wait"
       ELSE UNCHANGED vars /\ main' = "closing"
    /\ UNCHANGED <<plan, args, handle, turnVars, voiceVars>>

(* wait_for_turn: until the turn of the last line is over, or five seconds  *)
(* after another Ctrl+C.                                                    *)
Waited ==
    /\ (main = "wait" /\ ~Alive(handle)) \/ main = "grace"
    /\ main' = "closing"
    /\ UNCHANGED <<vars, plan, args, handle, turnVars, voiceVars>>

LeaveAgain ==
    /\ main = "wait"
    /\ Interrupts
    /\ main' = "grace"
    /\ UNCHANGED <<plan, args, handle, turnVars, voiceVars>>

(* The process ends, and what it knew is gone.                              *)
Gone ==
    /\ handle' = Nobody
    /\ at' = [t \in Typed |-> IF at[t] \in {"new", "over"} THEN at[t] ELSE "lost"]
    /\ acks' = <<>> /\ client' = [conn |-> "off", queue |-> <<>>]
    /\ remark' = Nobody
    /\ UNCHANGED <<plan, ended>>

(* A third Ctrl+C is caught nowhere: the bridges are not stopped.           *)
Escape ==
    /\ main = "grace"
    /\ main' = "out"
    /\ ProcessEnds /\ UNCHANGED inboxVars
    /\ Gone /\ UNCHANGED args

(* The email bridge, the voice bridge and the supervisor are stopped.       *)
Close ==
    /\ main = "closing"
    /\ IF "email" \in args THEN StopBridge ELSE UNCHANGED vars
    /\ main' = "stopped"
    /\ UNCHANGED <<plan, args, handle, turnVars, voiceVars>>

(* run returns: the process and its threads, daemons all, are gone.         *)
Exit ==
    /\ main = "stopped"
    /\ main' = "out"
    /\ ProcessEnds /\ UNCHANGED inboxVars
    /\ Gone /\ UNCHANGED args

(* The program is started again, after its end or a crash.                  *)
StartAgain ==
    /\ Restart /\ lives < plan.lives
    /\ args' = plan.flags /\ main' = "start"
    /\ Gone

MainThread ==
    \/ Start \/ Quit \/ Leave \/ Waited \/ LeaveAgain \/ Escape \/ Close \/ Exit
    \/ \E t \in Typed : Line(t)

Voice ==
    \/ Connect \/ Speak \/ Disconnect \/ LookAtTurn \/ Remark
    \/ \E t \in Spoken : Say(t) \/ TakeSaid(t) \/ HandOver(t)

ReplNext ==
    \/ Running /\ "email" \in args /\ Mail /\ arrived' <= plan.mail /\ UNCHANGED replVars
    \/ Running /\ Says /\ UNCHANGED replVars
    \/ MainThread \/ StartAgain \/ Voice \/ VoiceTag
    \/ \E t \in Typed : TurnThread(t)

(* The threads run on, and a turn's loop ends (see AgentTurn).              *)
Fairness ==
    /\ \A t \in Typed : WF_allVars(TurnThread(t))
    /\ \A t \in Spoken : WF_allVars(TakeSaid(t) \/ HandOver(t))
    /\ WF_allVars(Running /\ "email" \in args /\ Detector /\ UNCHANGED replVars)
    /\ WF_allVars(Running /\ "email" \in args /\ Worker /\ UNCHANGED replVars)

Spec == ReplInit /\ [][ReplNext]_allVars /\ Fairness

-----------------------------------------------------------------------------
TypeOK ==
    /\ MailTypeOK
    /\ plan \in Plans
    /\ args \subseteq {"email", "voice", "supervisor"}
    /\ main \in {"start", "prompt", "wait", "grace", "closing", "stopped", "out"}
    /\ handle \in Typed \cup {Nobody}
    /\ at \in [Typed -> {"new", "inbound", "received", "waiting", "going", "over", "lost"}]
    /\ ended \in [Typed -> {"no", "answered", "stopped", "failed", "raised"}]
    /\ client.conn \in {"off", "on", "dropped"} /\ Len(client.queue) <= HearCap
    /\ remark \in Msg \cup Typed \cup {Nobody}

Ends == {"complete", "failed", "interrupted"}

(* What the bus says of a turn is said in its time (voice/events.py: "no    *)
(* event may be published without the corresponding state transition having *)
(* actually occurred"), as far as that is so: words that were said are      *)
(* acknowledged when they are taken, before their turn begins - but before  *)
(* they are handed to the agent, not "post send_async" (events.py 7);       *)
(* between the start of a turn and its one end nothing is said of the start,*)
(* the end or in the voice of another turn, which leaves only receipts and  *)
(* the supervisor's remarks; a turn that the stop event ended is not called *)
(* complete, nor one that raised, and failed is said of the latter only -   *)
(* so a turn that failed in its loop, which surfaces the error and returns, *)
(* is called complete, where events.py 10-12 and agent.py 106-108 have it   *)
(* failed.  A client that keeps up is told everything since it connected.   *)
AcksTrue ==
    /\ \A i \in DOMAIN acks :
          LET kind_ == acks[i][1]
              t == acks[i][2]
          IN  /\ kind_ \in Ends =>
                    \E j \in 1..(i - 1) :
                        /\ acks[j] = <<"started", t>>
                        /\ \A n \in (j + 1)..(i - 1) :
                              acks[n] = <<"tag", t>> \/ acks[n][1] \in {"received", "status"}
              /\ kind_ = "complete" => ended[t] \in {"answered", "failed"}
              /\ kind_ = "failed" => ended[t] = "raised"
              /\ kind_ = "received" => at[t] \notin {"new", "inbound"}
              /\ kind_ = "started" /\ t \in Spoken =>
                    \E j \in 1..(i - 1) : acks[j] = <<"received", t>>
    /\ client.conn = "on" =>
          \E i \in 1..(Len(acks) + 1) : client.queue = SubSeq(acks, i, Len(acks))

(* What was taken in is served, unless the program is told to end: mail on  *)
(* the queue is given to the agent or the supervisor, and a line typed or   *)
(* said gets its turn, however often it is interrupted before (run: "no     *)
(* message is lost").  Said of the last process, the one that does not end  *)
(* early.                                                                   *)
Served ==
    /\ \A m \in Msg :
          (m \in {queue[i] : i \in DOMAIN queue} /\ lives = plan.lives)
              ~> (given[m] > 0 \/ ending \/ ~Running)
    /\ \A t \in Typed :
          (at[t] \in {"inbound", "received", "waiting"} /\ lives = plan.lives)
              ~> (at[t] = "over" \/ ~Running)

=============================================================================
