------------------------------ MODULE EmailBridge ------------------------------
(***************************************************************************)
(* The email bridge (nbchat/tui/email_bridge.py) over the inbox            *)
(* (core/email_inbox.py) and the mailer (core/email_smtp.py): a detector   *)
(* thread polls the inbox and queues the user's commands, a worker thread  *)
(* gives them to the agent one by one and mails the reply.  The agent      *)
(* (tui/agent.py) is kept as its turn lock, its stop event and the last    *)
(* thing it said; what a turn does is in AgentTurn.  The rest of the       *)
(* program, which starts and ends the bridge, is in Repl.                  *)
(*                                                                         *)
(* A message is its UID.  Dates are abstracted to whether the message is   *)
(* fresh for this process, so messages are looked at in any order.         *)
(***************************************************************************)
EXTENDS Naturals, Sequences, FiniteSets

CONSTANTS
    MaxMail,   (* bounds the messages that arrive                            *)
    Inboxes,   (* what the messages may be, a set of functions on Msg        *)
    Limit,     (* the limit of peek_unseen                                   *)
    Typed,     (* turns the user types or says, bounds them                  *)
    MaxLives,  (* bounds the times the program is started                    *)
    AutoReply, (* _auto_reply                                                *)
    Clear, Nobody

Msg == 1..MaxMail

Command == {"low", "high", "supervisor"}
(* Mail of the bridge's own (a reply to the user's own address comes back   *)
(* to the inbox, with the subject of what it answers), mail of others, and  *)
(* mail of the user's about something else.                                 *)
Ignored == {"outbound", "stranger", "offtopic"}

ASSUME BridgeAssumption ==
    /\ MaxMail \in Nat /\ Limit \in Nat \ {0} /\ MaxLives \in Nat
    /\ Inboxes \subseteq [Msg -> Command \cup Ignored]
    /\ {Clear, Nobody} \cap (Typed \cup Msg) = {}
    /\ Clear # Nobody /\ Typed \cap Msg = {}
    /\ AutoReply \in BOOLEAN

VARIABLES
    kind,      (* what each message is                                       *)
    arrived,   (* messages 1..arrived are in the inbox                       *)
    read,      (* those flagged as seen on the server                        *)
    fresh,     (* those dated after the start of this session                *)
    lives,     (* times the program was started                              *)
    ending,    (* _stop                                                      *)
    dpc, batch, marks, dmsg,    (* the detector                              *)
    seen,      (* _seen                                                      *)
    queue,     (* _queue, in the order of the puts                           *)
    wpc, wmsg, (* the worker: where it is, and its message                   *)
    prio,      (* _processing_prio                                           *)
    reply,     (* what _process_email got: the turn whose text it is         *)
    lock,      (* the turn that holds the agent's _send_lock                 *)
    stop,      (* _stop_event: Clear, or the turn that ran when it was set *)
    last,      (* _last_response: the turn whose text it is                  *)
    registry,  (* _OUTBOUND_REPLIES                                          *)
    calls,     (* send_email calls that wait for a thread of the tools       *)
    smtp,      (* the send_email tool's messages being sent                  *)
    late,      (* those whose sending began after the bridge's own reply     *)
    given,     (* how often each message was given, in this process          *)
    toolSent, autoSent          (* messages answered, in this process        *)

inboxVars == <<kind, arrived, read, fresh, lives>>
detVars == <<dpc, batch, marks, dmsg>>
workVars == <<wpc, wmsg, prio, reply>>
agentVars == <<lock, stop, last>>
mailVars == <<registry, calls, smtp, late, toolSent, autoSent>>
vars == <<inboxVars, ending, detVars, seen, queue, workVars, agentVars, mailVars, given>>

(* EmailBridge.__init__ and start, in a new process.                        *)
ProcessInit ==
    /\ ending = FALSE
    /\ dpc = "wait" /\ batch = {} /\ marks = {} /\ dmsg = Nobody
    /\ seen = {} /\ queue = <<>>
    /\ wpc = "idle" /\ wmsg = Nobody /\ prio = "low" /\ reply = Nobody
    /\ lock = Nobody /\ stop = Clear /\ last = Nobody
    /\ registry = {} /\ calls = {} /\ smtp = {} /\ late = {}
    /\ toolSent = {} /\ autoSent = {}
    /\ given = [m \in Msg |-> 0]

MailInit ==
    /\ kind \in Inboxes
    /\ arrived = 0
    /\ read = {} /\ fresh = {} 
    /\ lives = 1
    /\ ProcessInit

(* HIGH_PRIORITY_KEYWORDS has "supervisor".                                 *)
Prio(m) == IF kind[m] = "low" THEN "low" ELSE "high"

(* _is_fresh: dated at or after the start of this session.                  *)
IsFresh(m) == m \in fresh

(* _is_outbound: the X-Nbchat header tells the bridge's own mail.           *)
IsOutbound(m) == kind[m] = "outbound"

(* _should_process: a command, from the user's own address, and not mail of *)
(* the bridge itself.                                                       *)
ShouldProcess(m) == ~IsOutbound(m) /\ kind[m] \notin {"stranger", "offtopic"}

-----------------------------------------------------------------------------
(* The inbox and the process.                                               *)

Arrive(isFresh) ==
    /\ arrived < MaxMail
    /\ arrived' = arrived + 1
    /\ fresh' = IF isFresh THEN fresh \cup {arrived'} ELSE fresh
    /\ UNCHANGED <<kind, read, lives, ending, detVars, seen, queue,
                   workVars, agentVars, mailVars, given>>

(* stop(): both threads are asked to end, and given some time to.           *)
StopBridge ==
    /\ ~ending
    /\ ending' = TRUE
    /\ UNCHANGED <<inboxVars, detVars, seen, queue, workVars, agentVars, mailVars, given>>

(* The process ends, at any point: its threads, daemons, and all it knew.   *)
ProcessEnds ==
    /\ ending' = FALSE
    /\ dpc' = "wait" /\ batch' = {} /\ marks' = {} /\ dmsg' = Nobody
    /\ seen' = {} /\ queue' = <<>>
    /\ wpc' = "idle" /\ wmsg' = Nobody /\ prio' = "low" /\ reply' = Nobody
    /\ lock' = Nobody /\ stop' = Clear /\ last' = Nobody
    /\ registry' = {} /\ calls' = {} /\ smtp' = {} /\ late' = {}
    /\ toolSent' = {} /\ autoSent' = {}
    /\ given' = [m \in Msg |-> 0]

(* Another is started, for which part of the inbox may be stale.            *)
Restart ==
    /\ lives < MaxLives
    /\ lives' = lives + 1
    /\ fresh' \in SUBSET fresh
    /\ ProcessEnds
    /\ UNCHANGED <<kind, arrived, read>>

-----------------------------------------------------------------------------
(* The detector: _detect_and_enqueue.                                       *)

Unseen == 1..arrived \ read

(* peek_unseen: the newest Limit of the unseen messages.                    *)
Peek ==
    /\ dpc = "wait" /\ ~ending
    /\ batch' = {m \in Unseen : Cardinality({n \in Unseen : n > m}) < Limit}
    /\ batch' # {}
    /\ dpc' = "scan"
    /\ UNCHANGED <<inboxVars, ending, marks, dmsg, seen, queue, workVars, agentVars,
                   mailVars, given>>

(* Mutant: _seen is left to the worker.                                     *)
LookForgets(m) ==
    /\ dpc = "scan" /\ ~ending /\ m \in batch
    /\ batch' = batch \ {m}
    /\ IF ~IsFresh(m)
       THEN UNCHANGED <<dpc, dmsg, marks>>
       ELSE IF ~ShouldProcess(m) \/ m \in seen
       THEN marks' = marks \cup {m} /\ UNCHANGED <<dpc, dmsg>>
       ELSE dmsg' = m /\ dpc' = "fetch" /\ UNCHANGED marks
    /\ UNCHANGED <<inboxVars, ending, seen, queue, workVars, agentVars, mailVars, given>>

(* One message of the poll: a stale one is left alone, one that is not a    *)
(* command or was seen before is to be marked, a new command is remembered. *)
Look(m) ==
    /\ dpc = "scan" /\ ~ending /\ m \in batch
    /\ batch' = batch \ {m}
    /\ IF ~IsFresh(m)
       THEN UNCHANGED <<dpc, dmsg, seen, marks>>
       ELSE IF ~ShouldProcess(m) \/ m \in seen
       THEN marks' = marks \cup {m} /\ UNCHANGED <<dpc, dmsg, seen>>
       ELSE /\ seen' = seen \cup {m}
            /\ dmsg' = m /\ dpc' = "fetch"
            /\ UNCHANGED marks
    /\ UNCHANGED <<inboxVars, ending, queue, workVars, agentVars, mailVars, given>>

(* fetch_body raises: the poll goes on with the next message.               *)
FetchFails ==
    /\ dpc = "fetch"
    /\ dpc' = "scan" /\ dmsg' = Nobody
    /\ UNCHANGED <<inboxVars, ending, batch, marks, seen, queue, workVars, agentVars,
                   mailVars, given>>

(* fetch_body returns, and _enqueue puts the message on the queue.          *)
Enqueue ==
    /\ dpc = "fetch"
    /\ queue' = Append(queue, dmsg)
    /\ dpc' = IF Prio(dmsg) = "high" THEN "preempt" ELSE "scan"
    /\ dmsg' = Nobody
    /\ UNCHANGED <<inboxVars, ending, batch, marks, seen, workVars, agentVars, mailVars, given>>

(* The worker is processing low-priority mail, or looks as if it were:      *)
(* agent.interrupt() stops whatever turn has the lock.                      *)
Preempt ==
    /\ dpc = "preempt"
    /\ stop' = IF prio = "low" THEN lock ELSE stop
    /\ dpc' = "scan"
    /\ UNCHANGED <<inboxVars, ending, batch, marks, dmsg, seen, queue, workVars, lock, last,
                   mailVars, given>>

(* mark_read and mark_read_batch: a store for each message on a connection  *)
(* that may fail before it or between two.                                  *)
StoreSeen(msgs) == \E done \in SUBSET msgs : read' = read \cup done

(* The end of a poll, or of one that the stop of the bridge cuts short.     *)
EndPoll ==
    /\ dpc = "scan"
    /\ batch = {} \/ ending
    /\ StoreSeen(marks)
    /\ batch' = {} /\ marks' = {}
    /\ dpc' = "wait"
    /\ UNCHANGED <<kind, arrived, fresh, lives, ending, dmsg, seen, queue,
                   workVars, agentVars, mailVars, given>>

-----------------------------------------------------------------------------
(* The worker: _worker_loop and _process_email.                             *)

(* The queue's order: high priority first, then the order of the puts.      *)
Precedes(i, j) ==
    IF Prio(queue[i]) = Prio(queue[j]) THEN i <= j ELSE Prio(queue[i]) = "high"

Get(i) ==
    /\ wpc = "idle" /\ ~ending
    /\ \A j \in DOMAIN queue : Precedes(i, j)
    /\ wmsg' = queue[i]
    /\ queue' = SubSeq(queue, 1, i - 1) \o SubSeq(queue, i + 1, Len(queue))
    /\ wpc' = "got"
    /\ UNCHANGED <<inboxVars, ending, detVars, seen, prio, reply, agentVars, mailVars, given>>

(* What is being processed is noted, after the message has left the queue.  *)
Track ==
    /\ wpc = "got"
    /\ prio' = Prio(wmsg)
    /\ wpc' = IF kind[wmsg] = "supervisor" THEN "ask" ELSE "send"
    /\ UNCHANGED <<inboxVars, ending, detVars, seen, queue, wmsg, reply, agentVars, mailVars, given>>

(* The end of _process_email, however it comes: the finally clause.         *)
Done == wpc' = "idle" /\ wmsg' = Nobody /\ prio' = "low" /\ reply' = Nobody

(* It is counted when it begins.                                            *)
Gives(m) ==
    /\ given' = [given EXCEPT ![m] = @ + 1]
    /\ UNCHANGED inboxVars

(* supervisor.ask, on a slot of its own, answers also when it fails, and    *)
(* what it answers may be empty.                                            *)
Asked(m) == {m, Nobody}

Supervise ==
    /\ wpc = "ask"
    /\ Gives(wmsg)
    /\ reply' \in Asked(wmsg)
    /\ seen' = seen \cup {wmsg}
    /\ wpc' = "mark"
    /\ UNCHANGED <<ending, detVars, queue, wmsg, prio, agentVars, mailVars>>

(* Mutant: the last response is not cleared.                                *)
BeginsStale(t) == lock = Nobody /\ lock' = t /\ stop' = Clear /\ UNCHANGED last

(* A turn begins: it takes the lock and clears the stop event (what is set  *)
(* before the lock is taken and what is set between the two is lost alike)  *)
(* and the last response.                                                   *)
Begins(t) == lock = Nobody /\ lock' = t /\ stop' = Clear /\ last' = Nobody

BeginMail ==
    /\ wpc = "send"
    /\ Begins(wmsg)
    /\ Gives(wmsg)
    /\ wpc' = "turn"
    /\ UNCHANGED <<ending, detVars, seen, queue, wmsg, prio, reply, mailVars>>

(* The turn says something: _on_stream_complete or _on_agent_message.       *)
Says ==
    /\ lock # Nobody
    /\ last' = lock
    /\ UNCHANGED <<inboxVars, ending, detVars, seen, queue, workVars, lock, stop, mailVars, given>>

(* Mutant: a failure in the turn ends the worker thread.                    *)
MailKills ==
    /\ wpc = "turn"
    /\ lock' = Nobody
    /\ wpc' = "dead"
    /\ UNCHANGED <<inboxVars, ending, detVars, seen, queue, wmsg, prio, reply, stop, last,
                   mailVars, given>>

(* An exception leaves _run_turn (the database, the terminal): the message  *)
(* is dropped.                                                              *)
MailRaises ==
    /\ wpc = "turn"
    /\ lock' = Nobody
    /\ Done
    /\ UNCHANGED <<inboxVars, ending, detVars, seen, queue, stop, last, mailVars, given>>

(* The turn ends; the response is read before the lock is released.         *)
MailEnds ==
    /\ wpc = "turn"
    /\ lock' = Nobody
    /\ reply' = last
    /\ wpc' = "mark"
    /\ UNCHANGED <<inboxVars, ending, detVars, seen, queue, wmsg, prio, stop, last, mailVars, given>>

(* After the message was given, whatever came of it.                        *)
MarkRead ==
    /\ wpc = "mark"
    /\ StoreSeen({wmsg})
    /\ wpc' = "reply"
    /\ UNCHANGED <<kind, arrived, fresh, lives, ending, detVars, seen, queue,
                   wmsg, prio, reply, agentVars, mailVars, given>>

(* Whether the reply is mailed: there is one, and the tool has not answered *)
(* this message.  A supervisor's answer is always mailed.                   *)
Replies ==
    /\ AutoReply /\ reply # Nobody
    /\ kind[wmsg] = "supervisor" \/ wmsg \notin registry

(* What send comes to: the mail goes out, or the server does not take it.   *)
SendOutcomes(m, sent) == {sent, sent \cup {m}}

(* Sending registers the reply first, and may fail; a reply of voice blocks *)
(* only is not sent at all.                                                 *)
Reply ==
    /\ wpc = "reply"
    /\ \/ /\ Replies
          /\ registry' = registry \cup {wmsg}
          /\ autoSent' \in SendOutcomes(wmsg, autoSent)
       \/ UNCHANGED <<registry, autoSent>>
    /\ Done
    /\ UNCHANGED <<inboxVars, ending, detVars, seen, queue, agentVars, calls, smtp, late,
                   toolSent, given>>

-----------------------------------------------------------------------------
(* The send_email tool, called in the turn of the message it answers.  The  *)
(* executor gives a call up after a time, and lets it be: it still gets its *)
(* thread when the tools before it are done, and sends, turn or no turn.    *)
(* (Bound: one call for each message.)                                      *)

ToolCall ==
    /\ wpc = "turn" /\ wmsg \notin calls \cup registry
    /\ calls' = calls \cup {wmsg}
    /\ UNCHANGED <<inboxVars, ending, detVars, seen, queue, workVars, agentVars, registry,
                   smtp, late, toolSent, autoSent, given>>

(* The message is still the worker's: its reply is yet to be decided.       *)
Undecided(m) == wmsg = m /\ wpc \in {"turn", "mark", "reply"}

(* The call gets its thread, and send notes what it answers.                *)
ToolSend(m) ==
    /\ m \in calls
    /\ calls' = calls \ {m}
    /\ registry' = registry \cup {m}
    /\ smtp' = smtp \cup {m}
    /\ late' = IF Undecided(m) THEN late ELSE late \cup {m}
    /\ UNCHANGED <<inboxVars, ending, detVars, seen, queue, workVars, agentVars, toolSent,
                   autoSent, given>>

ToolSent(m) ==
    /\ m \in smtp
    /\ smtp' = smtp \ {m}
    /\ toolSent' \in SendOutcomes(m, toolSent)
    /\ UNCHANGED <<inboxVars, ending, detVars, seen, queue, workVars, agentVars, registry,
                   calls, late, autoSent, given>>

-----------------------------------------------------------------------------
Detector ==
    \/ Peek \/ FetchFails \/ Enqueue \/ Preempt \/ EndPoll
    \/ \E m \in Msg : Look(m)

Worker ==
    \/ \E i \in DOMAIN queue : Get(i)
    \/ Track \/ Supervise \/ BeginMail \/ MailRaises \/ MailEnds \/ MarkRead \/ Reply

(* What goes on in the bridge, the inbox and the mailer.                    *)
Mail ==
    \/ \E isFresh \in BOOLEAN : Arrive(isFresh)
    \/ Detector \/ Worker \/ ToolCall
    \/ \E m \in Msg : ToolSend(m) \/ ToolSent(m)

-----------------------------------------------------------------------------
MailTypeOK ==
    /\ arrived \in 0..MaxMail
    /\ read \cup fresh \subseteq 1..arrived
    /\ dpc \in {"wait", "scan", "fetch", "preempt"}
    /\ batch \cup marks \cup seen \cup registry \cup calls \cup smtp \subseteq 1..arrived
    /\ dmsg \in Msg \cup {Nobody}
    /\ queue \in Seq(Msg) /\ Len(queue) <= MaxMail
    /\ wpc \in {"idle", "got", "ask", "send", "turn", "mark", "reply"}
    /\ wmsg \in Msg \cup {Nobody}
    /\ prio \in {"low", "high"}
    /\ {lock, last, reply} \subseteq Msg \cup Typed \cup {Nobody}
    /\ stop \in Msg \cup Typed \cup {Nobody, Clear}
    /\ toolSent \cup autoSent \cup late \subseteq registry

(* A process gives each message to the agent or the supervisor at most      *)
(* once, although it stays unread, and is found again by every poll, while  *)
(* it waits and while its turn runs (_seen), and its own replies, which come*)
(* back to the inbox, never.  A message is mailed two replies, the tool's   *)
(* and the bridge's, only when the tool's sending began after the bridge had*)
(* replied: a call that was given up in the turn and got its thread later.  *)
(* For these the code breaks what it says ("One reply is the contract",     *)
(* email_bridge.py 328; "the user receives exactly one reply",              *)
(* email_smtp.py 21): the registry is read once, and asked for calls that   *)
(* have begun only.  A call that began in time silences the bridge, also    *)
(* when its mail goes out after the turn.                                   *)
AtMostOnce ==
    /\ \A m \in Msg : given[m] <= IF kind[m] = "outbound" THEN 0 ELSE 1
    /\ toolSent \cap autoSent \subseteq late

(* What is mailed as the reply to a message was said in that message's      *)
(* turn, whatever turns of the user come before, after and between: an      *)
(* interrupted turn that said nothing has no reply.                         *)
ReplyIsOwn == reply \in {wmsg, Nobody}

=============================================================================
