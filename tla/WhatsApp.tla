------------------------------- MODULE WhatsApp ------------------------------
(***************************************************************************)
(* The WhatsApp channel: every inbound message is an HTTP request served   *)
(* by a thread of its own, and all of them share one agent.  A lock        *)
(* serializes their turns: it switches the agent to the sender's session,  *)
(* runs the turn and captures the reply in one field of the agent.         *)
(***************************************************************************)
EXTENDS Integers, Sequences

CONSTANTS Requests,   \* inbound messages, each with a thread
          Senders,    \* WhatsApp ids
          From        \* the sender of each request

VARIABLES
    pc,        \* per request: where its thread is
    lock,      \* the request that holds _send_lock, or Nobody
    session,   \* agent.session_id: a sender, or Nobody
    history,   \* agent.history: the requests and answers it is shown
    log,       \* chat_log of each sender's session
    last,      \* agent._last_response: whose answer it is, or Nobody
    reply      \* what each request was answered with

vars == <<pc, lock, session, history, log, last, reply>>

Nobody == 0

Init ==
    /\ pc = [r \in Requests |-> "arriving"]
    /\ lock = Nobody /\ session = Nobody /\ history = <<>>
    /\ log = [s \in Senders |-> <<>>]
    /\ last = Nobody
    /\ reply = [r \in Requests |-> Nobody]

At(r, here, there) == pc[r] = here /\ pc' = [pc EXCEPT ![r] = there]

\* An empty text is refused (400) before the agent is asked.
Refuse(r) ==
    /\ At(r, "arriving", "gone")
    /\ UNCHANGED <<lock, session, history, log, last, reply>>

Acquire(r) ==
    /\ At(r, "arriving", "switch") /\ lock = Nobody
    /\ lock' = r
    /\ UNCHANGED <<session, history, log, last, reply>>

\* _switch_session: the same sender's history stays as it is; another's is
\* loaded.  The captured reply is cleared.
Switch(r) ==
    /\ At(r, "switch", "ask")
    /\ IF session = From[r] THEN UNCHANGED <<session, history>>
       ELSE session' = From[r] /\ history' = log[From[r]]
    /\ last' = Nobody
    /\ UNCHANGED <<lock, log, reply>>

AskTurn(r) ==
    /\ At(r, "ask", "turn")
    /\ history' = Append(history, r)
    /\ log' = [log EXCEPT ![session] = Append(@, r)]
    /\ UNCHANGED <<lock, session, last, reply>>

\* The streaming hooks capture the text so far, any number of times.
Stream(r) ==
    /\ pc[r] = "turn" /\ last # r
    /\ last' = r
    /\ UNCHANGED <<pc, lock, session, history, log, reply>>

\* The turn is over, with an answer, a notice or nothing; the lock is freed.
Release(r) ==
    /\ At(r, "turn", "return")
    /\ lock' = Nobody
    /\ UNCHANGED <<session, history, log, last, reply>>

\* The captured reply is read after the lock was freed.
Reply(r) ==
    /\ At(r, "return", "gone")
    /\ reply' = [reply EXCEPT ![r] = last]
    /\ UNCHANGED <<lock, session, history, log, last>>

Next ==
    \E r \in Requests :
        \/ Refuse(r) \/ Acquire(r) \/ Switch(r) \/ AskTurn(r) \/ Stream(r)
        \/ Release(r) \/ Reply(r)

Spec == Init /\ [][Next]_vars

-----------------------------------------------------------------------------
TypeOK ==
    /\ lock \in Requests \cup {Nobody} /\ session \in Senders \cup {Nobody}
    /\ last \in Requests \cup {Nobody}
    /\ reply \in [Requests -> Requests \cup {Nobody}]
    /\ DOMAIN pc = Requests /\ DOMAIN log = Senders

\* handle() returns the reply to the message it was given: no sender is
\* answered with the text that was produced for another request.
ReplyIsYours == \A r \in Requests : reply[r] \in {Nobody, r}
=============================================================================
