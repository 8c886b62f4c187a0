------------------------------- MODULE ReplProofs -------------------------------
(***************************************************************************)
(* Whatever mail comes, whatever is typed and said, and however often the  *)
(* program is started: a process gives a message at most once and sends one*)
(* reply to it (a second only from a call of the tool that starts late), a *)
(* reply is what was said in the turn of its own message, and what the     *)
(* voice bus says of a turn is said in its time.                           *)
(*                                                                         *)
(* The inductive invariant IInv has three layers: the bridge's (MailTypes, *)
(* Once, OneReply), of which only the bridge's own steps change anything;  *)
(* that of the turns and the lock, which every thread uses; and that of    *)
(* the bus (Told, Kept), of which only the steps that publish do.          *)
(***************************************************************************)
EXTENDS Repl, SequenceTheorems, TLAPS

-----------------------------------------------------------------------------
(* The bridge.                                                              *)

MailTypes ==
    /\ kind \in [Msg -> Command \cup Ignored] /\ given \in [Msg -> Nat]
    /\ queue \in Seq(Msg)
    /\ dpc \in {"wait", "scan", "fetch", "preempt"}
    /\ wpc \in {"idle", "got", "ask", "send", "turn", "mark", "reply"}
    /\ dpc = "fetch" => dmsg \in Msg
    /\ IF wpc = "idle" THEN wmsg = Nobody ELSE wmsg \in Msg

(* A message that was remembered and is on its way to the agent.            *)
Due(m) == m \in seen /\ given[m] = 0 /\ kind[m] \in Command /\ m # wmsg

(* A message is in one place, and only one that was remembered was given.   *)
Once ==
    /\ \A m \in Msg : /\ given[m] <= 1
                      /\ given[m] = 1 => m \in seen /\ kind[m] \in Command
    /\ \A i \in DOMAIN queue : Due(queue[i])
    /\ \A i, j \in DOMAIN queue : queue[i] = queue[j] => i = j
    /\ dpc = "fetch" => Due(dmsg) /\ \A i \in DOMAIN queue : queue[i] # dmsg
    /\ wpc # "idle" => wmsg \in seen /\ kind[wmsg] \in Command
    /\ wpc \in {"got", "ask", "send"} => given[wmsg] = 0
    /\ wpc \in {"turn", "mark", "reply"} => given[wmsg] = 1

(* The tool is called for a message in its turn; the bridge answers after   *)
(* it, and finds the tool's answer in the registry, unless that began late. *)
OneReply ==
    /\ wpc \in {"send", "turn"} => kind[wmsg] # "supervisor"
    /\ calls \subseteq {m \in Msg : kind[m] # "supervisor"}
    /\ smtp \cup toolSent \subseteq {m \in registry : m \in Msg /\ kind[m] # "supervisor"}
    /\ autoSent \cap (smtp \cup toolSent) \subseteq late
    /\ \A m \in autoSent : m \in Msg /\ given[m] = 1 /\ m # wmsg

-----------------------------------------------------------------------------
(* The turns.                                                               *)

TurnTypes ==
    /\ at \in [Typed -> {"new", "inbound", "received", "waiting", "going", "over", "lost"}]
    /\ ended \in [Typed -> {"no", "answered", "stopped", "failed", "raised"}]
    /\ lock \in Msg \cup Typed \cup {Nobody}
    /\ remark \in Msg \cup Typed \cup {Nobody}

(* Whoever runs a turn has the lock, and what was said last was said in it. *)
Turns ==
    /\ \A t \in Typed : at[t] = "going" <=> lock = t
    /\ wpc = "turn" <=> lock \in Msg
    /\ wpc = "turn" => lock = wmsg
    /\ lock # Nobody => last \in {lock, Nobody}
    /\ reply \in {wmsg, Nobody}

(* A turn that the stop event ended finds it set until it is over.          *)
Stops ==
    /\ \A t \in Typed : at[t] = "going" /\ ended[t] = "stopped" => stop # Clear
    /\ \A t \in Typed : ended[t] # "no" => at[t] \in {"going", "over", "lost"}

-----------------------------------------------------------------------------
(* The bus.                                                                 *)

Ack == ({"received", "started"} \cup Ends) \X Typed
          \cup {"tag", "status"} \X (Typed \cup Msg)

BusTypes ==
    /\ acks \in Seq(Ack)
    /\ client \in [conn : {"off", "on", "dropped"}, queue : Seq(Ack)]

(* Of the first n acks: the start of turn t is one, and nothing after it is *)
(* of another turn.                                                         *)
Began(s, n, t) ==
    \E j \in 1..n :
        /\ s[j] = <<"started", t>>
        /\ \A k \in (j + 1)..n : s[k] = <<"tag", t>> \/ s[k][1] \in {"received", "status"}

Receipt(s, n, t) == \E j \in 1..n : s[j] = <<"received", t>>

Told ==
    /\ \A i \in DOMAIN acks :
          /\ acks[i][1] \in Ends => Began(acks, i - 1, acks[i][2])
          /\ acks[i][1] = "complete" => ended[acks[i][2]] \in {"answered", "failed"}
          /\ acks[i][1] = "failed" => ended[acks[i][2]] = "raised"
          /\ acks[i][1] = "received" => at[acks[i][2]] \notin {"new", "inbound"}
          /\ acks[i][1] = "started" /\ acks[i][2] \in Spoken => Receipt(acks, i - 1, acks[i][2])
    /\ "voice" \in args =>
          \A t \in Typed : /\ at[t] = "going" => Began(acks, Len(acks), t)
                           /\ at[t] \in {"received", "waiting"} /\ t \in Spoken =>
                               Receipt(acks, Len(acks), t)

(* The client that keeps up has yet to speak the acks after the first i.    *)
Kept ==
    client.conn = "on" =>
        \E i \in 0..Len(acks) :
            /\ Len(client.queue) = Len(acks) - i
            /\ \A k \in 1..Len(client.queue) : client.queue[k] = acks[i + k]

IInv == MailTypes /\ Once /\ OneReply /\ TurnTypes /\ Turns /\ Stops /\ BusTypes /\ Told /\ Kept


-----------------------------------------------------------------------------
(* What the constants are.                                                  *)
LEMMA Names ==
    /\ Nobody \notin Typed /\ Nobody \notin Msg /\ Clear # Nobody
    /\ Clear \notin Typed /\ Clear \notin Msg /\ Typed \cap Msg = {}
    /\ Inboxes \subseteq [Msg -> Command \cup Ignored]
    /\ Command \cap Ignored = {} /\ Spoken \subseteq Typed
    /\ HearCap \in Nat \ {0}
  BY BridgeAssumption, ReplAssumption DEF BridgeAssumption, ReplAssumption, Command, Ignored

LEMMA AppendIs ==
    ASSUME NEW S, NEW s \in Seq(S), NEW x \in S
    PROVE  /\ Append(s, x) \in Seq(S)
           /\ Len(Append(s, x)) = Len(s) + 1
           /\ DOMAIN Append(s, x) = 1..(Len(s) + 1) /\ DOMAIN s = 1..Len(s)
           /\ \A k \in 1..Len(s) : Append(s, x)[k] = s[k]
           /\ Append(s, x)[Len(s) + 1] = x
           /\ s \o <<x>> = Append(s, x)
  OBVIOUS

(* The queue without its i-th message.                                      *)
Removed(s, i) == SubSeq(s, 1, i - 1) \o SubSeq(s, i + 1, Len(s))

LEMMA RemovedIs ==
    ASSUME NEW S, NEW s \in Seq(S), NEW i \in DOMAIN s
    PROVE  /\ Removed(s, i) \in Seq(S)
           /\ DOMAIN Removed(s, i) = 1..(Len(s) - 1) /\ DOMAIN s = 1..Len(s)
           /\ \A k \in 1..(Len(s) - 1) : Removed(s, i)[k] = IF k < i THEN s[k] ELSE s[k + 1]
<1> DEFINE front == SubSeq(s, 1, i - 1)
           back == SubSeq(s, i + 1, Len(s))
<1>1. /\ front \in Seq(S) /\ Len(front) = i - 1
      /\ \A k \in 1..(i - 1) : front[k] = s[k]
  OBVIOUS
<1>2. /\ back \in Seq(S) /\ Len(back) = Len(s) - i
      /\ \A k \in 1..(Len(s) - i) : back[k] = s[i + k]
  OBVIOUS
<1> HIDE DEF front, back
<1>3. /\ front \o back \in Seq(S) /\ Len(front \o back) = Len(s) - 1
      /\ \A k \in 1..(Len(s) - 1) :
            (front \o back)[k] = IF k < i THEN front[k] ELSE back[k - (i - 1)]
  BY <1>1, <1>2
<1>4. /\ Removed(s, i) \in Seq(S) /\ Len(Removed(s, i)) = Len(s) - 1
      /\ \A k \in 1..(Len(s) - 1) :
            Removed(s, i)[k] = IF k < i THEN front[k] ELSE back[k - (i - 1)]
  <2>1. Removed(s, i) = front \o back
    BY DEF Removed, front, back
  <2> QED
    BY <1>3, <2>1
<1>5. DOMAIN Removed(s, i) = 1..(Len(s) - 1) /\ DOMAIN s = 1..Len(s)
  BY <1>4
<1>6. ASSUME NEW k \in 1..(Len(s) - 1)
      PROVE  Removed(s, i)[k] = IF k < i THEN s[k] ELSE s[k + 1]
  <2>1. i \in 1..Len(s) /\ Len(s) \in Nat
    OBVIOUS
  <2>2. CASE k < i
    BY <1>1, <1>4, <2>1, <2>2
  <2>3. CASE ~(k < i)
    <3>1. k - (i - 1) \in 1..(Len(s) - i) /\ i + (k - (i - 1)) = k + 1
      BY <2>1, <2>3
    <3> QED
      BY <1>2, <1>4, <2>3, <3>1
  <2> QED
    BY <2>2, <2>3
<1> QED
  BY <1>4, <1>5, <1>6

-----------------------------------------------------------------------------
(* The bridge.                                                              *)

(* A message that is taken from the queue is one.                           *)
LEMMA MailTypesMail ==
    ASSUME MailTypes, Mail
    PROVE  MailTypes'
<1> USE Names DEF MailTypes, inboxVars, detVars, workVars, agentVars, mailVars
<1>1. ASSUME NEW isFresh \in BOOLEAN, Arrive(isFresh)
      PROVE  MailTypes'
  BY <1>1 DEF Arrive
<1>2. CASE Peek
  BY <1>2 DEF Peek
<1>3. ASSUME NEW m \in Msg, Look(m)
      PROVE  MailTypes'
  BY <1>3 DEF Look, ShouldProcess, IsOutbound, Command, Ignored
<1>4. CASE FetchFails
  BY <1>4 DEF FetchFails
<1>5. CASE Enqueue
  BY <1>5 DEF Enqueue
<1>6. CASE Preempt
  BY <1>6 DEF Preempt
<1>7. CASE EndPoll
  BY <1>7 DEF EndPoll, StoreSeen
<1>8. ASSUME NEW i \in DOMAIN queue, Get(i)
      PROVE  MailTypes'
  BY <1>8 DEF Get
<1>9. CASE Track
  BY <1>9 DEF Track
<1>10. CASE Supervise
  BY <1>10 DEF Supervise, Gives, Asked
<1>11. CASE BeginMail
  BY <1>11 DEF BeginMail, Begins, Gives
<1>12. CASE MailRaises
  BY <1>12 DEF MailRaises, Done
<1>13. CASE MailEnds
  BY <1>13 DEF MailEnds
<1>14. CASE MarkRead
  BY <1>14 DEF MarkRead, StoreSeen
<1>15. CASE Reply
  BY <1>15 DEF Reply, Done, SendOutcomes, Replies
<1>16. CASE ToolCall
  BY <1>16 DEF ToolCall
<1>18. ASSUME NEW m \in Msg, ToolSend(m)
      PROVE  MailTypes'
  BY <1>18 DEF ToolSend, Undecided
<1>17. ASSUME NEW m \in Msg, ToolSent(m)
      PROVE  MailTypes'
  BY <1>17 DEF ToolSent, SendOutcomes
<1> QED
  BY <1>1, <1>2, <1>3, <1>4, <1>5, <1>6, <1>7, <1>8, <1>9, <1>10, <1>11, <1>12, <1>13,
     <1>14, <1>15, <1>16, <1>17, <1>18 DEF Mail, Detector, Worker

(* A message moves on alone: the one the detector takes was never           *)
(* remembered, and the one the worker takes leaves the queue.               *)
LEMMA OnceMail ==
    ASSUME MailTypes, Once, Mail
    PROVE  Once'
<1> USE Names DEF MailTypes, Once, inboxVars, detVars, workVars, agentVars, mailVars, Due
<1>1. ASSUME NEW isFresh \in BOOLEAN, Arrive(isFresh)
      PROVE  Once'
  BY <1>1 DEF Arrive
<1>2. CASE Peek
  BY <1>2 DEF Peek
<1>3. ASSUME NEW m \in Msg, Look(m)
      PROVE  Once'
  BY <1>3 DEF Look, ShouldProcess, IsOutbound, Command, Ignored
<1>4. CASE FetchFails
  BY <1>4 DEF FetchFails
<1>5. CASE Enqueue
  <2>1. DOMAIN queue' = 1..(Len(queue) + 1) /\ DOMAIN queue = 1..Len(queue) /\ Len(queue) \in Nat
        /\ queue'[Len(queue) + 1] = dmsg
        /\ \A k \in 1..Len(queue) : queue'[k] = queue[k]
    BY <1>5, AppendIs DEF Enqueue
  <2>2. /\ dpc = "fetch" /\ dpc' # "fetch"
        /\ UNCHANGED <<kind, seen, wpc, wmsg, given>>
    BY <1>5 DEF Enqueue
  <2>3. \A i \in DOMAIN queue' : /\ queue'[i] \in seen' /\ given'[queue'[i]] = 0
                                 /\ kind'[queue'[i]] \in Command /\ queue'[i] # wmsg'
    <3>1. \A i \in 1..Len(queue) : /\ queue'[i] \in seen /\ given[queue'[i]] = 0
                                 /\ kind[queue'[i]] \in Command /\ queue'[i] # wmsg
      BY <2>1
    <3>2. dmsg \in seen /\ given[dmsg] = 0 /\ kind[dmsg] \in Command /\ dmsg # wmsg
      BY <2>2
    <3>3. \A i \in DOMAIN queue' : i \in 1..Len(queue) \/ i = Len(queue) + 1
      BY <2>1
    <3> QED
      BY <2>1, <2>2, <3>1, <3>2, <3>3
  <2>4. \A i, j \in DOMAIN queue' : queue'[i] = queue'[j] => i = j
    BY <2>1, <2>2
  <2> QED
    BY <2>2, <2>3, <2>4
<1>6. CASE Preempt
  BY <1>6 DEF Preempt
<1>7. CASE EndPoll
  BY <1>7 DEF EndPoll, StoreSeen
<1>8. ASSUME NEW i \in DOMAIN queue, Get(i)
      PROVE  Once'
  <2>1. /\ DOMAIN queue = 1..Len(queue) /\ Len(queue) \in Nat /\ i \in 1..Len(queue)
        /\ DOMAIN queue' = 1..(Len(queue) - 1)
        /\ \A k \in 1..(Len(queue) - 1) :
              queue'[k] = IF k < i THEN queue[k] ELSE queue[k + 1]
    <3>1. /\ queue \in Seq(Msg) /\ i \in DOMAIN queue
          /\ queue' = Removed(queue, i)
      BY <1>8 DEF Get, Removed
    <3>2. DOMAIN queue = 1..Len(queue) /\ Len(queue) \in Nat
      BY <3>1
    <3>3. /\ DOMAIN queue' = 1..(Len(queue) - 1)
          /\ \A k \in 1..(Len(queue) - 1) :
                queue'[k] = IF k < i THEN queue[k] ELSE queue[k + 1]
      BY <3>1, RemovedIs
    <3> QED
      BY <3>1, <3>2, <3>3
  <2>2. /\ wmsg' = queue[i] /\ wpc = "idle" /\ wpc' = "got"
        /\ UNCHANGED <<kind, seen, given, dpc, dmsg>>
    BY <1>8 DEF Get
  <2>3. \A k \in DOMAIN queue' : \E l \in DOMAIN queue : l # i /\ queue'[k] = queue[l]
    <3> SUFFICES ASSUME NEW k \in 1..(Len(queue) - 1)
                 PROVE  \E l \in DOMAIN queue : l # i /\ queue'[k] = queue[l]
      BY <2>1
    <3>1. CASE k < i
      BY <2>1, <3>1
    <3>2. CASE ~(k < i)
      <4>1. k + 1 \in DOMAIN queue /\ k + 1 # i
        BY <2>1, <3>2
      <4> QED
        BY <2>1, <3>2, <4>1
    <3> QED
      BY <3>1, <3>2
  <2>4. \A k \in DOMAIN queue' : /\ queue'[k] \in seen' /\ given'[queue'[k]] = 0
                                 /\ kind'[queue'[k]] \in Command /\ queue'[k] # wmsg'
                                 /\ dpc = "fetch" => queue'[k] # dmsg
    <3> SUFFICES ASSUME NEW k \in DOMAIN queue', NEW l \in DOMAIN queue, l # i,
                        queue'[k] = queue[l]
                 PROVE  /\ queue[l] \in seen' /\ given'[queue[l]] = 0
                        /\ kind'[queue[l]] \in Command /\ queue[l] # wmsg'
                        /\ dpc = "fetch" => queue[l] # dmsg
      BY <2>3
    <3> QED
      BY <2>1, <2>2
  <2>5. \A k, l \in DOMAIN queue' : queue'[k] = queue'[l] => k = l
    <3> SUFFICES ASSUME NEW k \in 1..(Len(queue) - 1), NEW l \in 1..(Len(queue) - 1),
                        queue'[k] = queue'[l]
                 PROVE  k = l
      BY <2>1
    <3> DEFINE p == IF k < i THEN k ELSE k + 1
               q == IF l < i THEN l ELSE l + 1
    <3>1. /\ p \in DOMAIN queue /\ queue'[k] = queue[p]
          /\ q \in DOMAIN queue /\ queue'[l] = queue[q]
      BY <2>1
    <3>2. queue[p] = queue[q]
      BY <3>1
    <3>3. p = q
      <4> HIDE DEF p, q
      <4> QED
        BY <3>1, <3>2
    <3> QED
      BY <2>1, <3>3
  <2>6. Due(queue[i]) /\ queue[i] \in Msg
    BY <2>1
  <2>7. dpc' = "fetch" => Due(dmsg)'
    BY <2>2, <2>1
  <2> QED
    BY <2>2, <2>4, <2>5, <2>6, <2>7
<1>9. CASE Track
  BY <1>9 DEF Track
<1>10. CASE Supervise
  BY <1>10 DEF Supervise, Gives, Asked
<1>11. CASE BeginMail
  BY <1>11 DEF BeginMail, Begins, Gives
<1>12. CASE MailRaises
  BY <1>12 DEF MailRaises, Done
<1>13. CASE MailEnds
  BY <1>13 DEF MailEnds
<1>14. CASE MarkRead
  BY <1>14 DEF MarkRead, StoreSeen
<1>15. CASE Reply
  BY <1>15 DEF Reply, Done, SendOutcomes, Replies
<1>16. CASE ToolCall
  BY <1>16 DEF ToolCall
<1>18. ASSUME NEW m \in Msg, ToolSend(m)
      PROVE  Once'
  BY <1>18 DEF ToolSend, Undecided
<1>17. ASSUME NEW m \in Msg, ToolSent(m)
      PROVE  Once'
  BY <1>17 DEF ToolSent, SendOutcomes
<1> QED
  BY <1>1, <1>2, <1>3, <1>4, <1>5, <1>6, <1>7, <1>8, <1>9, <1>10, <1>11, <1>12, <1>13,
     <1>14, <1>15, <1>16, <1>17, <1>18 DEF Mail, Detector, Worker

(* A tool that sends for a message whose reply the bridge has decided on is *)
(* late; a reply of the bridge is sent for no message that is registered.   *)
LEMMA OneReplyMail ==
    ASSUME MailTypes, Once, OneReply, Mail
    PROVE  OneReply'
<1> USE Names DEF MailTypes, Once, OneReply, inboxVars, detVars, workVars, agentVars,
    mailVars, Due
<1>1. ASSUME NEW isFresh \in BOOLEAN, Arrive(isFresh)
      PROVE  OneReply'
  BY <1>1 DEF Arrive
<1>2. CASE Peek
  BY <1>2 DEF Peek
<1>3. ASSUME NEW m \in Msg, Look(m)
      PROVE  OneReply'
  BY <1>3 DEF Look, ShouldProcess, IsOutbound, Command, Ignored
<1>4. CASE FetchFails
  BY <1>4 DEF FetchFails
<1>5. CASE Enqueue
  BY <1>5 DEF Enqueue
<1>6. CASE Preempt
  BY <1>6 DEF Preempt
<1>7. CASE EndPoll
  BY <1>7 DEF EndPoll, StoreSeen
<1>8. ASSUME NEW i \in DOMAIN queue, Get(i)
      PROVE  OneReply'
  BY <1>8 DEF Get
<1>9. CASE Track
  BY <1>9 DEF Track
<1>10. CASE Supervise
  BY <1>10 DEF Supervise, Gives, Asked
<1>11. CASE BeginMail
  BY <1>11 DEF BeginMail, Begins, Gives
<1>12. CASE MailRaises
  BY <1>12 DEF MailRaises, Done
<1>13. CASE MailEnds
  BY <1>13 DEF MailEnds
<1>14. CASE MarkRead
  BY <1>14 DEF MarkRead, StoreSeen
<1>15. CASE Reply
  <2>1. CASE /\ Replies /\ registry' = registry \cup {wmsg}
             /\ autoSent' \in {autoSent, autoSent \cup {wmsg}}
    <3>1. wmsg \notin smtp \cup toolSent /\ given[wmsg] = 1 /\ wmsg \in Msg
      BY <1>15, <2>1 DEF Reply, Replies
    <3> QED
      BY <1>15, <2>1, <3>1 DEF Reply, Done
  <2>2. CASE UNCHANGED <<registry, autoSent>>
    BY <1>15, <2>2 DEF Reply, Done
  <2> QED
    BY <1>15, <2>1, <2>2 DEF Reply, SendOutcomes
<1>16. CASE ToolCall
  BY <1>16 DEF ToolCall
<1>18. ASSUME NEW m \in Msg, ToolSend(m)
      PROVE  OneReply'
  BY <1>18 DEF ToolSend, Undecided
<1>17. ASSUME NEW m \in Msg, ToolSent(m)
      PROVE  OneReply'
  BY <1>17 DEF ToolSent, SendOutcomes
<1> QED
  BY <1>1, <1>2, <1>3, <1>4, <1>5, <1>6, <1>7, <1>8, <1>9, <1>10, <1>11, <1>12, <1>13,
     <1>14, <1>15, <1>16, <1>17, <1>18 DEF Mail, Detector, Worker

(* A step of another part leaves the bridge alone, but for asking it to     *)
(* end, or ends the process.                                                *)
Elsewhere ==
    \/ UNCHANGED bridgeVars
    \/ StopBridge
    \/ ProcessEnds /\ UNCHANGED kind

LEMMA BridgeElsewhere ==
    ASSUME MailTypes, Once, OneReply, Elsewhere
    PROVE  MailTypes' /\ Once' /\ OneReply'
<1> USE Names DEF MailTypes, Once, OneReply, Due
<1>1. CASE UNCHANGED bridgeVars
  BY <1>1 DEF bridgeVars, inboxVars, detVars, workVars, mailVars
<1>2. CASE StopBridge
  BY <1>2 DEF StopBridge, inboxVars, detVars, workVars, mailVars
<1>3. CASE ProcessEnds /\ UNCHANGED kind
  BY <1>3 DEF ProcessEnds
<1> QED
  BY <1>1, <1>2, <1>3 DEF Elsewhere

(* Only the bridge's own steps, and the end of the process, change what the *)
(* bridge knows.                                                            *)
LEMMA BridgeStep ==
    ASSUME IInv, [ReplNext]_allVars
    PROVE  (MailTypes /\ Once /\ OneReply)'
<1> USE Names DEF Elsewhere, vars, replVars, turnVars, voiceVars, bridgeVars, inboxVars,
    detVars, workVars, agentVars, mailVars
<1>1. ASSUME Mail, UNCHANGED replVars
      PROVE  (MailTypes /\ Once /\ OneReply)'
  BY <1>1, MailTypesMail, OnceMail, OneReplyMail DEF IInv
<1>2. ASSUME Running, Says, UNCHANGED replVars
      PROVE  (MailTypes /\ Once /\ OneReply)'
  <2>1. Elsewhere
    BY <1>2 DEF Says
  <2> QED
    BY <2>1, BridgeElsewhere DEF IInv
<1>3. CASE Start
  <2>1. Elsewhere
    BY <1>3 DEF Start
  <2> QED
    BY <2>1, BridgeElsewhere DEF IInv
<1>4. CASE Quit
  <2>1. Elsewhere
    BY <1>4 DEF Quit
  <2> QED
    BY <2>1, BridgeElsewhere DEF IInv
<1>5. CASE Leave
  <2>1. Elsewhere
    BY <1>5 DEF Leave, Interrupts
  <2> QED
    BY <2>1, BridgeElsewhere DEF IInv
<1>6. CASE Waited
  <2>1. Elsewhere
    BY <1>6 DEF Waited
  <2> QED
    BY <2>1, BridgeElsewhere DEF IInv
<1>7. CASE LeaveAgain
  <2>1. Elsewhere
    BY <1>7 DEF LeaveAgain, Interrupts
  <2> QED
    BY <2>1, BridgeElsewhere DEF IInv
<1>8. CASE Escape
  <2>1. Elsewhere
    BY <1>8 DEF Escape, Gone
  <2> QED
    BY <2>1, BridgeElsewhere DEF IInv
<1>9. CASE Close
  <2>1. Elsewhere
    BY <1>9 DEF Close
  <2> QED
    BY <2>1, BridgeElsewhere DEF IInv
<1>10. CASE Exit
  <2>1. Elsewhere
    BY <1>10 DEF Exit, Gone
  <2> QED
    BY <2>1, BridgeElsewhere DEF IInv
<1>11. ASSUME NEW t \in Typed, Line(t)
      PROVE  (MailTypes /\ Once /\ OneReply)'
  <2>1. Elsewhere
    BY <1>11 DEF Line, Interrupts, Put
  <2> QED
    BY <2>1, BridgeElsewhere DEF IInv
<1>12. CASE StartAgain
  <2>1. Elsewhere
    BY <1>12 DEF StartAgain, Restart, Gone
  <2> QED
    BY <2>1, BridgeElsewhere DEF IInv
<1>13. CASE Connect
  <2>1. Elsewhere
    BY <1>13 DEF Connect
  <2> QED
    BY <2>1, BridgeElsewhere DEF IInv
<1>14. CASE Speak
  <2>1. Elsewhere
    BY <1>14 DEF Speak
  <2> QED
    BY <2>1, BridgeElsewhere DEF IInv
<1>15. CASE Disconnect
  <2>1. Elsewhere
    BY <1>15 DEF Disconnect
  <2> QED
    BY <2>1, BridgeElsewhere DEF IInv
<1>16. CASE LookAtTurn
  <2>1. Elsewhere
    BY <1>16 DEF LookAtTurn, Active
  <2> QED
    BY <2>1, BridgeElsewhere DEF IInv
<1>17. CASE Remark
  <2>1. Elsewhere
    BY <1>17 DEF Remark
  <2> QED
    BY <2>1, BridgeElsewhere DEF IInv
<1>18. ASSUME NEW t \in Spoken, Say(t)
      PROVE  (MailTypes /\ Once /\ OneReply)'
  <2>1. Elsewhere
    BY <1>18 DEF Say, Put
  <2> QED
    BY <2>1, BridgeElsewhere DEF IInv
<1>19. ASSUME NEW t \in Spoken, TakeSaid(t)
      PROVE  (MailTypes /\ Once /\ OneReply)'
  <2>1. Elsewhere
    BY <1>19 DEF TakeSaid, Put
  <2> QED
    BY <2>1, BridgeElsewhere DEF IInv
<1>20. CASE VoiceTag
  <2>1. Elsewhere
    BY <1>20 DEF VoiceTag
  <2> QED
    BY <2>1, BridgeElsewhere DEF IInv
<1>21. ASSUME NEW t \in Typed, BeginTurn(t)
      PROVE  (MailTypes /\ Once /\ OneReply)'
  <2>1. Elsewhere
    BY <1>21 DEF BeginTurn, Begins, Put
  <2> QED
    BY <2>1, BridgeElsewhere DEF IInv
<1>22. ASSUME NEW t \in Typed, EndTurn(t)
      PROVE  (MailTypes /\ Once /\ OneReply)'
  <2>1. Elsewhere
    BY <1>22 DEF EndTurn, Put
  <2> QED
    BY <2>1, BridgeElsewhere DEF IInv
<1>23. ASSUME NEW t \in Typed, NEW how \in {"answered", "stopped", "failed", "raised"},
              LoopEnds(t, how)
      PROVE  (MailTypes /\ Once /\ OneReply)'
  <2>1. Elsewhere
    BY <1>23 DEF LoopEnds
  <2> QED
    BY <2>1, BridgeElsewhere DEF IInv
<1>24. CASE UNCHANGED allVars
  <2>1. Elsewhere
    BY <1>24 DEF Elsewhere, allVars
  <2> QED
    BY <2>1, BridgeElsewhere DEF IInv
<1>25. ASSUME NEW t \in Spoken, HandOver(t)
      PROVE  (MailTypes /\ Once /\ OneReply)'
  <2>1. Elsewhere
    BY <1>25 DEF HandOver, Put
  <2> QED
    BY <2>1, BridgeElsewhere DEF IInv
<1> QED
  BY <1>1, <1>2, <1>3, <1>4, <1>5, <1>6, <1>7, <1>8, <1>9, <1>10, <1>11, <1>12, <1>13,
     <1>14, <1>15, <1>16, <1>17, <1>18, <1>19, <1>20, <1>21, <1>22, <1>23, <1>24, <1>25 DEF
     ReplNext, MainThread, Voice, TurnThread

-----------------------------------------------------------------------------
(* The turns.                                                               *)

(* Whoever takes the lock is a message or a turn.                           *)
LEMMA TurnTypesStep ==
    ASSUME IInv, [ReplNext]_allVars
    PROVE  TurnTypes'
<1> USE Names DEF IInv, TurnTypes, vars, replVars, turnVars, voiceVars, bridgeVars,
    inboxVars, detVars, workVars, agentVars, mailVars
<1>1. ASSUME Mail, UNCHANGED replVars
      PROVE  TurnTypes'
  <2> USE DEF MailTypes, Once, Due
  <2>1. ASSUME NEW isFresh \in BOOLEAN, Arrive(isFresh)
        PROVE  TurnTypes'
    BY <1>1, <2>1 DEF Arrive
  <2>2. CASE Peek
    BY <1>1, <2>2 DEF Peek
  <2>3. ASSUME NEW m \in Msg, Look(m)
        PROVE  TurnTypes'
    BY <1>1, <2>3 DEF Look, ShouldProcess, IsOutbound, Command, Ignored
  <2>4. CASE FetchFails
    BY <1>1, <2>4 DEF FetchFails
  <2>5. CASE Enqueue
    BY <1>1, <2>5 DEF Enqueue
  <2>6. CASE Preempt
    BY <1>1, <2>6 DEF Preempt
  <2>7. CASE EndPoll
    BY <1>1, <2>7 DEF EndPoll, StoreSeen
  <2>8. ASSUME NEW i \in DOMAIN queue, Get(i)
        PROVE  TurnTypes'
    BY <1>1, <2>8 DEF Get
  <2>9. CASE Track
    BY <1>1, <2>9 DEF Track
  <2>10. CASE Supervise
    BY <1>1, <2>10 DEF Supervise, Gives, Asked
  <2>11. CASE BeginMail
    BY <1>1, <2>11 DEF BeginMail, Begins, Gives
  <2>12. CASE MailRaises
    BY <1>1, <2>12 DEF MailRaises, Done
  <2>13. CASE MailEnds
    BY <1>1, <2>13 DEF MailEnds
  <2>14. CASE MarkRead
    BY <1>1, <2>14 DEF MarkRead, StoreSeen
  <2>15. CASE Reply
    BY <1>1, <2>15 DEF Reply, Done, SendOutcomes, Replies
  <2>16. CASE ToolCall
    BY <1>1, <2>16 DEF ToolCall
  <2>18. ASSUME NEW m \in Msg, ToolSend(m)
        PROVE  TurnTypes'
    BY <1>1, <2>18 DEF ToolSend, Undecided
  <2>17. ASSUME NEW m \in Msg, ToolSent(m)
        PROVE  TurnTypes'
    BY <1>1, <2>17 DEF ToolSent, SendOutcomes
  <2> QED
    BY <1>1, <2>1, <2>2, <2>3, <2>4, <2>5, <2>6, <2>7, <2>8, <2>9, <2>10, <2>11, <2>12,
       <2>13, <2>14, <2>15, <2>16, <2>17, <2>18 DEF Mail, Detector, Worker
<1>2. ASSUME Running, Says, UNCHANGED replVars
      PROVE  TurnTypes'
  BY <1>2 DEF Says
<1>3. CASE Start
  BY <1>3 DEF Start
<1>4. CASE Quit
  BY <1>4 DEF Quit
<1>5. CASE Leave
  BY <1>5 DEF Leave, Interrupts
<1>6. CASE Waited
  BY <1>6 DEF Waited
<1>7. CASE LeaveAgain
  BY <1>7 DEF LeaveAgain, Interrupts
<1>8. CASE Escape
  BY <1>8 DEF Escape, ProcessEnds, Gone
<1>9. CASE Close
  BY <1>9 DEF Close, StopBridge
<1>10. CASE Exit
  BY <1>10 DEF Exit, ProcessEnds, Gone
<1>11. ASSUME NEW t \in Typed, Line(t)
      PROVE  TurnTypes'
  BY <1>11 DEF Line, Interrupts, Put
<1>12. CASE StartAgain
  BY <1>12 DEF StartAgain, Restart, ProcessEnds, Gone
<1>13. CASE Connect
  BY <1>13 DEF Connect
<1>14. CASE Speak
  BY <1>14 DEF Speak
<1>15. CASE Disconnect
  BY <1>15 DEF Disconnect
<1>16. CASE LookAtTurn
  BY <1>16 DEF LookAtTurn, Active
<1>17. CASE Remark
  BY <1>17 DEF Remark
<1>18. ASSUME NEW t \in Spoken, Say(t)
      PROVE  TurnTypes'
  BY <1>18 DEF Say, Put
<1>19. ASSUME NEW t \in Spoken, TakeSaid(t)
      PROVE  TurnTypes'
  BY <1>19 DEF TakeSaid, Put
<1>20. CASE VoiceTag
  BY <1>20 DEF VoiceTag
<1>21. ASSUME NEW t \in Typed, BeginTurn(t)
      PROVE  TurnTypes'
  BY <1>21 DEF BeginTurn, Begins, Put
<1>22. ASSUME NEW t \in Typed, EndTurn(t)
      PROVE  TurnTypes'
  BY <1>22 DEF EndTurn, Put
<1>23. ASSUME NEW t \in Typed, NEW how \in {"answered", "stopped", "failed", "raised"},
              LoopEnds(t, how)
      PROVE  TurnTypes'
  BY <1>23 DEF LoopEnds
<1>24. CASE UNCHANGED allVars
  BY <1>24 DEF allVars
<1>25. ASSUME NEW t \in Spoken, HandOver(t)
      PROVE  TurnTypes'
  BY <1>25 DEF HandOver, Put
<1> QED
  BY <1>1, <1>2, <1>3, <1>4, <1>5, <1>6, <1>7, <1>8, <1>9, <1>10, <1>11, <1>12, <1>13,
     <1>14, <1>15, <1>16, <1>17, <1>18, <1>19, <1>20, <1>21, <1>22, <1>23, <1>24, <1>25 DEF
     ReplNext, MainThread, Voice, TurnThread

(* The lock is taken when it is free, and given up by the turn that has it. *)
LEMMA TurnsStep ==
    ASSUME IInv, [ReplNext]_allVars
    PROVE  Turns'
<1> USE Names DEF IInv, TurnTypes, Turns, MailTypes, vars, replVars, turnVars, voiceVars,
    bridgeVars, inboxVars, detVars, workVars, agentVars, mailVars
<1>1. ASSUME Mail, UNCHANGED replVars
      PROVE  Turns'
  <2> USE DEF MailTypes, Once, Due
  <2>1. ASSUME NEW isFresh \in BOOLEAN, Arrive(isFresh)
        PROVE  Turns'
    BY <1>1, <2>1 DEF Arrive
  <2>2. CASE Peek
    BY <1>1, <2>2 DEF Peek
  <2>3. ASSUME NEW m \in Msg, Look(m)
        PROVE  Turns'
    BY <1>1, <2>3 DEF Look, ShouldProcess, IsOutbound, Command, Ignored
  <2>4. CASE FetchFails
    BY <1>1, <2>4 DEF FetchFails
  <2>5. CASE Enqueue
    BY <1>1, <2>5 DEF Enqueue
  <2>6. CASE Preempt
    BY <1>1, <2>6 DEF Preempt
  <2>7. CASE EndPoll
    BY <1>1, <2>7 DEF EndPoll, StoreSeen
  <2>8. ASSUME NEW i \in DOMAIN queue, Get(i)
        PROVE  Turns'
    BY <1>1, <2>8 DEF Get
  <2>9. CASE Track
    BY <1>1, <2>9 DEF Track
  <2>10. CASE Supervise
    BY <1>1, <2>10 DEF Supervise, Gives, Asked
  <2>11. CASE BeginMail
    BY <1>1, <2>11 DEF BeginMail, Begins, Gives
  <2>12. CASE MailRaises
    BY <1>1, <2>12 DEF MailRaises, Done
  <2>13. CASE MailEnds
    BY <1>1, <2>13 DEF MailEnds
  <2>14. CASE MarkRead
    BY <1>1, <2>14 DEF MarkRead, StoreSeen
  <2>15. CASE Reply
    BY <1>1, <2>15 DEF Reply, Done, SendOutcomes, Replies
  <2>16. CASE ToolCall
    BY <1>1, <2>16 DEF ToolCall
  <2>18. ASSUME NEW m \in Msg, ToolSend(m)
        PROVE  Turns'
    BY <1>1, <2>18 DEF ToolSend, Undecided
  <2>17. ASSUME NEW m \in Msg, ToolSent(m)
        PROVE  Turns'
    BY <1>1, <2>17 DEF ToolSent, SendOutcomes
  <2> QED
    BY <1>1, <2>1, <2>2, <2>3, <2>4, <2>5, <2>6, <2>7, <2>8, <2>9, <2>10, <2>11, <2>12,
       <2>13, <2>14, <2>15, <2>16, <2>17, <2>18 DEF Mail, Detector, Worker
<1>2. ASSUME Running, Says, UNCHANGED replVars
      PROVE  Turns'
  BY <1>2 DEF Says
<1>3. CASE Start
  BY <1>3 DEF Start
<1>4. CASE Quit
  BY <1>4 DEF Quit
<1>5. CASE Leave
  BY <1>5 DEF Leave, Interrupts
<1>6. CASE Waited
  BY <1>6 DEF Waited
<1>7. CASE LeaveAgain
  BY <1>7 DEF LeaveAgain, Interrupts
<1>8. CASE Escape
  BY <1>8 DEF Escape, ProcessEnds, Gone
<1>9. CASE Close
  BY <1>9 DEF Close, StopBridge
<1>10. CASE Exit
  BY <1>10 DEF Exit, ProcessEnds, Gone
<1>11. ASSUME NEW t \in Typed, Line(t)
      PROVE  Turns'
  BY <1>11 DEF Line, Interrupts, Put
<1>12. CASE StartAgain
  BY <1>12 DEF StartAgain, Restart, ProcessEnds, Gone
<1>13. CASE Connect
  BY <1>13 DEF Connect
<1>14. CASE Speak
  BY <1>14 DEF Speak
<1>15. CASE Disconnect
  BY <1>15 DEF Disconnect
<1>16. CASE LookAtTurn
  BY <1>16 DEF LookAtTurn, Active
<1>17. CASE Remark
  BY <1>17 DEF Remark
<1>18. ASSUME NEW t \in Spoken, Say(t)
      PROVE  Turns'
  BY <1>18 DEF Say, Put
<1>19. ASSUME NEW t \in Spoken, TakeSaid(t)
      PROVE  Turns'
  BY <1>19 DEF TakeSaid, Put
<1>20. CASE VoiceTag
  BY <1>20 DEF VoiceTag
<1>21. ASSUME NEW t \in Typed, BeginTurn(t)
      PROVE  Turns'
  BY <1>21 DEF BeginTurn, Begins, Put
<1>22. ASSUME NEW t \in Typed, EndTurn(t)
      PROVE  Turns'
  BY <1>22 DEF EndTurn, Put
<1>23. ASSUME NEW t \in Typed, NEW how \in {"answered", "stopped", "failed", "raised"},
              LoopEnds(t, how)
      PROVE  Turns'
  BY <1>23 DEF LoopEnds
<1>24. CASE UNCHANGED allVars
  BY <1>24 DEF allVars
<1>25. ASSUME NEW t \in Spoken, HandOver(t)
      PROVE  Turns'
  BY <1>25 DEF HandOver, Put
<1> QED
  BY <1>1, <1>2, <1>3, <1>4, <1>5, <1>6, <1>7, <1>8, <1>9, <1>10, <1>11, <1>12, <1>13,
     <1>14, <1>15, <1>16, <1>17, <1>18, <1>19, <1>20, <1>21, <1>22, <1>23, <1>24, <1>25 DEF
     ReplNext, MainThread, Voice, TurnThread

(* The stop event is cleared only by a turn that begins, when no turn has   *)
(* the lock.                                                                *)
LEMMA StopsStep ==
    ASSUME IInv, [ReplNext]_allVars
    PROVE  Stops'
<1> USE Names DEF IInv, TurnTypes, Turns, Stops, MailTypes, vars, replVars, turnVars,
    voiceVars, bridgeVars, inboxVars, detVars, workVars, agentVars, mailVars
<1>1. ASSUME Mail, UNCHANGED replVars
      PROVE  Stops'
  <2> USE DEF MailTypes, Once, Due
  <2>1. ASSUME NEW isFresh \in BOOLEAN, Arrive(isFresh)
        PROVE  Stops'
    BY <1>1, <2>1 DEF Arrive
  <2>2. CASE Peek
    BY <1>1, <2>2 DEF Peek
  <2>3. ASSUME NEW m \in Msg, Look(m)
        PROVE  Stops'
    BY <1>1, <2>3 DEF Look, ShouldProcess, IsOutbound, Command, Ignored
  <2>4. CASE FetchFails
    BY <1>1, <2>4 DEF FetchFails
  <2>5. CASE Enqueue
    BY <1>1, <2>5 DEF Enqueue
  <2>6. CASE Preempt
    BY <1>1, <2>6 DEF Preempt
  <2>7. CASE EndPoll
    BY <1>1, <2>7 DEF EndPoll, StoreSeen
  <2>8. ASSUME NEW i \in DOMAIN queue, Get(i)
        PROVE  Stops'
    BY <1>1, <2>8 DEF Get
  <2>9. CASE Track
    BY <1>1, <2>9 DEF Track
  <2>10. CASE Supervise
    BY <1>1, <2>10 DEF Supervise, Gives, Asked
  <2>11. CASE BeginMail
    BY <1>1, <2>11 DEF BeginMail, Begins, Gives
  <2>12. CASE MailRaises
    BY <1>1, <2>12 DEF MailRaises, Done
  <2>13. CASE MailEnds
    BY <1>1, <2>13 DEF MailEnds
  <2>14. CASE MarkRead
    BY <1>1, <2>14 DEF MarkRead, StoreSeen
  <2>15. CASE Reply
    BY <1>1, <2>15 DEF Reply, Done, SendOutcomes, Replies
  <2>16. CASE ToolCall
    BY <1>1, <2>16 DEF ToolCall
  <2>18. ASSUME NEW m \in Msg, ToolSend(m)
        PROVE  Stops'
    BY <1>1, <2>18 DEF ToolSend, Undecided
  <2>17. ASSUME NEW m \in Msg, ToolSent(m)
        PROVE  Stops'
    BY <1>1, <2>17 DEF ToolSent, SendOutcomes
  <2> QED
    BY <1>1, <2>1, <2>2, <2>3, <2>4, <2>5, <2>6, <2>7, <2>8, <2>9, <2>10, <2>11, <2>12,
       <2>13, <2>14, <2>15, <2>16, <2>17, <2>18 DEF Mail, Detector, Worker
<1>2. ASSUME Running, Says, UNCHANGED replVars
      PROVE  Stops'
  BY <1>2 DEF Says
<1>3. CASE Start
  BY <1>3 DEF Start
<1>4. CASE Quit
  BY <1>4 DEF Quit
<1>5. CASE Leave
  BY <1>5 DEF Leave, Interrupts
<1>6. CASE Waited
  BY <1>6 DEF Waited
<1>7. CASE LeaveAgain
  BY <1>7 DEF LeaveAgain, Interrupts
<1>8. CASE Escape
  BY <1>8 DEF Escape, ProcessEnds, Gone
<1>9. CASE Close
  BY <1>9 DEF Close, StopBridge
<1>10. CASE Exit
  BY <1>10 DEF Exit, ProcessEnds, Gone
<1>11. ASSUME NEW t \in Typed, Line(t)
      PROVE  Stops'
  BY <1>11 DEF Line, Interrupts, Put
<1>12. CASE StartAgain
  BY <1>12 DEF StartAgain, Restart, ProcessEnds, Gone
<1>13. CASE Connect
  BY <1>13 DEF Connect
<1>14. CASE Speak
  BY <1>14 DEF Speak
<1>15. CASE Disconnect
  BY <1>15 DEF Disconnect
<1>16. CASE LookAtTurn
  BY <1>16 DEF LookAtTurn, Active
<1>17. CASE Remark
  BY <1>17 DEF Remark
<1>18. ASSUME NEW t \in Spoken, Say(t)
      PROVE  Stops'
  BY <1>18 DEF Say, Put
<1>19. ASSUME NEW t \in Spoken, TakeSaid(t)
      PROVE  Stops'
  BY <1>19 DEF TakeSaid, Put
<1>20. CASE VoiceTag
  BY <1>20 DEF VoiceTag
<1>21. ASSUME NEW t \in Typed, BeginTurn(t)
      PROVE  Stops'
  BY <1>21 DEF BeginTurn, Begins, Put
<1>22. ASSUME NEW t \in Typed, EndTurn(t)
      PROVE  Stops'
  BY <1>22 DEF EndTurn, Put
<1>23. ASSUME NEW t \in Typed, NEW how \in {"answered", "stopped", "failed", "raised"},
              LoopEnds(t, how)
      PROVE  Stops'
  BY <1>23 DEF LoopEnds
<1>24. CASE UNCHANGED allVars
  BY <1>24 DEF allVars
<1>25. ASSUME NEW t \in Spoken, HandOver(t)
      PROVE  Stops'
  BY <1>25 DEF HandOver, Put
<1> QED
  BY <1>1, <1>2, <1>3, <1>4, <1>5, <1>6, <1>7, <1>8, <1>9, <1>10, <1>11, <1>12, <1>13,
     <1>14, <1>15, <1>16, <1>17, <1>18, <1>19, <1>20, <1>21, <1>22, <1>23, <1>24, <1>25 DEF
     ReplNext, MainThread, Voice, TurnThread

-----------------------------------------------------------------------------
(* The bus.                                                                 *)

(* What is published is added to the bus and, if it keeps up, the client's  *)
(* queue.                                                                   *)
LEMMA PublishIs ==
    ASSUME BusTypes, NEW a \in Ack, Publish(<<a>>)
    PROVE  \/ "voice" \notin args /\ UNCHANGED <<acks, client>>
           \/ /\ "voice" \in args /\ acks' \in Seq(Ack) /\ Len(acks) \in Nat
              /\ Len(acks') = Len(acks) + 1 /\ DOMAIN acks = 1..Len(acks)
              /\ DOMAIN acks' = 1..(Len(acks) + 1)
              /\ \A i \in 1..Len(acks) : acks'[i] = acks[i]
              /\ acks'[Len(acks) + 1] = a
              /\ \/ client' = client /\ client.conn # "on"
                 \/ client' = [client EXCEPT !.conn = "dropped"]
                 \/ client' = [client EXCEPT !.queue = Append(client.queue, a)]
<1>1. CASE "voice" \notin args
  BY <1>1 DEF Publish
<1>2. CASE "voice" \in args
  <2>1. acks \in Seq(Ack) /\ client.queue \in Seq(Ack)
    BY DEF BusTypes
  <2>2. acks' = Append(acks, a) /\ client.queue \o <<a>> = Append(client.queue, a)
    BY <1>2, <2>1, AppendIs DEF Publish
  <2>3. \/ client' = client /\ client.conn # "on"
        \/ client' = [client EXCEPT !.conn = "dropped"]
        \/ client' = [client EXCEPT !.queue = client.queue \o <<a>>]
    BY <1>2 DEF Publish
  <2>4. Len(acks) \in Nat
    BY <2>1
  <2> QED
    BY <1>2, <2>1, <2>2, <2>3, <2>4, AppendIs
<1> QED
  BY <1>1, <1>2

LEMMA PublishBusTypes ==
    ASSUME BusTypes, NEW a \in Ack, Publish(<<a>>)
    PROVE  BusTypes'
<1>1. CASE UNCHANGED <<acks, client>>
  BY <1>1 DEF BusTypes
<1>2. CASE acks' \in Seq(Ack) /\ \/ client' = client
                                 \/ client' = [client EXCEPT !.conn = "dropped"]
                                 \/ client' = [client EXCEPT !.queue = Append(client.queue, a)]
  <2>1. client.queue \in Seq(Ack)
    BY DEF BusTypes
  <2>2. Append(client.queue, a) \in Seq(Ack)
    BY <2>1, AppendIs
  <2> QED
    BY <1>2, <2>2 DEF BusTypes
<1> QED
  BY <1>1, <1>2, PublishIs

(* A client that keeps up still has all that it has not spoken.             *)
LEMMA PublishKept ==
    ASSUME BusTypes, Kept, NEW a \in Ack, Publish(<<a>>)
    PROVE  Kept'
<1>1. CASE UNCHANGED <<acks, client>>
  BY <1>1 DEF Kept
<1>2. CASE client'.conn # "on"
  BY <1>2 DEF Kept
<1>3. CASE /\ Len(acks) \in Nat /\ Len(acks') = Len(acks) + 1
           /\ \A i \in 1..Len(acks) : acks'[i] = acks[i]
           /\ acks'[Len(acks) + 1] = a
           /\ client' = [client EXCEPT !.queue = Append(client.queue, a)]
           /\ client'.conn = "on"
  <2>1. /\ client.queue \in Seq(Ack) /\ client.conn = "on" 
        /\ client'.queue = Append(client.queue, a)
    BY <1>3 DEF BusTypes
  <2>2. /\ Len(client.queue) \in Nat /\ Len(client'.queue) = Len(client.queue) + 1
        /\ \A k \in 1..Len(client.queue) : client'.queue[k] = client.queue[k]
        /\ client'.queue[Len(client.queue) + 1] = a
    BY <2>1, AppendIs
  <2>3. PICK i \in 0..Len(acks) :
            /\ Len(client.queue) = Len(acks) - i
            /\ \A k \in 1..Len(client.queue) : client.queue[k] = acks[i + k]
    BY <2>1 DEF Kept
  <2>4. i \in 0..Len(acks') /\ Len(client'.queue) = Len(acks') - i
    BY <1>3, <2>2, <2>3
  <2>5. ASSUME NEW k \in 1..Len(client'.queue)
        PROVE  client'.queue[k] = acks'[i + k]
    <3>1. CASE k \in 1..Len(client.queue)
      <4>1. i + k \in 1..Len(acks)
        BY <1>3, <2>2, <2>3, <3>1
      <4> QED
        BY <1>3, <2>2, <2>3, <3>1, <4>1
    <3>2. CASE k = Len(client.queue) + 1
      <4>1. i + k = Len(acks) + 1
        BY <1>3, <2>2, <2>3, <3>2
      <4> QED
        BY <1>3, <2>2, <3>2, <4>1
    <3> QED
      BY <2>2, <3>1, <3>2
  <2> QED
    BY <2>4, <2>5 DEF Kept
<1>4. client' = [client EXCEPT !.conn = "dropped"] => client'.conn = "dropped"
  BY DEF BusTypes
<1> QED
  BY <1>1, <1>2, <1>3, <1>4, PublishIs

(* What was said stays said, and what is not of another turn goes on.       *)
LEMMA BeganStays ==
    ASSUME NEW s, NEW r, NEW n \in Nat, NEW t, Began(s, n, t), \A k \in 1..n : r[k] = s[k]
    PROVE  Began(r, n, t)
  BY DEF Began

LEMMA BeganGoesOn ==
    ASSUME NEW s, NEW n \in Nat, NEW t, Began(s, n, t),
           s[n + 1] = <<"tag", t>> \/ s[n + 1][1] \in {"received", "status"}
    PROVE  Began(s, n + 1, t)
<1>1. PICK j \in 1..n :
        /\ s[j] = <<"started", t>>
        /\ \A k \in (j + 1)..n : s[k] = <<"tag", t>> \/ s[k][1] \in {"received", "status"}
  BY DEF Began
<1>2. j \in 1..(n + 1) /\ \A k \in (j + 1)..(n + 1) : k \in (j + 1)..n \/ k = n + 1
  OBVIOUS
<1> QED
  BY <1>1, <1>2 DEF Began

LEMMA ReceiptStays ==
    ASSUME NEW s, NEW r, NEW n \in Nat, NEW t, Receipt(s, n, t), \A k \in 1..n : r[k] = s[k]
    PROVE  Receipt(r, n, t) /\ Receipt(r, n + 1, t)
  BY DEF Receipt


(* What is published is an acknowledgement.                                 *)
LEMMA BusTypesStep ==
    ASSUME IInv, [ReplNext]_allVars
    PROVE  BusTypes'
<1> USE Names DEF IInv, BusTypes, vars, replVars, turnVars, voiceVars, bridgeVars,
    inboxVars, detVars, workVars, agentVars, mailVars
<1>1. ASSUME Running, Says, UNCHANGED replVars
      PROVE  BusTypes'
  BY <1>1 DEF Says
<1>2. CASE Start
  BY <1>2 DEF Start
<1>3. CASE Quit
  BY <1>3 DEF Quit
<1>4. CASE Leave
  BY <1>4 DEF Leave, Interrupts
<1>5. CASE Waited
  BY <1>5 DEF Waited
<1>6. CASE LeaveAgain
  BY <1>6 DEF LeaveAgain, Interrupts
<1>7. CASE Escape
  BY <1>7 DEF Escape, ProcessEnds, Gone
<1>8. CASE Close
  BY <1>8 DEF Close, StopBridge
<1>9. CASE Exit
  BY <1>9 DEF Exit, ProcessEnds, Gone
<1>10. ASSUME NEW t \in Typed, Line(t)
      PROVE  BusTypes'
  BY <1>10 DEF Line, Interrupts, Put
<1>11. CASE StartAgain
  BY <1>11 DEF StartAgain, Restart, ProcessEnds, Gone
<1>12. CASE Connect
  BY <1>12 DEF Connect
<1>13. CASE Speak
  <2>1. client.queue \in Seq(Ack) /\ client.queue # <<>>
    BY <1>13 DEF Speak
  <2>2. Tail(client.queue) \in Seq(Ack)
    BY <2>1
  <2> QED
    BY <1>13, <2>2 DEF Speak
<1>14. CASE Disconnect
  BY <1>14 DEF Disconnect
<1>15. CASE LookAtTurn
  BY <1>15 DEF LookAtTurn, Active
<1>16. CASE Remark
  <2>1. <<"status", remark>> \in Ack
    BY <1>16 DEF Remark, Ack, TurnTypes
  <2>2. CASE UNCHANGED <<acks, client>>
    BY <2>2 DEF BusTypes, Kept
  <2>3. CASE Publish(<<<<"status", remark>>>>)
    BY <2>1, <2>3, PublishBusTypes
  <2> QED
    BY <1>16, <2>2, <2>3 DEF Remark
<1>17. ASSUME NEW t \in Spoken, Say(t)
      PROVE  BusTypes'
  BY <1>17 DEF Say, Put
<1>18. ASSUME NEW t \in Spoken, TakeSaid(t)
      PROVE  BusTypes'
  <2>1. <<"received", t>> \in Ack
    BY <1>18 DEF Ack
  <2> QED
    BY <1>18, <2>1, PublishBusTypes DEF TakeSaid
<1>19. CASE VoiceTag
  <2>1. <<"tag", lock>> \in Ack
    BY <1>19 DEF VoiceTag, Active, Ack, TurnTypes
  <2> QED
    BY <1>19, <2>1, PublishBusTypes DEF VoiceTag
<1>20. ASSUME NEW t \in Typed, BeginTurn(t)
      PROVE  BusTypes'
  <2>1. <<"started", t>> \in Ack
    BY <1>20 DEF Ack
  <2> QED
    BY <1>20, <2>1, PublishBusTypes DEF BeginTurn
<1>21. ASSUME NEW t \in Typed, EndTurn(t)
      PROVE  BusTypes'
  <2>1. <<EndKind(t), t>> \in Ack
    BY <1>21 DEF EndKind, Ack, Ends
  <2> QED
    BY <1>21, <2>1, PublishBusTypes DEF EndTurn
<1>22. ASSUME NEW t \in Typed, NEW how \in {"answered", "stopped", "failed", "raised"},
              LoopEnds(t, how)
      PROVE  BusTypes'
  BY <1>22 DEF LoopEnds
<1>23. CASE UNCHANGED allVars
  BY <1>23 DEF allVars
<1>24. ASSUME NEW t \in Spoken, HandOver(t)
      PROVE  BusTypes'
  BY <1>24 DEF HandOver, Put
<1> QED
  BY <1>1, <1>2, <1>3, <1>4, <1>5, <1>6, <1>7, <1>8, <1>9, <1>10, <1>11, <1>12, <1>13,
     <1>14, <1>15, <1>16, <1>17, <1>18, <1>19, <1>20, <1>21, <1>22, <1>23, <1>24 DEF ReplNext,
     MainThread, Voice, TurnThread

(* The conditions under which an acknowledgement may be published: an end   *)
(* after the start, with nothing of another turn between, a start that was  *)
(* asked for by voice after its receipt.                                    *)
MayFollow(a) ==
    /\ a[1] \in Ends => Began(acks, Len(acks), a[2])
    /\ a[1] = "started" /\ a[2] \in Spoken => Receipt(acks, Len(acks), a[2])

LEMMA PublishTold ==
    ASSUME BusTypes, Told, NEW a \in Ack, Publish(<<a>>), UNCHANGED <<args, ended>>,
           "voice" \in args => MayFollow(a),
           a[1] = "complete" => ended[a[2]] \in {"answered", "failed"},
           a[1] = "failed" => ended[a[2]] = "raised",
           \A t \in Typed : at'[t] = "going" =>
              \/ at[t] = "going" /\ (a = <<"tag", t>> \/ a[1] \in {"received", "status"})
              \/ a = <<"started", t>>,
           \A t \in Typed : at'[t] \in {"received", "waiting"} /\ t \in Spoken =>
              at[t] \in {"received", "waiting"} \/ a = <<"received", t>>,
           \A t \in Typed : at'[t] \in {"new", "inbound"} => at[t] \in {"new", "inbound"},
           a[1] = "received" => at'[a[2]] \notin {"new", "inbound"}
    PROVE  Told'
<1>1. CASE "voice" \notin args
  <2>1. UNCHANGED <<args, acks, ended>>
    BY <1>1, PublishIs
  <2> QED
    <3>1. \A i \in DOMAIN acks : acks[i][1] = "received" => acks[i][2] \in Typed
      BY DEF BusTypes, Ack
    <3> QED
      BY <1>1, <2>1, <3>1 DEF Told, Began, Receipt
<1>2. CASE "voice" \in args
  <2>1. /\ Len(acks) \in Nat /\ DOMAIN acks = 1..Len(acks)
        /\ Len(acks') = Len(acks) + 1 /\ DOMAIN acks' = 1..(Len(acks) + 1)
        /\ \A i \in 1..Len(acks) : acks'[i] = acks[i]
        /\ acks'[Len(acks) + 1] = a
    BY <1>2, PublishIs
  <2>2. ASSUME NEW i \in DOMAIN acks'
        PROVE  /\ acks'[i][1] \in Ends => Began(acks', i - 1, acks'[i][2])
               /\ acks'[i][1] = "complete" => ended[acks'[i][2]] \in {"answered", "failed"}
               /\ acks'[i][1] = "failed" => ended[acks'[i][2]] = "raised"
               /\ acks'[i][1] = "received" => at'[acks'[i][2]] \notin {"new", "inbound"}
               /\ acks'[i][1] = "started" /\ acks'[i][2] \in Spoken =>
                     Receipt(acks', i - 1, acks'[i][2])
    <3>1. CASE i \in 1..Len(acks)
      <4>1. /\ acks[i][1] \in Ends => Began(acks, i - 1, acks[i][2])
            /\ acks[i][1] = "complete" => ended[acks[i][2]] \in {"answered", "failed"}
            /\ acks[i][1] = "failed" => ended[acks[i][2]] = "raised"
            /\ acks[i][1] = "received" => at'[acks[i][2]] \notin {"new", "inbound"}
            /\ acks[i][1] = "started" /\ acks[i][2] \in Spoken =>
                  Receipt(acks, i - 1, acks[i][2])
        <5>1. acks[i][1] = "received" => acks[i][2] \in Typed
          BY <2>1, <3>1 DEF BusTypes, Ack
        <5> QED
          BY <2>1, <3>1, <5>1 DEF Told
      <4>2. i - 1 \in Nat /\ \A k \in 1..(i - 1) : acks'[k] = acks[k]
        BY <2>1, <3>1
      <4> QED
        BY <2>1, <3>1, <4>1, <4>2, BeganStays, ReceiptStays
    <3>2. CASE i = Len(acks) + 1
      <4>1. i - 1 = Len(acks) /\ acks'[i] = a
        BY <2>1, <3>2
      <4> QED
        BY <1>2, <2>1, <4>1, BeganStays, ReceiptStays DEF MayFollow
    <3> QED
      BY <2>1, <3>1, <3>2
  <2>3. ASSUME NEW t \in Typed, at'[t] = "going"
        PROVE  Began(acks', Len(acks'), t)
    <3>1. CASE a = <<"started", t>>
      BY <2>1, <3>1 DEF Began
    <3>2. CASE at[t] = "going" /\ (a = <<"tag", t>> \/ a[1] \in {"received", "status"})
      <4>1. Began(acks, Len(acks), t)
        BY <1>2, <3>2 DEF Told
      <4>2. Began(acks', Len(acks), t)
        BY <2>1, <4>1, BeganStays
      <4>3. \/ acks'[Len(acks) + 1] = <<"tag", t>>
            \/ acks'[Len(acks) + 1][1] \in {"received", "status"}
        BY <2>1, <3>2
      <4> QED
        BY <2>1, <4>2, <4>3, BeganGoesOn
    <3> QED
      BY <2>3, <3>1, <3>2
  <2>4. ASSUME NEW t \in Spoken, at'[t] \in {"received", "waiting"}
        PROVE  Receipt(acks', Len(acks'), t)
    <3>1. CASE a = <<"received", t>>
      BY <2>1, <3>1 DEF Receipt
    <3>2. CASE at[t] \in {"received", "waiting"}
      <4>1. Receipt(acks, Len(acks), t)
        BY <1>2, <3>2, Names DEF Told
      <4>2. /\ Len(acks') = Len(acks) + 1 /\ Len(acks) \in Nat
            /\ \A k \in 1..Len(acks) : acks'[k] = acks[k]
        BY <2>1
      <4>3. Receipt(acks', Len(acks) + 1, t)
        BY <4>1, <4>2, ReceiptStays
      <4> QED
        BY <4>2, <4>3
    <3> QED
      BY <2>4, <3>1, <3>2, Names
  <2> QED
    BY <2>2, <2>3, <2>4 DEF Told
<1> QED
  BY <1>1, <1>2

(* The turn moves on, if at all, neither to its loop nor past its receipt.  *)
NoFurther(t) ==
    /\ at'[t] = "going" => at[t] = "going"
    /\ at'[t] \in {"received", "waiting"} /\ t \in Spoken => at[t] \in {"received", "waiting"}
    /\ at'[t] \in {"new", "inbound"} => at[t] \in {"new", "inbound"}

(* Nothing is published, and no turn begins or waits that did not.          *)
LEMMA QuietTold ==
    ASSUME BusTypes, Told, UNCHANGED <<acks, ended>>, "voice" \in args' => "voice" \in args,
           \A t \in Typed : NoFurther(t)
    PROVE  Told'
<1>1. ASSUME NEW i \in DOMAIN acks
      PROVE  /\ acks[i][1] \in Ends => Began(acks, i - 1, acks[i][2])
             /\ acks[i][1] = "complete" => ended[acks[i][2]] \in {"answered", "failed"}
             /\ acks[i][1] = "failed" => ended[acks[i][2]] = "raised"
             /\ acks[i][1] = "received" => at'[acks[i][2]] \notin {"new", "inbound"}
             /\ acks[i][1] = "started" /\ acks[i][2] \in Spoken =>
                   Receipt(acks, i - 1, acks[i][2])
  <2>1. acks[i][1] = "received" => acks[i][2] \in Typed
    BY DEF BusTypes, Ack
  <2> QED
    BY <2>1 DEF Told, NoFurther
<1>2. ASSUME "voice" \in args', NEW t \in Typed
      PROVE  /\ at'[t] = "going" => Began(acks, Len(acks), t)
             /\ at'[t] \in {"received", "waiting"} /\ t \in Spoken =>
                   Receipt(acks, Len(acks), t)
  BY <1>2 DEF Told, NoFurther
<1>3. acks' = acks /\ ended' = ended
  OBVIOUS
<1> QED
  BY <1>1, <1>2, <1>3 DEF Told

(* The process ends, and its turns with it.                                 *)
LEMMA GoneTold == ASSUME TurnTypes, Gone PROVE Told'
  BY DEF TurnTypes, Gone, Told


(* What is published keeps to its turn, which is the one with the lock.     *)
LEMMA ToldStep ==
    ASSUME IInv, [ReplNext]_allVars
    PROVE  Told'
<1> USE Names DEF IInv, vars, replVars, turnVars, voiceVars, bridgeVars, inboxVars, detVars,
    workVars, agentVars, mailVars
<1>1. ASSUME Mail, UNCHANGED replVars
      PROVE  Told'
  BY <1>1, QuietTold DEF NoFurther
<1>2. ASSUME Running, Says, UNCHANGED replVars
      PROVE  Told'
  <2>1. UNCHANGED <<acks, ended>> /\ ("voice" \in args' => "voice" \in args)
    BY <1>2 DEF Says
  <2>2. \A u \in Typed : NoFurther(u)
    BY <1>2 DEF Says, TurnTypes, NoFurther
  <2> QED
    BY <2>1, <2>2, QuietTold
<1>3. CASE Start
  <2>1. UNCHANGED <<acks, ended>> /\ ("voice" \in args' => "voice" \in args)
    BY <1>3 DEF Start
  <2>2. \A u \in Typed : NoFurther(u)
    BY <1>3 DEF Start, TurnTypes, NoFurther
  <2> QED
    BY <2>1, <2>2, QuietTold
<1>4. CASE Quit
  <2>1. UNCHANGED <<acks, ended>> /\ ("voice" \in args' => "voice" \in args)
    BY <1>4 DEF Quit
  <2>2. \A u \in Typed : NoFurther(u)
    BY <1>4 DEF Quit, TurnTypes, NoFurther
  <2> QED
    BY <2>1, <2>2, QuietTold
<1>5. CASE Leave
  <2>1. UNCHANGED <<acks, ended>> /\ ("voice" \in args' => "voice" \in args)
    BY <1>5 DEF Leave, Interrupts
  <2>2. \A u \in Typed : NoFurther(u)
    BY <1>5 DEF Leave, Interrupts, TurnTypes, NoFurther
  <2> QED
    BY <2>1, <2>2, QuietTold
<1>6. CASE Waited
  <2>1. UNCHANGED <<acks, ended>> /\ ("voice" \in args' => "voice" \in args)
    BY <1>6 DEF Waited
  <2>2. \A u \in Typed : NoFurther(u)
    BY <1>6 DEF Waited, TurnTypes, NoFurther
  <2> QED
    BY <2>1, <2>2, QuietTold
<1>7. CASE LeaveAgain
  <2>1. UNCHANGED <<acks, ended>> /\ ("voice" \in args' => "voice" \in args)
    BY <1>7 DEF LeaveAgain, Interrupts
  <2>2. \A u \in Typed : NoFurther(u)
    BY <1>7 DEF LeaveAgain, Interrupts, TurnTypes, NoFurther
  <2> QED
    BY <2>1, <2>2, QuietTold
<1>8. CASE Escape
  BY <1>8, GoneTold DEF Escape, IInv
<1>9. CASE Close
  <2>1. UNCHANGED <<acks, ended>> /\ ("voice" \in args' => "voice" \in args)
    BY <1>9 DEF Close, StopBridge
  <2>2. \A u \in Typed : NoFurther(u)
    BY <1>9 DEF Close, StopBridge, TurnTypes, NoFurther
  <2> QED
    BY <2>1, <2>2, QuietTold
<1>10. CASE Exit
  BY <1>10, GoneTold DEF Exit, IInv
<1>11. ASSUME NEW t \in Typed, Line(t)
      PROVE  Told'
  <2>1. UNCHANGED <<acks, ended>> /\ ("voice" \in args' => "voice" \in args)
    BY <1>11 DEF Line, Interrupts, Put
  <2>2. \A u \in Typed : NoFurther(u)
    BY <1>11 DEF Line, Interrupts, Put, TurnTypes, NoFurther
  <2> QED
    BY <2>1, <2>2, QuietTold
<1>12. CASE StartAgain
  BY <1>12, GoneTold DEF StartAgain, IInv
<1>13. CASE Connect
  <2>1. UNCHANGED <<acks, ended>> /\ ("voice" \in args' => "voice" \in args)
    BY <1>13 DEF Connect
  <2>2. \A u \in Typed : NoFurther(u)
    BY <1>13 DEF Connect, TurnTypes, NoFurther
  <2> QED
    BY <2>1, <2>2, QuietTold
<1>14. CASE Speak
  <2>1. UNCHANGED <<acks, ended>> /\ ("voice" \in args' => "voice" \in args)
    BY <1>14 DEF Speak
  <2>2. \A u \in Typed : NoFurther(u)
    BY <1>14 DEF Speak, TurnTypes, NoFurther
  <2> QED
    BY <2>1, <2>2, QuietTold
<1>15. CASE Disconnect
  <2>1. UNCHANGED <<acks, ended>> /\ ("voice" \in args' => "voice" \in args)
    BY <1>15 DEF Disconnect
  <2>2. \A u \in Typed : NoFurther(u)
    BY <1>15 DEF Disconnect, TurnTypes, NoFurther
  <2> QED
    BY <2>1, <2>2, QuietTold
<1>16. CASE LookAtTurn
  <2>1. UNCHANGED <<acks, ended>> /\ ("voice" \in args' => "voice" \in args)
    BY <1>16 DEF LookAtTurn, Active
  <2>2. \A u \in Typed : NoFurther(u)
    BY <1>16 DEF LookAtTurn, Active, TurnTypes, NoFurther
  <2> QED
    BY <2>1, <2>2, QuietTold
<1>17. CASE Remark
  <2>1. <<"status", remark>> \in Ack
    BY <1>17 DEF Remark, Ack, TurnTypes
  <2>2. UNCHANGED <<args, ended, at>>
    BY <1>17 DEF Remark
  <2>3. CASE UNCHANGED <<acks, client>>
    BY <2>2, <2>3 DEF Told, Began, Receipt
  <2>4. CASE Publish(<<<<"status", remark>>>>)
    <3>1. MayFollow(<<"status", remark>>)
      BY DEF MayFollow, Ends
    <3> QED
      BY <2>1, <2>2, <2>4, <3>1, PublishTold
  <2> QED
    BY <1>17, <2>3, <2>4 DEF Remark
<1>18. ASSUME NEW t \in Spoken, Say(t)
      PROVE  Told'
  <2>1. UNCHANGED <<acks, ended>> /\ ("voice" \in args' => "voice" \in args)
    BY <1>18 DEF Say, Put
  <2>2. \A u \in Typed : NoFurther(u)
    BY <1>18 DEF Say, Put, TurnTypes, NoFurther
  <2> QED
    BY <2>1, <2>2, QuietTold
<1>19. ASSUME NEW t \in Spoken, TakeSaid(t)
      PROVE  Told'
  <2>1. <<"received", t>> \in Ack
    BY <1>19 DEF Ack
  <2>2. t \in Typed /\ at' = [at EXCEPT ![t] = "received"] /\ UNCHANGED <<args, ended>>
        /\ Publish(<<<<"received", t>>>>)
    BY <1>19 DEF TakeSaid, Put
  <2>3. MayFollow(<<"received", t>>)
    BY DEF MayFollow, Ends
  <2> QED
    BY <2>1, <2>2, <2>3, PublishTold DEF TurnTypes
<1>20. CASE VoiceTag
  <2>1. <<"tag", lock>> \in Ack
    BY <1>20 DEF VoiceTag, Active, Ack, TurnTypes
  <2>2. UNCHANGED <<args, ended, at>> /\ Publish(<<<<"tag", lock>>>>)
    BY <1>20 DEF VoiceTag
  <2>3. MayFollow(<<"tag", lock>>)
    BY DEF MayFollow, Ends
  <2>4. \A t \in Typed : at[t] = "going" => lock = t
    BY DEF Turns
  <2> QED
    BY <2>1, <2>2, <2>3, <2>4, PublishTold
<1>21. ASSUME NEW t \in Typed, BeginTurn(t)
      PROVE  Told'
  <2>1. <<"started", t>> \in Ack
    BY <1>21 DEF Ack
  <2>2. /\ at[t] = "waiting" /\ at' = [at EXCEPT ![t] = "going"] /\ lock = Nobody
        /\ UNCHANGED <<args, ended>> /\ Publish(<<<<"started", t>>>>)
    BY <1>21 DEF BeginTurn, Begins, Put
  <2>3. "voice" \in args => MayFollow(<<"started", t>>)
    BY <2>2 DEF MayFollow, Ends, Told
  <2>4. \A u \in Typed : at[u] # "going"
    BY <2>2 DEF Turns
  <2> QED
    BY <2>1, <2>2, <2>3, <2>4, PublishTold DEF TurnTypes
<1>22. ASSUME NEW t \in Typed, EndTurn(t)
      PROVE  Told'
  <2>1. <<EndKind(t), t>> \in Ack
    BY <1>22 DEF EndKind, Ack, Ends
  <2>2. /\ at[t] = "going" /\ ended[t] # "no" /\ at' = [at EXCEPT ![t] = "over"]
        /\ UNCHANGED <<args, ended>> /\ Publish(<<<<EndKind(t), t>>>>)
    BY <1>22 DEF EndTurn, Put
  <2>3. "voice" \in args => MayFollow(<<EndKind(t), t>>)
    BY <2>2 DEF MayFollow, EndKind, Told
  <2>4. \A u \in Typed : at[u] = "going" => u = t
    BY <2>2 DEF Turns
  <2>5. /\ EndKind(t) = "complete" => ended[t] \in {"answered", "failed"}
        /\ EndKind(t) = "failed" => ended[t] = "raised"
    BY <2>2 DEF EndKind, Stops, TurnTypes
  <2> QED
    BY <2>1, <2>2, <2>3, <2>4, <2>5, PublishTold DEF TurnTypes
<1>23. ASSUME NEW t \in Typed, NEW how \in {"answered", "stopped", "failed", "raised"},
              LoopEnds(t, how)
      PROVE  Told'
  <2>1. /\ ended[t] = "no" /\ ended' = [ended EXCEPT ![t] = how] /\ UNCHANGED <<args, acks, at>>
    BY <1>23 DEF LoopEnds
  <2>2. \A i \in DOMAIN acks :
           /\ acks[i] \in Ack
           /\ acks[i][1] = "complete" => ended[acks[i][2]] \in {"answered", "failed"}
           /\ acks[i][1] = "failed" => ended[acks[i][2]] = "raised"
    BY DEF BusTypes, Told
  <2>3. \A i \in DOMAIN acks : acks[i][1] \in {"complete", "failed"} =>
                                   acks[i][2] \in Typed /\ acks[i][2] # t
    BY <2>1, <2>2 DEF Ack
  <2>4. \A i \in DOMAIN acks :
           /\ acks[i][1] = "complete" => ended'[acks[i][2]] \in {"answered", "failed"}
           /\ acks[i][1] = "failed" => ended'[acks[i][2]] = "raised"
    BY <2>1, <2>2, <2>3 DEF TurnTypes
  <2> QED
    BY <2>1, <2>4 DEF Told
<1>24. CASE UNCHANGED allVars
  BY <1>24, QuietTold DEF allVars, NoFurther
<1>25. ASSUME NEW t \in Spoken, HandOver(t)
      PROVE  Told'
  <2>1. UNCHANGED <<acks, ended>> /\ ("voice" \in args' => "voice" \in args)
    BY <1>25 DEF HandOver, Put
  <2>2. \A u \in Typed : NoFurther(u)
    BY <1>25 DEF HandOver, Put, TurnTypes, NoFurther
  <2> QED
    BY <2>1, <2>2, QuietTold
<1> QED
  BY <1>1, <1>2, <1>3, <1>4, <1>5, <1>6, <1>7, <1>8, <1>9, <1>10, <1>11, <1>12, <1>13,
     <1>14, <1>15, <1>16, <1>17, <1>18, <1>19, <1>20, <1>21, <1>22, <1>23, <1>24, <1>25 DEF
     ReplNext, MainThread, Voice, TurnThread

(* A client that keeps up misses nothing of what is published.              *)
LEMMA KeptStep ==
    ASSUME IInv, [ReplNext]_allVars
    PROVE  Kept'
<1> USE Names DEF IInv, vars, replVars, turnVars, voiceVars, bridgeVars, inboxVars, detVars,
    workVars, agentVars, mailVars
<1>1. ASSUME Mail, UNCHANGED replVars
      PROVE  Kept'
  BY <1>1 DEF Kept
<1>2. ASSUME Running, Says, UNCHANGED replVars
      PROVE  Kept'
  BY <1>2 DEF Says, Kept
<1>3. CASE Start
  BY <1>3 DEF Start, Kept
<1>4. CASE Quit
  BY <1>4 DEF Quit, Kept
<1>5. CASE Leave
  BY <1>5 DEF Leave, Interrupts, Kept
<1>6. CASE Waited
  BY <1>6 DEF Waited, Kept
<1>7. CASE LeaveAgain
  BY <1>7 DEF LeaveAgain, Interrupts, Kept
<1>8. CASE Escape
  BY <1>8 DEF Escape, ProcessEnds, Gone, Kept
<1>9. CASE Close
  BY <1>9 DEF Close, StopBridge, Kept
<1>10. CASE Exit
  BY <1>10 DEF Exit, ProcessEnds, Gone, Kept
<1>11. ASSUME NEW t \in Typed, Line(t)
      PROVE  Kept'
  BY <1>11 DEF Line, Interrupts, Put, Kept
<1>12. CASE StartAgain
  BY <1>12 DEF StartAgain, Restart, ProcessEnds, Gone, Kept
<1>13. CASE Connect
  <2>1. client'.queue = <<>> /\ acks' = acks /\ Len(acks) \in Nat
    BY <1>13 DEF Connect, BusTypes
  <2>2. /\ Len(acks) \in 0..Len(acks') /\ Len(client'.queue) = Len(acks') - Len(acks)
        /\ \A k \in 1..Len(client'.queue) : client'.queue[k] = acks'[Len(acks) + k]
    BY <2>1
  <2> QED
    BY <2>2 DEF Kept
<1>14. CASE Speak
  <2>1. /\ client.queue \in Seq(Ack) /\ client.queue # <<>> /\ acks' = acks /\ Len(acks) \in Nat
        /\ client'.queue = Tail(client.queue) /\ client'.conn = client.conn
    BY <1>14 DEF Speak, BusTypes
  <2>2. /\ Len(client'.queue) = Len(client.queue) - 1 /\ Len(client.queue) \in Nat \ {0}
        /\ \A k \in 1..(Len(client.queue) - 1) : client'.queue[k] = client.queue[k + 1]
    BY <2>1
  <2>3. SUFFICES ASSUME client.conn = "on" PROVE Kept'
    BY <2>1 DEF Kept
  <2>4. PICK i \in 0..Len(acks) :
            /\ Len(client.queue) = Len(acks) - i
            /\ \A k \in 1..Len(client.queue) : client.queue[k] = acks[i + k]
    BY <2>3 DEF Kept
  <2>5. i + 1 \in 0..Len(acks') /\ Len(client'.queue) = Len(acks') - (i + 1)
    BY <2>1, <2>2, <2>4
  <2>6. ASSUME NEW k \in 1..Len(client'.queue)
        PROVE  client'.queue[k] = acks'[(i + 1) + k]
    <3>1. k + 1 \in 1..Len(client.queue) /\ i + (k + 1) = (i + 1) + k
      BY <2>2, <2>4
    <3> QED
      BY <2>1, <2>2, <2>4, <3>1
  <2> QED
    BY <2>5, <2>6 DEF Kept
<1>15. CASE Disconnect
  BY <1>15 DEF Disconnect, Kept
<1>16. CASE LookAtTurn
  BY <1>16 DEF LookAtTurn, Active, Kept
<1>17. CASE Remark
  <2>1. <<"status", remark>> \in Ack
    BY <1>17 DEF Remark, Ack, TurnTypes
  <2>2. CASE UNCHANGED <<acks, client>>
    BY <2>2 DEF BusTypes, Kept
  <2>3. CASE Publish(<<<<"status", remark>>>>)
    BY <2>1, <2>3, PublishKept
  <2> QED
    BY <1>17, <2>2, <2>3 DEF Remark
<1>18. ASSUME NEW t \in Spoken, Say(t)
      PROVE  Kept'
  BY <1>18 DEF Say, Put, Kept
<1>19. ASSUME NEW t \in Spoken, TakeSaid(t)
      PROVE  Kept'
  <2>1. <<"received", t>> \in Ack
    BY <1>19 DEF Ack
  <2> QED
    BY <1>19, <2>1, PublishKept DEF TakeSaid
<1>20. CASE VoiceTag
  <2>1. <<"tag", lock>> \in Ack
    BY <1>20 DEF VoiceTag, Active, Ack, TurnTypes
  <2> QED
    BY <1>20, <2>1, PublishKept DEF VoiceTag
<1>21. ASSUME NEW t \in Typed, BeginTurn(t)
      PROVE  Kept'
  <2>1. <<"started", t>> \in Ack
    BY <1>21 DEF Ack
  <2> QED
    BY <1>21, <2>1, PublishKept DEF BeginTurn
<1>22. ASSUME NEW t \in Typed, EndTurn(t)
      PROVE  Kept'
  <2>1. <<EndKind(t), t>> \in Ack
    BY <1>22 DEF EndKind, Ack, Ends
  <2> QED
    BY <1>22, <2>1, PublishKept DEF EndTurn
<1>23. ASSUME NEW t \in Typed, NEW how \in {"answered", "stopped", "failed", "raised"},
              LoopEnds(t, how)
      PROVE  Kept'
  BY <1>23 DEF LoopEnds, Kept
<1>24. CASE UNCHANGED allVars
  BY <1>24 DEF allVars, Kept
<1>25. ASSUME NEW t \in Spoken, HandOver(t)
      PROVE  Kept'
  BY <1>25 DEF HandOver, Put, Kept
<1> QED
  BY <1>1, <1>2, <1>3, <1>4, <1>5, <1>6, <1>7, <1>8, <1>9, <1>10, <1>11, <1>12, <1>13,
     <1>14, <1>15, <1>16, <1>17, <1>18, <1>19, <1>20, <1>21, <1>22, <1>23, <1>24, <1>25 DEF
     ReplNext, MainThread, Voice, TurnThread

-----------------------------------------------------------------------------
LEMMA InitIInv == ReplInit => IInv
<1> SUFFICES ASSUME ReplInit PROVE IInv
  OBVIOUS
<1> USE Names DEF ReplInit, MailInit, ProcessInit
<1>1. MailTypes /\ Once /\ OneReply
  BY DEF MailTypes, Once, OneReply
<1>2. TurnTypes /\ Turns /\ Stops
  BY DEF TurnTypes, Turns, Stops
<1>3. BusTypes /\ Told
  BY DEF BusTypes, Told
<1>4. Kept
  BY DEF Kept
<1> QED
  BY <1>1, <1>2, <1>3, <1>4 DEF IInv

LEMMA NextIInv == IInv /\ [ReplNext]_allVars => IInv'
<1> SUFFICES ASSUME IInv, [ReplNext]_allVars PROVE IInv'
  OBVIOUS
<1>1. MailTypes' /\ Once' /\ OneReply'
  BY BridgeStep
<1>2. TurnTypes' /\ Turns' /\ Stops'
  BY TurnTypesStep, TurnsStep, StopsStep
<1>3. BusTypes' /\ Told' /\ Kept'
  BY BusTypesStep, ToldStep, KeptStep
<1> QED
  BY <1>1, <1>2, <1>3 DEF IInv

LEMMA Invariance == Spec => []IInv
  BY InitIInv, NextIInv, PTL DEF Spec

-----------------------------------------------------------------------------
(* A process gives a message to the agent or the supervisor at most once,   *)
(* however often a poll finds it, and mails at most one reply to it, but for*)
(* a call of the tool that was given up and began to send after the bridge  *)
(* had replied (EmailBridge, _seen and _OUTBOUND_REPLIES).                  *)
THEOREM MailAtMostOnce == Spec => []AtMostOnce
<1>1. IInv => AtMostOnce
  <2> SUFFICES ASSUME IInv PROVE AtMostOnce
    OBVIOUS
  <2>1. toolSent \cap autoSent \subseteq late
    BY DEF IInv, OneReply
  <2>2. ASSUME NEW m \in Msg PROVE given[m] <= IF kind[m] = "outbound" THEN 0 ELSE 1
    <3>1. given[m] \in Nat /\ given[m] <= 1 /\ (given[m] = 1 => kind[m] # "outbound")
      BY DEF IInv, MailTypes, Once, Command
    <3> QED
      BY <3>1
  <2> QED
    BY <2>1, <2>2 DEF AtMostOnce
<1> QED
  BY <1>1, Invariance, PTL

(* The reply that is mailed is what was said in the turn of its message,    *)
(* whoever else uses the agent (AgentClient._send_lock, _last_response).    *)
THEOREM MailReplyIsOwn == Spec => []ReplyIsOwn
<1>1. IInv => ReplyIsOwn
  BY DEF IInv, Turns, ReplyIsOwn
<1> QED
  BY <1>1, Invariance, PTL

(* What the voice bus says of a turn was so when it was said, and a laptop  *)
(* that keeps up is told all of it (voice/events.py).                       *)
THEOREM VoiceAcksTrue == Spec => []AcksTrue
<1>1. IInv => AcksTrue
  <2> SUFFICES ASSUME IInv PROVE AcksTrue
    OBVIOUS
  <2>1. ASSUME NEW i \in DOMAIN acks
        PROVE  /\ acks[i][1] \in Ends => Began(acks, i - 1, acks[i][2])
               /\ acks[i][1] = "complete" => ended[acks[i][2]] \in {"answered", "failed"}
               /\ acks[i][1] = "failed" => ended[acks[i][2]] = "raised"
               /\ acks[i][1] = "received" => at[acks[i][2]] \notin {"new", "inbound"}
               /\ acks[i][1] = "started" /\ acks[i][2] \in Spoken =>
                     Receipt(acks, i - 1, acks[i][2])
    BY DEF IInv, Told
  <2>2. ASSUME client.conn = "on"
        PROVE  \E i \in 1..(Len(acks) + 1) : client.queue = SubSeq(acks, i, Len(acks))
    <3>1. PICK i \in 0..Len(acks) :
              /\ Len(client.queue) = Len(acks) - i
              /\ \A k \in 1..Len(client.queue) : client.queue[k] = acks[i + k]
      BY <2>2 DEF IInv, Kept
    <3>2. acks \in Seq(Ack) /\ client.queue \in Seq(Ack) /\ Len(acks) \in Nat
      BY DEF IInv, BusTypes
    <3> DEFINE rest == SubSeq(acks, i + 1, Len(acks))
    <3>3. /\ rest \in Seq(Ack) /\ Len(rest) = Len(acks) - i
          /\ \A k \in 1..(Len(acks) - i) : rest[k] = acks[i + k]
      BY <3>1, <3>2
    <3>4. client.queue = rest
      <4> HIDE DEF rest
      <4>1. Len(client.queue) = Len(rest) /\ \A k \in 1..Len(rest) : client.queue[k] = rest[k]
        BY <3>1, <3>3
      <4> QED
        BY <3>2, <3>3, <4>1, SeqEqual
    <3>5. i + 1 \in 1..(Len(acks) + 1)
      BY <3>2
    <3> QED
      BY <3>4, <3>5
  <2> QED
    BY <2>1, <2>2 DEF AcksTrue, Began, Receipt
<1> QED
  BY <1>1, Invariance, PTL

=============================================================================
