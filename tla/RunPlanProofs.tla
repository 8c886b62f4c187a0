----------------------------- MODULE RunPlanProofs -----------------------------
(***************************************************************************)
(* For any plan, also one with a cycle or a missing prerequisite, and any  *)
(* number of workers: no wakeup is lost, nobody builds on a result that is *)
(* taken back, and run_plan returns with every task resolved.              *)
(***************************************************************************)
EXTENDS RunPlan, TLAPS

(* TypeOK, with the variables it leaves out.                                *)
PlanTypes ==
    /\ order \in Seq(TaskId) /\ Len(order) \in 1..MaxTasks
    /\ depends \in [TaskId -> SUBSET TaskId]
    /\ status \in [TaskId -> Status]
    /\ summary \in [TaskId -> {"none", "worker", "plan"}]

ThreadTypes ==
    /\ pc \in [Workers -> {"look", "parked", "taken", "exec", "tell", "notify",
                            "stopping", "exited"}]
    /\ job \in [Workers -> TaskId \cup {NoTask}]
    /\ raised \subseteq Workers

MainTypes ==
    /\ main \in {"join", "close", "sweep", "result", "done", "failed", "interrupted"}
    /\ cursor \in 1..(MaxTasks + 1)
    /\ seen \in TaskId \cup {NoTask}

FlagTypes ==
    /\ closed \in BOOLEAN /\ timed \in BOOLEAN /\ overdue \in BOOLEAN /\ cut \in BOOLEAN

Types == PlanTypes /\ ThreadTypes /\ MainTypes /\ FlagTypes

(* A worker has a task from the claim until it writes the status, and the   *)
(* summary is still its to write then.                                      *)
Active(w) == pc[w] \in {"taken", "exec"}
Busy(w) == Active(w) \/ pc[w] = "tell"

(* The order is the queue's, and nobody waits on a queue that is closed.    *)
Ordered == \A t \in TaskId : status[t] # "absent" <=> \E i \in DOMAIN order : order[i] = t

Awake == closed => \A w \in Workers : pc[w] # "parked"

(* A task has one worker, and is claimed for as long, unless it was swept.  *)
Owned ==
    \A w \in Workers : Busy(w) =>
        /\ job[w] \in TaskId /\ status[job[w]] # "pending" /\ status[job[w]] # "absent"
        /\ ~closed /\ Active(w) => status[job[w]] = "claimed"
        /\ \A v \in Workers : Busy(v) /\ job[v] = job[w] => v = w

(* Until the queue is closed a summary is its worker's to write first.      *)
Untold ==
    /\ \A t \in TaskId : status[t] = "pending" => summary[t] = "none"
    /\ ~closed => \A w \in Workers : Busy(w) => summary[job[w]] = "none"

(* A result that a task is, or will be, started with is final: nobody works *)
(* on it any more, and the loop over the tasks has not picked it; its       *)
(* summary, if there is one, is final too.                                  *)
Final(d) ==
    /\ d \in TaskId /\ status[d] \in Terminal /\ seen # d
    /\ \A w \in Workers : Active(w) => job[w] # d
    /\ \A w \in Workers : pc[w] = "tell" /\ job[w] = d => summary[d] = "none"

Built ==
    /\ given = [t \in TaskId |-> given[t]]
    /\ \A w \in Workers : pc[w] = "taken" => \A d \in depends[job[w]] : Final(d)
    /\ \A t \in TaskId : \A d \in DOMAIN given[t] :
          /\ Final(d) /\ given[t][d].status = status[d]
          /\ given[t][d].summary \in {"none", summary[d]}

(* Until the queue is closed by run_plan: if no worker was killed, the      *)
(* queue is open, each claimed task has its worker, and the first worker,   *)
(* which every plan has, leaves only when nothing is pending.               *)
Undisturbed ==
    /\ ~closed
    /\ \A w \in Workers : pc[w] # "stopping"
    /\ \A t \in TaskId : status[t] = "claimed" => \E w \in Workers : Active(w) /\ job[w] = t
    /\ pc[1] = "exited" => Pending = {}

Resolved(t) == status[t] \in Terminal \cup {"absent"}

(* The task that will be marked is the one the loop is at.                  *)
Picked == seen # NoTask => main = "sweep" /\ seen = order[cursor]

(* How far run_plan is from every task being resolved.                      *)
Closing ==
    /\ main \in {"join", "close"} => cursor = 1
    /\ main \in {"join", "close"} /\ raised = {} => Undisturbed
    /\ main = "close" /\ ~cut /\ ~overdue =>
          raised = {} /\ \A w \in Workers : pc[w] = "exited"
    /\ main \notin {"join", "close"} => closed
    /\ main = "sweep" => cursor <= Len(order) /\ \A i \in 1..(cursor - 1) : Resolved(order[i])
    /\ main = "result" \/ Returned => \A t \in TaskId : Resolved(t)

IInv ==
    Types /\ Ordered /\ Awake /\ NoLostWakeup /\ Owned /\ Untold /\ Built /\ Picked /\ Closing

-----------------------------------------------------------------------------
LEMMA Numbers ==
    /\ MaxTasks \in Nat \ {0} /\ MaxSubtasks \in Nat /\ MaxDepth \in Nat
    /\ MaxWorkers \in Nat \ {0}
    /\ NoTask \notin TaskId /\ 1 \in Workers
  BY QueueAssumption, PlanAssumption DEF QueueAssumption, PlanAssumption, Workers

(* A position up to MaxTasks is a task identifier.                          *)
LEMMA PositionId ==
    ASSUME NEW i \in 1..MaxTasks
    PROVE  <<i>> \in TaskId
<1>1. i \in 1..Width /\ 1 \in 1..(MaxDepth + 1)
  BY Numbers DEF Width
<1>2. <<i>> \in [1..1 -> 1..Width] /\ Len(<<i>>) = 1 /\ <<i>>[1] = i
  BY <1>1
<1> QED
  BY <1>1, <1>2, Numbers DEF TaskId

(* The queue that is filled from a plan.                                    *)
LEMMA FilledQueue ==
    ASSUME NEW plan \in Plans, QueueInit(plan), summary = [t \in TaskId |-> "none"]
    PROVE  PlanTypes /\ Ordered /\ closed = FALSE /\ \A t \in TaskId : status[t] # "claimed"
<1>1. /\ Len(plan) \in 1..MaxTasks
      /\ \A i \in 1..Len(plan) : plan[i] \subseteq 1..MaxTasks
  BY PlanAssumption DEF PlanAssumption
<1>2. ASSUME NEW i \in 1..Len(plan) PROVE <<i>> \in TaskId /\ <<i>>[1] = i
  <2>1. i \in 1..MaxTasks
    BY <1>1, Numbers
  <2> QED
    BY <2>1, PositionId
<1>3. order \in Seq(TaskId) /\ Len(order) = Len(plan)
  BY <1>1, <1>2, Numbers DEF QueueInit, OrderOf
<1>4. /\ status \in [TaskId -> Status] /\ closed = FALSE
      /\ \A t \in TaskId : status[t] # "claimed"
      /\ \A t \in TaskId : status[t] # "absent" => t \in Ids(plan)
  BY DEF QueueInit, StatusOf, Status
<1>5. depends \in [TaskId -> SUBSET TaskId]
  <2>1. ASSUME NEW t \in TaskId, t \in Ids(plan)
        PROVE  {<<d>> : d \in plan[t[1]]} \subseteq TaskId
    <3>1. PICK i \in 1..Len(plan) : t = <<i>>
      BY <2>1 DEF Ids
    <3>2. plan[t[1]] \subseteq 1..MaxTasks
      BY <1>1, <1>2, <3>1
    <3> QED
      BY <3>2, PositionId
  <2> QED
    BY <2>1 DEF QueueInit, DependsOf
<1>6. Ordered
  <2>1. \A t \in TaskId : status[t] # "absent" <=> \E i \in 1..Len(plan) : t = <<i>>
    BY DEF QueueInit, StatusOf, Ids
  <2>2. DOMAIN order = 1..Len(plan) /\ \A i \in 1..Len(plan) : order[i] = <<i>>
    BY <1>1 DEF QueueInit, OrderOf
  <2> QED
    BY <2>1, <2>2 DEF Ordered
<1> QED
  BY <1>1, <1>3, <1>4, <1>5, <1>6 DEF PlanTypes

LEMMA InitIInv == Init => IInv
<1> SUFFICES ASSUME Init PROVE IInv
  OBVIOUS
<1>1. PICK plan \in Plans :
          /\ QueueInit(plan)
          /\ pc = [w \in Workers |-> IF w <= Len(plan) THEN "look" ELSE "exited"]
  BY DEF Init
<1>2. PlanTypes /\ Ordered /\ closed = FALSE /\ \A t \in TaskId : status[t] # "claimed"
  BY <1>1, FilledQueue DEF Init
<1>3. /\ job = [w \in Workers |-> NoTask] /\ given = [t \in TaskId |-> <<>>] /\ raised = {}
      /\ timed \in BOOLEAN /\ overdue = FALSE /\ main = "join" /\ cut = FALSE /\ cursor = 1
      /\ seen = NoTask /\ summary = [t \in TaskId |-> "none"]
  BY DEF Init
<1>4. /\ \A w \in Workers : pc[w] \in {"look", "exited"}
      /\ pc[1] = "look"
  BY <1>1, Numbers, PlanAssumption DEF PlanAssumption
<1>5. Types
  <2>1. ThreadTypes
    BY <1>3, <1>4, <1>1 DEF ThreadTypes
  <2>2. MainTypes
    BY <1>3, Numbers DEF MainTypes
  <2>3. FlagTypes
    BY <1>2, <1>3 DEF FlagTypes
  <2> QED
    BY <1>2, <2>1, <2>2, <2>3 DEF Types
<1>6. Awake /\ NoLostWakeup /\ Owned
  BY <1>4 DEF Awake, NoLostWakeup, Owned, Busy, Active
<1>7. Built
  BY <1>3, <1>4 DEF Built
<1>8. Closing
  BY <1>2, <1>3, <1>4 DEF Closing, Undisturbed, Returned
<1>9. Untold /\ Picked
  BY <1>3, <1>4 DEF Untold, Picked, Busy, Active
<1> QED
  BY <1>2, <1>5, <1>6, <1>7, <1>8, <1>9 DEF IInv

-----------------------------------------------------------------------------
(* The task the loop is at is one of the plan.                              *)
LEMMA LoopPlace ==
    ASSUME IInv, main = "sweep"
    PROVE  /\ cursor \in 1..Len(order) /\ Len(order) \in Nat
           /\ \A i \in 1..Len(order) : order[i] \in TaskId
           /\ order[cursor] \in TaskId /\ cursor \in DOMAIN order
           /\ status[order[cursor]] # "absent"
  BY Numbers DEF IInv, Types, PlanTypes, MainTypes, Closing, Ordered

(* Every step keeps every part of the invariant.                            *)

(* The queue: a task that a worker writes the status of is one.             *)
LEMMA PlanTypesStep ==
    ASSUME IInv, [Next]_vars
    PROVE  PlanTypes'
<1> USE Numbers DEF IInv, queueVars, mainVars, Types, PlanTypes, ThreadTypes, MainTypes,
    Owned, Busy, Active, Closing, Status, Terminal
<1>1. ASSUME NEW w \in Workers, Take(w)
      PROVE  PlanTypes'
  BY <1>1 DEF Take, Claim
<1>2. ASSUME NEW w \in Workers, Quit(w)
      PROVE  PlanTypes'
  BY <1>2 DEF Quit, Pending
<1>3. ASSUME NEW w \in Workers, FailDoomed(w)
      PROVE  PlanTypes'
  BY <1>3 DEF FailDoomed, NothingToClaim, Doomed, Pending, Woken
<1>4. ASSUME NEW w \in Workers, Park(w)
      PROVE  PlanTypes'
  BY <1>4 DEF Park, NothingToClaim
<1>5. ASSUME NEW w \in Workers, Begin(w)
      PROVE  PlanTypes'
  BY <1>5 DEF Begin
<1>6. ASSUME NEW w \in Workers, Finish(w)
      PROVE  PlanTypes'
  BY <1>6 DEF Finish, Ends
<1>7. ASSUME NEW w \in Workers, Notify(w)
      PROVE  PlanTypes'
  BY <1>7 DEF Notify, Woken
<1>8. ASSUME NEW w \in Workers, StopAll(w)
      PROVE  PlanTypes'
  BY <1>8 DEF StopAll, Woken
<1>9. ASSUME NEW w \in Workers, Killed(w)
      PROVE  PlanTypes'
  BY <1>9 DEF Killed
<1>10. CASE Joined
  BY <1>10 DEF Joined
<1>11. CASE Interrupt
  BY <1>11 DEF Interrupt
<1>12. CASE Close
  BY <1>12 DEF Close, Woken
<1>13. CASE Look
  BY <1>13, LoopPlace DEF Look, Advance
<1>14. CASE Return
  BY <1>14 DEF Return
<1>15. CASE DeadlinePasses
  BY <1>15 DEF DeadlinePasses
<1>17. ASSUME NEW w \in Workers, Tell(w)
      PROVE  PlanTypes'
  BY <1>17 DEF Tell
<1>18. CASE MarkSeen
  BY <1>18, LoopPlace DEF MarkSeen, Advance, Picked
<1>16. CASE UNCHANGED vars
  BY <1>16 DEF vars
<1> QED
  BY <1>1, <1>2, <1>3, <1>4, <1>5, <1>6, <1>7, <1>8, <1>9, <1>10, <1>11, <1>12, <1>13,
     <1>14, <1>15, <1>16, <1>17, <1>18 DEF Next, Worker, Run

(* The worker threads.                                                      *)
LEMMA ThreadTypesStep ==
    ASSUME IInv, [Next]_vars
    PROVE  ThreadTypes'
<1> USE Numbers DEF IInv, queueVars, mainVars, Types, ThreadTypes
<1>1. ASSUME NEW w \in Workers, Take(w)
      PROVE  ThreadTypes'
  BY <1>1 DEF Take, Claim
<1>2. ASSUME NEW w \in Workers, Quit(w)
      PROVE  ThreadTypes'
  BY <1>2 DEF Quit, Pending
<1>3. ASSUME NEW w \in Workers, FailDoomed(w)
      PROVE  ThreadTypes'
  BY <1>3 DEF FailDoomed, NothingToClaim, Doomed, Pending, Woken
<1>4. ASSUME NEW w \in Workers, Park(w)
      PROVE  ThreadTypes'
  BY <1>4 DEF Park, NothingToClaim
<1>5. ASSUME NEW w \in Workers, Begin(w)
      PROVE  ThreadTypes'
  BY <1>5 DEF Begin
<1>6. ASSUME NEW w \in Workers, Finish(w)
      PROVE  ThreadTypes'
  BY <1>6 DEF Finish, Ends
<1>7. ASSUME NEW w \in Workers, Notify(w)
      PROVE  ThreadTypes'
  BY <1>7 DEF Notify, Woken
<1>8. ASSUME NEW w \in Workers, StopAll(w)
      PROVE  ThreadTypes'
  BY <1>8 DEF StopAll, Woken
<1>9. ASSUME NEW w \in Workers, Killed(w)
      PROVE  ThreadTypes'
  BY <1>9 DEF Killed
<1>10. CASE Joined
  BY <1>10 DEF Joined
<1>11. CASE Interrupt
  BY <1>11 DEF Interrupt
<1>12. CASE Close
  BY <1>12 DEF Close, Woken
<1>13. CASE Look
  BY <1>13, LoopPlace DEF Look, Advance
<1>14. CASE Return
  BY <1>14 DEF Return
<1>15. CASE DeadlinePasses
  BY <1>15 DEF DeadlinePasses
<1>17. ASSUME NEW w \in Workers, Tell(w)
      PROVE  ThreadTypes'
  BY <1>17 DEF Tell
<1>18. CASE MarkSeen
  BY <1>18, LoopPlace DEF MarkSeen, Advance, Picked
<1>16. CASE UNCHANGED vars
  BY <1>16 DEF vars
<1> QED
  BY <1>1, <1>2, <1>3, <1>4, <1>5, <1>6, <1>7, <1>8, <1>9, <1>10, <1>11, <1>12, <1>13,
     <1>14, <1>15, <1>16, <1>17, <1>18 DEF Next, Worker, Run

(* run_plan: its position stays within the tasks.                           *)
LEMMA MainTypesStep ==
    ASSUME IInv, [Next]_vars
    PROVE  (MainTypes /\ FlagTypes)'
<1> USE Numbers DEF IInv, queueVars, mainVars, Types, PlanTypes, MainTypes, FlagTypes,
    Closing
<1>1. ASSUME NEW w \in Workers, Take(w)
      PROVE  (MainTypes /\ FlagTypes)'
  BY <1>1 DEF Take, Claim
<1>2. ASSUME NEW w \in Workers, Quit(w)
      PROVE  (MainTypes /\ FlagTypes)'
  BY <1>2 DEF Quit, Pending
<1>3. ASSUME NEW w \in Workers, FailDoomed(w)
      PROVE  (MainTypes /\ FlagTypes)'
  BY <1>3 DEF FailDoomed, NothingToClaim, Doomed, Pending, Woken
<1>4. ASSUME NEW w \in Workers, Park(w)
      PROVE  (MainTypes /\ FlagTypes)'
  BY <1>4 DEF Park, NothingToClaim
<1>5. ASSUME NEW w \in Workers, Begin(w)
      PROVE  (MainTypes /\ FlagTypes)'
  BY <1>5 DEF Begin
<1>6. ASSUME NEW w \in Workers, Finish(w)
      PROVE  (MainTypes /\ FlagTypes)'
  BY <1>6 DEF Finish, Ends
<1>7. ASSUME NEW w \in Workers, Notify(w)
      PROVE  (MainTypes /\ FlagTypes)'
  BY <1>7 DEF Notify, Woken
<1>8. ASSUME NEW w \in Workers, StopAll(w)
      PROVE  (MainTypes /\ FlagTypes)'
  BY <1>8 DEF StopAll, Woken
<1>9. ASSUME NEW w \in Workers, Killed(w)
      PROVE  (MainTypes /\ FlagTypes)'
  BY <1>9 DEF Killed
<1>10. CASE Joined
  BY <1>10 DEF Joined
<1>11. CASE Interrupt
  BY <1>11 DEF Interrupt
<1>12. CASE Close
  BY <1>12 DEF Close, Woken
<1>13. CASE Look
  BY <1>13, LoopPlace DEF Look, Advance
<1>14. CASE Return
  BY <1>14 DEF Return
<1>15. CASE DeadlinePasses
  BY <1>15 DEF DeadlinePasses
<1>17. ASSUME NEW w \in Workers, Tell(w)
      PROVE  (MainTypes /\ FlagTypes)'
  BY <1>17 DEF Tell
<1>18. CASE MarkSeen
  BY <1>18, LoopPlace DEF MarkSeen, Advance, Picked
<1>16. CASE UNCHANGED vars
  BY <1>16 DEF vars
<1> QED
  BY <1>1, <1>2, <1>3, <1>4, <1>5, <1>6, <1>7, <1>8, <1>9, <1>10, <1>11, <1>12, <1>13,
     <1>14, <1>15, <1>16, <1>17, <1>18 DEF Next, Worker, Run

(* No task is added.                                                        *)
LEMMA OrderedStep ==
    ASSUME IInv, [Next]_vars
    PROVE  Ordered'
<1> USE Numbers DEF IInv, queueVars, mainVars, Types, PlanTypes, ThreadTypes, Ordered,
    Owned, Busy, Active, Claimable
<1>1. ASSUME NEW w \in Workers, Take(w)
      PROVE  Ordered'
  BY <1>1 DEF Take, Claim, NextUp
<1>2. ASSUME NEW w \in Workers, Quit(w)
      PROVE  Ordered'
  BY <1>2 DEF Quit, Pending
<1>3. ASSUME NEW w \in Workers, FailDoomed(w)
      PROVE  Ordered'
  BY <1>3 DEF FailDoomed, NothingToClaim, Doomed, Pending, Woken
<1>4. ASSUME NEW w \in Workers, Park(w)
      PROVE  Ordered'
  BY <1>4 DEF Park, NothingToClaim
<1>5. ASSUME NEW w \in Workers, Begin(w)
      PROVE  Ordered'
  BY <1>5 DEF Begin
<1>6. ASSUME NEW w \in Workers, Finish(w)
      PROVE  Ordered'
  BY <1>6 DEF Finish, Ends
<1>7. ASSUME NEW w \in Workers, Notify(w)
      PROVE  Ordered'
  BY <1>7 DEF Notify, Woken
<1>8. ASSUME NEW w \in Workers, StopAll(w)
      PROVE  Ordered'
  BY <1>8 DEF StopAll, Woken
<1>9. ASSUME NEW w \in Workers, Killed(w)
      PROVE  Ordered'
  BY <1>9 DEF Killed
<1>10. CASE Joined
  BY <1>10 DEF Joined
<1>11. CASE Interrupt
  BY <1>11 DEF Interrupt
<1>12. CASE Close
  BY <1>12 DEF Close, Woken
<1>13. CASE Look
  BY <1>13, LoopPlace DEF Look, Advance
<1>14. CASE Return
  BY <1>14 DEF Return
<1>15. CASE DeadlinePasses
  BY <1>15 DEF DeadlinePasses
<1>17. ASSUME NEW w \in Workers, Tell(w)
      PROVE  Ordered'
  BY <1>17 DEF Tell
<1>18. CASE MarkSeen
  BY <1>18, LoopPlace DEF MarkSeen, Advance, Picked
<1>16. CASE UNCHANGED vars
  BY <1>16 DEF vars
<1> QED
  BY <1>1, <1>2, <1>3, <1>4, <1>5, <1>6, <1>7, <1>8, <1>9, <1>10, <1>11, <1>12, <1>13,
     <1>14, <1>15, <1>16, <1>17, <1>18 DEF Next, Worker, Run

(* Whoever closes the queue wakes those who wait.                           *)
LEMMA AwakeStep ==
    ASSUME IInv, [Next]_vars
    PROVE  Awake'
<1> USE Numbers DEF IInv, queueVars, mainVars, Types, ThreadTypes, Awake
<1>1. ASSUME NEW w \in Workers, Take(w)
      PROVE  Awake'
  BY <1>1 DEF Take, Claim
<1>2. ASSUME NEW w \in Workers, Quit(w)
      PROVE  Awake'
  BY <1>2 DEF Quit, Pending
<1>3. ASSUME NEW w \in Workers, FailDoomed(w)
      PROVE  Awake'
  BY <1>3 DEF FailDoomed, NothingToClaim, Doomed, Pending, Woken
<1>4. ASSUME NEW w \in Workers, Park(w)
      PROVE  Awake'
  BY <1>4 DEF Park, NothingToClaim
<1>5. ASSUME NEW w \in Workers, Begin(w)
      PROVE  Awake'
  BY <1>5 DEF Begin
<1>6. ASSUME NEW w \in Workers, Finish(w)
      PROVE  Awake'
  BY <1>6 DEF Finish, Ends
<1>7. ASSUME NEW w \in Workers, Notify(w)
      PROVE  Awake'
  BY <1>7 DEF Notify, Woken
<1>8. ASSUME NEW w \in Workers, StopAll(w)
      PROVE  Awake'
  BY <1>8 DEF StopAll, Woken
<1>9. ASSUME NEW w \in Workers, Killed(w)
      PROVE  Awake'
  BY <1>9 DEF Killed
<1>10. CASE Joined
  BY <1>10 DEF Joined
<1>11. CASE Interrupt
  BY <1>11 DEF Interrupt
<1>12. CASE Close
  BY <1>12 DEF Close, Woken
<1>13. CASE Look
  BY <1>13, LoopPlace DEF Look, Advance
<1>14. CASE Return
  BY <1>14 DEF Return
<1>15. CASE DeadlinePasses
  BY <1>15 DEF DeadlinePasses
<1>17. ASSUME NEW w \in Workers, Tell(w)
      PROVE  Awake'
  BY <1>17 DEF Tell
<1>18. CASE MarkSeen
  BY <1>18, LoopPlace DEF MarkSeen, Advance, Picked
<1>16. CASE UNCHANGED vars
  BY <1>16 DEF vars
<1> QED
  BY <1>1, <1>2, <1>3, <1>4, <1>5, <1>6, <1>7, <1>8, <1>9, <1>10, <1>11, <1>12, <1>13,
     <1>14, <1>15, <1>16, <1>17, <1>18 DEF Next, Worker, Run

(* The loop moves on when it has marked what it has found.                  *)
LEMMA PickedStep ==
    ASSUME IInv, [Next]_vars
    PROVE  Picked'
<1> USE Numbers DEF IInv, queueVars, mainVars, Types, Picked, Closing
<1>1. ASSUME NEW w \in Workers, Take(w)
      PROVE  Picked'
  BY <1>1 DEF Take, Claim
<1>2. ASSUME NEW w \in Workers, Quit(w)
      PROVE  Picked'
  BY <1>2 DEF Quit, Pending
<1>3. ASSUME NEW w \in Workers, FailDoomed(w)
      PROVE  Picked'
  BY <1>3 DEF FailDoomed, NothingToClaim, Doomed, Pending, Woken
<1>4. ASSUME NEW w \in Workers, Park(w)
      PROVE  Picked'
  BY <1>4 DEF Park, NothingToClaim
<1>5. ASSUME NEW w \in Workers, Begin(w)
      PROVE  Picked'
  BY <1>5 DEF Begin
<1>6. ASSUME NEW w \in Workers, Finish(w)
      PROVE  Picked'
  BY <1>6 DEF Finish, Ends
<1>7. ASSUME NEW w \in Workers, Notify(w)
      PROVE  Picked'
  BY <1>7 DEF Notify, Woken
<1>8. ASSUME NEW w \in Workers, StopAll(w)
      PROVE  Picked'
  BY <1>8 DEF StopAll, Woken
<1>9. ASSUME NEW w \in Workers, Killed(w)
      PROVE  Picked'
  BY <1>9 DEF Killed
<1>10. CASE Joined
  BY <1>10 DEF Joined
<1>11. CASE Interrupt
  BY <1>11 DEF Interrupt
<1>12. CASE Close
  BY <1>12 DEF Close, Woken
<1>13. CASE Look
  BY <1>13, LoopPlace DEF Look, Advance
<1>14. CASE Return
  BY <1>14 DEF Return
<1>15. CASE DeadlinePasses
  BY <1>15 DEF DeadlinePasses
<1>17. ASSUME NEW w \in Workers, Tell(w)
      PROVE  Picked'
  BY <1>17 DEF Tell
<1>18. CASE MarkSeen
  BY <1>18, LoopPlace DEF MarkSeen, Advance, Picked
<1>16. CASE UNCHANGED vars
  BY <1>16 DEF vars
<1> QED
  BY <1>1, <1>2, <1>3, <1>4, <1>5, <1>6, <1>7, <1>8, <1>9, <1>10, <1>11, <1>12, <1>13,
     <1>14, <1>15, <1>16, <1>17, <1>18 DEF Next, Worker, Run

(* Whoever unblocks a task has yet to notify, or has woken everyone.        *)
LEMMA WakeupStep ==
    ASSUME IInv, [Next]_vars
    PROVE  NoLostWakeup'
<1> USE Numbers DEF IInv, queueVars, mainVars, Types, PlanTypes, ThreadTypes,
    NoLostWakeup, Claimable, Unblocked, Terminal, Awake, Closing
<1>1. ASSUME NEW w \in Workers, Take(w)
      PROVE  NoLostWakeup'
  BY <1>1 DEF Take, Claim
<1>2. ASSUME NEW w \in Workers, Quit(w)
      PROVE  NoLostWakeup'
  BY <1>2 DEF Quit, Pending
<1>3. ASSUME NEW w \in Workers, FailDoomed(w)
      PROVE  NoLostWakeup'
  BY <1>3 DEF FailDoomed, NothingToClaim, Doomed, Pending, Woken
<1>4. ASSUME NEW w \in Workers, Park(w)
      PROVE  NoLostWakeup'
  BY <1>4 DEF Park, NothingToClaim
<1>5. ASSUME NEW w \in Workers, Begin(w)
      PROVE  NoLostWakeup'
  BY <1>5 DEF Begin
<1>6. ASSUME NEW w \in Workers, Finish(w)
      PROVE  NoLostWakeup'
  BY <1>6 DEF Finish, Ends
<1>7. ASSUME NEW w \in Workers, Notify(w)
      PROVE  NoLostWakeup'
  BY <1>7 DEF Notify, Woken
<1>8. ASSUME NEW w \in Workers, StopAll(w)
      PROVE  NoLostWakeup'
  BY <1>8 DEF StopAll, Woken
<1>9. ASSUME NEW w \in Workers, Killed(w)
      PROVE  NoLostWakeup'
  BY <1>9 DEF Killed
<1>10. CASE Joined
  BY <1>10 DEF Joined
<1>11. CASE Interrupt
  BY <1>11 DEF Interrupt
<1>12. CASE Close
  BY <1>12 DEF Close, Woken
<1>13. CASE Look
  BY <1>13, LoopPlace DEF Look, Advance
<1>14. CASE Return
  BY <1>14 DEF Return
<1>15. CASE DeadlinePasses
  BY <1>15 DEF DeadlinePasses
<1>17. ASSUME NEW w \in Workers, Tell(w)
      PROVE  NoLostWakeup'
  BY <1>17 DEF Tell
<1>18. CASE MarkSeen
  BY <1>18, LoopPlace DEF MarkSeen, Advance, Picked
<1>16. CASE UNCHANGED vars
  BY <1>16 DEF vars
<1> QED
  BY <1>1, <1>2, <1>3, <1>4, <1>5, <1>6, <1>7, <1>8, <1>9, <1>10, <1>11, <1>12, <1>13,
     <1>14, <1>15, <1>16, <1>17, <1>18 DEF Next, Worker, Run

(* A task that is claimed was pending, so nobody had it.                    *)
LEMMA OwnedStep ==
    ASSUME IInv, [Next]_vars
    PROVE  Owned'
<1> USE Numbers DEF IInv, queueVars, mainVars, Types, PlanTypes, ThreadTypes, Owned,
    Busy, Active, Claimable, NextUp, Closing
<1>1. ASSUME NEW w \in Workers, Take(w)
      PROVE  Owned'
  BY <1>1 DEF Take, Claim
<1>2. ASSUME NEW w \in Workers, Quit(w)
      PROVE  Owned'
  BY <1>2 DEF Quit, Pending
<1>3. ASSUME NEW w \in Workers, FailDoomed(w)
      PROVE  Owned'
  BY <1>3 DEF FailDoomed, NothingToClaim, Doomed, Pending, Woken
<1>4. ASSUME NEW w \in Workers, Park(w)
      PROVE  Owned'
  BY <1>4 DEF Park, NothingToClaim
<1>5. ASSUME NEW w \in Workers, Begin(w)
      PROVE  Owned'
  BY <1>5 DEF Begin
<1>6. ASSUME NEW w \in Workers, Finish(w)
      PROVE  Owned'
  BY <1>6 DEF Finish, Ends
<1>7. ASSUME NEW w \in Workers, Notify(w)
      PROVE  Owned'
  BY <1>7 DEF Notify, Woken
<1>8. ASSUME NEW w \in Workers, StopAll(w)
      PROVE  Owned'
  BY <1>8 DEF StopAll, Woken
<1>9. ASSUME NEW w \in Workers, Killed(w)
      PROVE  Owned'
  BY <1>9 DEF Killed
<1>10. CASE Joined
  BY <1>10 DEF Joined
<1>11. CASE Interrupt
  BY <1>11 DEF Interrupt
<1>12. CASE Close
  BY <1>12 DEF Close, Woken
<1>13. CASE Look
  BY <1>13, LoopPlace DEF Look, Advance
<1>14. CASE Return
  BY <1>14 DEF Return
<1>15. CASE DeadlinePasses
  BY <1>15 DEF DeadlinePasses
<1>17. ASSUME NEW w \in Workers, Tell(w)
      PROVE  Owned'
  BY <1>17 DEF Tell
<1>18. CASE MarkSeen
  BY <1>18, LoopPlace DEF MarkSeen, Advance, Picked
<1>16. CASE UNCHANGED vars
  BY <1>16 DEF vars
<1> QED
  BY <1>1, <1>2, <1>3, <1>4, <1>5, <1>6, <1>7, <1>8, <1>9, <1>10, <1>11, <1>12, <1>13,
     <1>14, <1>15, <1>16, <1>17, <1>18 DEF Next, Worker, Run

(* Nobody else writes the summary of a task a worker has.                   *)
LEMMA UntoldStep ==
    ASSUME IInv, [Next]_vars
    PROVE  Untold'
<1> USE Numbers DEF IInv, queueVars, mainVars, Types, PlanTypes, ThreadTypes, Owned,
    Untold, Busy, Active, Claimable, NextUp, Closing
<1>1. ASSUME NEW w \in Workers, Take(w)
      PROVE  Untold'
  BY <1>1 DEF Take, Claim
<1>2. ASSUME NEW w \in Workers, Quit(w)
      PROVE  Untold'
  BY <1>2 DEF Quit, Pending
<1>3. ASSUME NEW w \in Workers, FailDoomed(w)
      PROVE  Untold'
  BY <1>3 DEF FailDoomed, NothingToClaim, Doomed, Pending, Woken
<1>4. ASSUME NEW w \in Workers, Park(w)
      PROVE  Untold'
  BY <1>4 DEF Park, NothingToClaim
<1>5. ASSUME NEW w \in Workers, Begin(w)
      PROVE  Untold'
  BY <1>5 DEF Begin
<1>6. ASSUME NEW w \in Workers, Finish(w)
      PROVE  Untold'
  BY <1>6 DEF Finish, Ends
<1>7. ASSUME NEW w \in Workers, Notify(w)
      PROVE  Untold'
  BY <1>7 DEF Notify, Woken
<1>8. ASSUME NEW w \in Workers, StopAll(w)
      PROVE  Untold'
  BY <1>8 DEF StopAll, Woken
<1>9. ASSUME NEW w \in Workers, Killed(w)
      PROVE  Untold'
  BY <1>9 DEF Killed
<1>10. CASE Joined
  BY <1>10 DEF Joined
<1>11. CASE Interrupt
  BY <1>11 DEF Interrupt
<1>12. CASE Close
  BY <1>12 DEF Close, Woken
<1>13. CASE Look
  BY <1>13, LoopPlace DEF Look, Advance
<1>14. CASE Return
  BY <1>14 DEF Return
<1>15. CASE DeadlinePasses
  BY <1>15 DEF DeadlinePasses
<1>17. ASSUME NEW w \in Workers, Tell(w)
      PROVE  Untold'
  BY <1>17 DEF Tell
<1>18. CASE MarkSeen
  BY <1>18, LoopPlace DEF MarkSeen, Advance, Picked
<1>16. CASE UNCHANGED vars
  BY <1>16 DEF vars
<1> QED
  BY <1>1, <1>2, <1>3, <1>4, <1>5, <1>6, <1>7, <1>8, <1>9, <1>10, <1>11, <1>12, <1>13,
     <1>14, <1>15, <1>16, <1>17, <1>18 DEF Next, Worker, Run

(* What a task rests on was final when it was claimed.                      *)
LEMMA BuiltStep ==
    ASSUME IInv, [Next]_vars
    PROVE  Built'
<1> USE Numbers DEF IInv, queueVars, mainVars, Types, PlanTypes, ThreadTypes, Built,
    Final, Owned, Untold, Busy, Active, Claimable, NextUp, Unblocked, Terminal, Closing
<1>1. ASSUME NEW w \in Workers, Take(w)
      PROVE  Built'
  <2>1. PICK t \in TaskId : Claim(t) /\ job' = [job EXCEPT ![w] = t]
    BY <1>1 DEF Take
  <2>2. /\ status[t] = "pending" /\ status' = [status EXCEPT ![t] = "claimed"]
        /\ ~closed /\ \A d \in depends[t] : d \in TaskId /\ status[d] \in Terminal
        /\ pc' = [pc EXCEPT ![w] = "taken"]
        /\ UNCHANGED <<summary, given, seen, depends, main>>
    BY <1>1, <2>1 DEF Take, Claim
  <2>3. seen = NoTask
    BY <2>2 DEF Picked
  <2>4. ASSUME NEW d \in depends[t] PROVE Final(d) /\ d # t
    BY <2>2, <2>3
  <2>5. ASSUME NEW d, Final(d), d # t PROVE Final(d)'
    BY <2>1, <2>2, <2>5
  <2>6. ASSUME NEW d, Final(d) PROVE d # t /\ status'[d] = status[d] /\ Final(d)'
    BY <2>2, <2>5, <2>6
  <2>7. \A v \in Workers : pc'[v] = "taken" => \A d \in depends'[job'[v]] : Final(d)'
    <3> SUFFICES ASSUME NEW v \in Workers, pc'[v] = "taken", NEW d \in depends'[job'[v]]
                 PROVE  Final(d)'
      OBVIOUS
    <3>1. CASE v = w
      <4>1. d \in depends[t]
        BY <2>1, <2>2, <3>1
      <4> QED
        BY <2>4, <2>5, <4>1
    <3>2. CASE v # w
      <4>1. pc[v] = "taken" /\ d \in depends[job[v]]
        BY <2>1, <2>2, <3>2
      <4>2. Final(d)
        BY <4>1
      <4> QED
        BY <2>6, <4>2
    <3> QED
      BY <3>1, <3>2
  <2>8. \A u \in TaskId : \A d \in DOMAIN given'[u] :
          /\ Final(d)' /\ given'[u][d].status = status'[d]
          /\ given'[u][d].summary \in {"none", summary'[d]}
    BY <2>2, <2>6
  <2>9. (given = [u \in TaskId |-> given[u]])'
    BY <2>2
  <2> HIDE DEF IInv, Final
  <2> QED
    BY <2>7, <2>8, <2>9
<1>2. ASSUME NEW w \in Workers, Quit(w)
      PROVE  Built'
  BY <1>2 DEF Quit, Pending
<1>3. ASSUME NEW w \in Workers, FailDoomed(w)
      PROVE  Built'
  BY <1>3 DEF FailDoomed, NothingToClaim, Doomed, Pending, Woken
<1>4. ASSUME NEW w \in Workers, Park(w)
      PROVE  Built'
  BY <1>4 DEF Park, NothingToClaim
<1>5. ASSUME NEW w \in Workers, Begin(w)
      PROVE  Built'
  BY <1>5 DEF Begin
<1>6. ASSUME NEW w \in Workers, Finish(w)
      PROVE  Built'
  BY <1>6 DEF Finish, Ends
<1>7. ASSUME NEW w \in Workers, Notify(w)
      PROVE  Built'
  BY <1>7 DEF Notify, Woken
<1>8. ASSUME NEW w \in Workers, StopAll(w)
      PROVE  Built'
  BY <1>8 DEF StopAll, Woken
<1>9. ASSUME NEW w \in Workers, Killed(w)
      PROVE  Built'
  BY <1>9 DEF Killed
<1>10. CASE Joined
  BY <1>10 DEF Joined
<1>11. CASE Interrupt
  BY <1>11 DEF Interrupt
<1>12. CASE Close
  BY <1>12 DEF Close, Woken
<1>13. CASE Look
  BY <1>13, LoopPlace DEF Look, Advance
<1>14. CASE Return
  BY <1>14 DEF Return
<1>15. CASE DeadlinePasses
  BY <1>15 DEF DeadlinePasses
<1>17. ASSUME NEW w \in Workers, Tell(w)
      PROVE  Built'
  BY <1>17 DEF Tell
<1>18. CASE MarkSeen
  BY <1>18, LoopPlace DEF MarkSeen, Advance, Picked
<1>16. CASE UNCHANGED vars
  BY <1>16 DEF vars
<1> QED
  BY <1>1, <1>2, <1>3, <1>4, <1>5, <1>6, <1>7, <1>8, <1>9, <1>10, <1>11, <1>12, <1>13,
     <1>14, <1>15, <1>16, <1>17, <1>18 DEF Next, Worker, Run

LEMMA OneMore ==
    ASSUME NEW n \in Nat, NEW i \in 1..n, i # n
    PROVE  (i + 1) - 1 = i /\ i + 1 <= n
  OBVIOUS

(* The loop goes on from a task that is resolved, and no other is reopened. *)
LEMMA AdvanceCloses ==
    ASSUME IInv, main = "sweep", Advance, UNCHANGED <<order, closed>>,
           NEW x \in TaskId, x = order[cursor], Resolved(x)',
           \A t \in TaskId : Resolved(t) => Resolved(t)',
           \A t \in TaskId : status[t] = "absent" => status'[t] = "absent",
           \A t \in TaskId : status[t] # "absent" => status'[t] # "absent"
    PROVE  Closing'
<1> USE DEF IInv, Closing, Returned, Resolved, Advance
<1>1. /\ cursor \in 1..Len(order) /\ Len(order) \in Nat
      /\ \A i \in 1..Len(order) : order[i] \in TaskId
      /\ DOMAIN order = 1..Len(order)
  BY LoopPlace DEF Types, PlanTypes
<1>2. \A i \in 1..cursor : Resolved(order[i])'
  <2> SUFFICES ASSUME NEW i \in 1..cursor PROVE Resolved(order[i])'
    OBVIOUS
  <2>1. CASE i = cursor
    BY <1>1, <2>1
  <2>2. CASE i # cursor
    <3>1. i \in 1..(cursor - 1) /\ i \in 1..Len(order)
      <4> HIDE DEF IInv, Advance
      <4> QED
        BY <1>1, <2>2
    <3>2. Resolved(order[i]) /\ order[i] \in TaskId
      BY <1>1, <3>1
    <3> QED
      BY <3>2
  <2> QED
    BY <2>1, <2>2
<1>3. cursor = Len(order) => \A t \in TaskId : Resolved(t)'
  <2> SUFFICES ASSUME cursor = Len(order), NEW t \in TaskId PROVE Resolved(t)'
    OBVIOUS
  <2>1. CASE status[t] = "absent"
    BY <2>1
  <2>2. CASE status[t] # "absent"
    <3>1. PICK i \in DOMAIN order : order[i] = t
      BY <2>2 DEF Ordered
    <3> QED
      BY <1>1, <1>2, <3>1
  <2> QED
    BY <2>1, <2>2
<1>4. CASE cursor = Len(order)
  BY <1>1, <1>3, <1>4
<1>5. CASE cursor # Len(order)
  <2>1. main' = "sweep"
    BY <1>5
  <2>2. cursor' - 1 = cursor /\ cursor' <= Len(order)
    <3>1. cursor' = cursor + 1
      OBVIOUS
    <3> QED
      BY <1>1, <1>5, <3>1, OneMore
  <2>3. \A i \in 1..(cursor' - 1) : Resolved(order[i])'
    BY <1>2, <2>2
  <2> QED
    BY <2>1, <2>2, <2>3
<1> QED
  BY <1>4, <1>5

(* run_plan gets to its result only past every task.                        *)
LEMMA ClosingStep ==
    ASSUME IInv, [Next]_vars
    PROVE  Closing'
<1> USE Numbers DEF IInv, queueVars, mainVars, Types, PlanTypes, ThreadTypes, MainTypes,
    Closing, Undisturbed, Resolved, Returned, Terminal, Owned, Ordered, Active, Pending,
    Claimable, NextUp
<1>1. ASSUME NEW w \in Workers, Take(w)
      PROVE  Closing'
  BY <1>1 DEF Take, Claim
<1>2. ASSUME NEW w \in Workers, Quit(w)
      PROVE  Closing'
  BY <1>2 DEF Quit, Pending
<1>3. ASSUME NEW w \in Workers, FailDoomed(w)
      PROVE  Closing'
  BY <1>3 DEF FailDoomed, NothingToClaim, Doomed, Pending, Woken
<1>4. ASSUME NEW w \in Workers, Park(w)
      PROVE  Closing'
  BY <1>4 DEF Park, NothingToClaim
<1>5. ASSUME NEW w \in Workers, Begin(w)
      PROVE  Closing'
  BY <1>5 DEF Begin
<1>6. ASSUME NEW w \in Workers, Finish(w)
      PROVE  Closing'
  BY <1>6 DEF Finish, Ends
<1>7. ASSUME NEW w \in Workers, Notify(w)
      PROVE  Closing'
  <2>1. \A v \in Workers : Active(v)' <=> Active(v)
    BY <1>7 DEF Notify, Woken
  <2>2. UNCHANGED <<queueVars, job, given, raised, timed, overdue, mainVars>>
    BY <1>7 DEF Notify
  <2>3. \A v \in Workers : pc'[v] = "stopping" <=> pc[v] = "stopping"
    BY <1>7 DEF Notify, Woken
  <2>4. \A v \in Workers : pc'[v] = "exited" <=> pc[v] = "exited"
    BY <1>7 DEF Notify, Woken
  <2>5. Undisturbed => Undisturbed'
    BY <2>1, <2>2, <2>3, <2>4
  <2> QED
    BY <2>2, <2>4, <2>5
<1>8. ASSUME NEW w \in Workers, StopAll(w)
      PROVE  Closing'
  BY <1>8 DEF StopAll, Woken
<1>9. ASSUME NEW w \in Workers, Killed(w)
      PROVE  Closing'
  BY <1>9 DEF Killed
<1>10. CASE Joined
  <2>1. /\ main = "join" /\ main' = "close" /\ cut' = (raised # {})
        /\ overdue \/ \A w \in Workers : pc[w] = "exited"
        /\ UNCHANGED <<queueVars, pc, job, given, raised, timed, overdue, cursor>>
    BY <1>10 DEF Joined
  <2>2. Undisturbed => Undisturbed'
    BY <2>1
  <2>3. ~cut' /\ ~overdue' => raised' = {} /\ \A w \in Workers : pc'[w] = "exited"
    BY <2>1
  <2> QED
    BY <2>1, <2>2, <2>3
<1>11. CASE Interrupt
  BY <1>11 DEF Interrupt
<1>12. CASE Close
  <2>1. /\ main = "close" /\ closed' = TRUE
        /\ main' = (IF cut \/ overdue THEN "sweep" ELSE "result")
        /\ UNCHANGED <<order, status, depends, job, given, raised, timed, overdue, cut, cursor>>
    BY <1>12 DEF Close
  <2>2. CASE cut \/ overdue
    <3>1. main' = "sweep" /\ cursor' = 1 /\ order' = order /\ Len(order) \in Nat \ {0}
      BY <2>1, <2>2
    <3> QED
      BY <2>1, <3>1
  <2>3. CASE ~cut /\ ~overdue
    <3>1. Undisturbed /\ \A w \in Workers : pc[w] = "exited"
      BY <2>1, <2>3
    <3>2. \A t \in TaskId : Resolved(t)
      BY <3>1 DEF Status
    <3> QED
      BY <2>1, <2>3, <3>2
  <2> QED
    BY <2>2, <2>3
<1>13. CASE Look
  <2>1. PICK x \in TaskId : x = order[cursor]
    BY <1>13, LoopPlace DEF Look
  <2>2. CASE status[x] \in {"pending", "claimed"}
    BY <1>13, <2>1, <2>2 DEF Look
  <2>3. CASE status[x] \notin {"pending", "claimed"}
    <3>1. Advance /\ UNCHANGED queueVars /\ main = "sweep"
      BY <1>13, <2>1, <2>3 DEF Look
    <3>2. /\ Resolved(x)'
          /\ \A t \in TaskId : Resolved(t) => Resolved(t)'
          /\ \A t \in TaskId : status[t] = "absent" <=> status'[t] = "absent"
      BY <2>3, <3>1 DEF Status
    <3> HIDE DEF IInv, Closing, Resolved
    <3> QED
      BY <2>1, <3>1, <3>2, AdvanceCloses DEF queueVars
  <2> QED
    BY <2>2, <2>3
<1>14. CASE Return
  BY <1>14 DEF Return
<1>15. CASE DeadlinePasses
  BY <1>15 DEF DeadlinePasses
<1>17. ASSUME NEW w \in Workers, Tell(w)
      PROVE  Closing'
  BY <1>17 DEF Tell
<1>18. CASE MarkSeen
  <2>1. /\ seen \in TaskId /\ seen = order[cursor] /\ main = "sweep"
        /\ Advance /\ UNCHANGED <<order, closed>>
    BY <1>18, LoopPlace DEF MarkSeen, Picked
  <2>2. status' = [status EXCEPT ![seen] = IF cut THEN "interrupted" ELSE "failed"]
    BY <1>18 DEF MarkSeen
  <2>3. status[seen] # "absent"
    BY <2>1, LoopPlace
  <2>4. /\ status'[seen] \in Terminal
        /\ \A t \in TaskId : Resolved(t) => Resolved(t)'
        /\ \A t \in TaskId : status[t] = "absent" <=> status'[t] = "absent"
    BY <2>1, <2>2, <2>3
  <2>5. PICK x \in TaskId : x = seen
    BY <2>1
  <2>6. x = order[cursor] /\ Resolved(x)'
    BY <2>1, <2>4, <2>5
  <2> HIDE DEF IInv, Closing, Resolved
  <2> QED
    BY <2>1, <2>4, <2>6, AdvanceCloses
<1>16. CASE UNCHANGED vars
  BY <1>16 DEF vars
<1> QED
  BY <1>1, <1>2, <1>3, <1>4, <1>5, <1>6, <1>7, <1>8, <1>9, <1>10, <1>11, <1>12, <1>13,
     <1>14, <1>15, <1>16, <1>17, <1>18 DEF Next, Worker, Run
-----------------------------------------------------------------------------
LEMMA Invariance == Spec => []IInv
<1>1. IInv /\ [Next]_vars => IInv'
  BY PlanTypesStep, ThreadTypesStep, MainTypesStep, OrderedStep, AwakeStep, WakeupStep,
     OwnedStep, UntoldStep, PickedStep, BuiltStep, ClosingStep
  DEF IInv, Types
<1> QED
  BY InitIInv, <1>1, PTL DEF Spec

(* The types of run_plan's state.                                           *)
THEOREM PlanTypeOK == Spec => []TypeOK
<1>1. IInv => TypeOK
  BY DEF IInv, Types, PlanTypes, ThreadTypes, MainTypes, FlagTypes, Built, Final, TypeOK
<1> QED
  BY Invariance, <1>1, PTL

(* A worker stays parked beside a claimable task only while a thread that   *)
(* wrote a status has yet to notify.                                        *)
THEOREM PlanNoLostWakeup == Spec => []NoLostWakeup
<1>1. IInv => NoLostWakeup
  BY DEF IInv
<1> QED
  BY Invariance, <1>1, PTL

(* A task was started with the results of its prerequisites that run_plan   *)
(* reports, also when the plan was cut short and swept.                     *)
THEOREM PlanBuiltOnFinal == Spec => []BuiltOnFinal
<1>1. IInv => BuiltOnFinal
  BY DEF IInv, Built, BuiltOnFinal
<1> QED
  BY Invariance, <1>1, PTL

(* run_plan returns with no task pending or claimed.                        *)
THEOREM PlanAllResolved == Spec => []AllResolved
<1>1. IInv => AllResolved
  BY DEF IInv, Closing, Resolved, AllResolved
<1> QED
  BY Invariance, <1>1, PTL

=============================================================================
