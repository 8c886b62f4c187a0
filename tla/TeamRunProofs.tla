----------------------------- MODULE TeamRunProofs -----------------------------
(***************************************************************************)
(* Proofs about the pool (TeamPool) and the team run around it (TeamRun),  *)
(* for every plan, every number of threads and every limit.                *)
(*                                                                         *)
(* The pool comes first.  The argument that no two claimers hold the same  *)
(* task rests on subtask identifiers: a delegation reserves the next       *)
(* number of its parent, so the identifier it adds was never in the queue  *)
(* before and nobody can hold it.                                          *)
(*                                                                         *)
(* What is proved of the pool holds in a whole run: planning fills the     *)
(* queue while the pool has no thread yet, and what the coordinator does   *)
(* afterwards leaves the pool alone.  And the report is final: when the    *)
(* joins have ended in time, nothing is under way that could change the    *)
(* status of a task.                                                       *)
(***************************************************************************)
EXTENDS TeamRun, SequenceTheorems, TLAPS

(* A subtask that is on its way to the queue has passed the limits and has  *)
(* a number that is reserved for it.                                        *)
Reserved ==
    \A t \in TaskId, n \in 1..MaxSubtasks :
        n \in adding[t] => n <= delegated[t] /\ Depth(t) < MaxDepth

(* What the closing loop will mark is a task of the run.                    *)
SeenIsTask == seen \in TaskId => status[seen] # "absent"

TypeInv == TypeOK /\ Reserved /\ SeenIsTask

(* A claimer holds a task that was taken from the queue and is not done.    *)
HeldIsTaken ==
    \A c \in Claimers :
        Holds(c) => job[c] \in TaskId /\ status[job[c]] \in {"claimed", "failed", "interrupted"}

(* The numbers above the counter, and those being added, are unused.        *)
FreshIds ==
    \A t \in TaskId, k \in 1..MaxSubtasks :
        /\ Append(t, k) \in TaskId
        /\ k > delegated[t] \/ k \in adding[t]
        => status[Append(t, k)] = "absent"

(* The closing loop that may mark a task done runs when no claimer is left. *)
SettlesAlone == main = "settle" => ~reaper /\ \A c \in Claimers : pc[c] = "none"

OwnerInv == OneOwner /\ HeldIsTaken /\ FreshIds /\ SettlesAlone

-----------------------------------------------------------------------------
(* A task identifier is a sequence of positions.                            *)
LEMMA IdIsSeq ==
    ASSUME NEW t \in TaskId
    PROVE  /\ t \in Seq(1..Width)
           /\ Len(t) \in 1..(MaxDepth + 1)
           /\ t[1] <= MaxTasks
           /\ \A i \in 2..Len(t) : t[i] <= MaxSubtasks
<1>1. PICK n \in 1..(MaxDepth + 1) : t \in [1..n -> 1..Width]
  BY DEF TaskId
<1>2. n \in Nat
  BY QueueAssumption DEF QueueAssumption
<1>3. t \in Seq(1..Width)
  BY <1>1, <1>2, SeqDef
<1>4. Len(t) = n
  BY <1>1, <1>2, <1>3, LenProperties
<1> QED
  BY <1>1, <1>3, <1>4 DEF TaskId

(* The identifier of a subtask within the limits is a task identifier.      *)
LEMMA SubtaskId ==
    ASSUME NEW t \in TaskId, Depth(t) < MaxDepth, NEW k \in 1..MaxSubtasks
    PROVE  Append(t, k) \in TaskId
<1> DEFINE s == Append(t, k)
<1>1. MaxTasks \in Nat /\ MaxSubtasks \in Nat /\ MaxDepth \in Nat
  BY QueueAssumption DEF QueueAssumption
<1>2. k \in 1..Width
  BY <1>1 DEF Width
<1>3. /\ t \in Seq(1..Width)
      /\ Len(t) \in 1..MaxDepth
      /\ t[1] <= MaxTasks
      /\ \A i \in 2..Len(t) : t[i] <= MaxSubtasks
  BY <1>1, IdIsSeq DEF Depth
<1>4. /\ s \in Seq(1..Width)
      /\ Len(s) = Len(t) + 1
      /\ \A i \in 1..Len(t) : s[i] = t[i]
      /\ s[Len(t) + 1] = k
  BY <1>2, <1>3, AppendProperties
<1>5. s \in [1..Len(s) -> 1..Width]
  BY <1>4, LenProperties
<1>6. Len(s) \in 1..(MaxDepth + 1)
  BY <1>1, <1>3, <1>4
<1>7. s[1] <= MaxTasks
  BY <1>3, <1>4
<1>8. ASSUME NEW i \in 2..Len(s) PROVE s[i] <= MaxSubtasks
  <2>1. CASE i \in 2..Len(t)
    BY <2>1, <1>3, <1>4
  <2>2. CASE i = Len(t) + 1
    BY <2>2, <1>1, <1>4
  <2> QED
    BY <2>1, <2>2, <1>3, <1>4, <1>8
<1> QED
  BY <1>5, <1>6, <1>7, <1>8 DEF TaskId

(* Subtasks of different tasks, or with different numbers, differ.          *)
LEMMA DistinctSubtasks ==
    ASSUME NEW s \in TaskId, NEW t \in TaskId, NEW j \in Nat, NEW k \in Nat,
           Append(s, j) = Append(t, k)
    PROVE  s = t /\ j = k
<1>1. s \in Seq(1..Width) /\ t \in Seq(1..Width)
  BY IdIsSeq
<1>2. 1..Width \subseteq Nat
  OBVIOUS
<1>3. s \in Seq(Nat) /\ t \in Seq(Nat)
  BY <1>1, <1>2, SeqMonotonic
<1> QED
  BY <1>3, AppendInjective

(* The plan that is kept is a sequence of at most MaxTasks entries.         *)
LEMMA PlanShape ==
    ASSUME NEW raw \in RawPlans
    PROVE  /\ Len(Sanitize(raw)) \in 1..MaxTasks
           /\ \A i \in 1..Len(Sanitize(raw)) : Sanitize(raw)[i] \subseteq 1..(i - 1)
<1>1. MaxTasks \in Nat \ {0} /\ Len(Usable(raw)) \in Nat \ {0}
  BY QueueAssumption, PoolAssumption DEF QueueAssumption, PoolAssumption
<1>2. Kept(raw) \in 1..MaxTasks
  BY <1>1 DEF Kept
<1>3. Len(Sanitize(raw)) = Kept(raw)
  BY <1>2 DEF Sanitize
<1> QED
  BY <1>2, <1>3 DEF Sanitize

(* A position of the plan is a task identifier.                             *)
LEMMA PlannedId ==
    ASSUME NEW i \in 1..MaxTasks
    PROVE  <<i>> \in TaskId
<1>1. MaxTasks \in Nat /\ MaxSubtasks \in Nat /\ MaxDepth \in Nat
  BY QueueAssumption DEF QueueAssumption
<1>2. i \in 1..Width
  BY <1>1 DEF Width
<1>3. <<i>> \in [1..1 -> 1..Width] /\ Len(<<i>>) = 1 /\ <<i>>[1] = i
  BY <1>2
<1>4. 1 \in 1..(MaxDepth + 1)
  BY <1>1
<1> QED
  BY <1>1, <1>3, <1>4 DEF TaskId

-----------------------------------------------------------------------------
(* A plan the queue can be filled with: not too long, and every entry rests *)
(* on earlier ones only.                                                    *)
GoodPlan(plan) ==
    /\ Len(plan) \in 0..MaxTasks
    /\ \A i \in 1..Len(plan) : plan[i] \subseteq 1..(i - 1)

LEMMA PlanTypes ==
    ASSUME NEW plan, GoodPlan(plan)
    PROVE  /\ OrderOf(plan) \in Seq(TaskId)
           /\ StatusOf(plan) \in [TaskId -> Status]
           /\ DependsOf(plan) \in [TaskId -> SUBSET TaskId]
<1>1. MaxTasks \in Nat /\ MaxSubtasks \in Nat
  BY QueueAssumption DEF QueueAssumption
<1>2. /\ Len(plan) \in 0..MaxTasks
      /\ \A i \in 1..Len(plan) : plan[i] \subseteq 1..(i - 1)
  BY DEF GoodPlan
<1>3. ASSUME NEW i \in 1..Len(plan) PROVE <<i>> \in TaskId
  <2>1. i \in 1..MaxTasks
    BY <1>1, <1>2
  <2> QED
    BY <2>1, PlannedId
<1>4. OrderOf(plan) \in Seq(TaskId)
  BY <1>2, <1>3 DEF OrderOf
<1>5. StatusOf(plan) \in [TaskId -> Status]
  BY DEF StatusOf, Status
<1>6. DependsOf(plan) \in [TaskId -> SUBSET TaskId]
  <2>1. ASSUME NEW i \in 1..Len(plan), NEW d \in plan[i] PROVE <<d>> \in TaskId
    <3>1. d \in 1..Len(plan)
      BY <1>1, <1>2, <2>1
    <3> QED
      BY <3>1, <1>3
  <2>2. ASSUME NEW t \in TaskId, t \in Ids(plan)
        PROVE  {<<d>> : d \in plan[t[1]]} \subseteq TaskId
    <3>1. PICK i \in 1..Len(plan) : t = <<i>>
      BY <2>2 DEF Ids
    <3>2. t[1] = i
      BY <3>1
    <3> QED
      BY <3>2, <2>1
  <2> QED
    BY <2>2 DEF DependsOf
<1> QED
  BY <1>4, <1>5, <1>6

(* The identifier of a subtask is none of the plan's.                       *)
LEMMA SubtaskIsNotPlanned ==
    ASSUME NEW plan, NEW t \in TaskId, NEW k \in 1..MaxSubtasks
    PROVE  Append(t, k) \notin Ids(plan)
<1>1. MaxSubtasks \in Nat /\ MaxDepth \in Nat
  BY QueueAssumption DEF QueueAssumption
<1>2. t \in Seq(1..Width) /\ Len(t) \in 1..(MaxDepth + 1)
  BY IdIsSeq
<1>3. t \in Seq(Nat)
  BY <1>2, SeqMonotonic, 1..Width \subseteq Nat
<1>4. Len(Append(t, k)) = Len(t) + 1
  BY <1>1, <1>3, AppendProperties
<1>5. ASSUME NEW i PROVE Append(t, k) # <<i>>
  <2>1. Len(<<i>>) = 1 /\ Len(Append(t, k)) # 1
    BY <1>1, <1>2, <1>4
  <2> QED
    BY <2>1
<1> QED
  BY <1>5 DEF Ids

LEMMA PoolInitTypes ==
    ASSUME PoolInit
    PROVE  /\ Reserved
           /\ pc \in [Claimers -> {"none", "claim", "claimed", "admit", "work", "park", "finish", "out", "gone"}]
           /\ job \in [Claimers -> TaskId \cup {NoTask}]
           /\ worker \in [TaskId -> {"none", "running", "returned", "raised", "killed"}]
           /\ delegated \in [TaskId -> 0..MaxSubtasks]
           /\ adding \in [TaskId -> SUBSET (1..MaxSubtasks)] /\ inflight \in Int
           /\ {reaper, stopped, overdue} \subseteq BOOLEAN
           /\ verdict = "none" /\ cursor \in Nat \ {0} /\ span \in Nat /\ seen = NoTask
<1>1. MaxSubtasks \in Nat
  BY QueueAssumption DEF QueueAssumption
<1>2. delegated \in [TaskId -> 0..MaxSubtasks] /\ adding \in [TaskId -> SUBSET (1..MaxSubtasks)]
  BY <1>1 DEF PoolInit
<1>3. Reserved
  BY DEF PoolInit, Reserved
<1>4. /\ pc \in [Claimers -> {"none", "claim", "claimed", "admit", "work", "park", "finish", "out", "gone"}]
      /\ job \in [Claimers -> TaskId \cup {NoTask}]
      /\ worker \in [TaskId -> {"none", "running", "returned", "raised", "killed"}]
  BY DEF PoolInit
<1>5. inflight \in Int /\ verdict = "none" /\ cursor \in Nat \ {0} /\ span \in Nat /\ seen = NoTask
  BY DEF PoolInit
<1>6. {reaper, stopped, overdue} \subseteq BOOLEAN
  BY Zenon DEF PoolInit
<1> QED
  BY <1>2, <1>3, <1>4, <1>5, <1>6

(* What the invariants need of the planner: the plan that is kept is good.  *)
LEMMA SanitizeIsGood == \A raw \in RawPlans : GoodPlan(Sanitize(raw))
<1>1. MaxTasks \in Nat
  BY QueueAssumption DEF QueueAssumption
<1> QED
  BY <1>1, PlanShape DEF GoodPlan

LEMMA InitTypeInv == Init => TypeInv
<1> SUFFICES ASSUME Init PROVE TypeInv
  OBVIOUS
<1>1. PICK raw \in RawPlans : QueueInit(Sanitize(raw))
  BY DEF Init
<1>2. order \in Seq(TaskId) /\ status \in [TaskId -> Status]
      /\ depends \in [TaskId -> SUBSET TaskId] /\ closed = FALSE
  BY <1>1, SanitizeIsGood, PlanTypes DEF QueueInit
<1>3. PoolInit /\ main = "start"
  BY DEF Init
<1>4. SeenIsTask
  BY <1>3, PoolInitTypes, PoolAssumption DEF SeenIsTask, PoolAssumption
<1> QED
  BY <1>2, <1>3, <1>4, PoolInitTypes DEF TypeInv, TypeOK

(* Every step keeps the types; only a delegation needs more than the types: *)
(* the limits its worker passed make the identifier it adds a task's.       *)
LEMMA NextTypeInv == TypeInv /\ [Next]_vars => TypeInv'
<1> SUFFICES ASSUME TypeInv, [Next]_vars PROVE TypeInv'
  OBVIOUS
<1> USE DEF TypeInv, TypeOK, Reserved, SeenIsTask, queueVars, threadVars, callVars, mainVars
<1>1. ASSUME NEW c \in Claimers, ClaimNext(c) PROVE TypeInv'
  BY <1>1 DEF ClaimNext, Claim, Move, Status
<1>2. ASSUME NEW c \in Claimers, ClaimerExit(c) PROVE TypeInv'
  BY <1>2 DEF ClaimerExit, Move
<1>3. ASSUME NEW c \in Claimers, CountIn(c) PROVE TypeInv'
  BY <1>3 DEF CountIn, Move
<1>4. ASSUME NEW c \in Claimers, StartWorker(c) PROVE TypeInv'
  BY <1>4 DEF StartWorker, Move
<1>5. ASSUME NEW c \in Claimers, RefuseTask(c) PROVE TypeInv'
  BY <1>5 DEF RefuseTask, Move, Mark, Status, Terminal
<1>6. ASSUME NEW c \in Claimers, TaskReturns(c) PROVE TypeInv'
  BY <1>6 DEF TaskReturns, Move
<1>25. ASSUME NEW c \in Claimers, WriteStatus(c) PROVE TypeInv'
  BY <1>25 DEF WriteStatus, Move, Mark, Status, Terminal
<1>7. ASSUME NEW c \in Claimers, TaskFails(c) PROVE TypeInv'
  BY <1>7 DEF TaskFails, Move, Mark, Status, Terminal
<1>8. ASSUME NEW c \in Claimers, TaskKilled(c) PROVE TypeInv'
  BY <1>8 DEF TaskKilled, Move
<1>9. ASSUME NEW c \in Claimers, CountOut(c) PROVE TypeInv'
  BY <1>9 DEF CountOut, Move
<1>10. ASSUME NEW t \in TaskId, Reserve(t) PROVE TypeInv'
  <2>1. MaxSubtasks \in Nat
    BY QueueAssumption DEF QueueAssumption
  <2>2. delegated' \in [TaskId -> 0..MaxSubtasks] /\ delegated'[t] \in 1..MaxSubtasks
        /\ \A s \in TaskId : delegated'[s] >= delegated[s]
    BY <1>10, <2>1 DEF Reserve
  <2>3. adding' \in [TaskId -> SUBSET (1..MaxSubtasks)]
    BY <1>10, <2>2 DEF Reserve
  <2>4. Reserved'
    <3>1. SUFFICES ASSUME NEW s \in TaskId, NEW n \in 1..MaxSubtasks, n \in adding'[s]
                   PROVE  n <= delegated'[s] /\ Depth(s) < MaxDepth
      BY DEF Reserved
    <3>2. n \in adding[s] \/ (s = t /\ n = delegated'[t])
      BY <1>10, <3>1 DEF Reserve
    <3>3. CASE n \in adding[s]
      BY <2>1, <2>2, <3>3
    <3>4. CASE s = t /\ n = delegated'[t]
      BY <1>10, <2>1, <2>2, <3>4 DEF Reserve
    <3> QED
      BY <3>2, <3>3, <3>4
  <2> QED
    BY <1>10, <2>2, <2>3, <2>4 DEF Reserve
<1>11. ASSUME NEW t \in TaskId, Delegate(t) PROVE TypeInv'
  <2>1. MaxSubtasks \in Nat
    BY QueueAssumption DEF QueueAssumption
  <2>2. PICK n \in adding[t] : Add(Append(t, n)) /\ adding' = [adding EXCEPT ![t] = @ \ {n}]
    BY <1>11 DEF Delegate
  <2>3. n \in 1..MaxSubtasks /\ Depth(t) < MaxDepth
    BY <2>1, <2>2
  <2>4. Append(t, n) \in TaskId
    BY <2>3, SubtaskId
  <2>5. order' \in Seq(TaskId) /\ status' \in [TaskId -> Status]
    BY <2>2, <2>4, AppendProperties DEF Add, Status
  <2> QED
    BY <1>11, <2>2, <2>5 DEF Delegate, Add
<1>12. ASSUME NEW t \in TaskId, WorkerEnds(t) PROVE TypeInv'
  BY <1>12 DEF WorkerEnds
<1>13. ASSUME NEW c \in Claimers, ReaperSpawn(c) PROVE TypeInv'
  BY <1>13 DEF ReaperSpawn, Move
<1>14. CASE ReaperExit
  BY <1>14 DEF ReaperExit
<1>15. CASE Start
  BY <1>15 DEF Start
<1>16. CASE LeaveWait
  BY <1>16 DEF LeaveWait
<1>17. CASE JoinAll
  BY <1>17, LenProperties DEF JoinAll
<1>18. CASE Abort
  BY <1>18, LenProperties DEF Abort
<1>19. CASE Look
  <2>1. order[cursor] \in TaskId \/ ~Running
    BY <1>19, ElementOfSeq DEF Running
  <2> QED
    BY <1>19, <2>1 DEF Look, Advance, Unfinished
<1>26. CASE MarkSeen
  BY <1>26, PoolAssumption DEF MarkSeen, Mark, Advance, Status, Terminal, PoolAssumption
<1>20. CASE Settle
  <2>1. status' \in [TaskId -> Status]
    BY <1>20 DEF Settle, Mark, Resolved, Status, Terminal
  <2>2. SeenIsTask'
    BY <1>20 DEF Settle, Mark, Resolved, Advance
  <2> QED
    BY <1>20, <2>1, <2>2 DEF Settle, Advance
<1>21. CASE LoopBroken
  BY <1>21 DEF LoopBroken
<1>22. CASE Return
  BY <1>22 DEF Return
<1>23. CASE DeadlinePasses
  BY <1>23 DEF DeadlinePasses
<1>24. CASE UNCHANGED vars
  BY <1>24 DEF vars
<1> QED
  BY <1>1, <1>2, <1>3, <1>4, <1>5, <1>6, <1>7, <1>8, <1>9, <1>10, <1>11, <1>12,
     <1>13, <1>14, <1>15, <1>16, <1>17, <1>18, <1>19, <1>20, <1>21, <1>22, <1>23, <1>24, <1>25, <1>26
  DEF Next, Claimer, Worker, Reaper, Run, StopWaiting, Interrupt

(* Every variable keeps the values the code can give it, and only legal     *)
(* subtask identifiers enter the queue.                                     *)
THEOREM TypeCorrect == Spec => []TypeOK
<1>1. Init => TypeInv
  BY InitTypeInv
<1>2. TypeInv /\ [Next]_vars => TypeInv'
  BY NextTypeInv
<1>3. TypeInv => TypeOK
  BY DEF TypeInv
<1> QED
  BY <1>1, <1>2, <1>3, PTL DEF Spec

-----------------------------------------------------------------------------
LEMMA PoolInitOwnerInv ==
    ASSUME PoolInit, main # "settle", NEW plan, status = StatusOf(plan)
    PROVE  OwnerInv
<1>1. OneOwner /\ HeldIsTaken /\ SettlesAlone
  BY DEF PoolInit, OneOwner, HeldIsTaken, SettlesAlone, Holds
<1>2. FreshIds
  BY SubtaskIsNotPlanned DEF FreshIds, StatusOf
<1> QED
  BY <1>1, <1>2 DEF OwnerInv

LEMMA InitOwnerInv == Init => OwnerInv
  BY PoolInitOwnerInv DEF Init, QueueInit

(* A step after which the same claimers hold the same tasks, or fewer.      *)
LEMMA OwnersKept ==
    ASSUME OwnerInv,
           \A c \in Claimers : Holds(c)' =>
              /\ Holds(c) /\ job'[c] = job[c]
              /\ status'[job[c]] \in {"claimed", "failed", "interrupted"}
    PROVE  OneOwner' /\ HeldIsTaken'
BY DEF OwnerInv, OneOwner, HeldIsTaken

(* A step that brings no task into the queue and reserves no number.        *)
LEMMA FreshKept ==
    ASSUME OwnerInv,
           \A t \in TaskId : status[t] = "absent" => status'[t] = "absent",
           delegated' = delegated, adding' = adding
    PROVE  FreshIds'
BY DEF OwnerInv, FreshIds

(* A step of a claimer that holds c's task, once that task is marked.       *)
LEMMA MarkOwn ==
    ASSUME TypeInv, OwnerInv, NEW c \in Claimers, Holds(c),
           NEW s \in {"claimed", "failed", "done"},
           Mark(job[c], s), Move(c, "out"), UNCHANGED <<job, delegated, adding, main, reaper>>
    PROVE  OwnerInv'
<1>1. job[c] \in TaskId /\ status[job[c]] # "absent"
  BY DEF OwnerInv, HeldIsTaken
<1>2. \A d \in Claimers : Holds(d)' => d # c /\ Holds(d)
  BY DEF TypeInv, TypeOK, Holds, Move
<1>3. \A d \in Claimers : Holds(d)' => job[d] # job[c] /\ job[d] \in TaskId
  BY <1>2 DEF OwnerInv, OneOwner, HeldIsTaken
<1>4. \A t \in TaskId : t # job[c] => status'[t] = status[t]
  BY DEF Mark, TypeInv, TypeOK
<1>5. OneOwner' /\ HeldIsTaken'
  BY <1>2, <1>3, <1>4, OwnersKept DEF OwnerInv, HeldIsTaken
<1>6. \A t \in TaskId : status[t] = "absent" => status'[t] = "absent"
  BY <1>1, <1>4
<1>7. FreshIds'
  BY <1>6, FreshKept
<1>8. SettlesAlone'
  BY DEF OwnerInv, SettlesAlone, Holds
<1> QED
  BY <1>5, <1>7, <1>8 DEF OwnerInv

LEMMA NextOwnerInv == TypeInv /\ OwnerInv /\ [Next]_vars => OwnerInv'
<1> SUFFICES ASSUME TypeInv, OwnerInv, [Next]_vars PROVE OwnerInv'
  OBVIOUS
<1> USE DEF queueVars, threadVars, callVars, mainVars
<1>1. ASSUME NEW c \in Claimers, ClaimNext(c) PROVE OwnerInv'
  <2>1. PICK t \in TaskId : Claim(t) /\ job' = [job EXCEPT ![c] = t]
    BY <1>1 DEF ClaimNext
  <2>2. /\ status[t] = "pending"
        /\ status' = [status EXCEPT ![t] = "claimed"]
    BY <2>1 DEF Claim, NextUp, Claimable
  <2>3. /\ pc[c] = "claim" /\ pc' = [pc EXCEPT ![c] = "claimed"]
        /\ UNCHANGED <<delegated, adding, main, reaper>>
    BY <1>1 DEF ClaimNext, Move
  <2>4. /\ job'[c] = t /\ status'[t] = "claimed"
        /\ \A d \in Claimers : d # c => job'[d] = job[d] /\ (Holds(d)' => Holds(d))
        /\ \A s \in TaskId : s # t => status'[s] = status[s]
    BY <2>1, <2>2, <2>3 DEF TypeInv, TypeOK, Holds
  <2>5. \A d \in Claimers : d # c /\ Holds(d)' =>
            /\ job[d] \in TaskId /\ job[d] # t
            /\ status[job[d]] \in {"claimed", "failed", "interrupted"}
    BY <2>2, <2>4 DEF OwnerInv, HeldIsTaken
  <2>6. HeldIsTaken'
    BY <2>4, <2>5 DEF HeldIsTaken
  <2>7. OneOwner'
    BY <2>4, <2>5 DEF OwnerInv, OneOwner
  <2>8. FreshIds'
    BY <2>2, <2>3, <2>4, FreshKept
  <2>9. SettlesAlone'
    BY <2>3 DEF OwnerInv, SettlesAlone
  <2> QED
    BY <2>6, <2>7, <2>8, <2>9 DEF OwnerInv
<1>2. ASSUME NEW c \in Claimers, RefuseTask(c) PROVE OwnerInv'
  BY <1>2, MarkOwn DEF RefuseTask, Holds
<1>3. ASSUME NEW c \in Claimers, WriteStatus(c) PROVE OwnerInv'
  BY <1>3, MarkOwn DEF WriteStatus, Holds
<1>4. ASSUME NEW c \in Claimers, TaskFails(c) PROVE OwnerInv'
  BY <1>4, MarkOwn DEF TaskFails, Holds
<1>5. ASSUME NEW c \in Claimers,
             \/ ClaimerExit(c) \/ CountIn(c) \/ StartWorker(c) \/ TaskReturns(c)
             \/ TaskKilled(c) \/ CountOut(c)
      PROVE OwnerInv'
  <2>1. UNCHANGED <<status, job, delegated, adding, main, reaper>>
    BY <1>5 DEF ClaimerExit, CountIn, StartWorker, TaskReturns, TaskKilled, CountOut
  <2>2. \A d \in Claimers : Holds(d)' => Holds(d)
    BY <1>5 DEF ClaimerExit, CountIn, StartWorker, TaskReturns, TaskKilled, CountOut, Move,
                Holds, TypeInv, TypeOK
  <2>3. OneOwner' /\ HeldIsTaken'
    BY <2>1, <2>2, OwnersKept DEF OwnerInv, HeldIsTaken
  <2>4. FreshIds'
    BY <2>1, FreshKept
  <2>5. SettlesAlone'
    BY <1>5, <2>1 DEF OwnerInv, SettlesAlone, ClaimerExit, CountIn, StartWorker, TaskReturns,
                      TaskKilled, CountOut, Move, TypeInv, TypeOK
  <2> QED
    BY <2>3, <2>4, <2>5 DEF OwnerInv
<1>6. ASSUME NEW t \in TaskId, Reserve(t) PROVE OwnerInv'
  <2>1. UNCHANGED <<status, pc, job, main, reaper>>
    BY <1>6 DEF Reserve
  <2>2. /\ adding' = [adding EXCEPT ![t] = @ \cup {delegated'[t]}]
        /\ delegated' = [delegated EXCEPT ![t] = delegated[t] + 1]
    BY <1>6 DEF Reserve
  <2>3. ASSUME NEW s \in TaskId, NEW k \in 1..MaxSubtasks, Append(s, k) \in TaskId,
               k > delegated'[s] \/ k \in adding'[s]
        PROVE  status[Append(s, k)] = "absent"
    <3>1. CASE s = t
      <4>1. delegated'[t] = delegated[t] + 1 /\ delegated[t] \in Nat
        BY <2>2, QueueAssumption DEF TypeInv, TypeOK, QueueAssumption
      <4>2. k > delegated[t] \/ k \in adding[t]
        BY <3>1, <2>2, <2>3, <4>1 DEF TypeInv, TypeOK
      <4> QED
        BY <3>1, <2>3, <4>2 DEF OwnerInv, FreshIds
    <3>2. CASE s # t
      <4>1. delegated'[s] = delegated[s] /\ adding'[s] = adding[s]
        BY <3>2, <2>2 DEF TypeInv, TypeOK
      <4> QED
        BY <2>3, <4>1 DEF OwnerInv, FreshIds
    <3> QED
      BY <3>1, <3>2
  <2>4. FreshIds'
    BY <2>1, <2>3 DEF FreshIds
  <2> QED
    BY <2>1, <2>4 DEF OwnerInv, OneOwner, HeldIsTaken, SettlesAlone, Holds
<1>7. ASSUME NEW t \in TaskId, Delegate(t) PROVE OwnerInv'
  <2>0. PICK n \in adding[t] : Add(Append(t, n)) /\ adding' = [adding EXCEPT ![t] = @ \ {n}]
    BY <1>7 DEF Delegate
  <2> DEFINE new == Append(t, n)
  <2>1. /\ adding' = [adding EXCEPT ![t] = @ \ {n}]
        /\ status' = [status EXCEPT ![new] = "pending"]
        /\ UNCHANGED <<pc, job, delegated, main, reaper>>
    BY <1>7, <2>0 DEF Delegate, Add
  <2>2. MaxSubtasks \in Nat /\ \A s \in TaskId : adding[s] \subseteq 1..MaxSubtasks
    BY QueueAssumption DEF QueueAssumption, TypeInv, TypeOK
  <2>3. n \in 1..MaxSubtasks /\ Depth(t) < MaxDepth
    BY <2>0, <2>2 DEF TypeInv, Reserved
  <2>4. new \in TaskId
    BY <2>3, SubtaskId
  <2>5. status[new] = "absent"
    BY <2>0, <2>3, <2>4 DEF OwnerInv, FreshIds
  <2> HIDE DEF new
  <2>6. \A s \in TaskId : s # new => status'[s] = status[s]
    BY <2>1 DEF TypeInv, TypeOK
  <2>7. OneOwner' /\ HeldIsTaken'
    BY <2>1, <2>5, <2>6, OwnersKept DEF OwnerInv, HeldIsTaken, Holds
  <2>8. ASSUME NEW s \in TaskId, NEW k \in 1..MaxSubtasks, Append(s, k) \in TaskId,
               k > delegated'[s] \/ k \in adding'[s]
        PROVE  status'[Append(s, k)] = "absent"
    <3>1. k > delegated[s] \/ (k \in adding[s] /\ ~(s = t /\ k = n))
      BY <2>1, <2>8 DEF TypeInv, TypeOK
    <3>2. Append(s, k) # new
      <4>1. SUFFICES ASSUME Append(s, k) = Append(t, n) PROVE FALSE
        BY DEF new
      <4>2. s = t /\ k = n
        BY <4>1, <2>2, <2>3, DistinctSubtasks
      <4>3. n <= delegated[t] /\ delegated[t] \in Nat
        BY <2>0, <2>2, <2>3 DEF TypeInv, TypeOK, Reserved
      <4> QED
        BY <3>1, <4>2, <4>3, <2>3
    <3>3. status[Append(s, k)] = "absent"
      BY <2>8, <3>1 DEF OwnerInv, FreshIds
    <3> QED
      BY <2>6, <2>8, <3>2, <3>3
  <2>9. FreshIds'
    BY <2>8 DEF FreshIds
  <2> QED
    BY <2>1, <2>7, <2>9 DEF OwnerInv, SettlesAlone
<1>8. ASSUME NEW t \in TaskId, WorkerEnds(t) PROVE OwnerInv'
  <2>1. UNCHANGED <<status, pc, job, delegated, adding, main, reaper>>
    BY <1>8 DEF WorkerEnds
  <2>2. FreshIds'
    BY <2>1, FreshKept
  <2> QED
    BY <2>1, <2>2 DEF OwnerInv, OneOwner, HeldIsTaken, SettlesAlone, Holds
<1>9. ASSUME NEW c \in Claimers, ReaperSpawn(c) PROVE OwnerInv'
  <2>1. /\ reaper /\ pc' = [pc EXCEPT ![c] = "claim"]
        /\ UNCHANGED <<status, job, delegated, adding, main, reaper>>
    BY <1>9 DEF ReaperSpawn, Move
  <2>2. \A d \in Claimers : Holds(d)' => Holds(d)
    BY <2>1 DEF TypeInv, TypeOK, Holds
  <2>3. OneOwner' /\ HeldIsTaken'
    BY <2>1, <2>2, OwnersKept DEF OwnerInv, HeldIsTaken
  <2> QED
    BY <2>1, <2>3, FreshKept DEF OwnerInv, SettlesAlone
<1>10. CASE Start
  <2>1. /\ \A c \in Claimers : ~Holds(c)'
        /\ main' = "wait"
        /\ UNCHANGED <<status, delegated, adding>>
    BY <1>10 DEF Start, Holds
  <2> QED
    BY <2>1, FreshKept DEF OwnerInv, OneOwner, HeldIsTaken, SettlesAlone
<1>11. CASE \/ ReaperExit \/ LeaveWait \/ Abort \/ Look \/ LoopBroken \/ Return
            \/ DeadlinePasses \/ UNCHANGED vars
  <2>1. UNCHANGED <<status, pc, job, delegated, adding>>
    BY <1>11 DEF ReaperExit, LeaveWait, Abort, Look, LoopBroken, Return, DeadlinePasses, vars
  <2>2. main' = "settle" => main = "settle" /\ (reaper' => reaper)
    BY <1>11 DEF ReaperExit, LeaveWait, Abort, Look, Advance, LoopBroken, Return,
                 DeadlinePasses, vars
  <2> QED
    BY <2>1, <2>2, FreshKept DEF OwnerInv, OneOwner, HeldIsTaken, SettlesAlone, Holds
<1>12. CASE JoinAll
  <2>1. /\ UNCHANGED <<status, pc, job, delegated, adding, reaper>>
        /\ ~reaper
        /\ main' = "settle" => \A c \in Claimers : pc[c] = "none"
    BY <1>12 DEF JoinAll
  <2> QED
    BY <2>1, FreshKept DEF OwnerInv, OneOwner, HeldIsTaken, SettlesAlone, Holds
<1>13. CASE MarkSeen
  <2>1. UNCHANGED <<pc, job, delegated, adding, reaper, main>>
    BY <1>13 DEF MarkSeen, Advance
  <2>2. \A t \in TaskId : status'[t] = status[t] \/ (t = seen /\ status'[t] \in {"failed", "interrupted"})
    BY <1>13 DEF MarkSeen, Mark, TypeInv, TypeOK
  <2>3. OneOwner' /\ HeldIsTaken'
    BY <2>1, <2>2, OwnersKept DEF OwnerInv, HeldIsTaken, Holds
  <2>4. seen \in TaskId => status[seen] # "absent"
    BY <1>13 DEF MarkSeen, TypeInv, SeenIsTask
  <2>5. \A t \in TaskId : status[t] = "absent" => status'[t] = "absent"
    BY <2>2, <2>4
  <2> QED
    BY <2>1, <2>3, <2>5, FreshKept DEF OwnerInv, SettlesAlone
<1>15. CASE Settle
  <2>1. UNCHANGED <<pc, job, delegated, adding, reaper, main>>
    BY <1>15 DEF Settle, Advance
  <2>2. \A c \in Claimers : pc[c] = "none"
    BY <1>15 DEF Settle, OwnerInv, SettlesAlone
  <2>3. OneOwner' /\ HeldIsTaken'
    BY <2>1, <2>2 DEF OneOwner, HeldIsTaken, Holds
  <2>4. \A t \in TaskId : status[t] = "absent" => status'[t] = "absent"
    BY <1>15 DEF Settle, Mark, Resolved, TypeInv, TypeOK
  <2> QED
    BY <2>1, <2>3, <2>4, FreshKept DEF OwnerInv, SettlesAlone
<1> QED
  BY <1>1, <1>2, <1>3, <1>4, <1>5, <1>6, <1>7, <1>8, <1>9, <1>10, <1>11, <1>12,
     <1>13, <1>15
  DEF Next, Claimer, Worker, Reaper, Run, StopWaiting, Interrupt

(* However many claimers the reaper starts, and whatever workers delegate   *)
(* while they run, two claimer threads never hold the same task.            *)
THEOREM SingleOwner == Spec => []OneOwner
<1>1. Init => TypeInv /\ OwnerInv
  BY InitTypeInv, InitOwnerInv
<1>2. (TypeInv /\ OwnerInv) /\ [Next]_vars => (TypeInv /\ OwnerInv)'
  BY NextTypeInv, NextOwnerInv
<1>3. TypeInv /\ OwnerInv => OneOwner
  BY DEF OwnerInv
<1> QED
  BY <1>1, <1>2, <1>3, PTL DEF Spec

(* The identifier that is added is a new one.                               *)
LEMMA DelegatesFresh ==
    ASSUME TypeInv, OwnerInv, NEW t \in TaskId, Delegate(t)
    PROVE  \E n \in adding[t] :
              /\ n \in 1..MaxSubtasks
              /\ Append(t, n) \in TaskId
              /\ status[Append(t, n)] = "absent"
              /\ Add(Append(t, n))
              /\ adding' = [adding EXCEPT ![t] = @ \ {n}]
<1>1. PICK n \in adding[t] : Add(Append(t, n)) /\ adding' = [adding EXCEPT ![t] = @ \ {n}]
  BY DEF Delegate
<1>2. n \in 1..MaxSubtasks /\ Depth(t) < MaxDepth
  BY <1>1 DEF TypeInv, TypeOK, Reserved
<1> QED
  BY <1>1, <1>2, SubtaskId DEF OwnerInv, FreshIds

(* No step takes a result back, but the mark of a loop that had looked at   *)
(* the task before.                                                         *)
KeepsDone ==
    \A t \in TaskId : status[t] = "done" /\ seen # t => status'[t] = "done" /\ seen' # t

LEMMA StepKeepsDone == TypeInv /\ OwnerInv /\ [Next]_vars => [KeepsDone]_vars
<1> DEFINE Keeps == KeepsDone
<1> SUFFICES ASSUME TypeInv, OwnerInv, Next PROVE Keeps
  BY DEF vars
<1> USE DEF KeepsDone, queueVars, threadVars, callVars, mainVars
<1>0. NoTask \notin TaskId
  BY PoolAssumption DEF PoolAssumption
<1>1. ASSUME NEW c \in Claimers, ClaimNext(c) PROVE Keeps
  BY <1>1 DEF ClaimNext, Claim, NextUp, Claimable, TypeInv, TypeOK
<1>2. ASSUME NEW c \in Claimers, RefuseTask(c) \/ WriteStatus(c) \/ TaskFails(c)
      PROVE  Keeps
  <2>1. Holds(c) /\ seen' = seen
    BY <1>2 DEF RefuseTask, WriteStatus, TaskFails, Holds
  <2>2. status[job[c]] # "done"
    BY <2>1 DEF OwnerInv, HeldIsTaken
  <2>3. \A t \in TaskId : t # job[c] => status'[t] = status[t]
    BY <1>2 DEF RefuseTask, WriteStatus, TaskFails, Mark, TypeInv, TypeOK
  <2> QED
    BY <2>1, <2>2, <2>3
<1>3. ASSUME NEW t \in TaskId, Delegate(t) PROVE Keeps
  BY <1>3, DelegatesFresh DEF Delegate, Add, TypeInv, TypeOK
<1>4. CASE Look
  BY <1>4 DEF Look, Unfinished
<1>5. CASE MarkSeen
  BY <1>0, <1>5 DEF MarkSeen, Mark, TypeInv, TypeOK
<1>6. CASE Settle
  BY <1>6 DEF Settle, Mark, Resolved, TypeInv, TypeOK
<1>7. CASE UNCHANGED <<status, seen>>
  BY <1>7
<1> QED
  BY <1>1, <1>2, <1>3, <1>4, <1>5, <1>6, <1>7
  DEF Next, Claimer, ClaimerExit, CountIn, StartWorker, TaskKilled, CountOut,
      TaskReturns, Worker, Reserve, Calling, WorkerEnds, Reaper, ReaperSpawn, ReaperExit,
      Run, Start, StopWaiting, LeaveWait, JoinAll, Abort, LoopBroken, Return,
      Interrupt, DeadlinePasses

(* The result of a task is taken back only by the mark of a closing loop    *)
(* that had looked at the task before it was done: not by a claimer that    *)
(* reports late, and the loops never pick a task that is done.              *)
THEOREM DoneStays == Spec => DoneIsFinal
<1>1. Init => TypeInv /\ OwnerInv
  BY InitTypeInv, InitOwnerInv
<1>2. (TypeInv /\ OwnerInv) /\ [Next]_vars => (TypeInv /\ OwnerInv)'
  BY NextTypeInv, NextOwnerInv
<1> QED
  BY <1>1, <1>2, StepKeepsDone, PTL DEF Spec, DoneIsFinal, KeepsDone

-----------------------------------------------------------------------------
(* Before run() has started its claimers nothing goes on.                   *)
StartsFromNothing ==
    main \in {"new", "start"} =>
        /\ ~reaper
        /\ \A c \in Claimers : pc[c] = "none"
        /\ \A t \in TaskId : worker[t] = "none" /\ adding[t] = {}

(* A task that nobody holds any more has returned with subtasks to its name,*)
(* or was killed by Ctrl+C.                                                 *)
Parked(t) == worker[t] = "returned" /\ Children(t) # {}

Accounted ==
    \A t \in TaskId : status[t] = "claimed" =>
        \/ \E c \in Claimers : Holds(c) /\ job[c] = t
        \/ Parked(t)
        \/ worker[t] = "killed"

(* A claimer that is about to write a status has the worker's summary, and  *)
(* it parks a task only for subtasks it has.                                *)
Reporting ==
    \A c \in Claimers :
        /\ pc[c] \in {"park", "finish"} => worker[job[c]] = "returned"
        /\ pc[c] = "park" => Parked(job[c])

(* The keys of the dict of tasks are the tasks that have a status, the      *)
(* closing loop starts at the first of them, and which of its forms it has  *)
(* is decided by a clock that is not read again.  The task it has found     *)
(* unfinished is the one it is at.                                          *)
ClosingLoop ==
    /\ \A i \in 1..Len(order) : status[order[i]] # "absent"
    /\ cursor \in 1..(Len(order) + 1)
    /\ main \in {"new", "start", "wait", "join"} => cursor = 1
    /\ main = "settle" => ~overdue
    /\ main = "sweep" => overdue
    /\ main = "returned" => verdict # "none"
    /\ main = "abort" => verdict = "interrupted"
    /\ verdict # "none" => main \in {"returned", "abort", "crashed"}
    /\ verdict # "none" /\ main # "returned" => verdict = "interrupted"
    /\ seen # NoTask => /\ main \in {"sweep", "abort"}
                        /\ cursor <= Len(order)
                        /\ seen = order[cursor]

FateInv == StartsFromNothing /\ Accounted /\ Reporting /\ ClosingLoop /\ SweepSticks

(* No task leaves the queue, so no task loses a subtask.                    *)
LEMMA StepKeepsTasks ==
    ASSUME TypeInv, Next
    PROVE  /\ \A t \in TaskId : status[t] # "absent" => status'[t] # "absent"
           /\ \A t \in TaskId : Children(t) # {} => Children(t)' # {}
<1> USE DEF queueVars, threadVars, callVars, mainVars
<1> DEFINE Keeps == \A t \in TaskId : status[t] # "absent" => status'[t] # "absent"
<1>1. status \in [TaskId -> Status]
  BY DEF TypeInv, TypeOK
<1>2. ASSUME NEW c \in Claimers, Claimer(c) PROVE Keeps
  BY <1>1, <1>2 DEF Claimer, ClaimNext, Claim, ClaimerExit, CountIn, StartWorker, RefuseTask,
                    TaskReturns, WriteStatus, TaskFails, TaskKilled, CountOut, Mark
<1>3. ASSUME NEW t \in TaskId, Worker(t) PROVE Keeps
  BY <1>1, <1>3 DEF Worker, Reserve, Calling, Delegate, Add, WorkerEnds
<1>4. ASSUME Reaper \/ Run \/ Interrupt \/ Abort \/ DeadlinePasses PROVE Keeps
  <2>1. CASE MarkSeen
    BY <1>1, <2>1 DEF MarkSeen, Mark
  <2>2. CASE Settle
    BY <1>1, <2>2 DEF Settle, Mark, Resolved
  <2>3. CASE UNCHANGED status
    BY <2>3
  <2> QED
    BY <1>4, <2>1, <2>2, <2>3
    DEF Reaper, ReaperExit, ReaperSpawn, Run, Start, StopWaiting, LeaveWait, JoinAll, Look,
        LoopBroken, Return, Interrupt, Abort, DeadlinePasses
<1>6. Keeps
  BY <1>2, <1>3, <1>4 DEF Next
<1> QED
  BY <1>6 DEF Children

LEMMA StepKeepsStart == TypeInv /\ StartsFromNothing /\ Next => StartsFromNothing'
<1> SUFFICES ASSUME TypeInv, StartsFromNothing, Next PROVE StartsFromNothing'
  OBVIOUS
<1> USE DEF StartsFromNothing, queueVars, threadVars, callVars, mainVars
<1>1. CASE main \in {"new", "start"}
  <2>1. /\ ~reaper /\ \A c \in Claimers : pc[c] = "none"
        /\ \A t \in TaskId : worker[t] = "none" /\ adding[t] = {}
    BY <1>1
  <2>2. (Start /\ main' = "wait") \/ UNCHANGED <<main, reaper, pc, worker, adding>>
    BY <1>1, <2>1
    DEF Next, Claimer, ClaimNext, ClaimerExit, CountIn, StartWorker, RefuseTask,
        TaskReturns, WriteStatus, TaskFails, TaskKilled, CountOut, Worker, Reserve, Calling,
        Delegate, WorkerEnds, Reaper, ReaperExit, ReaperSpawn, Run, Start, StopWaiting,
        LeaveWait, JoinAll, Look, MarkSeen, Advance, Settle, LoopBroken, Return, Interrupt,
        Abort, DeadlinePasses
  <2> QED
    BY <2>1, <2>2
<1>2. CASE main \notin {"new", "start"}
  <2>1. main' = main \/ main' \in {"join", "sweep", "settle", "abort", "returned", "crashed"}
    BY <1>2
    DEF Next, Claimer, ClaimNext, ClaimerExit, CountIn, StartWorker, RefuseTask,
        TaskReturns, WriteStatus, TaskFails, TaskKilled, CountOut, Worker, Reserve, Calling,
        Delegate, WorkerEnds, Reaper, ReaperExit, ReaperSpawn, Run, Start, StopWaiting,
        LeaveWait, JoinAll, Look, MarkSeen, Advance, Settle, LoopBroken, Return, Interrupt,
        Abort, DeadlinePasses
  <2> QED
    BY <1>2, <2>1
<1> QED
  BY <1>1, <1>2

(* What a step does to a task that is claimed: it is marked, or it stays    *)
(* with its claimer, or its claimer has parked it or was killed by it.      *)
LEMMA StepKeepsAccounts ==
    TypeInv /\ OwnerInv /\ StartsFromNothing /\ Accounted /\ Reporting /\ Next => Accounted'
<1> SUFFICES ASSUME TypeInv, OwnerInv, StartsFromNothing, Accounted, Reporting, Next,
                    NEW t \in TaskId, status'[t] = "claimed"
             PROVE  \/ \E c \in Claimers : Holds(c)' /\ job'[c] = t
                    \/ worker'[t] = "returned" /\ Children(t)' # {}
                    \/ worker'[t] = "killed"
  BY DEF Accounted, Parked
<1> DEFINE Goal == \/ \E c \in Claimers : Holds(c)' /\ job'[c] = t
                   \/ worker'[t] = "returned" /\ Children(t)' # {}
                   \/ worker'[t] = "killed"
           Held == \E c \in Claimers : Holds(c) /\ job[c] = t
           Left == ~Held /\ worker[t] \in {"returned", "killed"}
<1> USE DEF queueVars, threadVars, callVars, mainVars
<1>0. /\ pc \in [Claimers -> {"none", "claim", "claimed", "admit", "work", "park", "finish", "out", "gone"}]
      /\ job \in [Claimers -> TaskId \cup {NoTask}]
      /\ worker \in [TaskId -> {"none", "running", "returned", "raised", "killed"}]
      /\ status \in [TaskId -> Status]
  BY DEF TypeInv, TypeOK
<1>1. Children(t) # {} => Children(t)' # {}
  BY StepKeepsTasks
<1>2. status[t] = "claimed" => Held \/ (worker[t] = "returned" /\ Children(t) # {})
                                    \/ worker[t] = "killed"
  BY DEF Accounted, Parked
<1>3. ASSUME status[t] = "claimed", worker'[t] = worker[t],
             \A c \in Claimers : Holds(c) /\ job[c] = t => Holds(c)' /\ job'[c] = t
      PROVE  Goal
  BY <1>1, <1>2, <1>3
<1>4. ASSUME NEW c \in Claimers, ClaimNext(c) PROVE Goal
  <2>1. PICK s \in TaskId : Claim(s) /\ job' = [job EXCEPT ![c] = s]
    BY <1>4 DEF ClaimNext
  <2>2. /\ pc[c] = "claim" /\ pc' = [pc EXCEPT ![c] = "claimed"] /\ worker' = worker
        /\ status' = [status EXCEPT ![s] = "claimed"]
    BY <1>4, <2>1 DEF ClaimNext, Move, Claim
  <2>3. CASE s = t
    BY <1>0, <2>1, <2>2, <2>3 DEF Holds
  <2>4. CASE s # t
    <3>1. status[t] = "claimed"
      BY <1>0, <2>2, <2>4
    <3>2. \A d \in Claimers : Holds(d) /\ job[d] = t => Holds(d)' /\ job'[d] = t
      BY <1>0, <2>1, <2>2 DEF Holds
    <3> QED
      BY <1>3, <2>2, <3>1, <3>2
  <2> QED
    BY <2>3, <2>4
<1>5. ASSUME NEW c \in Claimers, ClaimerExit(c) \/ CountIn(c) \/ TaskReturns(c) \/ CountOut(c)
      PROVE  Goal
  <2>1. /\ status' = status /\ worker' = worker /\ job' = job
        /\ \A d \in Claimers : Holds(d) => Holds(d)'
    BY <1>0, <1>5 DEF ClaimerExit, CountIn, TaskReturns, CountOut, Move, Holds
  <2> QED
    BY <1>3, <2>1
<1>6. ASSUME NEW c \in Claimers, StartWorker(c) PROVE Goal
  <2>1. /\ status' = status /\ job' = job /\ pc[c] = "admit"
        /\ worker' = [worker EXCEPT ![job[c]] = "running"]
        /\ \A d \in Claimers : Holds(d) => Holds(d)'
    BY <1>0, <1>6 DEF StartWorker, Move, Holds
  <2>2. CASE job[c] = t
    BY <2>1, <2>2 DEF Holds
  <2>3. CASE job[c] # t
    BY <1>0, <1>3, <2>1, <2>3
  <2> QED
    BY <2>2, <2>3
<1>7. ASSUME NEW c \in Claimers, RefuseTask(c) \/ TaskFails(c) \/ WriteStatus(c) PROVE Goal
  <2>1. /\ job' = job /\ worker' = worker /\ Holds(c)
        /\ \A d \in Claimers : d # c /\ Holds(d) => Holds(d)'
        /\ \A s \in TaskId : s # job[c] => status'[s] = status[s]
    BY <1>0, <1>7 DEF RefuseTask, TaskFails, WriteStatus, Mark, Move, Holds
  <2>2. job[c] \in TaskId
    BY <2>1 DEF OwnerInv, HeldIsTaken
  <2>3. CASE job[c] = t
    <3>1. pc[c] = "park"
      BY <1>0, <1>7, <2>2, <2>3 DEF RefuseTask, TaskFails, WriteStatus, Mark
    <3>2. worker[t] = "returned" /\ Children(t) # {}
      BY <2>3, <3>1 DEF Reporting, Parked
    <3> QED
      BY <1>1, <2>1, <3>2
  <2>4. CASE job[c] # t
    BY <1>3, <2>1, <2>4
  <2> QED
    BY <2>3, <2>4
<1>8. ASSUME NEW c \in Claimers, TaskKilled(c) PROVE Goal
  <2>1. /\ job' = job /\ worker' = worker /\ status' = status /\ worker[job[c]] = "killed"
        /\ \A d \in Claimers : d # c /\ Holds(d) => Holds(d)'
    BY <1>0, <1>8 DEF TaskKilled, Move, Holds
  <2> QED
    BY <1>3, <2>1
<1>9. ASSUME NEW s \in TaskId, Worker(s) PROVE Goal
  <2>1. /\ pc' = pc /\ job' = job
        /\ worker[s] = "running" \/ worker'[s] = worker[s]
        /\ \A u \in TaskId : u # s => worker'[u] = worker[u]
    BY <1>0, <1>9 DEF Worker, Reserve, Calling, Delegate, WorkerEnds
  <2>2. status'[t] = "claimed" => status[t] = "claimed"
    BY <1>0, <1>9 DEF Worker, Reserve, Calling, Delegate, Add, WorkerEnds
  <2>3. CASE s = t
    <3>1. CASE worker[s] = "running"
      BY <1>2, <2>1, <2>2, <2>3, <3>1 DEF Holds
    <3>2. CASE worker'[s] = worker[s]
      BY <1>3, <2>1, <2>2, <2>3, <3>2 DEF Holds
    <3> QED
      BY <2>1, <3>1, <3>2
  <2>4. CASE s # t
    BY <1>3, <2>1, <2>2, <2>4 DEF Holds
  <2> QED
    BY <2>3, <2>4
<1>10. ASSUME NEW c \in Claimers, ReaperSpawn(c) PROVE Goal
  <2>1. /\ job' = job /\ worker' = worker /\ status' = status
        /\ \A d \in Claimers : Holds(d) => Holds(d)'
    BY <1>0, <1>10 DEF ReaperSpawn, Move, Holds
  <2> QED
    BY <1>3, <2>1
<1>11. CASE Start
  <2>1. /\ job' = job /\ worker' = worker /\ status' = status
        /\ \A d \in Claimers : ~Holds(d)
    BY <1>11 DEF Start, StartsFromNothing, Holds
  <2> QED
    BY <1>3, <2>1
<1>12. CASE MarkSeen \/ Settle
  <2>1. /\ job' = job /\ worker' = worker /\ pc' = pc
        /\ status'[t] = "claimed" => status[t] = "claimed"
    BY <1>0, <1>12 DEF MarkSeen, Settle, Mark, Resolved
  <2> QED
    BY <1>3, <2>1 DEF Holds
<1>13. CASE UNCHANGED <<status, worker, job, pc>>
  BY <1>3, <1>13 DEF Holds
<1> QED
  BY <1>4, <1>5, <1>6, <1>7, <1>8, <1>9, <1>10, <1>11, <1>12, <1>13
  DEF Next, Claimer, Reaper, ReaperExit, Run, StopWaiting, Interrupt, LeaveWait, JoinAll,
      Abort, Look, LoopBroken, Return, DeadlinePasses

(* A worker that has returned stays so, and keeps its subtasks.             *)
LEMMA StepKeepsReporting == TypeInv /\ OwnerInv /\ Reporting /\ Next => Reporting'
<1> SUFFICES ASSUME TypeInv, OwnerInv, Reporting, Next, NEW d \in Claimers,
                    pc'[d] \in {"park", "finish"}
             PROVE  /\ worker'[job'[d]] = "returned"
                    /\ pc'[d] = "park" => Children(job[d])' # {}
  BY DEF Reporting, Parked
<1> DEFINE t == job[d]
<1> USE DEF queueVars, threadVars, callVars, mainVars
<1>0. /\ pc \in [Claimers -> {"none", "claim", "claimed", "admit", "work", "park", "finish", "out", "gone"}]
      /\ job \in [Claimers -> TaskId \cup {NoTask}]
      /\ worker \in [TaskId -> {"none", "running", "returned", "raised", "killed"}]
  BY DEF TypeInv, TypeOK
<1>1. ASSUME pc'[d] = pc[d], job'[d] = job[d], worker'[t] = worker[t]
      PROVE  /\ worker'[job'[d]] = "returned"
             /\ pc'[d] = "park" => Children(job[d])' # {}
  <2>1. t \in TaskId
    BY <1>1 DEF OwnerInv, HeldIsTaken, Holds
  <2> QED
    BY <1>1, <2>1, StepKeepsTasks DEF Reporting, Parked
<1>2. ASSUME NEW c \in Claimers, ClaimNext(c)
      PROVE  pc'[d] = pc[d] /\ job'[d] = job[d] /\ worker'[t] = worker[t]
  BY <1>0, <1>2 DEF ClaimNext, Move
<1>3. ASSUME NEW c \in Claimers,
             \/ ClaimerExit(c) \/ CountIn(c) \/ RefuseTask(c) \/ WriteStatus(c)
             \/ TaskFails(c) \/ TaskKilled(c) \/ CountOut(c) \/ ReaperSpawn(c)
      PROVE  pc'[d] = pc[d] /\ job'[d] = job[d] /\ worker'[t] = worker[t]
  BY <1>0, <1>3 DEF ClaimerExit, CountIn, RefuseTask, WriteStatus, TaskFails, TaskKilled,
                    CountOut, ReaperSpawn, Move
<1>4. ASSUME NEW c \in Claimers, StartWorker(c)
      PROVE  pc'[d] = pc[d] /\ job'[d] = job[d] /\ worker'[t] = worker[t]
  <2>1. c # d /\ pc'[d] = pc[d] /\ Holds(c) /\ Holds(d)
    BY <1>0, <1>4 DEF StartWorker, Move, Holds
  <2>2. job[c] # t
    BY <2>1 DEF OwnerInv, OneOwner
  <2> QED
    BY <1>0, <1>4, <2>1, <2>2 DEF StartWorker
<1>5. ASSUME NEW c \in Claimers, TaskReturns(c)
      PROVE  /\ worker'[job'[d]] = "returned"
             /\ pc'[d] = "park" => Children(job[d])' # {}
  <2>1. CASE c = d
    <3>1. worker'[job'[d]] = "returned" /\ job'[d] = t /\ t \in TaskId
      BY <1>5, <2>1 DEF TaskReturns, OwnerInv, HeldIsTaken, Holds
    <3>2. pc'[d] = "park" => Unresolved(t) # {}
      BY <1>0, <1>5, <2>1 DEF TaskReturns, Move
    <3> QED
      BY <3>1, <3>2, StepKeepsTasks DEF Unresolved
  <2>2. CASE c # d
    BY <1>0, <1>1, <1>5, <2>2 DEF TaskReturns, Move
  <2> QED
    BY <2>1, <2>2
<1>6. ASSUME NEW s \in TaskId, Worker(s), pc[d] \in {"park", "finish"}
      PROVE  pc'[d] = pc[d] /\ job'[d] = job[d] /\ worker'[t] = worker[t]
  <2>1. worker[t] = "returned" /\ t \in TaskId
    BY <1>6 DEF Reporting, OwnerInv, HeldIsTaken, Holds
  <2> QED
    BY <1>0, <1>6, <2>1 DEF Worker, Reserve, Calling, Delegate, WorkerEnds
<1>7. ASSUME NEW s \in TaskId, Worker(s) PROVE pc' = pc
  BY <1>7 DEF Worker, Reserve, Calling, Delegate, WorkerEnds
<1>8. CASE Start
  BY <1>8 DEF Start
<1>9. CASE UNCHANGED <<worker, job, pc>>
  BY <1>1, <1>9
<1> QED
  BY <1>1, <1>2, <1>3, <1>4, <1>5, <1>6, <1>7, <1>8, <1>9
  DEF Next, Claimer, Reaper, ReaperExit, Run, StopWaiting, Interrupt, LeaveWait, JoinAll,
      Abort, Look, MarkSeen, Settle, LoopBroken, Return, DeadlinePasses

(* Whoever writes the status of a task the sweep has passed, writes one     *)
(* that the sweep's promise allows.                                         *)
Swept(t) == status[t] \in Terminal \/ (status[t] = "claimed" /\ Parked(t))

LEMMA SweptStays ==
    ASSUME TypeInv, OwnerInv, Reporting, Next, overdue, main # "settle",
           NEW t \in TaskId, Swept(t)
    PROVE  Swept(t)'
<1> USE DEF queueVars, threadVars, callVars, mainVars
<1>0. /\ status \in [TaskId -> Status]
      /\ worker \in [TaskId -> {"none", "running", "returned", "raised", "killed"}]
  BY DEF TypeInv, TypeOK
<1>1. Children(t) # {} => Children(t)' # {}
  BY StepKeepsTasks
<1>2. status[t] # "absent" /\ status[t] # "pending"
  BY DEF Swept, Terminal
<1>3. ASSUME status'[t] = status[t], worker[t] = "returned" => worker'[t] = "returned"
      PROVE  Swept(t)'
  BY <1>1, <1>3 DEF Swept, Parked
<1>4. ASSUME status'[t] \in Terminal PROVE Swept(t)'
  BY <1>4 DEF Swept
<1>5. ASSUME NEW c \in Claimers, ClaimNext(c) PROVE Swept(t)'
  BY <1>0, <1>2, <1>3, <1>5 DEF ClaimNext, Claim, NextUp, Claimable
<1>6. ASSUME NEW c \in Claimers, RefuseTask(c) \/ TaskFails(c) \/ WriteStatus(c)
      PROVE  Swept(t)'
  <2>1. worker' = worker /\ \A s \in TaskId : s # job[c] => status'[s] = status[s]
    BY <1>0, <1>6 DEF RefuseTask, TaskFails, WriteStatus, Mark
  <2>2. CASE job[c] = t
    <3>1. \/ status'[t] \in {"failed", "done"}
          \/ status'[t] = "claimed" /\ pc[c] = "park"
      BY <1>0, <1>6, <2>2 DEF RefuseTask, TaskFails, WriteStatus, Mark
    <3>2. pc[c] = "park" => Parked(t)
      BY <2>2 DEF Reporting
    <3> QED
      BY <1>1, <1>4, <2>1, <3>1, <3>2 DEF Swept, Parked, Terminal
  <2>3. CASE job[c] # t
    BY <1>3, <2>1, <2>3
  <2> QED
    BY <2>2, <2>3
<1>7. ASSUME NEW s \in TaskId, Worker(s) PROVE Swept(t)'
  <2>1. worker[t] = "returned" => worker'[t] = "returned"
    BY <1>0, <1>7 DEF Worker, Reserve, Calling, Delegate, WorkerEnds
  <2>2. CASE Delegate(s)
    <3>1. \E new : status[new] = "absent" /\ Add(new)
      BY <2>2, DelegatesFresh
    <3>2. status'[t] = status[t]
      BY <1>0, <1>2, <3>1 DEF Add
    <3> QED
      BY <1>3, <2>1, <3>2
  <2>3. CASE UNCHANGED status
    BY <1>3, <2>1, <2>3
  <2> QED
    BY <1>7, <2>2, <2>3 DEF Worker, Reserve, Calling, WorkerEnds
<1>8. CASE MarkSeen
  BY <1>0, <1>3, <1>4, <1>8 DEF MarkSeen, Mark, Terminal
<1>10. CASE UNCHANGED <<status, worker>>
  BY <1>3, <1>10
<1> QED
  BY <1>5, <1>6, <1>7, <1>8, <1>10
  DEF Next, Claimer, ClaimerExit, CountIn, StartWorker, TaskReturns, TaskKilled, CountOut,
      Reaper, ReaperExit, ReaperSpawn, Run, Start, StopWaiting, LeaveWait, JoinAll, Abort,
      Look, Settle, LoopBroken, Return, Interrupt, DeadlinePasses

(* The dict of tasks only grows, at its end.                                *)
LEMMA StepKeepsOrder ==
    ASSUME TypeInv, OwnerInv, Next
    PROVE  /\ Len(order') \in Nat /\ Len(order) \in Nat /\ Len(order') >= Len(order)
           /\ \A i \in 1..Len(order) : order'[i] = order[i] /\ order[i] \in TaskId
           /\ \A i \in 1..Len(order') :
                 i > Len(order) => order'[i] \in TaskId /\ status'[order'[i]] = "pending"
<1> USE DEF queueVars, threadVars, callVars, mainVars
<1>0. order \in Seq(TaskId) /\ order' \in Seq(TaskId) /\ status \in [TaskId -> Status]
  BY NextTypeInv DEF TypeInv, TypeOK
<1>1. Len(order) \in Nat /\ \A i \in 1..Len(order) : order[i] \in TaskId
  BY <1>0, LenProperties, ElementOfSeq
<1>2. CASE order' = order
  BY <1>1, <1>2
<1>3. ASSUME NEW t \in TaskId, Delegate(t)
      PROVE  \E new \in TaskId : order' = Append(order, new) /\ status'[new] = "pending"
  BY <1>0, <1>3, DelegatesFresh DEF Add
<1>4. ASSUME NEW new \in TaskId, order' = Append(order, new), status'[new] = "pending"
      PROVE  /\ Len(order') = Len(order) + 1
             /\ \A i \in 1..Len(order) : order'[i] = order[i]
             /\ order'[Len(order) + 1] = new
  BY <1>0, <1>4, AppendProperties
<1>5. order' = order \/ \E t \in TaskId : Delegate(t)
  BY DEF Next, Claimer, ClaimNext, Claim, ClaimerExit, CountIn, StartWorker, RefuseTask,
      TaskReturns, WriteStatus, TaskFails, TaskKilled, CountOut, Worker, Reserve, Calling,
      WorkerEnds, Reaper, ReaperExit, ReaperSpawn, Run, Start, StopWaiting, LeaveWait,
      JoinAll, Look, MarkSeen, Advance, Settle, LoopBroken, Return, Interrupt, Abort,
      DeadlinePasses
<1>6. CASE \E t \in TaskId : Delegate(t)
  <2>1. PICK new \in TaskId : order' = Append(order, new) /\ status'[new] = "pending"
    BY <1>3, <1>6
  <2> QED
    BY <1>1, <1>4, <2>1
<1> QED
  BY <1>2, <1>5, <1>6

(* Where the closing loop is, step by step.                                 *)
LEMMA StepKeepsLoop ==
    TypeInv /\ OwnerInv /\ ClosingLoop /\ Next => ClosingLoop'
<1> SUFFICES ASSUME TypeInv, OwnerInv, ClosingLoop, Next PROVE ClosingLoop'
  OBVIOUS
<1> USE DEF queueVars, threadVars, callVars, mainVars
<1>1. ASSUME NEW i \in 1..Len(order') PROVE status'[order'[i]] # "absent"
  <2>1. CASE i > Len(order)
    BY <1>1, <2>1, StepKeepsOrder
  <2>2. CASE ~(i > Len(order))
    <3>1. i \in 1..Len(order)
      BY <1>1, <2>2, StepKeepsOrder
    <3> QED
      BY <3>1, StepKeepsOrder, StepKeepsTasks DEF ClosingLoop
  <2> QED
    BY <2>1, <2>2
<1>2. cursor' \in 1..(Len(order') + 1)
  <2>1. cursor' = cursor \/ (cursor' = cursor + 1 /\ cursor <= Len(order))
    BY DEF ClosingLoop, Next, Claimer, ClaimNext, ClaimerExit, CountIn, StartWorker, RefuseTask,
        TaskReturns, WriteStatus, TaskFails, TaskKilled, CountOut, Worker, Reserve, Calling,
        Delegate, WorkerEnds, Reaper, ReaperExit, ReaperSpawn, Run, Start, StopWaiting,
        LeaveWait, JoinAll, Look, MarkSeen, Advance, Settle, Running, LoopBroken, Return,
        Interrupt, Abort, DeadlinePasses
  <2>2. cursor \in 1..(Len(order) + 1)
    BY DEF ClosingLoop
  <2> QED
    BY <2>1, <2>2, StepKeepsOrder
<1> DEFINE Place == /\ main \in {"new", "start", "wait", "join"} => cursor = 1
                    /\ main = "settle" => ~overdue
                    /\ main = "sweep" => overdue
                    /\ main = "returned" => verdict # "none"
                    /\ main = "abort" => verdict = "interrupted"
                    /\ verdict # "none" => main \in {"returned", "abort", "crashed"}
                    /\ verdict # "none" /\ main # "returned" => verdict = "interrupted"
<1>3. Place
  BY DEF ClosingLoop
<1>4. Place'
  <2>1. CASE UNCHANGED <<main, cursor, overdue, verdict>>
    BY <1>3, <2>1
  <2>2. CASE Start \/ LeaveWait
    BY <1>3, <2>2 DEF Start, LeaveWait
  <2>3. CASE JoinAll \/ LoopBroken
    BY <1>3, <2>3 DEF JoinAll, LoopBroken
  <2>4. CASE Abort
    BY <1>3, <2>4 DEF Abort
  <2>5. CASE Look \/ MarkSeen \/ Settle
    BY <1>3, <2>5 DEF Look, MarkSeen, Settle, Advance, ClosingLoop
  <2>6. CASE Return
    BY <1>3, <2>6 DEF Return
  <2>7. CASE DeadlinePasses
    BY <1>3, <2>7 DEF DeadlinePasses
  <2> QED
    BY <2>1, <2>2, <2>3, <2>4, <2>5, <2>6, <2>7
    DEF Next, Claimer, ClaimNext, ClaimerExit, CountIn, StartWorker, RefuseTask,
        TaskReturns, WriteStatus, TaskFails, TaskKilled, CountOut, Worker, Reserve, Calling,
        Delegate, WorkerEnds, Reaper, ReaperExit, ReaperSpawn, Run, StopWaiting, Interrupt
<1>5. ASSUME seen' # NoTask
      PROVE  main' \in {"sweep", "abort"} /\ cursor' <= Len(order') /\ seen' = order'[cursor']
  <2>1. /\ cursor \in 1..(Len(order) + 1)
        /\ seen # NoTask => /\ main \in {"sweep", "abort"}
                            /\ cursor <= Len(order)
                            /\ seen = order[cursor]
    BY DEF ClosingLoop
  <2>2. UNCHANGED <<main, cursor>> /\ (seen' = seen \/ (Look /\ seen' = order[cursor] /\ Running))
    BY <1>5, <2>1
    DEF Next, Claimer, ClaimNext, ClaimerExit, CountIn, StartWorker, RefuseTask,
      TaskReturns, WriteStatus, TaskFails, TaskKilled, CountOut, Worker, Reserve, Calling, Delegate,
      WorkerEnds, Reaper, ReaperExit, ReaperSpawn, Run, Start, StopWaiting, LeaveWait,
      JoinAll, Look, MarkSeen, Advance, Settle, LoopBroken, Return, Interrupt, Abort,
      DeadlinePasses
  <2>3. cursor \in 1..Len(order) /\ seen' = order[cursor] /\ main \in {"sweep", "abort"}
    BY <1>5, <2>1, <2>2, StepKeepsOrder DEF Look, Running
  <2> QED
    BY <2>2, <2>3, StepKeepsOrder
<1> QED
  BY <1>1, <1>2, <1>4, <1>5 DEF ClosingLoop

(* The part of the tasks the sweep has passed is its own doing, and stays.  *)
LEMMA StepKeepsSweep ==
    TypeInv /\ OwnerInv /\ Reporting /\ ClosingLoop /\ SweepSticks /\ Next => SweepSticks'
<1> SUFFICES ASSUME TypeInv, OwnerInv, Reporting, ClosingLoop, SweepSticks, Next,
                    main' \in {"sweep", "returned"}, overdue', verdict' # "interrupted",
                    NEW i \in 1..(cursor' - 1), NEW t, t = order'[i]
             PROVE  Swept(t)'
  BY DEF SweepSticks, Swept, Parked, Children
<1> USE DEF queueVars, threadVars, callVars, mainVars
<1>1. cursor \in 1..(Len(order) + 1) /\ Len(order) \in Nat
  BY StepKeepsOrder DEF ClosingLoop
<1>2. ASSUME main \in {"sweep", "returned"}, verdict # "interrupted", overdue, i < cursor
      PROVE  Swept(t)'
  <2>1. i \in 1..(cursor - 1) /\ i \in 1..Len(order)
    BY <1>1, <1>2
  <2>2. t = order[i] /\ t \in TaskId
    BY <2>1, StepKeepsOrder
  <2>3. Swept(t)
    BY <1>2, <2>1, <2>2 DEF SweepSticks, Swept, Parked
  <2> QED
    BY <1>2, <2>2, <2>3, SweptStays
<1>3. CASE (Look \/ MarkSeen) /\ cursor' # cursor
  <2>1. /\ main = "sweep" /\ cursor' = cursor + 1 /\ cursor <= Len(order) /\ overdue
        /\ verdict = verdict' /\ order' = order
    BY <1>3 DEF Look, MarkSeen, Running, Advance, ClosingLoop
  <2>4. \/ MarkSeen /\ seen = order[cursor]
        \/ Look /\ ~Unfinished(order[cursor]) /\ status' = status
    BY <1>3 DEF Look, MarkSeen, ClosingLoop
  <2>2. CASE i < cursor
    BY <1>2, <2>1, <2>2
  <2>3. CASE i = cursor
    <3>1. t = order[i] /\ t \in TaskId /\ status[t] # "absent"
      BY <1>1, <2>1, <2>3, StepKeepsOrder DEF ClosingLoop
    <3>2. status'[t] \in Terminal
      BY <2>1, <2>3, <2>4, <3>1
      DEF MarkSeen, Mark, Unfinished, TypeInv, TypeOK, Status, Terminal
    <3> QED
      BY <3>2 DEF Swept
  <2> QED
    BY <1>1, <2>1, <2>2, <2>3
<1>4. CASE JoinAll
  BY <1>4 DEF JoinAll, ClosingLoop
<1>5. CASE Return
  <2>1. main = "sweep" /\ verdict = "none" /\ cursor' = cursor /\ overdue
    BY <1>5 DEF Return, ClosingLoop
  <2> QED
    BY <1>1, <1>2, <2>1
<1>6. CASE Abort
  BY <1>6 DEF Abort
<1>7. CASE main' = main /\ verdict' = verdict /\ overdue' = overdue /\ cursor' = cursor
  BY <1>1, <1>2, <1>7
<1>8. CASE DeadlinePasses
  BY <1>8 DEF DeadlinePasses, ClosingLoop
<1>10. CASE (Look \/ MarkSeen) /\ cursor' = cursor
  BY <1>7, <1>10 DEF Look, MarkSeen, Advance, ClosingLoop
<1>9. CASE Start \/ LeaveWait \/ LoopBroken \/ Settle
  BY <1>9 DEF Start, LeaveWait, LoopBroken, Settle, Advance
<1> QED
  BY <1>3, <1>4, <1>5, <1>6, <1>7, <1>8, <1>9, <1>10
  DEF Next, Claimer, ClaimNext, ClaimerExit, CountIn, StartWorker, RefuseTask, TaskReturns,
      WriteStatus, TaskFails, TaskKilled, CountOut, Worker, Reserve, Calling, Delegate, WorkerEnds,
      Reaper, ReaperExit, ReaperSpawn, Run, StopWaiting, Interrupt

(* The queue is filled from a plan.                                         *)
Loaded == \E plan : GoodPlan(plan) /\ order = OrderOf(plan) /\ status = StatusOf(plan)

LEMMA InitFateInv == PoolInit /\ main \in {"new", "start"} /\ Loaded => FateInv
<1> SUFFICES ASSUME PoolInit, main \in {"new", "start"}, NEW plan, GoodPlan(plan),
                    order = OrderOf(plan), status = StatusOf(plan)
             PROVE  FateInv
  BY DEF Loaded
<1>1. \A t \in TaskId : status[t] # "claimed"
  BY DEF StatusOf
<1>2. Len(plan) \in Nat /\ \A i \in 1..Len(plan) : i \in 1..MaxTasks
  BY QueueAssumption DEF GoodPlan, QueueAssumption
<1>3. Len(order) = Len(plan) /\ \A i \in 1..Len(order) : order[i] = <<i>> /\ <<i>> \in Ids(plan)
  BY <1>2 DEF OrderOf, Ids
<1>4. \A i \in 1..Len(order) : status[order[i]] # "absent"
  BY <1>2, <1>3, PlannedId DEF StatusOf
<1>5. /\ \A c \in Claimers : pc[c] = "none"
      /\ \A t \in TaskId : worker[t] = "none" /\ adding[t] = {}
      /\ cursor = 1 /\ verdict = "none" /\ seen = NoTask
  BY DEF PoolInit
<1>6. ~reaper /\ ~overdue
  BY Zenon DEF PoolInit
<1> QED
  BY <1>1, <1>2, <1>3, <1>4, <1>5, <1>6
  DEF FateInv, StartsFromNothing, Accounted, Reporting, ClosingLoop, SweepSticks

PoolSafe == TypeInv /\ OwnerInv /\ FateInv

LEMMA InitPoolSafe == Init => PoolSafe
  BY InitTypeInv, InitOwnerInv, InitFateInv, SanitizeIsGood DEF PoolSafe, Init, QueueInit, Loaded

LEMMA NextPoolSafe == PoolSafe /\ [Next]_vars => PoolSafe'
<1>1. CASE UNCHANGED vars
  BY <1>1, NextTypeInv, NextOwnerInv
  DEF PoolSafe, FateInv, StartsFromNothing, Accounted, Reporting, Parked, Children, Holds,
      ClosingLoop, SweepSticks, vars, queueVars, threadVars, callVars, mainVars
<1>2. CASE Next
  BY <1>2, NextTypeInv, NextOwnerInv, StepKeepsStart, StepKeepsAccounts, StepKeepsReporting,
     StepKeepsLoop, StepKeepsSweep DEF PoolSafe, FateInv
<1> QED
  BY <1>1, <1>2

LEMMA NextNoKills ==
    ASSUME ~CanInterrupt, TypeInv, \A t \in TaskId : worker[t] # "killed", [Next]_vars
    PROVE  \A t \in TaskId : worker'[t] # "killed"
BY DEF TypeInv, TypeOK, Next, Claimer, ClaimNext, ClaimerExit, CountIn, StartWorker,
    RefuseTask, TaskReturns, WriteStatus, TaskFails, TaskKilled, CountOut, Worker, Reserve, Calling,
    Delegate, WorkerEnds, Reaper, ReaperExit, ReaperSpawn, Run, Start, StopWaiting,
    LeaveWait, JoinAll, Look, MarkSeen, Advance, Settle, LoopBroken, Return, Interrupt,
    Abort, DeadlinePasses, vars, threadVars, callVars

(* With a deadline or without: a claimed task has a claimer or subtasks to  *)
(* be resolved against, as long as Ctrl+C cannot kill the claimer's thread. *)
THEOREM ClaimedIsAccounted == ~CanInterrupt /\ Spec => []NoOrphan
<1> DEFINE NoKills == ~CanInterrupt /\ \A t \in TaskId : worker[t] # "killed"
<1>1. ~CanInterrupt /\ Init => PoolSafe /\ NoKills
  BY InitPoolSafe DEF Init, PoolInit
<1>2. (PoolSafe /\ NoKills) /\ [Next]_vars => (PoolSafe /\ NoKills)'
  BY NextPoolSafe, NextNoKills DEF PoolSafe
<1>3. PoolSafe /\ NoKills => NoOrphan
  BY DEF PoolSafe, FateInv, Accounted, Parked, NoOrphan
<1> QED
  BY <1>1, <1>2, <1>3, PTL DEF Spec

(* What the sweep after a timeout has settled stays settled, whenever the   *)
(* claimers that are still out report, but for a parent one of them parks.  *)
THEOREM SweptIsFinal == Spec => []SweepSticks
<1>1. PoolSafe => SweepSticks
  BY DEF PoolSafe, FateInv
<1> QED
  BY <1>1, InitPoolSafe, NextPoolSafe, PTL DEF Spec

-----------------------------------------------------------------------------
(* The whole run.                                                           *)

(* As long as there is no plan, there is no task and the pool has not been  *)
(* started.                                                                 *)
PlanningFirst == phase = "planning" => PoolInit /\ main = "new" /\ status = Nothing

PoolInv == PoolSafe /\ PlanningFirst

(* A worker is at it only for a claimer, or after the deadline.             *)
WorkersHaveClaimers ==
    \A t \in TaskId : worker[t] = "running" =>
        overdue \/ \E c \in Claimers : pc[c] = "work" /\ job[c] = t

(* The joins have ended in time, as far as run() has come: then there are   *)
(* no claimers, and no reaper that could start one.                         *)
InTime == main = "settle" \/ (main = "returned" /\ verdict # "interrupted" /\ ~overdue)

AllEnded ==
    /\ main = "sweep" => overdue
    /\ InTime => ~overdue /\ ~reaper /\ \A c \in Claimers : pc[c] = "none"

ThreadInv == WorkersHaveClaimers /\ AllEnded

(* What has been told is so, while it matters: a call that was given up may *)
(* still add a task that has not been told.                                 *)
Agrees == \A t \in TaskId : told[t] # "absent" => told[t] = status[t]

ToldIsSo ==
    /\ told \in [TaskId -> Status]
    /\ phase = "synthesis" => main = "returned"
    /\ phase = "synthesis" /\ InTime => Agrees
    /\ phase = "over" /\ told # Nothing => main = "returned" /\ (InTime => told = outcome.tasks)
    /\ phase \in {"planning", "pool"} => told = Nothing

-----------------------------------------------------------------------------
(* An unstarted pool does nothing.                                          *)
LEMMA UnstartedIsQuiet == PoolInit /\ main = "new" => ~Next
<1> SUFFICES ASSUME PoolInit, main = "new", Next PROVE FALSE
  OBVIOUS
<1>1. \A c \in Claimers : pc[c] = "none"
  BY DEF PoolInit
<1>2. (\A t \in TaskId : worker[t] = "none" /\ adding[t] = {}) /\ seen = NoTask
  BY DEF PoolInit
<1>3. ~reaper
  BY Zenon DEF PoolInit
<1> QED
  BY <1>1, <1>2, <1>3
  DEF Next, Claimer, ClaimNext, ClaimerExit, CountIn, StartWorker, RefuseTask, TaskReturns,
      WriteStatus, TaskFails, TaskKilled, CountOut, Worker, Reserve, Calling, Delegate, WorkerEnds,
      Reaper, ReaperExit, ReaperSpawn, Run, Start, StopWaiting, LeaveWait, JoinAll, Look,
      MarkSeen, Advance, Settle, LoopBroken, Return, Interrupt, Abort, DeadlinePasses

(* The plans a run is launched with are good: what can be read of a reply,  *)
(* and the goal as one task.                                                *)
LEMMA LaunchedIsGood ==
    /\ \A raw \in RawPlans : \A n \in 1..Len(raw) :
          Len(Usable(Readable(raw, n))) # 0 => GoodPlan(Sanitize(Readable(raw, n)))
    /\ GoodPlan(<<{}>>)
<1>1. MaxTasks \in Nat \ {0}
  BY QueueAssumption DEF QueueAssumption
<1>2. ASSUME NEW raw \in RawPlans, NEW n \in 1..Len(raw), Len(Usable(Readable(raw, n))) # 0
      PROVE  GoodPlan(Sanitize(Readable(raw, n)))
  <2> DEFINE read == Readable(raw, n)
  <2>1. Len(Usable(read)) \in Nat \ {0}
    BY <1>2, RunAssumption DEF RunAssumption
  <2> HIDE DEF read
  <2>2. Kept(read) \in 1..MaxTasks
    BY <1>1, <2>1 DEF Kept
  <2>3. Len(Sanitize(read)) = Kept(read)
    BY <2>2 DEF Sanitize
  <2>4. GoodPlan(Sanitize(read))
    BY <1>1, <2>2, <2>3 DEF GoodPlan, Sanitize
  <2> QED
    BY <2>4 DEF read
<1>3. GoodPlan(<<{}>>)
  <2>1. Len(<<{}>>) = 1 /\ <<{}>>[1] = {}
    OBVIOUS
  <2> QED
    BY <1>1, <2>1 DEF GoodPlan
<1> QED
  BY <1>2, <1>3

(* What a step of the coordinator does to the pool.                         *)
LEMMA CoordinatorSteps ==
    ASSUME Planning \/ Closing
    PROVE  \/ UNCHANGED vars /\ phase' # "pool" /\ (phase' = "planning" => phase = "planning")
           \/ UNCHANGED vars /\ phase' = phase /\ phase = "pool"
           \/ phase = "planning" /\ \E plan : GoodPlan(plan) /\ Launch(plan)
  BY LaunchedIsGood
  DEF Planning, Closing, Planned, Unparseable, FallBack, PlanFails, StopRecorder,
      RecorderStays, Report, Escapes, Synthesized, Finish

(* The launch fills the queue of a pool that has not been started.          *)
LEMMA LaunchKeeps ==
    ASSUME NEW plan, GoodPlan(plan), Launch(plan), PoolInv, phase = "planning"
    PROVE  PoolInv'
<1>1. PoolInit /\ main = "new"
  BY DEF PoolInv, PlanningFirst
<1>2. UNCHANGED <<pc, job, worker, delegated, adding, inflight, cursor, span, seen, verdict,
                  reaper, stopped, overdue, closed>>
  BY DEF Launch, threadVars, callVars
<1>6. seen = NoTask /\ NoTask \notin TaskId
  BY <1>1, PoolAssumption DEF PoolInit, PoolAssumption
<1>3. TypeInv'
  BY <1>2, <1>6, PlanTypes DEF PoolInv, PoolSafe, TypeInv, TypeOK, Reserved, SeenIsTask, Launch
<1>4. OwnerInv'
  <2>1. \A c \in Claimers : ~Holds(c)
    BY <1>1 DEF PoolInit, Holds
  <2>2. (OneOwner /\ HeldIsTaken /\ SettlesAlone)'
    BY <1>2, <2>1 DEF OneOwner, HeldIsTaken, SettlesAlone, Holds, Launch
  <2>3. FreshIds'
    BY SubtaskIsNotPlanned DEF FreshIds, StatusOf, Launch
  <2> QED
    BY <2>2, <2>3 DEF OwnerInv
<1>5. FateInv'
  <2>1. PoolInit' /\ main' = "start" /\ Loaded'
    BY <1>1, <1>2 DEF Launch, PoolInit, Loaded
  <2>2. (PoolInit /\ main \in {"new", "start"} /\ Loaded => FateInv)'
    BY InitFateInv, PTL
  <2> QED
    BY <2>1, <2>2
<1> QED
  BY <1>3, <1>4, <1>5 DEF PoolInv, PoolSafe, PlanningFirst, Launch

LEMMA InitPoolInv == CoordInit => PoolInv
<1> SUFFICES ASSUME CoordInit PROVE PoolInv
  OBVIOUS
<1>1. GoodPlan(<<>>)
  BY QueueAssumption DEF GoodPlan, QueueAssumption
<1>2. /\ order \in Seq(TaskId) /\ status \in [TaskId -> Status]
      /\ depends \in [TaskId -> SUBSET TaskId] /\ closed = FALSE
  BY <1>1, PlanTypes DEF CoordInit, QueueInit
<1>3. PoolInit /\ main = "new" /\ status = StatusOf(<<>>)
  BY DEF CoordInit, QueueInit
<1>4. status = Nothing
  BY <1>3 DEF StatusOf, Ids, Nothing
<1>5. FateInv
  BY <1>1, <1>3, InitFateInv DEF CoordInit, QueueInit, Loaded
<1>6. SeenIsTask
  BY <1>3, PoolInitTypes, PoolAssumption DEF SeenIsTask, PoolAssumption
<1> QED
  BY <1>2, <1>3, <1>4, <1>5, <1>6, PoolInitTypes, PoolInitOwnerInv
  DEF PoolInv, PoolSafe, PlanningFirst, TypeInv, TypeOK

LEMMA NextPoolInv == PoolInv /\ [RunNext]_allVars => PoolInv'
<1> SUFFICES ASSUME PoolInv, [RunNext]_allVars PROVE PoolInv'
  OBVIOUS
<1>1. ASSUME UNCHANGED vars, phase' = "planning" => phase = "planning" PROVE PoolInv'
  BY <1>1, NextPoolSafe
  DEF PoolInv, PlanningFirst, PoolInit, vars, queueVars, threadVars, callVars, mainVars
<1>2. CASE Planning \/ Closing
  BY <1>1, <1>2, CoordinatorSteps, LaunchKeeps
<1>3. CASE Next /\ UNCHANGED coordVars
  <2>1. phase # "planning"
    BY <1>3, UnstartedIsQuiet DEF PoolInv, PlanningFirst
  <2> QED
    BY <1>3, <2>1, NextPoolSafe DEF PoolInv, PlanningFirst, coordVars
<1>4. CASE UNCHANGED allVars
  BY <1>1, <1>4 DEF allVars, coordVars
<1> QED
  BY <1>2, <1>3, <1>4 DEF RunNext

(* No task is held by two claimers, however the run is planned and ended.   *)
THEOREM RunSingleOwner == RunSpec => []OneOwner
<1>1. PoolInv => OneOwner
  BY DEF PoolInv, PoolSafe, OwnerInv
<1> QED
  BY <1>1, InitPoolInv, NextPoolInv, PTL DEF RunSpec

(* Nor is a result taken back in the whole run, but by a loop that had      *)
(* looked at the task before.                                               *)
THEOREM RunDoneStays == RunSpec => DoneIsFinal
<1> DEFINE Keeps == KeepsDone
<1>1. PoolInv /\ [RunNext]_allVars => [Keeps]_vars
  <2> SUFFICES ASSUME PoolInv, [RunNext]_allVars PROVE [Keeps]_vars
    OBVIOUS
  <2>1. [Next]_vars => [Keeps]_vars
    BY StepKeepsDone DEF PoolInv, PoolSafe
  <2>2. phase = "planning" => Keeps
    BY DEF PoolInv, PlanningFirst, Nothing, KeepsDone
  <2>3. [Next]_vars \/ phase = "planning"
    BY CoordinatorSteps DEF RunNext, allVars
  <2> QED
    BY <2>1, <2>2, <2>3
<1> QED
  BY <1>1, InitPoolInv, NextPoolInv, PTL DEF RunSpec, DoneIsFinal, KeepsDone

(* Nor is a claimed task forgotten, unless Ctrl+C kills its claimer.        *)
THEOREM RunClaimedIsAccounted == ~CanInterrupt /\ RunSpec => []NoOrphan
<1> DEFINE NoKills == ~CanInterrupt /\ \A t \in TaskId : worker[t] # "killed"
<1>1. ~CanInterrupt /\ CoordInit => PoolInv /\ NoKills
  BY InitPoolInv DEF CoordInit, PoolInit
<1>2. (PoolInv /\ NoKills) /\ [RunNext]_allVars => (PoolInv /\ NoKills)'
  <2> SUFFICES ASSUME PoolInv, NoKills, [RunNext]_allVars PROVE NoKills'
    BY NextPoolInv
  <2>1. CASE [Next]_vars
    BY <2>1, NextNoKills DEF PoolInv, PoolSafe
  <2>2. CASE \E plan : Launch(plan)
    BY <2>2 DEF Launch, threadVars, callVars
  <2> QED
    BY <2>1, <2>2, CoordinatorSteps DEF RunNext, allVars
<1>3. PoolInv /\ NoKills => NoOrphan
  BY DEF PoolInv, PoolSafe, FateInv, Accounted, Parked, NoOrphan
<1> QED
  BY <1>1, <1>2, <1>3, PTL DEF RunSpec

(* What the sweep has settled stays settled while the report is written,    *)
(* but for a parent that a late claimer parks.                              *)
THEOREM RunSweptIsFinal == RunSpec => []SweepSticks
<1>1. PoolInv => SweepSticks
  BY DEF PoolInv, PoolSafe, FateInv
<1> QED
  BY <1>1, InitPoolInv, NextPoolInv, PTL DEF RunSpec

-----------------------------------------------------------------------------
LEMMA InitThreadInv == CoordInit => ThreadInv
<1> SUFFICES ASSUME CoordInit PROVE ThreadInv
  OBVIOUS
<1>1. /\ \A c \in Claimers : pc[c] = "none"
      /\ \A t \in TaskId : worker[t] = "none"
      /\ main = "new"
  BY DEF CoordInit, PoolInit
<1>2. ~reaper
  BY Zenon DEF CoordInit, PoolInit
<1> QED
  BY <1>1, <1>2 DEF ThreadInv, WorkersHaveClaimers, AllEnded, InTime

(* Each step of the pool keeps what is said of its threads.                 *)
LEMMA NextThreadInv == PoolInv /\ ThreadInv /\ Next => ThreadInv'
<1> SUFFICES ASSUME PoolInv, ThreadInv, Next PROVE ThreadInv'
  OBVIOUS
<1> USE DEF ThreadInv, WorkersHaveClaimers, AllEnded, InTime, queueVars, threadVars,
    callVars, mainVars
<1>0. /\ pc \in [Claimers -> {"none", "claim", "claimed", "admit", "work", "park", "finish", "out", "gone"}]
      /\ job \in [Claimers -> TaskId \cup {NoTask}]
      /\ worker \in [TaskId -> {"none", "running", "returned", "raised", "killed"}]
  BY DEF PoolInv, PoolSafe, TypeInv, TypeOK
<1>1. ASSUME NEW c \in Claimers, ClaimNext(c) PROVE ThreadInv'
  BY <1>0, <1>1 DEF ClaimNext, Claim, Move
<1>2. ASSUME NEW c \in Claimers, ClaimerExit(c) PROVE ThreadInv'
  BY <1>0, <1>2 DEF ClaimerExit, Move
<1>3. ASSUME NEW c \in Claimers, CountIn(c) \/ CountOut(c) \/ RefuseTask(c) PROVE ThreadInv'
  BY <1>0, <1>3 DEF CountIn, CountOut, RefuseTask, Move
<1>4. ASSUME NEW c \in Claimers, StartWorker(c) PROVE ThreadInv'
  BY <1>0, <1>4 DEF StartWorker, Move
<1>5. ASSUME NEW c \in Claimers,
             TaskReturns(c) \/ WriteStatus(c) \/ TaskFails(c) \/ TaskKilled(c)
      PROVE  ThreadInv'
  BY <1>0, <1>5 DEF TaskReturns, WriteStatus, TaskFails, TaskKilled, Move
<1>6. ASSUME NEW t \in TaskId, Worker(t) PROVE ThreadInv'
  BY <1>0, <1>6 DEF Worker, Reserve, Calling, Delegate, WorkerEnds
<1>7. ASSUME NEW c \in Claimers, ReaperSpawn(c) PROVE ThreadInv'
  BY <1>0, <1>7 DEF ReaperSpawn, Move
<1>8. CASE ReaperExit
  BY <1>8 DEF ReaperExit
<1>9. CASE Start
  BY <1>9 DEF Start, PoolInv, PoolSafe, FateInv, StartsFromNothing
<1>10. CASE LeaveWait
  BY <1>10 DEF LeaveWait
<1>11. CASE JoinAll
  BY <1>11 DEF JoinAll
<1>12. CASE Abort
  BY <1>12 DEF Abort
<1>13. CASE Look \/ MarkSeen \/ Settle
  BY <1>13 DEF Look, MarkSeen, Advance, Settle
<1>14. CASE LoopBroken
  BY <1>14 DEF LoopBroken
<1>15. CASE Return
  BY <1>15 DEF Return, PoolInv, PoolSafe, FateInv, ClosingLoop
<1>16. CASE DeadlinePasses
  BY <1>16 DEF DeadlinePasses
<1> QED
  BY <1>1, <1>2, <1>3, <1>4, <1>5, <1>6, <1>7, <1>8, <1>9, <1>10, <1>11, <1>12,
     <1>13, <1>14, <1>15, <1>16
  DEF Next, Claimer, Reaper, Run, StopWaiting, Interrupt

(* When the run has returned in time, no step changes a task's status.      *)
LEMMA NothingUnderWay ==
    ASSUME PoolInv, ThreadInv, Next, main = "returned"
    PROVE  /\ main' = "returned"
           /\ InTime' => InTime /\ \A t \in TaskId : status[t] # "absent" => status'[t] = status[t]
<1> USE DEF queueVars, threadVars, callVars, mainVars
<1>1. main' = "returned" /\ UNCHANGED verdict /\ (overdue => overdue')
  BY DEF Next, Claimer, ClaimNext, ClaimerExit, CountIn, StartWorker, RefuseTask,
      TaskReturns, WriteStatus, TaskFails, TaskKilled, CountOut, Worker, Reserve, Calling, Delegate,
      WorkerEnds, Reaper, ReaperExit, ReaperSpawn, Run, Start, StopWaiting, LeaveWait,
      JoinAll, Look, MarkSeen, Advance, Settle, LoopBroken, Return, Interrupt, Abort,
      DeadlinePasses
<1>2. ASSUME InTime
      PROVE  \A t \in TaskId : status[t] # "absent" => status'[t] = status[t]
  <2>1. ~overdue /\ \A c \in Claimers : pc[c] = "none"
    BY <1>2 DEF ThreadInv, AllEnded
  <2>2. ASSUME NEW s \in TaskId, Delegate(s)
        PROVE  \A t \in TaskId : status[t] # "absent" => status'[t] = status[t]
    BY <2>2, DelegatesFresh DEF Add, PoolInv, PoolSafe, TypeInv, TypeOK
  <2>4. seen = NoTask
    BY DEF PoolInv, PoolSafe, FateInv, ClosingLoop
  <2>3. (\E s \in TaskId : Delegate(s)) \/ UNCHANGED status
    BY <2>1, <2>4
    DEF Next, Claimer, ClaimNext, ClaimerExit, CountIn, StartWorker, RefuseTask,
        TaskReturns, WriteStatus, TaskFails, TaskKilled, CountOut, Worker, Reserve, Calling,
        WorkerEnds, Reaper, ReaperExit, ReaperSpawn, Run, Start, StopWaiting, LeaveWait,
        JoinAll, Look, MarkSeen, Advance, Settle, LoopBroken, Return, Interrupt, Abort,
        DeadlinePasses
  <2> QED
    BY <2>2, <2>3
<1> QED
  BY <1>1, <1>2 DEF InTime

ReportInv == PoolInv /\ ThreadInv /\ ToldIsSo

LEMMA InitReportInv == CoordInit => ReportInv
<1>1. CoordInit => ToldIsSo
  BY DEF CoordInit, ToldIsSo, Nothing, Status
<1> QED
  BY <1>1, InitPoolInv, InitThreadInv DEF ReportInv

LEMMA NextReportInv == ReportInv /\ [RunNext]_allVars => ReportInv'
<1> SUFFICES ASSUME ReportInv, [RunNext]_allVars PROVE ThreadInv' /\ ToldIsSo'
  BY NextPoolInv DEF ReportInv
<1>1. CASE Next /\ UNCHANGED coordVars
  <2>1. ThreadInv'
    BY <1>1, NextThreadInv DEF ReportInv
  <2>2. ToldIsSo'
    BY <1>1, NothingUnderWay DEF ReportInv, ToldIsSo, Agrees, coordVars
  <2> QED
    BY <2>1, <2>2
<1>2. CASE UNCHANGED allVars
  BY <1>2 DEF ReportInv, ThreadInv, WorkersHaveClaimers, AllEnded, InTime, ToldIsSo, Agrees,
      allVars, vars, queueVars, threadVars, callVars, mainVars, coordVars
<1>3. ASSUME Planning \/ Closing, UNCHANGED vars PROVE ThreadInv'
  BY <1>3 DEF ReportInv, ThreadInv, WorkersHaveClaimers, AllEnded, InTime,
              vars, queueVars, threadVars, callVars, mainVars
<1>4. ASSUME NEW plan, Launch(plan), phase = "planning" PROVE ThreadInv' /\ ToldIsSo'
  <2>1. PoolInit
    BY <1>4 DEF ReportInv, PoolInv, PlanningFirst
  <2>2. (\A c \in Claimers : pc[c] = "none") /\ (\A t \in TaskId : worker[t] = "none")
    BY <2>1 DEF PoolInit
  <2>3. ~reaper
    BY <2>1, Zenon DEF PoolInit
  <2> QED
    BY <1>4, <2>2, <2>3 DEF Launch, threadVars, callVars, ReportInv, ThreadInv,
       WorkersHaveClaimers, AllEnded, InTime, ToldIsSo
<1>5. CASE Planning
  <2>1. CASE Planned \/ FallBack
    BY <1>4, <2>1 DEF Planned, FallBack
  <2>2. CASE Unparseable \/ PlanFails
    BY <1>3, <1>5, <2>2 DEF Unparseable, PlanFails, Finish, ReportInv, ToldIsSo
  <2> QED
    BY <1>5, <2>1, <2>2 DEF Planning
<1>6. CASE Closing
  <2>1. UNCHANGED vars
    BY <1>6 DEF Closing, StopRecorder, RecorderStays, Report, Escapes, Synthesized
  <2>2. ThreadInv'
    BY <1>3, <1>6, <2>1
  <2>3. InTime' <=> InTime
    BY <2>1 DEF InTime, vars, mainVars
  <2>7. main' = main /\ status' = status
    BY <2>1 DEF vars, queueVars, mainVars
  <2>4. CASE StopRecorder \/ RecorderStays \/ Escapes
    BY <2>2, <2>3, <2>7, <2>4
    DEF StopRecorder, RecorderStays, Escapes, ReportInv, ToldIsSo, Agrees
  <2>5. CASE Report
    BY <2>2, <2>3, <2>7, <2>5
    DEF Report, Finish, ReportInv, ToldIsSo, Agrees, PoolInv, PoolSafe, TypeInv, TypeOK
  <2>6. CASE Synthesized
    <3>1. outcome'.tasks = [t \in TaskId |-> IF told[t] = "absent" THEN "absent" ELSE status[t]]
      BY <2>6 DEF Synthesized, Finish
    <3>2. InTime => outcome'.tasks = told
      BY <2>6, <3>1 DEF Synthesized, ReportInv, ToldIsSo, Agrees
    <3> QED
      BY <2>2, <2>3, <2>7, <2>6, <3>2 DEF Synthesized, Finish, ReportInv, ToldIsSo
  <2> QED
    BY <1>6, <2>4, <2>5, <2>6 DEF Closing
<1> QED
  BY <1>1, <1>2, <1>5, <1>6 DEF RunNext

(* The report tells what the caller is given, in every run that ends in     *)
(* time, however many tasks were delegated.                                 *)
THEOREM ReportIsFinal == RunSpec => []ReportAgrees
<1>1. ReportInv => ReportAgrees
  BY DEF ReportInv, ToldIsSo, ReportAgrees, InTime
<1> QED
  BY <1>1, InitReportInv, NextReportInv, PTL DEF RunSpec

-----------------------------------------------------------------------------
(* Without a deadline and without Ctrl+C a task that is held is claimed:    *)
(* nobody but its claimer settles it.  And if no call is given up, a worker *)
(* that has returned delegates no more.                                     *)
Calm ==
    /\ ~HasDeadline /\ ~CanInterrupt /\ ~CanGiveUp
    /\ ~overdue /\ main # "abort"
    /\ \A t \in TaskId : status[t] # "interrupted"
    /\ \A c \in Claimers : Holds(c) => status[job[c]] = "claimed"
    /\ \A t \in TaskId : adding[t] # {} => worker[t] = "running"
    /\ \A c \in Claimers : pc[c] = "finish" => Unresolved(job[c]) = {}

(* The board's parent of a task is the queue's.                             *)
ParentOn == [t \in TaskId |-> IF Len(t) = 1 THEN NoTask ELSE SubSeq(t, 1, Len(t) - 1)]

LEMMA ParentHasChild ==
    ASSUME NEW p \in TaskId, NEW t \in TaskId, ParentOn[t] = p, status[t] # "absent"
    PROVE  t \in Children(p)
<1>1. NoTask \notin TaskId
  BY PoolAssumption DEF PoolAssumption
<1>2. Len(t) # 1 /\ p = SubSeq(t, 1, Len(t) - 1)
  BY <1>1 DEF ParentOn
<1>3. t \in Seq(1..Width) /\ Len(t) \in 1..(MaxDepth + 1) /\ MaxDepth \in Nat
  BY IdIsSeq, QueueAssumption DEF QueueAssumption
<1>4. Len(p) = Len(t) - 1
  <2>1. \A i \in 1..Len(t) : t[i] \in 1..Width
    BY <1>3, ElementOfSeq
  <2> DEFINE n == Len(t) - 1
  <2>2. n \in Nat \ {0} /\ \A i \in 1..n : t[i] \in 1..Width
    BY <1>2, <1>3, <2>1
  <2>3. p = SubSeq(t, 1, n)
    BY <1>2
  <2> HIDE DEF n
  <2>4. Len(SubSeq(t, 1, n)) = IF 1 <= n THEN n - 1 + 1 ELSE 0
    BY <2>2, SubSeqProperties
  <2>5. Len(p) = n
    BY <2>2, <2>3, <2>4
  <2> QED
    BY <2>5 DEF n
<1> QED
  BY <1>2, <1>3, <1>4 DEF Children

LEMMA SubtaskHasParent ==
    ASSUME NEW p \in TaskId, NEW k \in 1..MaxSubtasks, Append(p, k) \in TaskId
    PROVE  ParentOn[Append(p, k)] = p
<1>1. MaxSubtasks \in Nat /\ MaxDepth \in Nat /\ MaxTasks \in Nat
  BY QueueAssumption DEF QueueAssumption
<1>2. p \in Seq(1..Width) /\ Len(p) \in 1..(MaxDepth + 1) /\ k \in 1..Width
  BY <1>1, IdIsSeq DEF Width
<1> DEFINE s == Append(p, k)
<1>3. s \in Seq(1..Width) /\ Len(s) = Len(p) + 1 /\ \A i \in 1..Len(p) : s[i] = p[i]
  BY <1>2, AppendProperties
<1>4. Len(s) # 1 /\ Len(s) - 1 = Len(p) /\ Len(p) \in Nat
  BY <1>1, <1>2, <1>3
<1> HIDE DEF s
<1>5. SubSeq(s, 1, Len(s) - 1) = p
  <2>1. \A i \in 1..Len(p) : s[i] \in 1..Width
    BY <1>2, <1>3, ElementOfSeq
  <2>2. /\ SubSeq(s, 1, Len(p)) \in Seq(1..Width)
        /\ Len(SubSeq(s, 1, Len(p))) = IF 1 <= Len(p) THEN Len(p) - 1 + 1 ELSE 0
        /\ \A i \in 1..(Len(p) - 1 + 1) : SubSeq(s, 1, Len(p))[i] = s[1 + i - 1]
    BY <1>4, <2>1, SubSeqProperties
  <2>3. Len(SubSeq(s, 1, Len(p))) = Len(p)
    BY <1>4, <2>2
  <2>4. \A i \in 1..Len(p) : SubSeq(s, 1, Len(p))[i] = p[i]
    BY <1>3, <1>4, <2>2
  <2>5. SubSeq(s, 1, Len(p)) = p
    BY <1>2, <2>2, <2>3, <2>4, SeqEqual
  <2> QED
    BY <1>4, <2>5
<1> QED
  BY <1>4, <1>5 DEF ParentOn, s

(* A worker ends when its calls have ended.                                 *)
LEMMA StepKeepsCalls ==
    ASSUME PoolSafe, Calm, Next, NEW t \in TaskId, adding'[t] # {}
    PROVE  worker'[t] = "running"
<1> USE DEF queueVars, threadVars, callVars, mainVars
<1>0. /\ worker \in [TaskId -> {"none", "running", "returned", "raised", "killed"}]
      /\ adding \in [TaskId -> SUBSET (1..MaxSubtasks)]
      /\ adding[t] # {} => worker[t] = "running"
  BY DEF PoolSafe, TypeInv, TypeOK, Calm
<1>1. ASSUME NEW c \in Claimers, StartWorker(c) PROVE worker'[t] = "running"
  BY <1>0, <1>1 DEF StartWorker
<1>2. ASSUME NEW s \in TaskId, Worker(s) PROVE worker'[t] = "running"
  BY <1>0, <1>2 DEF Worker, Reserve, Calling, Delegate, WorkerEnds, Calm
<1>3. CASE UNCHANGED <<worker, adding>>
  BY <1>0, <1>3
<1> QED
  BY <1>1, <1>2, <1>3
  DEF Next, Claimer, ClaimNext, ClaimerExit, CountIn, RefuseTask, TaskReturns, WriteStatus,
      TaskFails, TaskKilled, CountOut, Reaper, ReaperExit, ReaperSpawn, Run, Start,
      StopWaiting, LeaveWait, JoinAll, Look, MarkSeen, Settle, LoopBroken, Return, Interrupt,
      Abort, DeadlinePasses

(* A task that is about to be done gets no subtask, and none of its         *)
(* subtasks is opened again.                                                *)
LEMMA StepKeepsFinish ==
    ASSUME PoolSafe, Calm, Next, NEW d \in Claimers, pc'[d] = "finish"
    PROVE  Unresolved(job[d])' = {}
<1> DEFINE t == job[d]
<1> USE DEF queueVars, threadVars, callVars, mainVars
<1>0. /\ pc \in [Claimers -> {"none", "claim", "claimed", "admit", "work", "park", "finish", "out", "gone"}]
      /\ job \in [Claimers -> TaskId \cup {NoTask}]
      /\ status \in [TaskId -> Status]
  BY DEF PoolSafe, TypeInv, TypeOK
<1>1. \A c \in Claimers : Holds(c) => job[c] \in TaskId /\ status[job[c]] = "claimed"
  BY DEF Calm, PoolSafe, OwnerInv, HeldIsTaken
<1>2. ASSUME NEW p, Unresolved(p) = {},
             \A s \in TaskId : status'[s] \in {"pending", "claimed"} =>
                 status[s] \in {"pending", "claimed"} \/ s \notin Children(p)'
      PROVE  Unresolved(p)' = {}
  BY <1>2 DEF Unresolved, Children
<1>3. ASSUME pc'[d] = pc[d], job'[d] = job[d],
             \A s \in TaskId : status'[s] \in {"pending", "claimed"} =>
                 status[s] \in {"pending", "claimed"}
      PROVE  Unresolved(job[d])' = {}
  BY <1>2, <1>3 DEF Calm
<1>4. ASSUME NEW c \in Claimers, ClaimNext(c) PROVE Unresolved(job[d])' = {}
  <2>1. pc'[d] = pc[d] /\ job'[d] = job[d]
    BY <1>0, <1>4 DEF ClaimNext, Move
  <2>2. \A s \in TaskId : status'[s] \in {"pending", "claimed"} =>
            status[s] \in {"pending", "claimed"}
    BY <1>0, <1>4 DEF ClaimNext, Claim, NextUp, Claimable
  <2> QED
    BY <1>3, <2>1, <2>2
<1>5. ASSUME NEW c \in Claimers, RefuseTask(c) \/ WriteStatus(c) \/ TaskFails(c)
      PROVE  Unresolved(job[d])' = {}
  <2>1. pc'[d] = pc[d] /\ job'[d] = job[d]
    BY <1>0, <1>5 DEF RefuseTask, WriteStatus, TaskFails, Move
  <2>2. \A s \in TaskId : status'[s] \in {"pending", "claimed"} =>
            status[s] \in {"pending", "claimed"}
    BY <1>0, <1>1, <1>5 DEF RefuseTask, WriteStatus, TaskFails, Mark, Holds
  <2> QED
    BY <1>3, <2>1, <2>2
<1>6. ASSUME NEW c \in Claimers, TaskReturns(c) PROVE Unresolved(job[d])' = {}
  <2>1. job' = job /\ status' = status /\ (d # c => pc'[d] = pc[d])
    BY <1>0, <1>6 DEF TaskReturns, Move
  <2>2. CASE d = c
    <3>1. Unresolved(t) = {}
      BY <1>0, <1>6, <2>2 DEF TaskReturns, Move
    <3> QED
      BY <1>2, <2>1, <3>1
  <2> QED
    BY <1>3, <2>1, <2>2
<1>7. ASSUME NEW c \in Claimers,
             \/ ClaimerExit(c) \/ CountIn(c) \/ StartWorker(c) \/ TaskKilled(c)
             \/ CountOut(c) \/ ReaperSpawn(c)
      PROVE  pc'[d] = pc[d] /\ job'[d] = job[d] /\ status' = status
  BY <1>0, <1>7 DEF ClaimerExit, CountIn, StartWorker, TaskKilled, CountOut, ReaperSpawn, Move
<1>8. ASSUME NEW s \in TaskId, Delegate(s) PROVE Unresolved(job[d])' = {}
  <2>1. PICK n \in adding[s] : n \in 1..MaxSubtasks /\ Append(s, n) \in TaskId /\ Add(Append(s, n))
    BY <1>8, DelegatesFresh DEF PoolSafe
  <2> DEFINE new == Append(s, n)
  <2>2. pc' = pc /\ job' = job /\ pc[d] = "finish" /\ t \in TaskId
    BY <1>1, <1>8 DEF Delegate, Holds
  <2>3. worker[s] = "running" /\ worker[t] = "returned"
    BY <2>1, <2>2 DEF Calm, PoolSafe, FateInv, Reporting
  <2>4. ParentOn[new] = s
    BY <2>1, SubtaskHasParent
  <2>6. new \in TaskId /\ status' = [status EXCEPT ![new] = "pending"]
    BY <2>1 DEF Add
  <2> HIDE DEF new
  <2>5. new \notin Children(t)'
    <3>1. SUFFICES ASSUME new \in Children(t)' PROVE FALSE
      OBVIOUS
    <3>2. Len(new) = Len(t) + 1 /\ SubSeq(new, 1, Len(t)) = t
      BY <2>2, <3>1 DEF Children
    <3>3. Len(t) \in Nat /\ Len(t) # 0
      BY <2>2, IdIsSeq, QueueAssumption DEF QueueAssumption
    <3>4. ParentOn[new] = t
      <4>1. Len(new) # 1 /\ Len(new) - 1 = Len(t)
        BY <3>2, <3>3
      <4>2. SubSeq(new, 1, Len(new) - 1) = t
        BY <3>2, <4>1
      <4> QED
        BY <2>6, <4>1, <4>2 DEF ParentOn
    <3> QED
      BY <2>3, <2>4, <3>4
  <2>7. \A u \in TaskId : status'[u] \in {"pending", "claimed"} =>
            status[u] \in {"pending", "claimed"} \/ u \notin Children(t)'
    BY <1>0, <2>5, <2>6
  <2>8. Unresolved(t) = {}
    BY <2>2 DEF Calm
  <2> QED
    BY <1>2, <2>2, <2>7, <2>8
<1>9. ASSUME Settle PROVE Unresolved(job[d])' = {}
  BY <1>9 DEF Settle, PoolSafe, OwnerInv, SettlesAlone
<1>10. ASSUME Start PROVE Unresolved(job[d])' = {}
  BY <1>10 DEF Start
<1>11. ~MarkSeen
  BY DEF Calm, MarkSeen, PoolSafe, FateInv, ClosingLoop
<1>12. ASSUME UNCHANGED <<status, job, pc>> PROVE Unresolved(job[d])' = {}
  BY <1>3, <1>12
<1> QED
  BY <1>3, <1>4, <1>5, <1>6, <1>7, <1>8, <1>9, <1>10, <1>11, <1>12
  DEF Next, Claimer, Worker, Reserve, Calling, WorkerEnds, Reaper, ReaperExit, Run, StopWaiting,
      Interrupt, LeaveWait, JoinAll, Abort, Look, LoopBroken, Return, DeadlinePasses

LEMMA StepKeepsCalm == PoolSafe /\ Calm /\ Next => Calm'
<1> SUFFICES ASSUME PoolSafe, Calm, Next PROVE Calm'
  OBVIOUS
<1> USE DEF queueVars, threadVars, callVars, mainVars
<1>0. /\ pc \in [Claimers -> {"none", "claim", "claimed", "admit", "work", "park", "finish", "out", "gone"}]
      /\ job \in [Claimers -> TaskId \cup {NoTask}]
      /\ status \in [TaskId -> Status]
  BY DEF PoolSafe, TypeInv, TypeOK
<1>1. \A c \in Claimers : Holds(c) => job[c] \in TaskId /\ status[job[c]] = "claimed"
  BY DEF Calm, PoolSafe, OwnerInv, HeldIsTaken
<1>2. ~overdue' /\ main' # "abort"
  BY DEF Calm, Next, Claimer, ClaimNext, ClaimerExit, CountIn, StartWorker, RefuseTask,
      TaskReturns, WriteStatus, TaskFails, TaskKilled, CountOut, Worker, Reserve, Calling, Delegate,
      WorkerEnds, Reaper, ReaperExit, ReaperSpawn, Run, Start, StopWaiting, LeaveWait,
      JoinAll, Look, MarkSeen, Advance, Settle, LoopBroken, Return, Interrupt, Abort,
      DeadlinePasses
<1> DEFINE Goal == /\ \A t \in TaskId : status'[t] # "interrupted"
                   /\ \A c \in Claimers : Holds(c)' => status'[job'[c]] = "claimed"
<1>3. ASSUME UNCHANGED <<status, job>>, \A c \in Claimers : Holds(c)' => Holds(c) PROVE Goal
  BY <1>1, <1>3 DEF Calm
<1>4. ASSUME NEW c \in Claimers, ClaimNext(c) PROVE Goal
  <2>1. PICK t \in TaskId : Claim(t) /\ job' = [job EXCEPT ![c] = t]
    BY <1>4 DEF ClaimNext
  <2>2. status' = [status EXCEPT ![t] = "claimed"] /\ pc' = [pc EXCEPT ![c] = "claimed"]
    BY <1>4, <2>1 DEF Claim, ClaimNext, Move
  <2>3. ASSUME NEW d \in Claimers, Holds(d)' PROVE status'[job'[d]] = "claimed"
    <3>1. CASE d = c
      BY <1>0, <2>1, <2>2, <3>1
    <3>2. CASE d # c
      <4>1. job'[d] = job[d] /\ Holds(d)
        BY <1>0, <2>1, <2>2, <2>3, <3>2 DEF Holds
      <4> QED
        BY <1>0, <1>1, <2>2, <4>1
    <3> QED
      BY <3>1, <3>2
  <2> QED
    BY <1>0, <2>2, <2>3 DEF Calm
<1>5. ASSUME NEW c \in Claimers, RefuseTask(c) \/ WriteStatus(c) \/ TaskFails(c) PROVE Goal
  <2>1. /\ Holds(c) /\ job' = job
        /\ \A d \in Claimers : Holds(d)' => d # c /\ Holds(d)
        /\ \A t \in TaskId : t # job[c] => status'[t] = status[t]
        /\ \A t \in TaskId : status'[t] = status[t] \/ status'[t] \in {"claimed", "done", "failed"}
    BY <1>0, <1>5 DEF RefuseTask, WriteStatus, TaskFails, Mark, Move, Holds
  <2>2. \A d \in Claimers : Holds(d)' => job[d] # job[c]
    BY <2>1 DEF PoolSafe, OwnerInv, OneOwner
  <2> QED
    BY <1>1, <2>1, <2>2 DEF Calm
<1>6. ASSUME NEW c \in Claimers,
             \/ ClaimerExit(c) \/ CountIn(c) \/ StartWorker(c) \/ TaskReturns(c)
             \/ TaskKilled(c) \/ CountOut(c) \/ ReaperSpawn(c)
      PROVE  Goal
  <2>1. UNCHANGED <<status, job>> /\ \A d \in Claimers : Holds(d)' => Holds(d)
    BY <1>0, <1>6 DEF ClaimerExit, CountIn, StartWorker, TaskReturns, TaskKilled, CountOut,
                      ReaperSpawn, Move, Holds
  <2> QED
    BY <1>3, <2>1
<1>7. ASSUME NEW t \in TaskId, Worker(t) PROVE Goal
  <2>1. UNCHANGED <<pc, job>>
    BY <1>7 DEF Worker, Reserve, Calling, Delegate, WorkerEnds
  <2>2. \A s \in TaskId : \/ status'[s] = status[s]
                          \/ status[s] = "absent" /\ status'[s] = "pending"
    <3>1. ASSUME Delegate(t)
          PROVE  \E new : status[new] = "absent" /\ status' = [status EXCEPT ![new] = "pending"]
      BY <3>1, DelegatesFresh DEF PoolSafe, Add
    <3>2. Delegate(t) \/ status' = status
      BY <1>7 DEF Worker, Reserve, Calling, WorkerEnds
    <3> QED
      BY <1>0, <3>1, <3>2
  <2> QED
    BY <1>1, <2>1, <2>2 DEF Calm, Holds
<1>8. ASSUME Start PROVE Goal
  BY <1>8 DEF Start, Holds, Calm
<1>9. ASSUME Settle PROVE Goal
  <2>1. \A c \in Claimers : ~Holds(c)'
    BY <1>9 DEF Settle, PoolSafe, OwnerInv, SettlesAlone, Holds
  <2>2. \A t \in TaskId : status'[t] = status[t] \/ status'[t] \in {"done", "failed"}
    BY <1>0, <1>9 DEF Settle, Mark, Resolved
  <2> QED
    BY <2>1, <2>2 DEF Calm
<1>10. ~MarkSeen
  BY DEF Calm, MarkSeen, PoolSafe, FateInv, ClosingLoop, Abort
<1>11. ASSUME UNCHANGED <<status, job, pc>> PROVE Goal
  BY <1>3, <1>11 DEF Holds
<1>12. Goal
  BY <1>4, <1>5, <1>6, <1>7, <1>8, <1>9, <1>10, <1>11
  DEF Next, Claimer, Reaper, ReaperExit, Run, StopWaiting, Interrupt, LeaveWait, JoinAll,
      Abort, Look, LoopBroken, Return, DeadlinePasses
<1>13. \A t \in TaskId : adding'[t] # {} => worker'[t] = "running"
  BY StepKeepsCalls DEF PoolSafe
<1>14. \A c \in Claimers : pc'[c] = "finish" => Unresolved(job[c])' = {}
  BY StepKeepsFinish DEF PoolSafe
<1> QED
  BY <1>2, <1>12, <1>13, <1>14 DEF Calm

(* Every step of the pool is a step of the board, or none.                  *)
LEMMA StepOnBoard ==
    ASSUME PoolSafe, WorkersHaveClaimers, Calm, Next
    PROVE  [Board!Next]_<<status, depends>>
<1> USE DEF queueVars, threadVars, callVars, mainVars
<1>0. status \in [TaskId -> Status] /\ depends \in [TaskId -> SUBSET TaskId]
  BY DEF PoolSafe, TypeInv, TypeOK
<1>1. \A c \in Claimers : Holds(c) => job[c] \in TaskId /\ status[job[c]] = "claimed"
  BY DEF Calm, PoolSafe, OwnerInv, HeldIsTaken
<1>2. \A p \in TaskId : Unresolved(p) = {} => Board!Open(p) = {}
  BY ParentHasChild DEF Unresolved, Board!Open, ParentOn
<1>3. ASSUME NEW t \in TaskId, Board!Take(t) \/ Board!Finish(t) \/ Board!Fail(t) \/ Board!Post(t)
      PROVE  Board!Next
  BY <1>3 DEF Board!Next
<1>4. ASSUME NEW c \in Claimers, ClaimNext(c) PROVE Board!Next
  <2>1. PICK t \in TaskId : Claim(t)
    BY <1>4 DEF ClaimNext
  <2>2. /\ status[t] = "pending" /\ \A d \in depends[t] : status[d] \in Terminal
        /\ status' = [status EXCEPT ![t] = "claimed"] /\ depends' = depends
    BY <2>1 DEF Claim, NextUp, Claimable, Unblocked
  <2>3. \A d \in depends[t] : status[d] \in Board!Settled
    BY <1>0, <2>2 DEF Calm, Terminal, Board!Settled
  <2>4. Board!Take(t)
    BY <2>2, <2>3 DEF Board!Take, Board!Place
  <2> QED
    BY <1>3, <2>4
<1>5. ASSUME NEW c \in Claimers, RefuseTask(c) \/ TaskFails(c) PROVE Board!Next
  <2>1. /\ Holds(c) /\ status' = [status EXCEPT ![job[c]] = "failed"] /\ depends' = depends
    BY <1>5 DEF RefuseTask, TaskFails, Mark, Holds
  <2>2. Board!Fail(job[c])
    BY <1>1, <2>1 DEF Board!Fail, Board!Place
  <2> QED
    BY <1>1, <1>3, <2>1, <2>2
<1>6. ASSUME NEW c \in Claimers, WriteStatus(c)
      PROVE  Board!Next \/ UNCHANGED <<status, depends>>
  <2>1. /\ Holds(c) /\ depends' = depends /\ job[c] \in TaskId /\ status[job[c]] = "claimed"
        /\ status' = [status EXCEPT ![job[c]] = IF pc[c] = "park" THEN "claimed" ELSE "done"]
    BY <1>1, <1>6 DEF WriteStatus, Mark, Holds
  <2>2. CASE pc[c] = "finish"
    <3>1. Unresolved(job[c]) = {}
      BY <2>2 DEF Calm
    <3>2. Board!Finish(job[c])
      BY <1>2, <2>1, <2>2, <3>1 DEF Board!Finish, Board!Place
    <3> QED
      BY <1>3, <2>1, <3>2
  <2>3. CASE pc[c] = "park"
    BY <1>0, <2>1, <2>3
  <2> QED
    BY <1>6, <2>2, <2>3 DEF WriteStatus
<1>7. ASSUME NEW t \in TaskId, Delegate(t) PROVE Board!Next
  <2>1. PICK n \in adding[t] : /\ n \in 1..MaxSubtasks /\ Append(t, n) \in TaskId
                               /\ status[Append(t, n)] = "absent" /\ Add(Append(t, n))
    BY <1>7, DelegatesFresh DEF PoolSafe
  <2> DEFINE new == Append(t, n)
  <2>5. ParentOn[new] = t
    BY <2>1, SubtaskHasParent
  <2>2. status[t] = "claimed"
    BY <1>1, <2>1 DEF WorkersHaveClaimers, Calm, Holds
  <2>3. status' = [status EXCEPT ![new] = "pending"] /\ depends' = depends
    BY <2>1 DEF Add
  <2>6. new \in TaskId /\ status[new] = "absent"
    BY <2>1
  <2> HIDE DEF new
  <2>4. Board!Post(new)
    BY <2>2, <2>3, <2>5, <2>6 DEF Board!Post, Board!Place, ParentOn
  <2> QED
    BY <1>3, <2>4, <2>6
<1>8. ASSUME Settle PROVE Board!Next \/ UNCHANGED <<status, depends>>
  <2> DEFINE t == order[cursor]
  <2>1. t \in TaskId
    <3>1. cursor \in 1..(Len(order) + 1) /\ cursor <= Len(order)
      BY <1>8 DEF Settle, Running, PoolSafe, FateInv, ClosingLoop
    <3> QED
      BY <1>8, <3>1, StepKeepsOrder DEF PoolSafe
  <2>2. status' = [status EXCEPT ![t] = Resolved(t)] /\ depends' = depends
    BY <1>8 DEF Settle, Mark
  <2> HIDE DEF t
  <2>3. CASE Resolved(t) = status[t]
    BY <1>0, <2>2, <2>3
  <2>4. CASE status[t] = "claimed" /\ Resolved(t) = "failed"
    <3>1. Board!Fail(t)
      BY <2>2, <2>4 DEF Board!Fail, Board!Place
    <3> QED
      BY <1>3, <2>1, <3>1
  <2>5. CASE status[t] = "claimed" /\ Resolved(t) = "done"
    <3>1. \A k \in Children(t) : status[k] = "done"
      BY <2>5 DEF Resolved
    <3>2. Board!Finish(t)
      BY <1>2, <2>1, <2>2, <2>5, <3>1 DEF Unresolved, Board!Finish, Board!Place
    <3> QED
      BY <1>3, <2>1, <3>2
  <2> QED
    BY <2>3, <2>4, <2>5 DEF Resolved
<1>9. ~MarkSeen
  BY DEF Calm, MarkSeen, PoolSafe, FateInv, ClosingLoop
<1>10. \/ \E c \in Claimers : ClaimNext(c) \/ RefuseTask(c) \/ TaskFails(c) \/ WriteStatus(c)
       \/ \E t \in TaskId : Delegate(t)
       \/ Settle
       \/ UNCHANGED <<status, depends>>
  BY <1>9 DEF Next, Claimer, ClaimerExit, CountIn, StartWorker, TaskReturns, TaskKilled,
      CountOut, Worker, Reserve, Calling, WorkerEnds, Reaper, ReaperExit, ReaperSpawn, Run, Start,
      StopWaiting, LeaveWait, JoinAll, Abort, Look, LoopBroken, Return, Interrupt, DeadlinePasses
<1> QED
  BY <1>4, <1>5, <1>6, <1>7, <1>8, <1>10

(* A launch puts the plan on the board.                                     *)
LEMMA LaunchOnBoard ==
    ASSUME NEW plan, GoodPlan(plan), Launch(plan), PoolInv, phase = "planning"
    PROVE  Board!Next
<1>1. \A t \in TaskId : status[t] = "absent"
  BY DEF PoolInv, PlanningFirst, Nothing
<1>2. status' \in [TaskId -> {"absent", "pending"}]
  BY DEF Launch, StatusOf
<1>3. depends' \in [TaskId -> SUBSET TaskId]
  BY PlanTypes DEF Launch
<1> QED
  BY <1>1, <1>2, <1>3 DEF Board!Next, Board!Plan

(* What the run promises of its tasks, when it is left to end and no call   *)
(* of delegate_task is given up and runs late: each is                      *)
(* taken once and only when everything it needs is settled, and none is     *)
(* done while a task it delegated is open.  The pool's threads, its queue   *)
(* and the coordinator around it implement that board.                      *)
THEOREM RunImplementsBoard ==
    ~HasDeadline /\ ~CanInterrupt /\ ~CanGiveUp /\ RunSpec => ImplementsBoard
<1> DEFINE I == ReportInv /\ Calm
<1>1. ~HasDeadline /\ ~CanInterrupt /\ ~CanGiveUp /\ CoordInit => I
  <2> SUFFICES ASSUME ~HasDeadline, ~CanInterrupt, ~CanGiveUp, CoordInit PROVE Calm
    BY InitReportInv
  <2>1. ~overdue /\ main # "abort"
    BY Zenon DEF CoordInit, PoolInit
  <2>2. \A t \in TaskId : status[t] # "interrupted"
    BY DEF CoordInit, QueueInit, StatusOf
  <2>3. (\A c \in Claimers : ~Holds(c)) /\ \A t \in TaskId : adding[t] = {}
    BY DEF CoordInit, PoolInit, Holds
  <2> QED
    BY <2>1, <2>2, <2>3 DEF Calm, Holds
<1>2. ASSUME I, [RunNext]_allVars PROVE Calm' /\ [Board!Next]_<<status, depends>>
  <2>1. CASE Next
    BY <1>2, <2>1, StepKeepsCalm, StepOnBoard DEF ReportInv, PoolInv, ThreadInv
  <2>2. CASE UNCHANGED vars
    BY <1>2, <2>2
    DEF Calm, Holds, Unresolved, Children, vars, queueVars, threadVars, callVars, mainVars
  <2>3. ASSUME NEW plan, GoodPlan(plan), Launch(plan), phase = "planning"
        PROVE  Calm' /\ Board!Next
    <3>1. \A t \in TaskId : status'[t] # "interrupted"
      BY <2>3 DEF Launch, StatusOf
    <3>2. (\A c \in Claimers : ~Holds(c)') /\ adding' = adding /\ worker' = worker
      BY <1>2, <2>3 DEF Launch, threadVars, callVars, ReportInv, PoolInv, PlanningFirst,
          PoolInit, Holds
    <3> QED
      BY <1>2, <2>3, <3>1, <3>2, LaunchOnBoard DEF Calm, Launch, ReportInv, Holds
  <2> QED
    BY <1>2, <2>1, <2>2, <2>3, CoordinatorSteps DEF RunNext, allVars
<1>3. I /\ [RunNext]_allVars => I'
  BY <1>2, NextReportInv
<1>4. CoordInit => Board!Init
  BY DEF CoordInit, QueueInit, StatusOf, DependsOf, Ids, Board!Init
<1> QED
  BY <1>1, <1>2, <1>3, <1>4, PTL DEF RunSpec, ImplementsBoard, Board!Spec

=============================================================================
