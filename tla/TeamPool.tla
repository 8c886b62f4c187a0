------------------------------- MODULE TeamPool -------------------------------
(***************************************************************************)
(* One team run's worker pool (_WorkerPool of nbchat/core/team.py): the    *)
(* main thread in run(), the reaper thread, the claimer threads and the    *)
(* private thread each task's worker runs on (_FutureStub).                *)
(*                                                                         *)
(* A step ends where its thread next takes a lock or writes shared state,  *)
(* so every interleaving of the lock regions is a behaviour.  What a       *)
(* worker says is abstracted to how its turn ends; what it delegates is    *)
(* not.                                                                    *)
(***************************************************************************)
EXTENDS TaskQueue, Integers

CONSTANTS
    Claimers,     (* names for claimer threads; bounds how many live at once *)
    MaxWorkers,   (* team_max_workers                                        *)
    MaxTotal,     (* team_max_total_tasks                                    *)
    RawPlans,     (* the plans the planner may emit                          *)
    HasDeadline,  (* team_task_timeout is set (0 means no deadline)          *)
    CanInterrupt, (* run() is on the main thread, where Ctrl+C lands         *)
    CanGiveUp,    (* the executor may give up a delegate_task call: hung     *)
                  (* tools hold its threads, and the call starts later       *)
    NoTask

ASSUME PoolAssumption ==
    /\ MaxWorkers \in Nat \ {0}
    /\ MaxTotal \in Nat
    /\ {HasDeadline, CanInterrupt, CanGiveUp} \subseteq BOOLEAN
    /\ NoTask \notin TaskId
    /\ \A raw \in RawPlans : Len(Usable(raw)) \in Nat \ {0}

VARIABLES
    pc,         (* where each claimer thread is                              *)
    job,        (* the task a claimer holds                                  *)
    worker,     (* how far each task's worker thread is                      *)
    delegated,  (* subtask_count of each task's DelegationContext            *)
    adding,     (* the numbers of each task's subtasks that are on their way *)
                (* to the queue                                              *)
    inflight,   (* _inflight                                                 *)
    reaper,     (* the reaper thread is running                              *)
    stopped,    (* _WorkerPool._stopped                                      *)
    overdue,    (* the clock has passed the run deadline                     *)
    main,       (* where run() is                                            *)
    cursor,     (* its position in the closing loop over the tasks           *)
    span,       (* number of tasks when that loop began                      *)
    seen,       (* the task the loop has found unfinished and will mark      *)
    verdict     (* what run() returned                                       *)

callVars == <<delegated, adding>>
threadVars == <<pc, job, worker, callVars, inflight>>
mainVars == <<main, cursor, span, seen, verdict>>
vars == <<queueVars, threadVars, mainVars, reaper, stopped, overdue>>

-----------------------------------------------------------------------------
(* A pool that has not been started.                                        *)
PoolInit ==
    /\ pc = [c \in Claimers |-> "none"]
    /\ job = [c \in Claimers |-> NoTask]
    /\ worker = [t \in TaskId |-> "none"]
    /\ delegated = [t \in TaskId |-> 0]
    /\ adding = [t \in TaskId |-> {}]
    /\ inflight = 0
    /\ reaper = FALSE /\ stopped = FALSE /\ overdue = FALSE
    /\ cursor = 1
    /\ span = 0
    /\ seen = NoTask
    /\ verdict = "none"

Init ==
    /\ \E raw \in RawPlans : QueueInit(Sanitize(raw))
    /\ PoolInit
    /\ main = "start"

Move(c, at) == pc' = [pc EXCEPT ![c] = at]
Mark(t, s) == status' = [status EXCEPT ![t] = s]

-----------------------------------------------------------------------------
(* The claimer thread: _claim_loop around _execute_one.                     *)

(* queue.claim() hands out a task.  The task is off the queue now, but the  *)
(* pool does not count it until CountIn.                                    *)
ClaimNext(c) ==
    /\ pc[c] = "claim"
    /\ \E t \in TaskId : Claim(t) /\ job' = [job EXCEPT ![c] = t]
    /\ Move(c, "claimed")
    /\ UNCHANGED <<worker, callVars, inflight, mainVars, reaper, stopped, overdue>>

(* queue.join() is true or claim() returns None: the thread ends.           *)
ClaimerExit(c) ==
    /\ \/ pc[c] = "claim" /\ NothingToClaim
       \/ pc[c] = "gone"
    /\ Move(c, "none")
    /\ UNCHANGED <<queueVars, job, worker, callVars, inflight, mainVars,
                   reaper, stopped, overdue>>

CountIn(c) ==
    /\ pc[c] = "claimed"
    /\ inflight' = inflight + 1
    /\ Move(c, "admit")
    /\ UNCHANGED <<queueVars, job, worker, callVars, mainVars, reaper, stopped, overdue>>

(* _execute_one starts the task's worker on its own thread ...              *)
StartWorker(c) ==
    /\ pc[c] = "admit"
    /\ ~overdue
    /\ worker' = [worker EXCEPT ![job[c]] = "running"]
    /\ Move(c, "work")
    /\ UNCHANGED <<queueVars, job, callVars, inflight, mainVars, reaper, stopped, overdue>>

(* ... or fails the task: the deadline has passed, or the worker could not  *)
(* be built.                                                                *)
RefuseTask(c) ==
    /\ pc[c] = "admit"
    /\ Mark(job[c], "failed")
    /\ Move(c, "out")
    /\ UNCHANGED <<order, depends, closed, job, worker, callVars, inflight,
                   mainVars, reaper, stopped, overdue>>

(* Mutant: every task is left to the settle loop.                           *)
TaskReturnsClaimed(c) ==
    /\ pc[c] = "work"
    /\ worker[job[c]] = "returned"
    /\ Move(c, "park")
    /\ UNCHANGED <<queueVars, job, worker, callVars, inflight, mainVars,
                   reaper, stopped, overdue>>

(* _execute_task: the worker returned, and children_pending() is asked ...  *)
TaskReturns(c) ==
    /\ pc[c] = "work"
    /\ worker[job[c]] = "returned"
    /\ Move(c, IF Unresolved(job[c]) # {} THEN "park" ELSE "finish")
    /\ UNCHANGED <<queueVars, job, worker, callVars, inflight, mainVars,
                   reaper, stopped, overdue>>

(* ... and then the status is written, without the queue lock: a task that  *)
(* had unresolved subtasks stays claimed.                                   *)
WriteStatus(c) ==
    /\ pc[c] \in {"park", "finish"}
    /\ Mark(job[c], IF pc[c] = "park" THEN "claimed" ELSE "done")
    /\ Move(c, "out")
    /\ UNCHANGED <<order, depends, closed, job, worker, callVars, inflight,
                   mainVars, reaper, stopped, overdue>>

(* Mutant: the exception is logged and the task is not marked.              *)
TaskFailsUnmarked(c) ==
    /\ pc[c] = "work"
    /\ \/ worker[job[c]] = "raised"
       \/ overdue /\ worker[job[c]] = "running"
    /\ Move(c, "out")
    /\ UNCHANGED <<queueVars, job, worker, callVars, inflight,
                   mainVars, reaper, stopped, overdue>>

(* The worker raised, or the deadline passed with the worker still busy;    *)
(* in the second case the worker thread lives on.                           *)
TaskFails(c) ==
    /\ pc[c] = "work"
    /\ \/ worker[job[c]] = "raised"
       \/ overdue /\ worker[job[c]] = "running"
    /\ Mark(job[c], "failed")
    /\ Move(c, "out")
    /\ UNCHANGED <<order, depends, closed, job, worker, callVars, inflight,
                   mainVars, reaper, stopped, overdue>>

(* KeyboardInterrupt out of the worker: re-raised through the claim loop,   *)
(* it ends this claimer thread and the task keeps its status.               *)
TaskKilled(c) ==
    /\ pc[c] = "work"
    /\ worker[job[c]] = "killed"
    /\ inflight' = inflight - 1
    /\ Move(c, "gone")
    /\ UNCHANGED <<queueVars, job, worker, callVars, mainVars, reaper, stopped, overdue>>

CountOut(c) ==
    /\ pc[c] = "out"
    /\ inflight' = inflight - 1
    /\ Move(c, "claim")
    /\ UNCHANGED <<queueVars, job, worker, callVars, mainVars, reaper, stopped, overdue>>

-----------------------------------------------------------------------------
(* The worker's thread.                                                     *)

(* Whether a call of task t's worker may run: the worker waits for it, or   *)
(* has been told that it was given up.                                      *)
Calling(t) == worker[t] = "running" \/ (CanGiveUp /\ worker[t] # "none")

(* _delegate_subtask up to the end of its lock region: the caps are checked *)
(* and the subtask's number is taken.                                       *)
Reserve(t) ==
    /\ Calling(t)
    /\ CanGiveUp \/ adding[t] = {}
    /\ Depth(t) < MaxDepth
    /\ delegated[t] < MaxSubtasks
    /\ Len(order) < MaxTotal
    /\ delegated' = [delegated EXCEPT ![t] = @ + 1]
    /\ adding' = [adding EXCEPT ![t] = @ \cup {delegated'[t]}]
    /\ UNCHANGED <<queueVars, pc, job, worker, inflight, mainVars, reaper, stopped, overdue>>

(* The rest of it: the subtask enters the queue.                            *)
Delegate(t) ==
    /\ \E n \in adding[t] :
          /\ Add(Append(t, n))
          /\ adding' = [adding EXCEPT ![t] = @ \ {n}]
    /\ UNCHANGED <<pc, job, worker, delegated, inflight, mainVars, reaper, stopped, overdue>>

(* The worker's turn ends: a summary, an exception, or KeyboardInterrupt.   *)
WorkerEnds(t) ==
    /\ worker[t] = "running"
    /\ CanGiveUp \/ adding[t] = {}
    /\ \E how \in {"returned", "raised"} \cup (IF CanInterrupt THEN {"killed"} ELSE {}) :
          worker' = [worker EXCEPT ![t] = how]
    /\ UNCHANGED <<queueVars, pc, job, callVars, inflight, mainVars, reaper, stopped, overdue>>

-----------------------------------------------------------------------------
(* The reaper thread.                                                       *)

ReaperSpawn(c) ==
    /\ reaper /\ ~stopped /\ ~overdue
    /\ Pending # {}
    /\ inflight < MaxWorkers
    /\ pc[c] = "none"
    /\ Move(c, "claim")
    /\ UNCHANGED <<queueVars, job, worker, callVars, inflight, mainVars,
                   reaper, stopped, overdue>>

ReaperExit ==
    /\ reaper
    /\ stopped \/ overdue
    /\ reaper' = FALSE
    /\ UNCHANGED <<queueVars, threadVars, mainVars, stopped, overdue>>

-----------------------------------------------------------------------------
(* The main thread, in run().                                               *)

(* The initial claimers and the reaper are started.                         *)
Start ==
    /\ main = "start"
    /\ \E new \in SUBSET Claimers :
          /\ Cardinality(new) = IF Cardinality(Pending) < MaxWorkers
                                THEN Cardinality(Pending) ELSE MaxWorkers
          /\ pc' = [c \in Claimers |-> IF c \in new THEN "claim" ELSE "none"]
    /\ reaper' = TRUE
    /\ main' = "wait"
    /\ UNCHANGED <<queueVars, job, worker, callVars, inflight, cursor, span,
                   seen, verdict, stopped, overdue>>

(* Mutant: the run waits for the tasks, not for the queue and the workers.  *)
StopWaitingAllResolved ==
    /\ main = "wait"
    /\ overdue \/ \A t \in TaskId : status[t] \in Terminal \cup {"absent"}
    /\ stopped' = TRUE
    /\ main' = "join"
    /\ UNCHANGED <<queueVars, threadVars, cursor, span, seen, verdict, reaper, overdue>>

(* The wait loop ends, however it ends, by setting _stopped.                *)
LeaveWait ==
    /\ main = "wait"
    /\ stopped' = TRUE
    /\ main' = "join"
    /\ UNCHANGED <<queueVars, threadVars, cursor, span, seen, verdict, reaper, overdue>>

(* Mutant: the wait loop does not look at the clock.                        *)
StopWaitingNoClock == Pending = {} /\ inflight = 0 /\ LeaveWait

(* Nothing is pending and nothing counted in flight, or the deadline passed.*)
StopWaiting == (overdue \/ (Pending = {} /\ inflight = 0)) /\ LeaveWait

(* A first Ctrl+C only ends the wait.                                       *)
Interrupt == CanInterrupt /\ LeaveWait

(* Mutant: only the reaper is joined.                                       *)
JoinReaper ==
    /\ main = "join"
    /\ ~reaper
    /\ closed' = TRUE
    /\ main' = IF overdue THEN "sweep" ELSE "settle"
    /\ span' = Len(order)
    /\ UNCHANGED <<order, status, depends, threadVars, cursor, seen, verdict,
                   reaper, stopped, overdue>>

(* Every claimer is joined (only until the deadline) and so is the reaper;  *)
(* then the queue is closed.  No task can be "interrupted" at this point.   *)
JoinAll ==
    /\ main = "join"
    /\ ~reaper
    /\ overdue \/ \A c \in Claimers : pc[c] = "none"
    /\ closed' = TRUE
    /\ main' = IF overdue THEN "sweep" ELSE "settle"
    /\ span' = Len(order)
    /\ UNCHANGED <<order, status, depends, threadVars, cursor, seen, verdict,
                   reaper, stopped, overdue>>

(* A second Ctrl+C escapes from the joins; the coordinator will mark what   *)
(* is not finished and report the run interrupted.                          *)
Abort ==
    /\ main = "join"
    /\ CanInterrupt
    /\ main' = "abort"
    /\ span' = Len(order)
    /\ verdict' = "interrupted"
    /\ UNCHANGED <<queueVars, threadVars, cursor, seen, reaper, stopped, overdue>>

(* The dict of tasks is as the loop over it began.                          *)
Running == cursor <= span /\ Len(order) = span

Advance == cursor' = cursor + 1 /\ UNCHANGED <<main, span, verdict>>

Unfinished(t) == status[t] \in {"pending", "claimed"}

(* Mutant: the loops mark every task.                                       *)
LookAll ==
    /\ main \in {"sweep", "abort"}
    /\ seen = NoTask
    /\ Running
    /\ seen' = order[cursor]
    /\ UNCHANGED <<queueVars, threadVars, main, cursor, span, verdict,
                   reaper, stopped, overdue>>

(* The loop of the abort, or of the sweep that follows a timeout, looks at  *)
(* the next task, without the lock ...                                      *)
Look ==
    /\ main \in {"sweep", "abort"}
    /\ seen = NoTask
    /\ Running
    /\ IF Unfinished(order[cursor])
       THEN seen' = order[cursor] /\ UNCHANGED <<main, cursor, span, verdict>>
       ELSE Advance /\ UNCHANGED seen
    /\ UNCHANGED <<queueVars, threadVars, reaper, stopped, overdue>>

(* ... and marks one it has found unfinished.                               *)
MarkSeen ==
    /\ seen # NoTask
    /\ Mark(seen, IF main = "sweep" THEN "failed" ELSE "interrupted")
    /\ seen' = NoTask
    /\ Advance
    /\ UNCHANGED <<order, depends, closed, threadVars, reaper, stopped, overdue>>

(* Mutant: a subtask that has not failed counts as done.                    *)
ResolvedUnlessFailed(t) ==
    IF status[t] # "claimed" \/ Children(t) = {} THEN status[t]
    ELSE IF \A k \in Children(t) : status[k] # "failed" THEN "done" ELSE "failed"

(* A task left claimed by its claimer is resolved against its subtasks, as  *)
(* they are now.                                                            *)
Resolved(t) ==
    IF status[t] # "claimed" \/ Children(t) = {} THEN status[t]
    ELSE IF \A k \in Children(t) : status[k] = "done" THEN "done" ELSE "failed"

(* One iteration of the settle loop.                                        *)
Settle ==
    /\ main = "settle"
    /\ Running
    /\ Mark(order[cursor], Resolved(order[cursor]))
    /\ Advance /\ UNCHANGED seen
    /\ UNCHANGED <<order, depends, closed, threadVars, reaper, stopped, overdue>>

(* The dict grew under the loop: RuntimeError leaves run().                 *)
LoopBroken ==
    /\ main \in {"sweep", "settle", "abort"}
    /\ seen = NoTask
    /\ Len(order) # span
    /\ main' = "crashed"
    /\ UNCHANGED <<queueVars, threadVars, cursor, span, seen, verdict, reaper, stopped, overdue>>

Return ==
    /\ main \in {"sweep", "settle", "abort"}
    /\ seen = NoTask
    /\ cursor > span /\ Len(order) = span
    /\ verdict' = IF main = "abort" THEN verdict
                  ELSE IF main = "settle" /\ \E t \in TaskId : status[t] = "done"
                  THEN "done" ELSE "failed"
    /\ main' = "returned"
    /\ UNCHANGED <<queueVars, threadVars, cursor, span, seen, reaper, stopped, overdue>>

(* Nobody reads the clock once the joins have ended in time.                *)
DeadlinePasses ==
    /\ HasDeadline
    /\ ~overdue
    /\ main \notin {"new", "settle"} /\ verdict \in {"none", "interrupted"}
    /\ overdue' = TRUE
    /\ UNCHANGED <<queueVars, threadVars, mainVars, reaper, stopped>>

-----------------------------------------------------------------------------
Claimer(c) ==
    \/ ClaimNext(c) \/ ClaimerExit(c) \/ CountIn(c) \/ StartWorker(c) \/ RefuseTask(c)
    \/ TaskReturns(c) \/ WriteStatus(c) \/ TaskFails(c) \/ TaskKilled(c) \/ CountOut(c)

Worker(t) == Reserve(t) \/ Delegate(t) \/ WorkerEnds(t)

Reaper == ReaperExit \/ \E c \in Claimers : ReaperSpawn(c)

Run == Start \/ StopWaiting \/ JoinAll \/ Look \/ MarkSeen \/ Settle \/ LoopBroken \/ Return

Next ==
    \/ \E c \in Claimers : Claimer(c)
    \/ \E t \in TaskId : Worker(t)
    \/ Reaper \/ Run \/ Interrupt \/ Abort \/ DeadlinePasses

Spec == Init /\ [][Next]_vars

(* What the scheduler and the clock guarantee: a thread that can move does, *)
(* a delegation under way completes, a deadline passes.  A worker's turn    *)
(* need not end.                                                            *)
Fairness ==
    /\ \A c \in Claimers : WF_vars(Claimer(c))
    /\ WF_vars(\E c \in Claimers : ReaperSpawn(c)) /\ WF_vars(ReaperExit)
    /\ WF_vars(\E t \in TaskId : Delegate(t))
    /\ WF_vars(Run)
    /\ WF_vars(DeadlinePasses)

-----------------------------------------------------------------------------
TypeOK ==
    /\ order \in Seq(TaskId)
    /\ status \in [TaskId -> Status]
    /\ depends \in [TaskId -> SUBSET TaskId]
    /\ pc \in [Claimers -> {"none", "claim", "claimed", "admit", "work", "park", "finish",
                             "out", "gone"}]
    /\ job \in [Claimers -> TaskId \cup {NoTask}]
    /\ worker \in [TaskId -> {"none", "running", "returned", "raised", "killed"}]
    /\ delegated \in [TaskId -> 0..MaxSubtasks]
    /\ adding \in [TaskId -> SUBSET (1..MaxSubtasks)]
    /\ inflight \in Int
    /\ {reaper, stopped, overdue, closed} \subseteq BOOLEAN
    /\ main \in {"new", "start", "wait", "join", "sweep", "settle", "abort",
                "returned", "crashed"}
    /\ cursor \in Nat \ {0} /\ span \in Nat /\ seen \in TaskId \cup {NoTask}
    /\ verdict \in {"none", "done", "failed", "interrupted"}

Holds(c) == pc[c] \in {"claimed", "admit", "work", "park", "finish"}

(* Two claimer threads never hold the same task, whatever the reaper spawns *)
(* and whatever is delegated meanwhile (TaskQueue: "single-ownership claim  *)
(* semantics").                                                             *)
OneOwner ==
    \A c, d \in Claimers : c # d /\ Holds(c) /\ Holds(d) => job[c] # job[d]

(* A claimed task always has someone who will resolve it: the claimer that  *)
(* holds it, or its subtasks, which the settle loop resolves it against.    *)
NoOrphan ==
    \A t \in TaskId : status[t] = "claimed" =>
        \/ \E c \in Claimers : Holds(c) /\ job[c] = t
        \/ worker[t] = "returned" /\ Children(t) # {}

(* A task the sweep after a timeout has passed is not reopened, with one    *)
(* exception: a claimer that reports late, after the grace period, puts     *)
(* back to "claimed" a parent whose subtask the sweep has not reached yet.  *)
SweepSticks ==
    main \in {"sweep", "returned"} /\ overdue /\ verdict # "interrupted" =>
        \A i \in 1..(cursor - 1) :
            LET t == order[i]
            IN  \/ status[t] \in Terminal
                \/ status[t] = "claimed" /\ worker[t] = "returned" /\ Children(t) # {}

(* A result is taken back by the sweep and by the abort only, and only when *)
(* they had looked at the task before it was done: no late claimer, no      *)
(* settling and no other task's mark does, and neither loop picks a task    *)
(* that is done.                                                            *)
DoneIsFinal ==
    [][\A t \in TaskId : status[t] = "done" /\ seen # t
                            => status'[t] = "done" /\ seen' # t]_vars

=============================================================================
