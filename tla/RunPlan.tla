-------------------------------- MODULE RunPlan --------------------------------
(***************************************************************************)
(* TeamCoordinator.run_plan of nbchat/core/team.py: a fixed set of worker  *)
(* threads that block in TaskQueue.wait_claim until a task's prerequisites *)
(* are resolved, and the calling thread that joins them, closes the queue  *)
(* and settles what is left.  Nothing is delegated here, so every task is  *)
(* one of the plan; but the plan is taken as it comes, and may name a      *)
(* prerequisite that was cut off ("truncated"): a position up to MaxTasks  *)
(* that the plan does not have.                                            *)
(*                                                                         *)
(* A task's status is written by its worker without the queue lock, then   *)
(* its summary, and the parked workers are woken afterwards, under the     *)
(* lock: three steps.                                                      *)
(***************************************************************************)
EXTENDS TaskQueue

CONSTANTS
    MaxWorkers,   (* the max_workers argument                                *)
    Plans,        (* the plans run: the prerequisites of each task           *)
    NoTask

ASSUME PlanAssumption ==
    /\ MaxWorkers \in Nat \ {0}
    /\ NoTask \notin TaskId
    /\ \A plan \in Plans :
          Len(plan) \in 1..MaxTasks /\ \A i \in 1..Len(plan) : plan[i] \subseteq 1..MaxTasks

VARIABLES
    summary,   (* who has written the summary of each task                   *)
    pc,        (* where each worker thread is                                *)
    job,       (* the task it works on                                       *)
    given,     (* the prerequisite results a task was started with           *)
    raised,    (* workers that ended with KeyboardInterrupt (state[i]["exc"])*)
    timed,     (* a timeout was given                                        *)
    overdue,   (* and has passed                                             *)
    main,      (* where run_plan itself is                                   *)
    cut,       (* its local "interrupted"                                    *)
    cursor,    (* its position in the closing loop over the tasks            *)
    seen       (* the task the loop has found unfinished and will mark       *)

mainVars == <<main, cut, cursor, seen>>
vars == <<queueVars, summary, pc, job, given, raised, timed, overdue, mainVars>>

Workers == 1..MaxWorkers

Init ==
    /\ \E plan \in Plans :
          /\ QueueInit(plan)
          /\ pc = [w \in Workers |-> IF w <= Len(plan) THEN "look" ELSE "exited"]
    /\ summary = [t \in TaskId |-> "none"]
    /\ job = [w \in Workers |-> NoTask]
    /\ given = [t \in TaskId |-> <<>>]
    /\ raised = {}
    /\ timed \in BOOLEAN
    /\ overdue = FALSE
    /\ main = "join" /\ cut = FALSE /\ cursor = 1 /\ seen = NoTask

Woken == [w \in Workers |-> IF pc[w] = "parked" THEN "look" ELSE pc[w]]

-----------------------------------------------------------------------------
(* wait_claim, one pass of its loop under the lock.                         *)

(* Mutant: a task whose prerequisite is missing is left to wait for it.     *)
DoomedNever == {}

Doomed == {t \in Pending : \E d \in depends[t] : status[d] = "absent"}

Take(w) ==
    /\ pc[w] = "look"
    /\ \E t \in TaskId : Claim(t) /\ job' = [job EXCEPT ![w] = t]
    /\ pc' = [pc EXCEPT ![w] = "taken"]
    /\ UNCHANGED <<summary, given, raised, timed, overdue, mainVars>>

(* The queue is stopped, or nothing is pending any more.                    *)
Quit(w) ==
    /\ pc[w] = "look"
    /\ closed \/ Pending = {}
    /\ pc' = [pc EXCEPT ![w] = "exited"]
    /\ UNCHANGED <<queueVars, summary, job, given, raised, timed, overdue, mainVars>>

(* Tasks whose prerequisite never entered the queue are failed, and the     *)
(* others woken, before anyone parks.                                       *)
FailDoomed(w) ==
    /\ pc[w] = "look"
    /\ ~closed /\ NothingToClaim
    /\ Doomed # {}
    /\ status' = [t \in TaskId |-> IF t \in Doomed THEN "failed" ELSE status[t]]
    /\ summary' = [t \in TaskId |-> IF t \in Doomed THEN "plan" ELSE summary[t]]
    /\ pc' = Woken
    /\ UNCHANGED <<order, depends, closed, job, given, raised, timed, overdue, mainVars>>

Park(w) ==
    /\ pc[w] = "look"
    /\ ~closed /\ NothingToClaim
    /\ Pending # {} /\ Doomed = {}
    /\ pc' = [pc EXCEPT ![w] = "parked"]
    /\ UNCHANGED <<queueVars, summary, job, given, raised, timed, overdue, mainVars>>

-----------------------------------------------------------------------------
(* The rest of _worker_main.                                                *)

(* The results of the prerequisites are collected and the task is run ...   *)
Begin(w) ==
    /\ pc[w] = "taken"
    /\ ~overdue
    /\ given' = [given EXCEPT ![job[w]] = [d \in depends[job[w]] |->
                                            [status |-> status[d], summary |-> summary[d]]]]
    /\ pc' = [pc EXCEPT ![w] = "exec"]
    /\ UNCHANGED <<queueVars, summary, job, raised, timed, overdue, mainVars>>

(* ... until it returns, raises, or (at the deadline) is given up; too late *)
(* a start fails the task at once.                                          *)
Ends(w) ==
    /\ \E s \in IF pc[w] = "exec" THEN {"done", "failed"} ELSE {"failed"} :
          status' = [status EXCEPT ![job[w]] = s]
    /\ UNCHANGED <<order, depends, closed, summary, job, given, raised, timed, overdue, mainVars>>

Finish(w) ==
    /\ pc[w] = "exec" \/ (pc[w] = "taken" /\ overdue)
    /\ Ends(w)
    /\ pc' = [pc EXCEPT ![w] = "tell"]

(* Mutant: the workers that wait for this task are not woken.               *)
TellQuietly(w) ==
    /\ pc[w] = "tell"
    /\ summary' = [summary EXCEPT ![job[w]] = "worker"]
    /\ pc' = [pc EXCEPT ![w] = "look"]
    /\ UNCHANGED <<queueVars, job, given, raised, timed, overdue, mainVars>>

(* The summary follows the status, and nobody is told when it is there.     *)
Tell(w) ==
    /\ pc[w] = "tell"
    /\ summary' = [summary EXCEPT ![job[w]] = "worker"]
    /\ pc' = [pc EXCEPT ![w] = "notify"]
    /\ UNCHANGED <<queueVars, job, given, raised, timed, overdue, mainVars>>

Notify(w) ==
    /\ pc[w] = "notify"
    /\ pc' = [Woken EXCEPT ![w] = "look"]
    /\ UNCHANGED <<queueVars, summary, job, given, raised, timed, overdue, mainVars>>

(* KeyboardInterrupt out of the task: recorded, then the queue is stopped   *)
(* for everyone.                                                            *)
Killed(w) ==
    /\ pc[w] = "exec"
    /\ raised' = raised \cup {w}
    /\ pc' = [pc EXCEPT ![w] = "stopping"]
    /\ UNCHANGED <<queueVars, summary, job, given, timed, overdue, mainVars>>

StopAll(w) ==
    /\ pc[w] = "stopping"
    /\ closed' = TRUE
    /\ pc' = [Woken EXCEPT ![w] = "exited"]
    /\ UNCHANGED <<order, status, depends, summary, job, given, raised, timed, overdue, mainVars>>

-----------------------------------------------------------------------------
(* run_plan itself.                                                         *)

(* Mutant: how the workers ended is not looked at.                          *)
JoinedAnyhow ==
    /\ main = "join"
    /\ overdue \/ \A w \in Workers : pc[w] = "exited"
    /\ main' = "close"
    /\ UNCHANGED <<queueVars, summary, pc, job, given, raised, timed, overdue, cut, cursor, seen>>

(* The joins end, at the latest at the deadline, and the workers' states    *)
(* are read; what the grace period gives time for is any other step.        *)
Joined ==
    /\ main = "join"
    /\ overdue \/ \A w \in Workers : pc[w] = "exited"
    /\ cut' = (raised # {})
    /\ main' = "close"
    /\ UNCHANGED <<queueVars, summary, pc, job, given, raised, timed, overdue, cursor, seen>>

Interrupt ==
    /\ main = "join"
    /\ cut' = TRUE
    /\ main' = "close"
    /\ UNCHANGED <<queueVars, summary, pc, job, given, raised, timed, overdue, cursor, seen>>

Close ==
    /\ main = "close"
    /\ closed' = TRUE
    /\ pc' = Woken
    /\ main' = IF cut \/ overdue THEN "sweep" ELSE "result"
    /\ UNCHANGED <<order, status, depends, summary, job, given, raised, timed, overdue,
                   cut, cursor, seen>>

Advance ==
    /\ cursor' = cursor + 1
    /\ main' = IF cursor = Len(order) THEN "result" ELSE "sweep"

(* Mutant: every task is swept.                                             *)
LookAll ==
    /\ main = "sweep" /\ seen = NoTask
    /\ seen' = order[cursor]
    /\ UNCHANGED <<queueVars, summary, pc, job, given, raised, timed, overdue,
                   main, cut, cursor>>

(* The loop over the tasks after an interrupt or a timeout looks at one,    *)
(* without the lock ...                                                     *)
Look ==
    /\ main = "sweep" /\ seen = NoTask
    /\ IF status[order[cursor]] \in {"pending", "claimed"}
       THEN seen' = order[cursor] /\ UNCHANGED <<main, cursor>>
       ELSE Advance /\ UNCHANGED seen
    /\ UNCHANGED <<queueVars, summary, pc, job, given, raised, timed, overdue, cut>>

(* ... and marks one it has found unfinished.                               *)
MarkSeen ==
    /\ seen # NoTask
    /\ status' = [status EXCEPT ![seen] = IF cut THEN "interrupted" ELSE "failed"]
    /\ summary' = [summary EXCEPT ![seen] = "plan"]
    /\ seen' = NoTask
    /\ Advance
    /\ UNCHANGED <<order, depends, closed, pc, job, given, raised, timed, overdue, cut>>

Return ==
    /\ main = "result"
    /\ main' = IF cut THEN "interrupted"
               ELSE IF \E t \in TaskId : status[t] = "done" THEN "done" ELSE "failed"
    /\ UNCHANGED <<queueVars, summary, pc, job, given, raised, timed, overdue, cut, cursor, seen>>

DeadlinePasses ==
    /\ timed /\ ~overdue
    /\ overdue' = TRUE
    /\ UNCHANGED <<queueVars, summary, pc, job, given, raised, timed, mainVars>>

-----------------------------------------------------------------------------
Worker(w) ==
    \/ Take(w) \/ Quit(w) \/ FailDoomed(w) \/ Park(w)
    \/ Begin(w) \/ Finish(w) \/ Tell(w) \/ Notify(w) \/ StopAll(w)

Run == Joined \/ Close \/ Look \/ MarkSeen \/ Return

Next ==
    \/ \E w \in Workers : Worker(w) \/ Killed(w)
    \/ Run \/ Interrupt \/ DeadlinePasses

(* Threads that can move do, a task's run ends, a deadline passes; nobody   *)
(* has to press Ctrl+C.                                                     *)
Spec ==
    /\ Init /\ [][Next]_vars
    /\ \A w \in Workers : WF_vars(Worker(w))
    /\ WF_vars(Run) /\ WF_vars(DeadlinePasses)

-----------------------------------------------------------------------------
TypeOK ==
    /\ status \in [TaskId -> Status]
    /\ summary \in [TaskId -> {"none", "worker", "plan"}]
    /\ pc \in [Workers -> {"look", "parked", "taken", "exec", "tell", "notify",
                            "stopping", "exited"}]
    /\ job \in [Workers -> TaskId \cup {NoTask}]
    /\ \A t \in TaskId : \A d \in DOMAIN given[t] : given[t][d].status \in Terminal
    /\ raised \subseteq Workers
    /\ {closed, timed, overdue, cut} \subseteq BOOLEAN
    /\ main \in {"join", "close", "sweep", "result", "done", "failed", "interrupted"}
    /\ cursor \in 1..(MaxTasks + 1)
    /\ seen \in TaskId \cup {NoTask}

Returned == main \in {"done", "failed", "interrupted"}

(* No wakeup is lost: a worker stays parked while a task is claimable only  *)
(* as long as the thread that made it claimable, which writes the status    *)
(* without the lock, has yet to notify.                                     *)
NoLostWakeup ==
    (\E w \in Workers : pc[w] = "parked") /\ (\E t \in TaskId : Claimable(t))
        => \E w \in Workers : pc[w] \in {"tell", "notify", "stopping"}

(* The statuses of its prerequisites that a task was started with are the   *)
(* ones the run reports in the end, also after a timeout or an interrupt,   *)
(* although the sweep races with the workers: nobody builds on a result     *)
(* that is later taken back.  No summary is replaced either, but it may be  *)
(* missing, when the task was started between the two writes of its         *)
(* prerequisite's worker: it is then not given "what the earlier tasks      *)
(* produced".                                                               *)
BuiltOnFinal ==
    \A t \in TaskId : \A d \in DOMAIN given[t] :
        /\ given[t][d].status = status[d]
        /\ given[t][d].summary \in {"none", summary[d]}

(* Whatever ends the plan (all workers out of work, the deadline, Ctrl+C in *)
(* the caller or in a worker), run_plan returns with every task resolved.   *)
AllResolved ==
    Returned => \A t \in TaskId : status[t] \in Terminal \cup {"absent"}

(* A plan always ends, also one with a prerequisite that is missing         *)
(* (wait_claim: "without this the wait would loop forever on a truncated    *)
(* plan").                                                                  *)
PlanEnds == <>Returned

=============================================================================
