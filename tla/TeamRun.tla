------------------------------- MODULE TeamRun -------------------------------
(***************************************************************************)
(* A whole team run (TeamCoordinator.run of nbchat/core/team.py): the      *)
(* planner is asked for a plan, the worker pool (TeamPool) works it off    *)
(* while the recorder of team_metrics.py looks on, the report of its tasks *)
(* is written up by the model, and the caller is given the outcome.        *)
(*                                                                         *)
(* The pool's threads outlive it when the run was aborted or overdue: what *)
(* they still do happens beside the coordinator's last steps.              *)
(***************************************************************************)
EXTENDS TeamPool

CONSTANTS
    PlanAttempts,  (* team_plan_attempts                                     *)
    Metrics        (* team_metrics_enabled                                   *)

(* _extract_json, or _salvage_objects when the reply was cut off: the       *)
(* entries that are complete.                                               *)
Readable(raw, length) == SubSeq(raw, 1, length)

ASSUME RunAssumption ==
    /\ PlanAttempts \in Nat \ {0} /\ Metrics \in BOOLEAN
    /\ \A raw \in RawPlans : \A n \in 1..Len(raw) : Len(Usable(Readable(raw, n))) \in Nat

VARIABLES
    phase,     (* where run() of the coordinator is                          *)
    attempt,   (* _plan_tasks: the attempt that is made                      *)
    recorder,  (* the recorder's thread and file                             *)
    timed,     (* the tasks the recorder has a row of                        *)
    told,      (* the statuses the report tells                              *)
    outcome    (* what the caller is given: a status, those of the tasks     *)

coordVars == <<phase, attempt, recorder, timed, told, outcome>>
allVars == <<vars, coordVars>>

Nothing == [t \in TaskId |-> "absent"]

CoordInit ==
    /\ QueueInit(<<>>)
    /\ PoolInit
    /\ main = "new"
    /\ phase = "planning"
    /\ attempt = 1
    /\ recorder = "off" /\ timed = {}
    /\ told = Nothing
    /\ outcome = [status |-> "none", tasks |-> Nothing]

-----------------------------------------------------------------------------
(* Planning.                                                                *)

(* _finish: the outcome, with the tasks as they are now.                    *)
Finish(s, tasks) ==
    /\ phase' = "over"
    /\ outcome' = [status |-> s, tasks |-> tasks]

(* The queue is filled, the recorder's thread started, unless it cannot be. *)
Launch(plan) ==
    /\ order' = OrderOf(plan) /\ status' = StatusOf(plan) /\ depends' = DependsOf(plan)
    /\ main' = "start"
    /\ phase' = "pool"
    /\ recorder' \in IF Metrics THEN {"on", "off"} ELSE {"off"}
    /\ UNCHANGED <<threadVars, cursor, span, seen, verdict, reaper, stopped, overdue,
                   closed, timed, told, outcome>>

Planned ==
    /\ phase = "planning"
    /\ \E raw \in RawPlans : \E n \in 1..Len(raw) :
          /\ Len(Usable(Readable(raw, n))) # 0
          /\ Launch(Sanitize(Readable(raw, n)))
    /\ UNCHANGED attempt

(* Nothing of the reply can be used: the planner is asked again ...         *)
Unparseable ==
    /\ phase = "planning"
    /\ attempt < PlanAttempts
    /\ attempt' = attempt + 1
    /\ UNCHANGED <<vars, phase, recorder, timed, told, outcome>>

(* ... or, the last time, the goal becomes one task.                        *)
FallBack ==
    /\ phase = "planning"
    /\ attempt = PlanAttempts
    /\ Launch(<<{}>>)
    /\ UNCHANGED attempt

(* Any other error of the call is not tried again.                          *)
PlanFails ==
    /\ phase = "planning"
    /\ \E s \in {"failed"} \cup (IF CanInterrupt THEN {"interrupted"} ELSE {}) :
          Finish(s, Nothing)
    /\ UNCHANGED <<vars, attempt, recorder, timed, told>>

-----------------------------------------------------------------------------
(* The pool has returned.                                                   *)

(* A worker that outlived the pool puts a subtask into the queue just now.  *)
LateDelegation == \E t \in TaskId : adding[t] # {}

(* The rows of the tasks that were claimed, then the recorder is stopped.   *)
(* (The counter its summary wants does not exist: the summary is never      *)
(* written.)                                                                *)
StopRecorder ==
    /\ phase = "pool" /\ main \in {"returned", "crashed"}
    /\ recorder = "on"
    /\ timed' = {t \in TaskId : status[t] \notin {"absent", "pending"}}
    /\ recorder' = "stopped"
    /\ UNCHANGED <<vars, phase, attempt, told, outcome>>

(* The dict of tasks grows under the loop, and the recorder is not stopped. *)
RecorderStays ==
    /\ phase = "pool" /\ main \in {"returned", "crashed"}
    /\ recorder = "on"
    /\ LateDelegation
    /\ recorder' = "left"
    /\ UNCHANGED <<vars, phase, attempt, timed, told, outcome>>

(* _build_report; after an interrupt it is all the user gets.               *)
Report ==
    /\ phase = "pool" /\ main = "returned"
    /\ recorder # "on"
    /\ told' = status
    /\ IF verdict = "interrupted" THEN Finish("interrupted", status)
       ELSE phase' = "synthesis" /\ UNCHANGED outcome
    /\ UNCHANGED <<vars, attempt, recorder, timed>>

(* An exception leaves run(): the pool's, or that of the loop over the      *)
(* tasks for the report.                                                    *)
Escapes ==
    /\ phase = "pool" /\ recorder # "on"
    /\ main = "crashed" \/ (main = "returned" /\ LateDelegation)
    /\ phase' = "died"
    /\ UNCHANGED <<vars, attempt, recorder, timed, told, outcome>>

(* The model has written the report up, or failed to.  The caller is given  *)
(* the tasks of the report, as they are now.                                *)
Synthesized ==
    /\ phase = "synthesis"
    /\ \E s \in {verdict} \cup (IF CanInterrupt THEN {"interrupted"} ELSE {}) :
          Finish(s, [t \in TaskId |-> IF told[t] = "absent" THEN "absent" ELSE status[t]])
    /\ UNCHANGED <<vars, attempt, recorder, timed, told>>

-----------------------------------------------------------------------------
Planning == Planned \/ Unparseable \/ FallBack \/ PlanFails

Closing == StopRecorder \/ RecorderStays \/ Report \/ Escapes \/ Synthesized

RunNext ==
    \/ Planning \/ Closing
    \/ Next /\ UNCHANGED coordVars

RunSpec == CoordInit /\ [][RunNext]_allVars

(* Calls of the model end: they carry a timeout (team_llm_timeout).         *)
CoordFairness == WF_allVars(Planning) /\ WF_allVars(Closing)

FairRun == RunSpec /\ Fairness /\ CoordFairness

LiveRun == FairRun /\ WF_vars(\E t \in TaskId : WorkerEnds(t))

-----------------------------------------------------------------------------
RunTypeOK ==
    /\ TypeOK
    /\ phase \in {"planning", "pool", "synthesis", "over", "died"}
    /\ attempt \in 1..PlanAttempts
    /\ recorder \in {"off", "on", "stopped", "left"}
    /\ timed \subseteq TaskId
    /\ told \in [TaskId -> Status]
    /\ outcome \in [status : {"none", "done", "failed", "interrupted"},
                    tasks : [TaskId -> Status]]

(* The run implements the board: without a deadline and without Ctrl+C.     *)
Board == INSTANCE TaskBoard WITH
            Task <- TaskId, Root <- NoTask, board <- status, needs <- depends,
            ParentOf <- [t \in TaskId |-> IF Len(t) = 1 THEN NoTask
                                          ELSE SubSeq(t, 1, Len(t) - 1)]
ImplementsBoard == Board!Spec

(* A task waits for a parent that is parked on its subtasks until the run   *)
(* ends: nothing resolves the parent before the wait loop is over.          *)
Stuck ==
    \E t \in TaskId : /\ status[t] = "pending"
                      /\ \E d \in depends[t] :
                            /\ status[d] = "claimed" /\ worker[d] = "returned"
                            /\ \A c \in Claimers : ~(Holds(c) /\ job[c] = d)

(* A run without a deadline whose workers all end gives its outcome, or it  *)
(* hangs for ever on a task that depends on a parked one: that is the one   *)
(* way in which, against the comment on depends_on, "a dependency" does     *)
(* "deadlock the run".  A task that is stuck only for a while is no excuse. *)
ReturnsOrStuck == <>(phase = "over") \/ <>[]Stuck

(* A subtask has come since the loops over the tasks began, or is coming.   *)
Grew == Len(order) > span \/ LateDelegation

(* With a deadline a run always ends, even if a worker never returns: the   *)
(* joins are bounded, the closing loops and the report need no worker, and  *)
(* a planner that cannot plan is not asked for ever.  It gives its outcome, *)
(* or dies of the one exception that, against its docstring ("Always        *)
(* returns"), does leave it: the dict of tasks grew under a loop.           *)
RunEnds == <>(phase = "over" \/ (phase = "died" /\ Grew))

(* What the report tells of each task, before the model writes it up, is    *)
(* what the caller is given after it, unless the deadline had passed or     *)
(* Ctrl+C cut the joins short: otherwise nothing is under way any more.     *)
ReportAgrees ==
    phase = "over" /\ ~overdue /\ verdict # "interrupted" /\ told # Nothing
        => told = outcome.tasks

=============================================================================
