------------------------------ MODULE TaskQueue ------------------------------
(***************************************************************************)
(* The shared work queue of a team run (TaskQueue of nbchat/core/team.py)  *)
(* and the plan it is filled from.  Every method of the Python class runs  *)
(* under the queue lock, so each is one step here.                         *)
(*                                                                         *)
(* A task id is the path of positions that names it: <<2>> is the          *)
(* planner's T2, <<2, 1>> the first subtask that T2 delegated ("T2.s1").   *)
(* Its length is therefore its delegation depth plus one, and dropping the *)
(* last position gives its parent.                                         *)
(***************************************************************************)
EXTENDS Naturals, Sequences, FiniteSets

CONSTANTS
    MaxTasks,     (* team_max_tasks: tasks kept of a plan                    *)
    MaxSubtasks,  (* team_max_subtasks, the cap a delegation is checked with *)
    MaxDepth      (* team_max_delegation_depth                               *)

ASSUME QueueAssumption ==
    /\ MaxTasks \in Nat \ {0}
    /\ MaxSubtasks \in Nat
    /\ MaxDepth \in Nat

Width == IF MaxTasks > MaxSubtasks THEN MaxTasks ELSE MaxSubtasks

TaskId ==
    {t \in UNION {[1..n -> 1..Width] : n \in 1..(MaxDepth + 1)} :
        t[1] <= MaxTasks /\ \A i \in 2..Len(t) : t[i] <= MaxSubtasks}

Terminal == {"done", "failed", "interrupted"}
Status == Terminal \cup {"absent", "pending", "claimed"}

VARIABLES
    order,    (* the keys of _tasks in insertion order                     *)
    status,   (* status of each task; "absent" is "not a key of _tasks"    *)
    depends,  (* depends_on of each task                                   *)
    closed    (* TaskQueue._stopped                                        *)

queueVars == <<order, status, depends, closed>>

-----------------------------------------------------------------------------
(* The plan.  An entry of the planner's array is usable when it carries an  *)
(* objective or a title, and names the positions it depends on.             *)

(* _sanitize_plan, _break_dependency_cycles: unusable entries are dropped   *)
(* before positions are counted, an entry keeps only references to entries  *)
(* already admitted, and the list is cut to MaxTasks.                       *)
Usable(raw) == SelectSeq(raw, LAMBDA entry : entry.usable)

Kept(raw) == IF Len(Usable(raw)) < MaxTasks THEN Len(Usable(raw)) ELSE MaxTasks

Sanitize(raw) == [i \in 1..Kept(raw) |-> Usable(raw)[i].on \cap 1..(i - 1)]

(* TaskQueue(tasks) for the plan that gives the prerequisites of each task. *)
Ids(plan) == {<<i>> : i \in 1..Len(plan)}
OrderOf(plan) == [i \in 1..Len(plan) |-> <<i>>]
StatusOf(plan) == [t \in TaskId |-> IF t \in Ids(plan) THEN "pending" ELSE "absent"]
DependsOf(plan) == [t \in TaskId |-> IF t \in Ids(plan) THEN {<<d>> : d \in plan[t[1]]} ELSE {}]

QueueInit(plan) ==
    /\ order = OrderOf(plan)
    /\ status = StatusOf(plan)
    /\ depends = DependsOf(plan)
    /\ closed = FALSE

-----------------------------------------------------------------------------
Depth(t) == Len(t) - 1

Pending == {t \in TaskId : status[t] = "pending"}

(* _resolve_dependencies: a prerequisite that is not in the queue blocks,   *)
(* like one that is still pending or claimed.                               *)
Unblocked(t) == \A d \in depends[t] : status[d] \in Terminal

Claimable(t) == status[t] = "pending" /\ Unblocked(t)

(* _claimable_id: the first claimable task in insertion order.              *)
NextUp(t) ==
    \E i \in DOMAIN order :
        /\ order[i] = t
        /\ Claimable(t)
        /\ \A j \in 1..(i - 1) : ~Claimable(order[j])

(* Mutant: claim() leaves it to its caller to mark the task.                *)
ClaimUnmarked(t) ==
    /\ ~closed
    /\ NextUp(t)
    /\ UNCHANGED queueVars

(* claim() when it hands out a task, and when it has none to give.          *)
Claim(t) ==
    /\ ~closed
    /\ NextUp(t)
    /\ status' = [status EXCEPT ![t] = "claimed"]
    /\ UNCHANGED <<order, depends, closed>>

NothingToClaim == closed \/ \A t \in TaskId : ~Claimable(t)

(* add(): a delegated subtask carries no prerequisites.                     *)
Add(t) ==
    /\ order' = Append(order, t)
    /\ status' = [status EXCEPT ![t] = "pending"]
    /\ UNCHANGED <<depends, closed>>

(* children(), children_pending().                                          *)
Children(p) == {t \in TaskId : /\ status[t] # "absent"
                               /\ Len(t) = Len(p) + 1
                               /\ SubSeq(t, 1, Len(p)) = p}

Unresolved(p) == {t \in Children(p) : status[t] \in {"pending", "claimed"}}

=============================================================================
