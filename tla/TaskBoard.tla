------------------------------ MODULE TaskBoard ------------------------------
(***************************************************************************)
(* What a team run promises about its tasks, with no threads and no queue: *)
(* a board on which tasks are posted, each is taken once, after everything *)
(* it needs is settled, and settled once, never as "done" while a task     *)
(* delegated by it is open.                                                *)
(***************************************************************************)
CONSTANTS Task, ParentOf, Root

Settled == {"done", "failed"}
Column == Settled \cup {"absent", "pending", "claimed"}

VARIABLES board, needs

Init ==
    /\ board = [t \in Task |-> "absent"]
    /\ needs = [t \in Task |-> {}]

Open(p) == {t \in Task : ParentOf[t] = p /\ board[t] \in {"pending", "claimed"}}

Place(t, column) == board' = [board EXCEPT ![t] = column] /\ UNCHANGED needs

Plan ==
    /\ \A t \in Task : board[t] = "absent"
    /\ board' \in [Task -> {"absent", "pending"}]
    /\ needs' \in [Task -> SUBSET Task]

Post(t) ==
    /\ board[t] = "absent"
    /\ ParentOf[t] \in Task
    /\ board[ParentOf[t]] = "claimed"
    /\ Place(t, "pending")

Take(t) ==
    /\ board[t] = "pending"
    /\ \A d \in needs[t] : board[d] \in Settled
    /\ Place(t, "claimed")

Finish(t) ==
    /\ board[t] = "claimed"
    /\ Open(t) = {}
    /\ Place(t, "done")

Fail(t) ==
    /\ board[t] = "claimed"
    /\ Place(t, "failed")

Next == Plan \/ \E t \in Task : Post(t) \/ Take(t) \/ Finish(t) \/ Fail(t)

Spec == Init /\ [][Next]_<<board, needs>>

=============================================================================
