------------------------------ MODULE MCRunPlan ------------------------------
(* Plans for the run of RunPlan: two independent tasks and one that needs   *)
(* both; a chain; and a plan whose second task needs one that was cut off   *)
(* (position 4 of 3) while the third needs the second.                      *)
EXTENDS RunPlan

MCPlans == {<<{}, {}, {1, 2}>>, <<{}, {1}, {2}>>, <<{}, {4}, {2}>>}

=============================================================================
