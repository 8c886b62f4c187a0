------------------------------ MODULE MCTeamPool ------------------------------
(* Plans for the runs of TeamRun.                                           *)
EXTENDS TeamRun

Entry(on) == [usable |-> TRUE, on |-> on]
Unusable == [usable |-> FALSE, on |-> {}]

(* One task; two independent ones; a dependent one; an entry that names     *)
(* itself and a later entry, after one that is dropped.                     *)
SmallPlans == {<<Entry({})>>,
               <<Entry({}), Entry({})>>,
               <<Entry({}), Entry({1})>>,
               <<Unusable, Entry({1, 2}), Entry({1, 2, 3})>>}

=============================================================================
