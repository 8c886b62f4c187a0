--------------------------------- MODULE MCRepl --------------------------------
(***************************************************************************)
(* Inboxes and plans for the runs of Repl.                                 *)
(***************************************************************************)
EXTENDS Repl

CONSTANTS t1, t2, s1

Two == {<<"low", "supervisor">>, <<"high", "outbound">>}
Plan(flags, laptop, mail, turns, n) ==
    [flags |-> flags, laptop |-> laptop, mail |-> mail, turns |-> turns, lives |-> n]
Six == {Plan({}, FALSE, 0, {t1, t2}, 2),
        Plan({"email"}, FALSE, 1, {t1}, 1), Plan({"email"}, FALSE, 1, {}, 2),
        Plan({"email"}, FALSE, 2, {}, 1),
        Plan({"voice"}, FALSE, 0, {t1, s1}, 1),
        Plan({"voice", "supervisor"}, TRUE, 0, {s1}, 1)}

=============================================================================
