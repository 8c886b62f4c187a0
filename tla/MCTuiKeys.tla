------------------------------ MODULE MCTuiKeys ------------------------------
(***************************************************************************)
(* A small keyboard for TuiKeys: the keystrokes tried and one message from *)
(* the control socket, of two lines.                                       *)
(***************************************************************************)
EXTENDS TuiKeys

MCSent == {<<"a", NL, "a">>}

=============================================================================
