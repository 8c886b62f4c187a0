------------------------------ MODULE ToolArbiter ------------------------------
(***************************************************************************)
(* ToolArbiter of nbchat/core/team.py: for the time of a team run, the     *)
(* module attribute tool_executor.run_tool (the seam through which every   *)
(* agent of the process runs its tools) is replaced by a wrapper with one  *)
(* lock per resource.                                                      *)
(*                                                                         *)
(* Runs may overlap: the TUI accepts a new /team as soon as the user has   *)
(* stopped the one before, which then still winds down.  They are numbered *)
(* in the order in which they start.                                       *)
(***************************************************************************)
EXTENDS Naturals, FiniteSets

CONSTANTS
    Runs,      (* number of team runs, each with an arbiter of its own       *)
    Resource,  (* what a lock protects: "repo", "tests"                      *)
    Base,      (* the original run_tool                                      *)
    Nobody

Run == 1..Runs

ASSUME ArbiterAssumption == Runs \in Nat /\ Base \notin Run /\ Nobody # Base

VARIABLES
    seam,      (* tool_executor.run_tool: Base, or the wrapper of a run      *)
    original,  (* _original of each run's arbiter; Nobody for None           *)
    peeled,    (* _arbiter_original of each run's wrapper, set for good      *)
    phase,     (* of each run: "new", "going" or "over"                     *)
    holder,    (* who holds each lock of each run                            *)
    overlapped (* history: the runs that were going beside another           *)

arbiterVars == <<seam, original, peeled, phase, holder, overlapped>>

ArbiterInit ==
    /\ seam = Base
    /\ original = [r \in Run |-> Nobody]
    /\ peeled = [r \in Run |-> Base]
    /\ phase = [r \in Run |-> "new"]
    /\ holder = [r \in Run |-> [x \in Resource |-> Nobody]]
    /\ overlapped = {}

Going == {r \in Run : phase[r] = "going"}

NextToStart(r) == phase[r] = "new" /\ \A q \in 1..(r - 1) : phase[q] # "new"

(* install(): a wrapper found at the seam is peeled off, so that the        *)
(* original is the true one.                                                *)
Install(r) ==
    /\ NextToStart(r)
    /\ phase' = [phase EXCEPT ![r] = "going"]
    /\ LET true == IF seam = Base THEN Base ELSE peeled[seam]
       IN  /\ original' = [original EXCEPT ![r] = true]
           /\ peeled' = [peeled EXCEPT ![r] = true]
    /\ seam' = r
    /\ overlapped' = IF Going = {} THEN overlapped ELSE overlapped \cup Going \cup {r}
    /\ UNCHANGED holder

(* Mutant: the seam is left alone as long as another run is going.          *)
UninstallUnlessOthers(r) ==
    /\ phase[r] = "going"
    /\ phase' = [phase EXCEPT ![r] = "over"]
    /\ IF seam # Base /\ Going = {r}
       THEN seam' = original[r] /\ original' = [original EXCEPT ![r] = Nobody]
       ELSE UNCHANGED <<seam, original>>
    /\ UNCHANGED <<peeled, holder, overlapped>>

(* remove(), at the end of the run: only the kind of wrapper at the seam is *)
(* looked at, not whose it is.                                              *)
Uninstall(r) ==
    /\ phase[r] = "going"
    /\ phase' = [phase EXCEPT ![r] = "over"]
    /\ IF seam # Base
       THEN seam' = original[r] /\ original' = [original EXCEPT ![r] = Nobody]
       ELSE UNCHANGED <<seam, original>>
    /\ UNCHANGED <<peeled, holder, overlapped>>

LockFree(r, x) == holder[r][x] = Nobody

Lock(r, x, w) ==
    /\ LockFree(r, x)
    /\ holder' = [holder EXCEPT ![r][x] = w]

(* The finally of the wrapper: a call that holds nothing releases nothing.  *)
Unlocked(w) ==
    [r \in Run |-> [x \in Resource |-> IF holder[r][x] = w THEN Nobody ELSE holder[r][x]]]

=============================================================================
