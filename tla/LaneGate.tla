------------------------------- MODULE LaneGate -------------------------------
(***************************************************************************)
(* The decode-lane gate of nbchat/core/lane_gate.py: a process-wide        *)
(* bounded semaphore, and what MetricsLoggingClient and its instrumented   *)
(* stream (client.py) do with the permit of one LLM request.  The gate is  *)
(* enabled and its acquire timeout is positive, as configured.             *)
(***************************************************************************)
EXTENDS Naturals, FiniteSets

CONSTANTS
    Worker,    (* threads that send requests                                *)
    Main,      (* of them the one that Ctrl+C interrupts, if it is there    *)
    LaneLimit  (* lane_gate_limit                                           *)

ASSUME LaneAssumption == LaneLimit \in Nat \ {0} /\ Main \subseteq Worker

VARIABLES
    permits,   (* value of the semaphore                                    *)
    ticket,    (* what acquire() gave the request of each worker            *)
    cut        (* history: requests with a permit that Ctrl+C has cut off   *)

laneVars == <<permits, ticket, cut>>

LaneInit ==
    /\ permits = LaneLimit
    /\ ticket = [w \in Worker |-> "none"]
    /\ cut = 0

(* acquire() gets a permit in time ...                                      *)
Admit(w) ==
    /\ permits > 0
    /\ permits' = permits - 1
    /\ ticket' = [ticket EXCEPT ![w] = "permit"]
    /\ UNCHANGED cut

(* ... or no permit was to be had for the whole timeout, and the request    *)
(* proceeds without one.                                                    *)
AdmitUngated(w) ==
    /\ permits = 0
    /\ ticket' = [ticket EXCEPT ![w] = "ungated"]
    /\ UNCHANGED <<permits, cut>>

(* Mutant: the permit is given back once per exit path of the stream.       *)
ReleaseUnconditionally(w) ==
    /\ permits' = permits + 1
    /\ ticket' = [ticket EXCEPT ![w] = "none"]
    /\ UNCHANGED cut

(* GateHandle.release and _release_gate: create() raised, the response was  *)
(* complete, or the stream was exhausted, closed or failed.  An ungated     *)
(* request owes nothing.                                                    *)
ReleaseTicket(w) ==
    /\ permits' = IF ticket[w] = "permit" THEN permits + 1 ELSE permits
    /\ ticket' = [ticket EXCEPT ![w] = "none"]
    /\ UNCHANGED cut

(* KeyboardInterrupt leaves create() on the main thread, past "except       *)
(* Exception": nobody has the handle any more, and its permit stays taken.  *)
Abandon(w) ==
    /\ w \in Main
    /\ ticket' = [ticket EXCEPT ![w] = "none"]
    /\ cut' = IF ticket[w] = "permit" THEN cut + 1 ELSE cut
    /\ UNCHANGED permits

=============================================================================
