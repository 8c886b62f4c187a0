------------------------------ MODULE WorkerCalls ------------------------------
(***************************************************************************)
(* What the threads of team workers do to the resources they share: LLM    *)
(* requests through the lane gate (LaneGate), tool calls through the       *)
(* arbiter's wrapper (ToolArbiter) and, under it, the shared executor of   *)
(* run_tool (tool_executor.py), whose threads a hung tool keeps, with its  *)
(* retries (retry.py) and the cache of what read-only commands printed.    *)
(*                                                                         *)
(* A worker is a thread that sends requests and calls tools, in any order: *)
(* of a run that is going, of one that is over (an abandoned worker), or   *)
(* the terminal's own.  Waits for a lock are bounded, as in a run with a   *)
(* deadline.  Of the cache one entry is modelled, and of it whether it     *)
(* still tells what the tree is like.  Its key is the lower-cased text of  *)
(* the command: a "read" is any of the commands that share it, a hit need  *)
(* not be by the command that stored the entry, and what the entry tells   *)
(* is about the one that did.                                              *)
(***************************************************************************)
EXTENDS LaneGate, ToolArbiter, SequencesExt

CONSTANTS
    Slots,     (* threads of the executor                                    *)
    MaxBodies, (* bounds how many tool bodies are outstanding at once        *)
    MaxRetries, (* DEFAULT_MAX_RETRIES                                       *)
    Unmanaged  (* the "resource" of a tool without a lock                    *)

ASSUME CallsAssumption ==
    /\ {Slots, MaxBodies} \subseteq Nat \ {0} /\ MaxRetries \in Nat
    /\ Unmanaged \notin Resource
    /\ Nobody \notin Worker

VARIABLES
    at,        (* where each worker is                                       *)
    via,       (* the function its tool call found at the seam               *)
    tool,      (* the resource of its tool call, its kind, its retries       *)
    busy,      (* the tool bodies the executor's threads are running         *)
    waiting,   (* and those in its queue                                     *)
    cache      (* _READ_CACHE's entry for a key: whether it is there, tells  *)
               (* what is so, may have been overtaken by a write, or was     *)
               (* left there by a command with a cwd                         *)

callVars == <<at, via, tool>>
execVars == <<busy, waiting>>
vars == <<laneVars, arbiterVars, callVars, execVars, cache>>

(* A body: the worker that waits for it (Nobody once the call has been      *)
(* given up), the lock it was called under, if any, its kind, and whether a *)
(* write was under way while it read.                                       *)
NoLock == <<>>
Kinds == {"read", "command", "elsewhere", "write", "other"}
Body == [by : Worker \cup {Nobody}, lock : (Run \X Resource) \cup {NoLock},
         kind : Kinds, raced : BOOLEAN]
NoCall == [on |-> Unmanaged, kind |-> "other", tries |-> 0]
Entry == [there : BOOLEAN, so : BOOLEAN, raced : BOOLEAN, left : BOOLEAN]
NoEntry == [there |-> FALSE, so |-> TRUE, raced |-> FALSE, left |-> FALSE]

(* is_readable_command tells the reads from the other commands; the tools   *)
(* of _MUTATING_TOOLS write, and so does a command that is no read, be it   *)
(* with a cwd ("elsewhere") or without.                                     *)
Writes(body) == body.kind \in {"command", "elsewhere", "write"}

Init ==
    /\ LaneInit /\ ArbiterInit
    /\ at = [w \in Worker |-> "ready"]
    /\ via = [w \in Worker |-> Base]
    /\ tool = [w \in Worker |-> NoCall]
    /\ busy = <<>> /\ waiting = <<>> /\ cache = NoEntry

Move(w, there) == at' = [at EXCEPT ![w] = there]

(* The tool call of w has returned.                                         *)
Returned(w) ==
    /\ Move(w, "ready")
    /\ via' = [via EXCEPT ![w] = Base]
    /\ tool' = [tool EXCEPT ![w] = NoCall]

-----------------------------------------------------------------------------
(* Requests: MetricsLoggingClient.create and its stream.                    *)

Ask(w) ==
    /\ at[w] = "ready"
    /\ Move(w, "gate")
    /\ UNCHANGED <<laneVars, arbiterVars, via, tool, execVars, cache>>

Enter(w) ==
    /\ at[w] = "gate"
    /\ Admit(w) \/ AdmitUngated(w)
    /\ Move(w, "decode")
    /\ UNCHANGED <<arbiterVars, via, tool, execVars, cache>>

(* The request ends, well or with an error, or Ctrl+C cuts it off.          *)
Decoded(w) ==
    /\ at[w] = "decode"
    /\ ReleaseTicket(w) \/ Abandon(w)
    /\ Move(w, "ready")
    /\ UNCHANGED <<arbiterVars, via, tool, execVars, cache>>

-----------------------------------------------------------------------------
(* Tool calls: the wrapper, then run_tool.                                  *)

Outstanding == Len(busy) + Len(waiting) + Cardinality({w \in Worker : at[w] \in {"called", "lock", "backoff"}})

(* The seam is looked up.                                                   *)
Call(w) ==
    /\ at[w] = "ready"
    /\ Outstanding < MaxBodies
    /\ via' = [via EXCEPT ![w] = seam]
    /\ \E x \in Resource \cup {Unmanaged}, k \in Kinds :
          /\ k = "other" <=> x = Unmanaged
          /\ tool' = [tool EXCEPT ![w] = [on |-> x, kind |-> k, tries |-> 0]]
    /\ Move(w, "called")
    /\ UNCHANGED <<laneVars, arbiterVars, execVars, cache>>

(* A tool that writes is running or queued, or will be tried again.         *)
WriteUnderWay ==
    \/ \E b \in Range(busy) \cup Range(waiting) : Writes(b)
    \/ \E w \in Worker : at[w] = "backoff" /\ Writes(tool[w])

(* A write is under way or has failed: the reads under way and the entry    *)
(* that is there may be of before it.                                       *)
Overtaken(bodies) ==
    [i \in DOMAIN bodies |-> [bodies[i] EXCEPT !.raced = @ \/ bodies[i].kind = "read"]]
OvertakenEntry ==
    IF cache.there THEN [cache EXCEPT !.so = FALSE, !.raced = TRUE] ELSE cache

(* The lock the call of w runs under.                                       *)
LockOf(w) ==
    IF via[w] = Base \/ tool[w].on = Unmanaged THEN NoLock ELSE <<via[w], tool[w].on>>

(* execute_with_retry hands the body to the executor, and waits for it.     *)
Submit(w) ==
    /\ LET body == [by |-> w, lock |-> LockOf(w), kind |-> tool[w].kind,
                    raced |-> tool[w].kind = "read" /\ WriteUnderWay]
           late(bodies) == IF Writes(body) THEN Overtaken(bodies) ELSE bodies
       IN  IF Len(busy) < Slots
           THEN busy' = Append(late(busy), body) /\ waiting' = late(waiting)
           ELSE busy' = late(busy) /\ waiting' = Append(late(waiting), body)
    /\ Move(w, "tool")
    /\ UNCHANGED <<laneVars, seam, original, peeled, phase, overlapped, via>>

(* run_tool, up to there: a command that is no read drops what was cached,  *)
(* unless it has a cwd.  A read that finds its key there is a hit.          *)
Hit(w) == tool[w].kind = "read" /\ cache.there

Begin(w) ==
    /\ Submit(w)
    /\ cache' = IF tool[w].kind = "command" THEN NoEntry ELSE cache
    /\ UNCHANGED tool

(* What the function looked up will call in the end.                        *)
Target(w) == IF via[w] = Base THEN Base ELSE original[via[w]]

Direct(w) ==
    /\ at[w] = "called"
    /\ Target(w) = Base
    /\ LockOf(w) = NoLock
    /\ ~Hit(w)
    /\ Begin(w)
    /\ UNCHANGED holder

ToLock(w) ==
    /\ at[w] = "called"
    /\ Target(w) = Base
    /\ LockOf(w) # NoLock
    /\ Move(w, "lock")
    /\ UNCHANGED <<laneVars, arbiterVars, via, tool, execVars, cache>>

(* A read that is cached: the output of then is returned, and the lock was  *)
(* held for that long.                                                      *)
ServeCached(w) ==
    /\ \/ at[w] = "called" /\ Target(w) = Base /\ LockOf(w) = NoLock
       \/ at[w] = "lock" /\ LockFree(via[w], tool[w].on)
    /\ Hit(w)
    /\ Returned(w)
    /\ UNCHANGED <<laneVars, arbiterVars, execVars, cache>>

(* The wrapper's arbiter was removed since the lookup: its _original is     *)
(* None, and calling it raises.                                             *)
CallsNone(w) ==
    /\ at[w] = "called"
    /\ Target(w) = Nobody
    /\ Returned(w)
    /\ UNCHANGED <<laneVars, arbiterVars, execVars, cache>>

Locks(w) ==
    /\ at[w] = "lock"
    /\ ~Hit(w)
    /\ Lock(via[w], tool[w].on, w)
    /\ Begin(w)

(* Mutant: like a request at the gate, the call proceeds without the lock.  *)
GiveUpProceeds(w) ==
    /\ at[w] = "lock"
    /\ ~LockFree(via[w], tool[w].on)
    /\ Begin(w)
    /\ UNCHANGED holder

(* The bounded wait for the lock is over: the call returns an error text.   *)
GiveUp(w) ==
    /\ at[w] = "lock"
    /\ ~LockFree(via[w], tool[w].on)
    /\ Returned(w)
    /\ UNCHANGED <<laneVars, arbiterVars, execVars, cache>>

(* The body of a call that was given up: nobody takes its result or holds   *)
(* its lock, only what it does to the tree still counts.                    *)
GivenUp(bodies, w) ==
    [i \in DOMAIN bodies |->
        IF bodies[i].by # w THEN bodies[i]
        ELSE [by |-> Nobody, lock |-> NoLock, raced |-> FALSE,
              kind |-> IF Writes(bodies[i]) THEN "write" ELSE "other"]]

(* Mutant: the timeout runs from when a thread takes up the tool.           *)
TimesOutOnceBusy(w) ==
    /\ at[w] = "tool"
    /\ \E i \in DOMAIN busy : busy[i].by = w
    /\ busy' = GivenUp(busy, w)
    /\ holder' = Unlocked(w)
    /\ Returned(w)
    /\ UNCHANGED <<laneVars, seam, original, peeled, phase, overlapped, waiting, cache>>

(* future.result(timeout) expires: run_tool reports the call as hung, which *)
(* is not retried, and the lock is released.  The body stays where it is,   *)
(* running or queued.                                                       *)
TimesOut(w) ==
    /\ at[w] = "tool"
    /\ busy' = GivenUp(busy, w) /\ waiting' = GivenUp(waiting, w)
    /\ holder' = Unlocked(w)
    /\ Returned(w)
    /\ cache' = IF Writes(tool[w]) THEN OvertakenEntry ELSE cache
    /\ UNCHANGED <<laneVars, seam, original, peeled, phase, overlapped>>

(* The thread of body i, which returned or raised, takes up the next one of *)
(* a queue.                                                                 *)
TakesUp(i, queue) ==
    /\ i \in DOMAIN busy
    /\ IF queue = <<>>
       THEN busy' = RemoveAt(busy, i) /\ waiting' = queue
       ELSE busy' = Append(RemoveAt(busy, i), Head(queue)) /\ waiting' = Tail(queue)

(* The tool raised what may pass (_is_retryable) and there are attempts     *)
(* left: the call, which keeps its lock, sleeps for a while ...             *)
Raises(i) ==
    /\ TakesUp(i, waiting)
    /\ LET w == busy[i].by
       IN  /\ w # Nobody
           /\ tool[w].tries < MaxRetries
           /\ tool' = [tool EXCEPT ![w].tries = @ + 1]
           /\ Move(w, "backoff")
    /\ UNCHANGED <<laneVars, arbiterVars, via, cache>>

(* ... and submits the body again, behind the others.                       *)
Retries(w) ==
    /\ at[w] = "backoff"
    /\ Submit(w)
    /\ UNCHANGED <<holder, tool, cache>>

EntryOf(body) ==
    [there |-> TRUE, so |-> ~body.raced, raced |-> body.raced, left |-> FALSE]

(* Mutant: only commands drop what was cached.                              *)
StoredByReads(body, ok) ==
    IF body.kind = "read" /\ ok THEN EntryOf(body) ELSE [cache EXCEPT !.so = @ /\ ~Writes(body)]

(* The cache at the end of run_tool: the output of a read is stored, even   *)
(* when a write overtook it; a tool that writes drops the entry, if it      *)
(* succeeds; a command with a cwd leaves it as it is, whatever it did to    *)
(* the tree.  (The browser and mail drop it as well; that is left out.)     *)
Stored(body, ok) ==
    CASE body.kind = "read" /\ ok -> EntryOf(body)
      [] body.kind = "write" /\ ok -> NoEntry
      [] body.kind = "write" /\ ~ok -> OvertakenEntry
      [] body.kind = "command" -> [cache EXCEPT !.so = ~cache.there]
      [] body.kind = "elsewhere" ->
            IF cache.there THEN [cache EXCEPT !.so = FALSE, !.left = TRUE] ELSE cache
      [] OTHER -> cache

(* The tool is done, or raised what will not pass: the call, if it still    *)
(* waits, returns and gives its lock back.                                  *)
BodyEnds(i, ok) ==
    /\ TakesUp(i, waiting)
    /\ IF busy[i].by = Nobody
       THEN /\ cache' = IF Writes(busy[i]) THEN OvertakenEntry ELSE cache
            /\ UNCHANGED <<holder, callVars>>
       ELSE /\ cache' = Stored(busy[i], ok)
            /\ holder' = Unlocked(busy[i].by) /\ Returned(busy[i].by)
    /\ UNCHANGED <<laneVars, seam, original, peeled, phase, overlapped>>

-----------------------------------------------------------------------------
RunStarts(r) == Install(r) /\ UNCHANGED <<laneVars, callVars, execVars, cache>>
RunEnds(r) == Uninstall(r) /\ UNCHANGED <<laneVars, callVars, execVars, cache>>

Next ==
    \/ \E w \in Worker :
          \/ Ask(w) \/ Enter(w) \/ Decoded(w)
          \/ Call(w) \/ Direct(w) \/ ToLock(w) \/ CallsNone(w) \/ ServeCached(w)
          \/ Locks(w) \/ GiveUp(w) \/ TimesOut(w) \/ Retries(w)
    \/ \E i \in 1..Slots : Raises(i) \/ \E ok \in BOOLEAN : BodyEnds(i, ok)
    \/ \E r \in Run : RunStarts(r) \/ RunEnds(r)

Spec == Init /\ [][Next]_vars

(* The clock moves on: the timeouts, and what a thread does at once.        *)
(* Nothing is assumed of the server or of the tools.                        *)
Fairness ==
    \A w \in Worker :
        /\ WF_vars(Enter(w)) /\ WF_vars(TimesOut(w))
        /\ WF_vars(Locks(w) \/ GiveUp(w) \/ ServeCached(w)) /\ WF_vars(Retries(w))
        /\ WF_vars(Direct(w) \/ ToLock(w) \/ CallsNone(w) \/ ServeCached(w))

FairSpec == Spec /\ Fairness

-----------------------------------------------------------------------------
TypeOK ==
    /\ permits \in 0..LaneLimit
    /\ ticket \in [Worker -> {"none", "permit", "ungated"}]
    /\ seam \in Run \cup {Base}
    /\ original \in [Run -> {Base, Nobody}]
    /\ holder \in [Run -> [Resource -> Worker \cup {Nobody}]]
    /\ at \in [Worker -> {"ready", "gate", "decode", "called", "lock", "tool", "backoff"}]
    /\ tool \in [Worker -> [on : Resource \cup {Unmanaged}, kind : Kinds, tries : 0..MaxRetries]]
    /\ cache \in Entry
    /\ busy \in Seq(Body) /\ waiting \in Seq(Body)
    /\ Len(busy) <= Slots

(* No permit is made up, and none is lost except, for good, one with each   *)
(* request that Ctrl+C cut off in create() (lane_gate.py 25: "A permit is   *)
(* released at most once"; client.py 128 catches Exception only).           *)
PermitsBalance ==
    permits + Cardinality({w \in Worker : ticket[w] = "permit"}) + cut = LaneLimit

(* As long as a run is the only one, every call finds its wrapper, and of   *)
(* two tools called through one wrapper on one resource the second is not   *)
(* even handed to the executor before the first is done, unless that one    *)
(* belongs to a call given up as hung (its lock is gone).  Nothing of the   *)
(* kind holds of runs that overlapped: the remove() of either takes the     *)
(* other's wrapper from the seam, and the calls of that other run go        *)
(* without a lock from then on, although "overlapping team runs in one      *)
(* process can no longer clobber each other's global patch" (team.py        *)
(* 386-388, and 498-501).                                                   *)
SerialUnlessHung ==
    /\ \A r \in Going \ overlapped : seam = r
    /\ LET handed == busy \o waiting
       IN  \A i, j \in DOMAIN handed :
              i # j /\ handed[i].lock = handed[j].lock => handed[i].lock = NoLock

(* The seam never holds the wrapper of a run that is over, however runs     *)
(* overlap: calls through it would raise for good.                          *)
SeamIsAlive == seam \in Run => phase[seam] = "going"

(* An entry of the read cache that is stale, that is which does not tell    *)
(* what the command that stored it would print now, was stored beside a     *)
(* write, or a write that failed or hung came after it, or a command with a *)
(* cwd: so much is left of "a stale entry can never be served"              *)
(* (tool_executor.py 34-36).  A command whose text differs in case alone is *)
(* served the entry as well, which never was about it.                      *)
StaleOnlyIfRaced == cache.there /\ ~cache.so => cache.raced \/ cache.left

(* Nothing a server or a tool does wedges a worker of a run with a          *)
(* deadline: no wait, at the gate, for a lock or for a tool, is for ever.   *)
NoWedge ==
    \A w \in Worker :
        at[w] \in {"gate", "called", "lock", "tool", "backoff"}
            ~> at[w] \in {"ready", "decode"}

=============================================================================
