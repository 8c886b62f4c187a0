----------------------------- MODULE Refinement ------------------------------
(***************************************************************************)
(* The refinement engine: after a task, or on /refine, a background thread *)
(* shows the lessons to a reviewer model and applies the edits it answers  *)
(* with to the lesson store, leaving audit rows; /refine rollback undoes   *)
(* the last round from those rows alone.  Modelled: the one-round flag,    *)
(* looked at and set in two steps by the turn's thread and the UI thread,  *)
(* the review (read before the model call, used after it), sanitising,     *)
(* each database transaction of a round and of a rollback as a step of its *)
(* own, the user switching sessions meanwhile, and a crash anywhere.       *)
(***************************************************************************)
EXTENDS Integers, FiniteSets, Sequences, SequencesExt

CONSTANTS Sessions,    \* chat sessions
          Atoms,       \* distinguishable lesson texts a reviewer may propose
          Threads,     \* threads a round may run on
          MaxEdits,    \* REFINE_MAX_EDITS
          MaxLessons,  \* bound on the lesson ids handed out
          MaxRounds,   \* bound on the rounds started
          MaxUndos     \* bound on the rollbacks

ASSUME RefinementAssumption ==
    /\ MaxEdits \in Nat /\ MaxLessons \in Nat
    /\ MaxRounds \in Nat /\ MaxUndos \in Nat

VARIABLES
    current,     \* agent.session_id
    running,     \* _refine_hook_state["running"]
    lessons,     \* the lessons table: id -> [sess, scope, text]
    ids,         \* the last id handed out (AUTOINCREMENT: never again)
    audit,       \* refinement_history rows of kind "refine", oldest first
    round,       \* per thread: the round it runs
    undo,        \* the rollback the UI thread runs
    started,     \* rounds and rollbacks started
    doubled,     \* history: two threads have seen the flag down before either
                 \* set it, and rounds have been at work without a break since
    restorable   \* history: the store before the last audited round and what
                 \* that deleted, while nothing but its rollback has changed
                 \* the store

refineVars ==
    <<current, running, lessons, ids, audit, round, undo, started, doubled,
      restorable>>

None == 0
Scopes == {"session", "global"}
\* A text is a sequence of atoms: merging appends, and what is cut off at
\* REFINE_MAX_CONTENT_CHARS is everything after the second atom.
Cut(text) == SubSeq(text, 1, IF Len(text) < 2 THEN Len(text) ELSE 2)
NoPast == [of |-> None, before |-> <<>>, deleted |-> {}]
\* `read`, `before`, `deleted`, `alone` and `beaten` are history: the audit rows
\* there were when the number was taken, the lessons then, the ids deleted since,
\* whether nobody else has changed a lesson since, and, of a thread about to set
\* the flag, whether another has set it since it looked.
Idle == [at |-> "idle", sess |-> None, seen |-> <<>>, edits |-> <<>>,
         num |-> None, done |-> None, snaps |-> <<>>, made |-> <<>>,
         read |-> 0, before |-> <<>>, deleted |-> {}, alone |-> FALSE,
         beaten |-> FALSE]

\* The threads that run a round, and whether another one does.
Works(t) == round[t].at \in {"review", "apply", "edits"}
Beside(t) == \E u \in Threads \ {t} : Works(u)

RefineTypeOK ==
    /\ current \in Sessions /\ running \in BOOLEAN
    /\ ids \in 0..MaxLessons /\ DOMAIN lessons \subseteq 1..ids
    /\ \A i \in DOMAIN lessons : /\ lessons[i].sess \in Sessions
                                 /\ lessons[i].scope \in Scopes
                                 /\ lessons[i].text \in Seq(Atoms)
    /\ \A t \in Threads :
          round[t].at \in {"idle", "look", "review", "apply", "edits"}
    /\ doubled \in BOOLEAN
    /\ started.rounds \in 0..MaxRounds /\ started.undos \in 0..MaxUndos

RefineInit ==
    /\ current \in Sessions /\ running = FALSE
    /\ lessons = <<>> /\ ids = 0 /\ audit = <<>>
    /\ round = [t \in Threads |-> Idle]
    /\ undo = [at |-> "idle"]
    /\ started = [rounds |-> 0, undos |-> 0]
    /\ doubled = FALSE /\ restorable = NoPast

-----------------------------------------------------------------------------
(* The store *)

\* load_lessons: what session s sees.
Visible(s) ==
    {i \in DOMAIN lessons : lessons[i].scope = "global" \/ lessons[i].sess = s}

\* UPDATE and DELETE of an id that is not there change no row.
UpdateRow(store, id, text) ==
    [i \in DOMAIN store |-> IF i = id THEN [store[i] EXCEPT !.text = text]
                                      ELSE store[i]]
DeleteRow(store, id) == [i \in DOMAIN store \ {id} |-> store[i]]
InsertRow(store, id, row) ==
    [i \in DOMAIN store \cup {id} |-> IF i = id THEN row ELSE store[i]]

\* last_refine_round
LastRound(s) ==
    LET nums == {audit[i].num : i \in {j \in DOMAIN audit : audit[j].sess = s}}
    IN  IF nums = {} THEN 0 ELSE Max(nums)

-----------------------------------------------------------------------------
(* Sanitising the reviewer's edits *)

Proposals ==
    [op : {"create"}, text : {<<a>> : a \in Atoms}, scope : Scopes, id : {None}]
    \cup [op : {"update"}, text : {<<a>> : a \in Atoms}, scope : {"session"},
          id : 1..ids]
    \cup [op : {"delete"}, text : {<<>>}, scope : {"session"}, id : 1..ids]

\* The prompt's lesson list, newest first.
Listed(s) ==
    LET vis == Visible(s)
        nth(k) == CHOOSE i \in vis : Cardinality({j \in vis : j >= i}) = k
    IN  [k \in 1..Cardinality(vis) |->
            [id |-> nth(k), text |-> lessons[nth(k)].text,
             scope |-> lessons[nth(k)].scope]]

\* The first listed lesson that resembles a text, 0 if none does.
DedupTarget(text, list) == SelectInSeq(list, LAMBDA r : r.text = text)

\* A delete of a global lesson is refused.
MayDelete(r) == r.scope # "global"

\* One proposed edit against the edits accepted so far (acc.edits) and the
\* list as they leave it (acc.list).  A create that resembles a listed lesson
\* becomes an update of it; one that resembles a lesson created in the same
\* round becomes an update of a negative id, which no row has.
Sanitize(known, acc, e) ==
    LET dup == DedupTarget(e.text, acc.list)
        own == SelectInSeq(acc.list, LAMBDA r : r.id = e.id)
        take(edit, list) == [edits |-> Append(acc.edits, edit), list |-> list]
        r == acc.list[dup]
        m == [r EXCEPT !.text = Cut(@ \o e.text)]
    IN  IF Len(acc.edits) >= MaxEdits THEN acc
        ELSE IF e.op = "create"
        THEN IF dup # 0
             THEN take([op |-> "update", id |-> r.id, text |-> m.text,
                        scope |-> r.scope], Append(acc.list, m))
             ELSE take(e, Append(acc.list, [id |-> -(Len(acc.edits) + 1),
                                            text |-> e.text,
                                            scope |-> e.scope]))
        ELSE IF e.id \notin known THEN acc
        ELSE IF e.op = "update"
        THEN take(e, [acc.list EXCEPT ![own].text = e.text])
        ELSE IF MayDelete(acc.list[own]) THEN take(e, acc.list) ELSE acc

Sanitized(raw, seen) ==
    LET known == {seen[k].id : k \in DOMAIN seen}
        start == [edits |-> <<>>, list |-> seen]
    IN  FoldLeft(LAMBDA acc, e : Sanitize(known, acc, e), start, raw).edits

-----------------------------------------------------------------------------
(* A round *)

\* Mutant: the flag is not looked at.
LookAway(t) ==
    /\ round[t].at = "idle" /\ started.rounds < MaxRounds
    /\ started' = [started EXCEPT !.rounds = @ + 1]
    /\ round' = [round EXCEPT ![t].at = "look"]
    /\ UNCHANGED <<current, running, lessons, ids, audit, undo, doubled,
                   restorable>>

\* on_task_finished, on the turn's thread, and /refine, on the UI thread: one
\* round per agent, a later one is dropped.
Look(t) ==
    /\ ~running /\ round[t].at = "idle" /\ started.rounds < MaxRounds
    /\ started' = [started EXCEPT !.rounds = @ + 1]
    /\ round' = [round EXCEPT ![t].at = "look"]
    /\ UNCHANGED <<current, running, lessons, ids, audit, undo, doubled,
                   restorable>>

\* The flag is set, whatever another thread that looked did meanwhile, and the
\* round started; it reads the lessons for the prompt.
Schedule(t) ==
    /\ round[t].at = "look"
    /\ running' = TRUE
    /\ doubled' = (doubled \/ (round[t].beaten /\ Beside(t)))
    /\ round' = [u \in Threads |->
                    IF u = t THEN [Idle EXCEPT !.at = "review", !.sess = current,
                                               !.seen = Listed(current)]
                    ELSE [round[u] EXCEPT !.beaten = (round[u].at = "look")]]
    /\ UNCHANGED <<current, lessons, ids, audit, undo, started, restorable>>

\* Or it cannot be started: the flag stays set, and no round runs again until
\* one that runs beside it ends, or the process is started anew.
ScheduleFails(t) ==
    /\ round[t].at = "look"
    /\ running' = TRUE
    /\ round' = [round EXCEPT ![t] = Idle]
    /\ UNCHANGED <<current, lessons, ids, audit, undo, started, doubled,
                   restorable>>

\* The thread ends and clears the flag, also when another round is at work.
Ends(t) ==
    /\ round' = [round EXCEPT ![t] = Idle]
    /\ running' = FALSE /\ doubled' = (doubled /\ Beside(t))

\* The reviewer fails, times out, answers something else than JSON, or
\* proposes nothing that survives sanitising; or the database refuses a read
\* or a write, at whatever step.
RoundFails(t) ==
    /\ Works(t) /\ Ends(t)
    /\ UNCHANGED <<current, lessons, ids, audit, undo, started, restorable>>

Targets(edits) == {edits[k].id : k \in DOMAIN edits} \ {None}

\* The reviewer answers; the edits are sanitised against the lessons read
\* before the call, the round gets its number, and the targets are
\* snapshotted from the store as it is now.
Review(t) ==
    /\ round[t].at = "review"
    /\ \E n \in 1..(MaxEdits + 1) : \E raw \in [1..n -> Proposals] :
          LET r == round[t]
              edits == Sanitized(raw, r.seen)
              vis == Visible(r.sess)
          IN  /\ edits # <<>>
              /\ round' = [round EXCEPT ![t] =
                    [r EXCEPT !.at = "apply", !.edits = edits, !.seen = <<>>,
                              !.done = 0, !.num = LastRound(r.sess) + 1,
                              !.read = Len(audit), !.before = lessons,
                              !.alone = (undo.at = "idle"),
                              !.snaps = [i \in Targets(edits) |->
                                 [existed |-> i \in vis,
                                  text |-> IF i \in vis
                                           THEN lessons[i].text ELSE <<>>]]]]
    /\ restorable' = NoPast
    /\ UNCHANGED <<current, running, lessons, ids, audit, undo, started, doubled>>

\* What thread t does to the lessons is not undone by another round's rollback.
Others(t, r) == [u \in Threads |-> IF u = t THEN r
                                   ELSE [round[u] EXCEPT !.alone = FALSE]]

\* apply_edits: one transaction for each edit.
Apply(t) ==
    LET r == round[t]
        e == r.edits[r.done + 1]
    IN  /\ r.at = "apply" /\ r.done < Len(r.edits)
        /\ \/ /\ e.op = "create" /\ ids < MaxLessons /\ ids' = ids + 1
              /\ lessons' = InsertRow(lessons, ids + 1,
                     [sess |-> r.sess, scope |-> e.scope, text |-> e.text])
              /\ round' = Others(t, [r EXCEPT !.done = @ + 1,
                                              !.made = Append(@, ids + 1)])
           \/ /\ e.op = "update" /\ UNCHANGED ids
              /\ lessons' = UpdateRow(lessons, e.id, e.text)
              /\ round' = Others(t, [r EXCEPT !.done = @ + 1])
           \/ /\ e.op = "delete" /\ UNCHANGED ids
              /\ lessons' = DeleteRow(lessons, e.id)
              /\ round' = Others(t, [r EXCEPT !.done = @ + 1,
                                              !.deleted = @ \cup {e.id}])
        /\ restorable' = NoPast
        /\ UNCHANGED <<current, running, audit, undo, started, doubled>>

\* The round's row says, for the history, how many rows there were when its
\* number was taken, and whether the flag had been passed twice.
AuditRow(r, action) ==
    [sess |-> r.sess, num |-> r.num, action |-> action, snaps |-> <<>>,
     made |-> <<>>, read |-> 0, doubled |-> FALSE]
RoundRow(r) ==
    [AuditRow(r, "round") EXCEPT !.snaps = r.snaps, !.made = r.made,
                                 !.read = r.read, !.doubled = doubled]

\* Whether the round can be undone, and to what.
Past(r) ==
    IF r.alone THEN [of |-> Len(audit) + 1, before |-> r.before,
                     deleted |-> r.deleted]
    ELSE NoPast

\* Mutant: the audit row is written without the created ids.
AuditRoundNoCreated(t) ==
    LET r == round[t]
    IN  /\ r.at = "apply" /\ r.done = Len(r.edits)
        /\ audit' = Append(audit, [RoundRow(r) EXCEPT !.made = <<>>])
        /\ round' = [round EXCEPT ![t].at = "edits", ![t].done = 0]
        /\ restorable' = Past(r)
        /\ UNCHANGED <<current, running, lessons, ids, undo, started, doubled>>

\* The round's audit row, with the snapshots and the created ids.
AuditRound(t) ==
    LET r == round[t]
    IN  /\ r.at = "apply" /\ r.done = Len(r.edits)
        /\ audit' = Append(audit, RoundRow(r))
        /\ round' = [round EXCEPT ![t].at = "edits", ![t].done = 0]
        /\ restorable' = Past(r)
        /\ UNCHANGED <<current, running, lessons, ids, undo, started, doubled>>

\* One row for each edit, then the thread ends and clears the flag.
AuditEdit(t) ==
    LET r == round[t]
    IN  /\ r.at = "edits" /\ r.done < Len(r.edits)
        /\ audit' = Append(audit, AuditRow(r, "edit"))
        /\ round' = [round EXCEPT ![t].done = @ + 1]
        /\ UNCHANGED <<current, running, lessons, ids, undo, started, doubled,
                       restorable>>

EndRound(t) ==
    /\ round[t].at = "edits" /\ round[t].done = Len(round[t].edits)
    /\ Ends(t)
    /\ UNCHANGED <<current, lessons, ids, audit, undo, started, restorable>>

-----------------------------------------------------------------------------
(* Rollback, on the UI thread; nothing keeps it apart from a running round *)

\* undo_last_round looks for a round row among the session's last 5 rows.
Recent(s) ==
    LET own == {i \in DOMAIN audit : audit[i].sess = s}
    IN  {i \in own : Cardinality({j \in own : j > i}) < 5}

RoundRows(s) == {i \in Recent(s) : audit[i].action = "round"}

StartUndo ==
    /\ undo.at = "idle" /\ started.undos < MaxUndos
    /\ RoundRows(current) # {}
    /\ LET last == Max(RoundRows(current))
       IN  /\ undo' = [at |-> "undo", sess |-> current, row |-> last,
                       num |-> audit[last].num, snaps |-> audit[last].snaps,
                       todo |-> DOMAIN audit[last].snaps,
                       drop |-> audit[last].made]
           /\ restorable' = IF restorable.of = last THEN restorable ELSE NoPast
    /\ started' = [started EXCEPT !.undos = @ + 1]
    /\ round' = [t \in Threads |-> [round[t] EXCEPT !.alone = FALSE]]
    /\ UNCHANGED <<current, running, lessons, ids, audit, doubled>>

\* Each snapshot is written back, or the lesson deleted if it did not exist,
\* in the order of the ids.  A write-back of a lesson that is gone changes
\* nothing.
UndoSnap ==
    /\ undo.at = "undo" /\ undo.todo # {}
    /\ LET i == Min(undo.todo)
       IN  /\ lessons' = IF undo.snaps[i].existed
                         THEN UpdateRow(lessons, i, undo.snaps[i].text)
                         ELSE DeleteRow(lessons, i)
           /\ undo' = [undo EXCEPT !.todo = @ \ {i}]
    /\ UNCHANGED <<current, running, ids, audit, round, started, doubled,
                   restorable>>

\* A write the database refuses is left out, and the rollback goes on.
UndoFails ==
    /\ undo.at = "undo"
    /\ \/ /\ undo.todo # {}
          /\ undo' = [undo EXCEPT !.todo = @ \ {Min(@)}]
       \/ /\ undo.todo = {} /\ undo.drop # <<>>
          /\ undo' = [undo EXCEPT !.drop = Tail(@)]
    /\ restorable' = NoPast
    /\ UNCHANGED <<current, running, lessons, ids, audit, round, started, doubled>>

\* Then the lessons the round created are deleted.
UndoCreated ==
    /\ undo.at = "undo" /\ undo.todo = {} /\ undo.drop # <<>>
    /\ lessons' = DeleteRow(lessons, Head(undo.drop))
    /\ undo' = [undo EXCEPT !.drop = Tail(@)]
    /\ UNCHANGED <<current, running, ids, audit, round, started, doubled,
                   restorable>>

\* The rollback leaves a row of its own.
EndUndo ==
    /\ undo.at = "undo" /\ undo.todo = {} /\ undo.drop = <<>>
    /\ audit' = Append(audit, AuditRow(undo, "undo"))
    /\ undo' = [at |-> "idle"]
    /\ UNCHANGED <<current, running, lessons, ids, round, started, doubled,
                   restorable>>

\* /new, /load: the agent moves to another session.
SwitchSession ==
    /\ undo.at = "idle"
    /\ \E s \in Sessions \ {current} : current' = s
    /\ UNCHANGED <<running, lessons, ids, audit, round, undo, started, doubled,
                   restorable>>

\* The process dies; the database stays, the threads and the flag do not.
Crash ==
    /\ running \/ undo.at # "idle"
    /\ running' = FALSE /\ doubled' = FALSE
    /\ round' = [t \in Threads |-> Idle]
    /\ undo' = [at |-> "idle"]
    /\ UNCHANGED <<current, lessons, ids, audit, started, restorable>>

RefineNext ==
    \/ \E t \in Threads :
          \/ Look(t) \/ Schedule(t) \/ ScheduleFails(t) \/ RoundFails(t)
          \/ Review(t) \/ Apply(t) \/ AuditRound(t) \/ AuditEdit(t) \/ EndRound(t)
    \/ StartUndo \/ UndoSnap \/ UndoCreated \/ UndoFails \/ EndUndo
    \/ SwitchSession \/ Crash

RefineSpec == RefineInit /\ [][RefineNext]_refineVars

-----------------------------------------------------------------------------
\* A rollback of a round, with no other change of the store since the round took
\* its snapshots and no write refused, leaves the store exactly as it was before
\* the round but for the lessons the round deleted, also when it repeats a rollback
\* or begins where a crash has cut one short.  Those lessons stay gone: their rows
\* are "restored" by an UPDATE that finds no row (refinement.py:442-447), where the
\* module says that undo_last_round "reverts the round from that audit trail alone"
\* (25-27).
UndoRestores ==
    [][EndUndo /\ restorable.of = undo.row
        => lessons = [i \in DOMAIN restorable.before \ restorable.deleted |->
                         restorable.before[i]]]_refineVars

\* Two rounds of a session have the same number, so that a rollback cannot tell
\* them apart, only if two threads saw the one-round flag down before either set
\* it (refine_hook.py:149 and 151, 220 and 222, unlocked), where the comment (141)
\* promises "one in-flight round per agent": the later of the two has taken its
\* number before the earlier one wrote its row.  Nothing else makes numbers meet,
\* crashes between the edits and their audit row included.
RoundsNumbered ==
    \A i, j \in DOMAIN audit :
        /\ i < j /\ audit[i].action = "round" /\ audit[j].action = "round"
        /\ audit[i].sess = audit[j].sess /\ audit[i].num = audit[j].num
        => audit[j].read < i /\ audit[i].doubled /\ audit[j].doubled
=============================================================================
