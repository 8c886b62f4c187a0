---------------------------- MODULE SessionStore -----------------------------
(***************************************************************************)
(* Sessions and their persistence: the chat_log and session_meta tables,   *)
(* and the agent that holds one session's rows in memory while it appends  *)
(* to both.  Three threads write: the UI thread (/new, /load and the       *)
(* picker, /fork, /rewind, /rewind restore), the turn thread, and a team   *)
(* run that ends and leaves its report.  Each database transaction is a    *)
(* step; the database may refuse one (busy for 2 s); the process may die   *)
(* between any two and is started again with or without --new.             *)
(***************************************************************************)
EXTENDS Integers, Sequences, SequencesExt, FiniteSets

CONSTANTS MaxSessions,  \* sessions ever created
          MaxRows,      \* bound on the rows written
          GhostMax,     \* _REWIND_GHOST_MAX
          RowLimit,     \* HISTORY_ROW_LIMIT
          MaxCommands,  \* bound on the UI commands that change something
          MaxReports,   \* team runs that end
          MaxFaults     \* bound on refused transactions and on crashes

ASSUME SessionStoreAssumption ==
    /\ MaxSessions \in Nat \ {0} /\ MaxRows \in Nat /\ GhostMax \in Nat
    /\ RowLimit \in Nat \ {0} /\ MaxCommands \in Nat /\ MaxReports \in Nat
    /\ MaxFaults \in Nat

VARIABLES
    log,      \* chat_log: session -> its rows, oldest first
    ghost,    \* session_meta "rewind_ghost" of each session
    last,     \* session_meta "last_session"
    session,  \* agent.session_id
    history,  \* agent.history
    turn,     \* the turn thread: none, start, logged, run or tail
    owed,     \* a row in memory and not yet in the log, or none
    ui,       \* what the UI thread is in the middle of
    used,     \* sessions, rows, commands, reports and faults so far
    refused,  \* history: rows the database refused
    past,     \* history: session -> its log before the last rewind, while
              \* nothing else has changed it
    stale     \* history: memory was to be read anew, and was not

vars == <<log, ghost, last, session, history, turn, owed, ui, used, refused,
          past, stale>>

Session == 1..MaxSessions
Row == [id : 1..MaxRows, user : BOOLEAN]
NoGhost == [post |-> -1, rows |-> <<>>]
NoRow == [id |-> 0, user |-> FALSE]
Resting == [at |-> "idle"]

Users(rows) == {i \in DOMAIN rows : rows[i].user}

TypeOK ==
    /\ log \in [Session -> Seq(Row)] /\ history \in Seq(Row)
    /\ \A s \in Session : /\ ghost[s].post \in -1..MaxRows
                          /\ ghost[s].rows \in Seq(Row)
    /\ last \in Session /\ session \in 1..used.sessions
    /\ turn \in {"none", "start", "logged", "run", "tail"}
    /\ owed \in Row \cup {NoRow}
    /\ ui.at \in {"idle", "load", "remember", "ghost", "replace", "restore",
                  "clear", "refresh"}
    /\ used.rows \in 0..MaxRows /\ used.sessions \in Session
    /\ refused \subseteq 1..MaxRows /\ stale \in BOOLEAN

Init ==
    /\ log = [s \in Session |-> <<>>]
    /\ ghost = [s \in Session |-> NoGhost]
    /\ last = 1 /\ session = 1 /\ history = <<>>
    /\ turn = "none" /\ owed = NoRow /\ ui = Resting
    /\ used = [sessions |-> 1, rows |-> 0, commands |-> 0, reports |-> 0,
               faults |-> 0]
    /\ refused = {}
    /\ past = [s \in Session |-> [known |-> FALSE, rows |-> <<>>]]
    /\ stale = FALSE

-----------------------------------------------------------------------------
(* The tables *)

Forget(s) == past' = [past EXCEPT ![s] = [known |-> FALSE, rows |-> <<>>]]

\* load_history with a limit: ORDER BY id ASC LIMIT n, the oldest rows.
Loaded(s) == SubSeq(log[s], 1, IF Len(log[s]) < RowLimit THEN Len(log[s])
                                                         ELSE RowLimit)

\* log_message and its kin.
Log(s, row) == log' = [log EXCEPT ![s] = Append(@, row)] /\ Forget(s)

\* "database is locked" after the busy timeout.
Refuse == used.faults < MaxFaults /\ used' = [used EXCEPT !.faults = @ + 1]

-----------------------------------------------------------------------------
(* The turn thread *)

\* The UI thread starts it; until _run_turn sets _turn_active it is not busy.
Submit ==
    /\ turn = "none" /\ ui = Resting /\ used.rows < MaxRows
    /\ turn' = "start"
    /\ UNCHANGED <<log, ghost, last, session, history, owed, ui, used, refused,
                   past, stale>>

\* A row: the user's text, then what the loop adds (replies and tool rows, or
\* user rows of its own: nudges, stall messages, interjections).  It goes into
\* memory first.
Say ==
    /\ turn \in {"start", "run"} /\ owed = NoRow /\ used.rows < MaxRows
    /\ \E user \in IF turn = "start" THEN {TRUE} ELSE BOOLEAN :
          LET row == [id |-> used.rows + 1, user |-> user]
          IN  history' = Append(history, row) /\ owed' = row
    /\ used' = [used EXCEPT !.rows = @ + 1]
    /\ UNCHANGED <<log, ghost, last, session, turn, ui, refused, past, stale>>

\* It goes into the log, of the session that is current by now.
Persist ==
    /\ owed # NoRow
    /\ Log(session, owed)
    /\ owed' = NoRow /\ turn' = IF turn = "start" THEN "logged" ELSE turn
    /\ UNCHANGED <<ghost, last, session, history, ui, used, refused, stale>>

\* After the user's row (and the title) the turn counts as running.
Activate ==
    /\ turn = "logged"
    /\ turn' = "run"
    /\ UNCHANGED <<log, ghost, last, session, history, owed, ui, used, refused,
                   past, stale>>

\* A refused row ends the turn with an exception.
PersistFails ==
    /\ owed # NoRow /\ Refuse
    /\ refused' = refused \cup {owed.id}
    /\ owed' = NoRow /\ turn' = "tail"
    /\ UNCHANGED <<log, ghost, last, session, history, ui, past, stale>>

EndTurn ==
    /\ turn = "run" /\ owed = NoRow
    /\ turn' = "tail"
    /\ UNCHANGED <<log, ghost, last, session, history, owed, ui, used, refused,
                   past, stale>>

\* The UI's worker loop remembers the session and gives the handle up.
Finalize ==
    /\ turn = "tail"
    /\ turn' = "none" /\ last' = session
    /\ UNCHANGED <<log, ghost, session, history, owed, ui, used, refused, past,
                   stale>>

Busy == turn = "run"

\* A team run ends: TeamCoordinator._finish logs the report, to the session
\* that is current by now and not into memory.
Report ==
    /\ used.reports < MaxReports /\ used.rows < MaxRows
    /\ Log(session, [id |-> used.rows + 1, user |-> FALSE])
    /\ used' = [used EXCEPT !.rows = @ + 1, !.reports = @ + 1]
    /\ UNCHANGED <<ghost, last, session, history, turn, owed, ui, refused,
                   stale>>

-----------------------------------------------------------------------------
(* The UI thread: moving between sessions *)

Command == /\ ui = Resting /\ used.commands < MaxCommands
           /\ used' = [used EXCEPT !.commands = @ + 1]

\* /new.  Nothing keeps it apart from a running turn.
New ==
    /\ ui = Resting /\ used.commands < MaxCommands
    /\ used.sessions < MaxSessions
    /\ session' = used.sessions + 1 /\ history' = <<>> /\ stale' = FALSE
    /\ ui' = [at |-> "remember"]
    /\ used' = [used EXCEPT !.commands = @ + 1, !.sessions = @ + 1]
    /\ UNCHANGED <<log, ghost, last, turn, owed, refused, past>>

\* /load and the picker: _switch_session sets the id, then loads the rows.
Switch ==
    /\ Command
    /\ \E s \in 1..used.sessions : s # session /\ session' = s
    /\ ui' = [at |-> "load"]
    /\ UNCHANGED <<log, ghost, last, history, turn, owed, refused, past, stale>>

Load ==
    /\ ui.at = "load"
    /\ history' = Loaded(session) /\ stale' = FALSE
    /\ ui' = [at |-> "remember"]
    /\ UNCHANGED <<log, ghost, last, session, turn, owed, used, refused, past>>

\* Reading them fails after the id was set, or a rewind's reading of them anew
\* does: memory keeps the rows it had, or has the new ones when it was the task
\* log or the summaries, read next, that failed.
ReadFails ==
    /\ ui.at \in {"load", "refresh"} /\ Refuse
    /\ \/ history' = history /\ stale' = TRUE
       \/ history' = Loaded(session) /\ stale' = FALSE
    /\ ui' = Resting
    /\ UNCHANGED <<log, ghost, last, session, turn, owed, refused, past>>

Remember ==
    /\ ui.at = "remember"
    /\ last' = session /\ ui' = Resting
    /\ UNCHANGED <<log, ghost, session, history, turn, owed, used, refused,
                   past, stale>>

\* The session is not remembered, or a restore's slice not cleared; then its
\* reading of the rows does not happen either.
MetaFails ==
    /\ ui.at \in {"remember", "clear"} /\ Refuse
    /\ stale' = (stale \/ ui.at = "clear")
    /\ ui' = Resting
    /\ UNCHANGED <<log, ghost, last, session, history, turn, owed, refused,
                   past>>

\* /fork [n]: the rows up to and including user message n, or all, are copied
\* into a new session, which becomes the current one.
Fork ==
    /\ ui = Resting /\ used.commands < MaxCommands
    /\ used.sessions < MaxSessions /\ log[session] # <<>>
    /\ \E cut \in Users(log[session]) \cup {Len(log[session])} :
          log' = [log EXCEPT ![used.sessions + 1] = SubSeq(log[session], 1, cut)]
    /\ session' = used.sessions + 1
    /\ ui' = [at |-> "load"]
    /\ used' = [used EXCEPT !.commands = @ + 1, !.sessions = @ + 1]
    /\ UNCHANGED <<ghost, last, history, turn, owed, refused, past, stale>>

-----------------------------------------------------------------------------
(* The UI thread: /rewind *)

\* /rewind n: everything from the n-th last user message on is removed.  The
\* rows are read first.
Rewind ==
    /\ ~Busy /\ Users(log[session]) # {} /\ Command
    /\ \E cut \in Users(log[session]) :
          LET rows == log[session]
              kept == SubSeq(rows, 1, cut - 1)
          IN  ui' = [at |-> "ghost", kept |-> kept,
                     gone |-> SubSeq(rows, cut, Len(rows)),
                     post |-> Cardinality(Users(kept)), safe |-> FALSE]
    /\ UNCHANGED <<log, ghost, last, session, history, turn, owed, refused,
                   past, stale>>

\* The slice is saved, unless it is too large or the database refuses.
SaveGhost ==
    /\ ui.at = "ghost"
    /\ \/ /\ Len(ui.gone) <= GhostMax
          /\ ghost' = [ghost EXCEPT ![session] = [post |-> ui.post,
                                                  rows |-> ui.gone]]
          /\ ui' = [ui EXCEPT !.at = "replace", !.safe = TRUE]
          /\ UNCHANGED used
       \/ /\ Len(ui.gone) > GhostMax
          /\ ui' = [ui EXCEPT !.at = "replace"]
          /\ UNCHANGED <<ghost, used>>
       \/ /\ Len(ui.gone) <= GhostMax /\ Refuse
          /\ ui' = [ui EXCEPT !.at = "replace"]
          /\ UNCHANGED ghost
    /\ UNCHANGED <<log, last, session, history, turn, owed, refused, past,
                   stale>>

\* Mutant: the rows in memory are left as they were.
ReplaceOnly ==
    /\ ui.at = "replace"
    /\ log' = [log EXCEPT ![session] = ui.kept]
    /\ past' = [past EXCEPT ![session] =
                   [known |-> ui.safe /\ log[session] = ui.kept \o ui.gone,
                    rows |-> log[session]]]
    /\ ui' = Resting
    /\ UNCHANGED <<ghost, last, session, history, turn, owed, used, refused,
                   stale>>

\* replace_session_history: one transaction, or none of it.
Replace ==
    /\ ui.at = "replace"
    /\ log' = [log EXCEPT ![session] = ui.kept]
    /\ past' = [past EXCEPT ![session] =
                   [known |-> ui.safe /\ log[session] = ui.kept \o ui.gone,
                    rows |-> log[session]]]
    /\ ui' = [at |-> "refresh"]
    /\ UNCHANGED <<ghost, last, session, history, turn, owed, used, refused,
                   stale>>

ReplaceFails ==
    /\ ui.at \in {"replace", "restore"} /\ Refuse
    /\ ui' = Resting
    /\ UNCHANGED <<log, ghost, last, session, history, turn, owed, refused,
                   past, stale>>

\* _refresh_history_cache
Refresh ==
    /\ ui.at = "refresh"
    /\ history' = Loaded(session) /\ stale' = FALSE
    /\ ui' = Resting
    /\ UNCHANGED <<log, ghost, last, session, turn, owed, used, refused, past>>

\* Mutant: the slice is put back whatever was said since.
RestoreAnyway ==
    /\ ~Busy /\ ghost[session] # NoGhost /\ Command
    /\ ui' = [at |-> "restore", rows |-> log[session] \o ghost[session].rows]
    /\ UNCHANGED <<log, ghost, last, session, history, turn, owed, refused,
                   past, stale>>

\* /rewind restore: refused, and the slice dropped, when the session has not
\* as many user rows as the rewind left it with.
Restore ==
    /\ ~Busy /\ ghost[session] # NoGhost /\ Command
    /\ IF Cardinality(Users(log[session])) = ghost[session].post
       THEN /\ ui' = [at |-> "restore",
                      rows |-> log[session] \o ghost[session].rows]
            /\ UNCHANGED ghost
       ELSE /\ ghost' = [ghost EXCEPT ![session] = NoGhost]
            /\ UNCHANGED ui
    /\ UNCHANGED <<log, last, session, history, turn, owed, refused, past,
                   stale>>

\* Mutant: the slice is put in front of the rows.
PutBackInFront ==
    /\ ui.at = "restore"
    /\ log' = [log EXCEPT ![session] = ghost[session].rows \o log[session]]
    /\ Forget(session)
    /\ ui' = [at |-> "clear"]
    /\ UNCHANGED <<ghost, last, session, history, turn, owed, used, refused,
                   stale>>

PutBack ==
    /\ ui.at = "restore"
    /\ log' = [log EXCEPT ![session] = ui.rows]
    /\ Forget(session)
    /\ ui' = [at |-> "clear"]
    /\ UNCHANGED <<ghost, last, session, history, turn, owed, used, refused,
                   stale>>

Clear ==
    /\ ui.at = "clear"
    /\ ghost' = [ghost EXCEPT ![session] = NoGhost]
    /\ ui' = [at |-> "refresh"]
    /\ UNCHANGED <<log, last, session, history, turn, owed, used, refused, past,
                   stale>>

-----------------------------------------------------------------------------
\* The process dies and is started again: on the session that was remembered,
\* or with --new on a fresh one.
Restart ==
    /\ used.faults < MaxFaults
    /\ \/ /\ session' = last
          /\ used' = [used EXCEPT !.faults = @ + 1]
       \/ /\ used.sessions < MaxSessions
          /\ session' = used.sessions + 1
          /\ used' = [used EXCEPT !.faults = @ + 1, !.sessions = @ + 1]
    /\ last' = session'
    /\ history' = Loaded(session') /\ stale' = FALSE
    /\ turn' = "none" /\ owed' = NoRow /\ ui' = Resting
    /\ UNCHANGED <<log, ghost, refused, past>>

Next ==
    \/ Submit \/ Say \/ Persist \/ Activate \/ PersistFails
    \/ EndTurn \/ Finalize
    \/ Report
    \/ New \/ Switch \/ Load \/ ReadFails \/ Remember \/ MetaFails \/ Fork
    \/ Rewind \/ SaveGhost \/ Replace \/ ReplaceFails \/ Refresh
    \/ Restore \/ PutBack \/ Clear
    \/ Restart

Spec == Init /\ [][Next]_vars

-----------------------------------------------------------------------------
\* No row is in a session's log twice, whatever is rewound and restored, also
\* when the process dies after the rows were put back and before the saved
\* slice was cleared, and a second restore finds both.
NoCopies ==
    \A s \in Session : \A i, j \in DOMAIN log[s] :
        log[s][i].id = log[s][j].id => i = j

\* A restore with nothing written to the session since its rewind makes the
\* log what it was before that rewind, in order.
RestoreUndoes ==
    [][PutBack /\ past[session].known
        => log'[session] = past[session].rows]_vars

\* The rows at these indices of a list are rows of another, in their order.
Embedded(rows, some, all) ==
    \E at \in [some -> DOMAIN all] :
        /\ \A i \in some : all[at[i]] = rows[i]
        /\ \A i, j \in some : i < j => at[i] < at[j]

\* The rows in memory, but for the one on its way to the log and those the
\* database refused.
Settled == {i \in DOMAIN history : /\ history[i].id # owed.id
                                  /\ history[i].id \notin refused}

\* What the agent works from was persisted, in that order: except for the row
\* on its way to the log and rows the database refused, the history in memory
\* is a subsequence of the current session's log, so that a restart shows the
\* user no other conversation.  Turns go on while the user loads, forks and
\* starts sessions, and while a rewind is between its steps.  It fails, until
\* memory is next read, where a read did not happen: _switch_session ("Load
\* history for *session_id* into this agent instance", agent.py:120) has set
\* the id when the read raises, and /rewind (_refresh_history_cache, "Reload
\* self.history / task log / summaries from the DB", app.py:1759) swallows it.
MemoryInLog ==
    ~stale /\ ui.at \notin {"load", "refresh", "clear"} =>
        Embedded(history, Settled, log[session])
=============================================================================
