---------------------------- MODULE AgentTurnProofs ----------------------------
(***************************************************************************)
(* For any number of turns and whatever the limits of the loop: what is    *)
(* sent to the LLM has its tool calls answered, the task records of the    *)
(* turns are closed, charged and reviewed as they should be, and an        *)
(* interrupt lets no further pass begin.                                   *)
(*                                                                         *)
(* The inductive invariant IInv has a part per concern.  Each part has a   *)
(* lemma that says every step keeps it, with one step per action.          *)
(***************************************************************************)
EXTENDS AgentTurn, TLAPS

(* The loop is between its passes or in one, and its record is its own.     *)
InPass == pc \in {"top", "call", "stream", "run", "tools"}

Closed == {"complete", "interrupted", "failed"}

(* TypeOK, variable by variable, with those it leaves out.                  *)
Flags ==
    /\ active \in BOOLEAN /\ stop \in BOOLEAN /\ dangling \in BOOLEAN
    /\ reviewing \in BOOLEAN /\ review \in BOOLEAN

Places ==
    /\ at \in [Turn -> {"new", "waiting", "going", "over"}]
    /\ lock \in Turn \cup {Nobody} /\ filed \in Turn \cup {Nobody}
    /\ pc \in {"idle", "begin", "start", "top", "call", "stream", "run", "tools", "leave"}
    /\ crashed \subseteq Turn

Counters ==
    /\ turn \in 0..MaxToolTurns /\ attempt \in 0..(MaxRetries + 1)
    /\ owed \in 0..MaxCalls /\ queue \in 0..QueueLen
    /\ alike \in Nat /\ surplus \in Nat /\ issued \in Nat

Rows ==
    /\ record \in [Turn -> {"none", "open", "lost"} \cup Closed]
    /\ charged \in [Turn -> Nat] /\ injected \in [Turn -> Nat] /\ reviewed \in [Turn -> Nat]

Types == Flags /\ Places /\ Counters /\ Rows

(* Who holds the lock, and what the others may be at.                       *)
Holding ==
    /\ pc = "idle" <=> lock = Nobody
    /\ active <=> pc \notin {"idle", "begin"}
    /\ \A t \in Turn : at[t] = "going" <=> lock = t

(* A pass with tool calls is not the last, and has results to add; an       *)
(* attempt is made only if one is left.                                     *)
Counting ==
    /\ pc \in {"run", "tools"} => turn < MaxToolTurns /\ owed > 0
    /\ pc = "stream" => attempt <= MaxRetries

(* What the messages lack: nothing, but in the pass that runs the tools and *)
(* behind a turn that crashed there.                                        *)
Pairing ==
    /\ pc \in {"start", "top", "call", "stream"} => owed = 0
    /\ pc \in {"idle", "begin", "leave"} => (owed > 0 => crashed # {})
    /\ dangling => crashed # {}

(* The record of a turn is opened by its loop, which has it until its end.  *)
Records ==
    /\ \A t \in Turn :
          /\ at[t] \in {"new", "waiting"} => record[t] = "none" /\ injected[t] = 0
          /\ record[t] = "open" => lock = t /\ InPass
          /\ record[t] \in Closed => charged[t] = injected[t]
    /\ pc \in {"begin", "start"} => record[lock] = "none" /\ injected[lock] = 0
    /\ InPass => filed = lock /\ record[lock] \in Opened /\ surplus = injected[lock]
    /\ filed # Nobody => record[filed] # "none"

(* Only a closed record was ever reviewed, and a second review took a crash *)
(* without a record.                                                        *)
Reviews ==
    /\ \A t \in Turn :
          /\ record[t] \notin Closed => reviewed[t] = 0
          /\ reviewed[t] > 1 => \E u \in crashed \ {t} : record[u] = "none"
          /\ t \in crashed => at[t] = "over" \/ (lock = t /\ pc = "leave")

(* The calls made since the stop event are attempts of one pass.            *)
Stopping ==
    /\ issued <= MaxRetries + 1
    /\ ~stop => issued = 0
    /\ pc = "call" => issued <= attempt
    /\ pc = "stream" => issued <= attempt + 1

IInv == Types /\ Holding /\ Counting /\ Pairing /\ Records /\ Reviews /\ Stopping

-----------------------------------------------------------------------------
LEMMA TypesImplyTypeOK == Types => TypeOK
  BY DEF Types, Flags, Places, Counters, Rows, TypeOK, Closed

LEMMA Numbers ==
    /\ MaxToolTurns \in Nat /\ MaxRetries \in Nat
    /\ StallTurns \in Nat \ {0} /\ MaxCalls \in Nat \ {0} /\ QueueLen \in Nat \ {0}
    /\ Nobody \notin Turn
  BY TurnAssumption DEF TurnAssumption

(* The turn of which the loop runs.                                         *)
LEMMA LockIsTurn == ASSUME Types, Holding, pc # "idle" PROVE lock \in Turn
  BY DEF Types, Places, Holding

LEMMA InitIInv == Init => IInv
<1> SUFFICES ASSUME Init PROVE IInv
  OBVIOUS
<1> USE Numbers DEF Init
<1>1. Types
  <2>1. Flags /\ Places
    BY DEF Flags, Places
  <2>2. Counters
    BY DEF Counters
  <2>3. Rows
    BY DEF Rows
  <2> QED
    BY <2>1, <2>2, <2>3 DEF Types
<1>2. Holding /\ Counting /\ Pairing
  BY DEF Holding, Counting, Pairing
<1>3. Records
  BY DEF Records, InPass, Closed
<1>4. Reviews /\ Stopping
  BY DEF Reviews, Stopping
<1> QED
  BY <1>1, <1>2, <1>3, <1>4 DEF IInv

-----------------------------------------------------------------------------
(* The end of a turn, as the actions share it.                              *)

LEMMA EndTurnTypes ==
    ASSUME Types, NEW t \in Turn \cup {Nobody}, NEW s \in Closed, EndTurn(t, s)
    PROVE  /\ record' \in [Turn -> {"none", "open", "lost"} \cup Closed]
           /\ charged' \in [Turn -> Nat] /\ reviewed' \in [Turn -> Nat]
           /\ reviewing' \in BOOLEAN /\ filed' = filed /\ pc' = "leave"
<1> USE DEF EndTurn
<1>1. record' \in [Turn -> {"none", "open", "lost"} \cup Closed]
  BY DEF Finish, Types, Rows
<1>2. charged' \in [Turn -> Nat]
  BY DEF Finish, Interventions, Types, Rows, Counters
<1>3. reviewed' \in [Turn -> Nat] /\ reviewing' \in BOOLEAN
  BY DEF Refine, Types, Rows, Flags, WorthReview
<1> QED
  BY <1>1, <1>2, <1>3

-----------------------------------------------------------------------------
(* Every step keeps every part.                                             *)

(* The flags.                                                               *)
LEMMA FlagsStep ==
    ASSUME IInv, [Next]_vars
    PROVE  Flags'
<1> USE Numbers, LockIsTurn
    DEF IInv, Types, Flags, Places, userVars, loopVars, taskVars, rowVars, Holding
<1>1. ASSUME NEW t \in Turn, Ask(t)
       PROVE  Flags'
  BY <1>1 DEF Ask
<1>2. ASSUME NEW t \in Turn, Acquire(t)
       PROVE  Flags'
  BY <1>2 DEF Acquire
<1>3. CASE Begin
  BY <1>3 DEF Begin, Say
<1>4. CASE OpenRecord
  BY <1>4 DEF OpenRecord, Opened, Closed
<1>5. CASE Stopped
  <2>1. EndTurn(lock, "interrupted")
    BY <1>5 DEF Stopped
  <2> QED
    BY <1>5, <2>1, EndTurnTypes DEF Stopped, Closed
<1>6. CASE Drain
  BY <1>6 DEF Drain, Inject, Say
<1>7. CASE Issue
  BY <1>7 DEF Issue
<1>8. CASE StreamBreaks
  BY <1>8 DEF StreamBreaks, Say, SayAsUser
<1>9. CASE ReEmit
  BY <1>9 DEF ReEmit, AskForMore, NextPass, Say, SayAsUser
<1>10. CASE Continue
  BY <1>10 DEF Continue, AskForMore, NextPass, Say, SayAsUser
<1>11. CASE Answer
  <2>1. EndTurn(lock, "complete")
    BY <1>11 DEF Answer
  <2> QED
    BY <1>11, <2>1, EndTurnTypes DEF Answer, Closed, Say
<1>12. CASE LastPass
  <2>1. EndTurn(lock, "complete")
    BY <1>12 DEF LastPass
  <2> QED
    BY <1>12, <2>1, EndTurnTypes DEF LastPass, Closed, Say
<1>13. CASE Calls
  BY <1>13 DEF Calls, Say, SayAsUser
<1>14. CASE RunTools
  BY <1>14 DEF RunTools
<1>15. CASE ToolResult
  BY <1>15 DEF ToolResult, Result, NextPass
<1>16. CASE Crash
  <2>1. EndTurn(filed, "failed")
    BY <1>16 DEF Crash
  <2> QED
    BY <1>16, <2>1, EndTurnTypes DEF Crash, Closed
<1>17. CASE Leave
  BY <1>17 DEF Leave
<1>18. CASE Interrupt
  BY <1>18 DEF Interrupt
<1>19. CASE Review
  BY <1>19 DEF Review
<1>20. CASE Verdict
  BY <1>20 DEF Verdict, Push
<1>21. CASE RefineEnds
  BY <1>21 DEF RefineEnds
<1>22. CASE UNCHANGED vars
  BY <1>22 DEF vars
<1> QED
  BY <1>1, <1>2, <1>3, <1>4, <1>5, <1>6, <1>7, <1>8, <1>9, <1>10, <1>11, <1>12, <1>13,
     <1>14, <1>15, <1>16, <1>17, <1>18, <1>19, <1>20, <1>21, <1>22 DEF Next, Loop

(* The lock is held by a turn wherever the loop is.                         *)
LEMMA PlacesStep ==
    ASSUME IInv, [Next]_vars
    PROVE  Places'
<1> USE Numbers, LockIsTurn
    DEF IInv, Types, Places, userVars, loopVars, taskVars, rowVars, Holding
<1>1. ASSUME NEW t \in Turn, Ask(t)
       PROVE  Places'
  BY <1>1 DEF Ask
<1>2. ASSUME NEW t \in Turn, Acquire(t)
       PROVE  Places'
  BY <1>2 DEF Acquire
<1>3. CASE Begin
  BY <1>3 DEF Begin, Say
<1>4. CASE OpenRecord
  BY <1>4 DEF OpenRecord, Opened, Closed
<1>5. CASE Stopped
  <2>1. EndTurn(lock, "interrupted")
    BY <1>5 DEF Stopped
  <2> QED
    BY <1>5, <2>1, EndTurnTypes DEF Stopped, Closed
<1>6. CASE Drain
  BY <1>6 DEF Drain, Inject, Say
<1>7. CASE Issue
  BY <1>7 DEF Issue
<1>8. CASE StreamBreaks
  BY <1>8 DEF StreamBreaks, Say, SayAsUser
<1>9. CASE ReEmit
  BY <1>9 DEF ReEmit, AskForMore, NextPass, Say, SayAsUser
<1>10. CASE Continue
  BY <1>10 DEF Continue, AskForMore, NextPass, Say, SayAsUser
<1>11. CASE Answer
  <2>1. EndTurn(lock, "complete")
    BY <1>11 DEF Answer
  <2> QED
    BY <1>11, <2>1, EndTurnTypes DEF Answer, Closed, Say
<1>12. CASE LastPass
  <2>1. EndTurn(lock, "complete")
    BY <1>12 DEF LastPass
  <2> QED
    BY <1>12, <2>1, EndTurnTypes DEF LastPass, Closed, Say
<1>13. CASE Calls
  BY <1>13 DEF Calls, Say, SayAsUser
<1>14. CASE RunTools
  BY <1>14 DEF RunTools
<1>15. CASE ToolResult
  BY <1>15 DEF ToolResult, Result, NextPass
<1>16. CASE Crash
  <2>1. EndTurn(filed, "failed")
    BY <1>16 DEF Crash
  <2> QED
    BY <1>16, <2>1, EndTurnTypes DEF Crash, Closed
<1>17. CASE Leave
  BY <1>17 DEF Leave
<1>18. CASE Interrupt
  BY <1>18 DEF Interrupt
<1>19. CASE Review
  BY <1>19 DEF Review
<1>20. CASE Verdict
  BY <1>20 DEF Verdict, Push
<1>21. CASE RefineEnds
  BY <1>21 DEF RefineEnds
<1>22. CASE UNCHANGED vars
  BY <1>22 DEF vars
<1> QED
  BY <1>1, <1>2, <1>3, <1>4, <1>5, <1>6, <1>7, <1>8, <1>9, <1>10, <1>11, <1>12, <1>13,
     <1>14, <1>15, <1>16, <1>17, <1>18, <1>19, <1>20, <1>21, <1>22 DEF Next, Loop

(* A pass that makes calls is not the last, so no limit is passed.          *)
LEMMA CountersStep ==
    ASSUME IInv, [Next]_vars
    PROVE  Counters'
<1> USE Numbers, LockIsTurn
    DEF IInv, Types, Counters, Rows, Places, userVars, loopVars, taskVars, rowVars,
        Holding, Counting
<1>1. ASSUME NEW t \in Turn, Ask(t)
       PROVE  Counters'
  BY <1>1 DEF Ask
<1>2. ASSUME NEW t \in Turn, Acquire(t)
       PROVE  Counters'
  BY <1>2 DEF Acquire
<1>3. CASE Begin
  BY <1>3 DEF Begin, Say
<1>4. CASE OpenRecord
  BY <1>4 DEF OpenRecord, Opened, Closed
<1>5. CASE Stopped
  <2>1. EndTurn(lock, "interrupted")
    BY <1>5 DEF Stopped
  <2> QED
    BY <1>5, <2>1, EndTurnTypes DEF Stopped, Closed
<1>6. CASE Drain
  BY <1>6 DEF Drain, Inject, Say
<1>7. CASE Issue
  BY <1>7 DEF Issue
<1>8. CASE StreamBreaks
  BY <1>8 DEF StreamBreaks, Say, SayAsUser
<1>9. CASE ReEmit
  BY <1>9 DEF ReEmit, AskForMore, NextPass, Say, SayAsUser
<1>10. CASE Continue
  BY <1>10 DEF Continue, AskForMore, NextPass, Say, SayAsUser
<1>11. CASE Answer
  <2>1. EndTurn(lock, "complete")
    BY <1>11 DEF Answer
  <2> QED
    BY <1>11, <2>1, EndTurnTypes DEF Answer, Closed, Say
<1>12. CASE LastPass
  <2>1. EndTurn(lock, "complete")
    BY <1>12 DEF LastPass
  <2> QED
    BY <1>12, <2>1, EndTurnTypes DEF LastPass, Closed, Say
<1>13. CASE Calls
  BY <1>13 DEF Calls, Say, SayAsUser
<1>14. CASE RunTools
  BY <1>14 DEF RunTools
<1>15. CASE ToolResult
  BY <1>15 DEF ToolResult, Result, NextPass
<1>16. CASE Crash
  <2>1. EndTurn(filed, "failed")
    BY <1>16 DEF Crash
  <2> QED
    BY <1>16, <2>1, EndTurnTypes DEF Crash, Closed
<1>17. CASE Leave
  BY <1>17 DEF Leave
<1>18. CASE Interrupt
  BY <1>18 DEF Interrupt
<1>19. CASE Review
  BY <1>19 DEF Review
<1>20. CASE Verdict
  BY <1>20 DEF Verdict, Push
<1>21. CASE RefineEnds
  BY <1>21 DEF RefineEnds
<1>22. CASE UNCHANGED vars
  BY <1>22 DEF vars
<1> QED
  BY <1>1, <1>2, <1>3, <1>4, <1>5, <1>6, <1>7, <1>8, <1>9, <1>10, <1>11, <1>12, <1>13,
     <1>14, <1>15, <1>16, <1>17, <1>18, <1>19, <1>20, <1>21, <1>22 DEF Next, Loop

(* What is kept of each turn.                                               *)
LEMMA RowsStep ==
    ASSUME IInv, [Next]_vars
    PROVE  Rows'
<1> USE Numbers, LockIsTurn
    DEF IInv, Types, Counters, Rows, Places, userVars, loopVars, taskVars, rowVars, Holding
<1>1. ASSUME NEW t \in Turn, Ask(t)
       PROVE  Rows'
  BY <1>1 DEF Ask
<1>2. ASSUME NEW t \in Turn, Acquire(t)
       PROVE  Rows'
  BY <1>2 DEF Acquire
<1>3. CASE Begin
  BY <1>3 DEF Begin, Say
<1>4. CASE OpenRecord
  BY <1>4 DEF OpenRecord, Opened, Closed
<1>5. CASE Stopped
  <2>1. EndTurn(lock, "interrupted")
    BY <1>5 DEF Stopped
  <2> QED
    BY <1>5, <2>1, EndTurnTypes DEF Stopped, Closed
<1>6. CASE Drain
  BY <1>6 DEF Drain, Inject, Say
<1>7. CASE Issue
  BY <1>7 DEF Issue
<1>8. CASE StreamBreaks
  BY <1>8 DEF StreamBreaks, Say, SayAsUser
<1>9. CASE ReEmit
  BY <1>9 DEF ReEmit, AskForMore, NextPass, Say, SayAsUser
<1>10. CASE Continue
  BY <1>10 DEF Continue, AskForMore, NextPass, Say, SayAsUser
<1>11. CASE Answer
  <2>1. EndTurn(lock, "complete")
    BY <1>11 DEF Answer
  <2> QED
    BY <1>11, <2>1, EndTurnTypes DEF Answer, Closed, Say
<1>12. CASE LastPass
  <2>1. EndTurn(lock, "complete")
    BY <1>12 DEF LastPass
  <2> QED
    BY <1>12, <2>1, EndTurnTypes DEF LastPass, Closed, Say
<1>13. CASE Calls
  BY <1>13 DEF Calls, Say, SayAsUser
<1>14. CASE RunTools
  BY <1>14 DEF RunTools
<1>15. CASE ToolResult
  BY <1>15 DEF ToolResult, Result, NextPass
<1>16. CASE Crash
  <2>1. EndTurn(filed, "failed")
    BY <1>16 DEF Crash
  <2> QED
    BY <1>16, <2>1, EndTurnTypes DEF Crash, Closed
<1>17. CASE Leave
  BY <1>17 DEF Leave
<1>18. CASE Interrupt
  BY <1>18 DEF Interrupt
<1>19. CASE Review
  BY <1>19 DEF Review
<1>20. CASE Verdict
  BY <1>20 DEF Verdict, Push
<1>21. CASE RefineEnds
  BY <1>21 DEF RefineEnds
<1>22. CASE UNCHANGED vars
  BY <1>22 DEF vars
<1> QED
  BY <1>1, <1>2, <1>3, <1>4, <1>5, <1>6, <1>7, <1>8, <1>9, <1>10, <1>11, <1>12, <1>13,
     <1>14, <1>15, <1>16, <1>17, <1>18, <1>19, <1>20, <1>21, <1>22 DEF Next, Loop

(* The lock passes from turn to turn through nobody.                        *)
LEMMA HoldingStep ==
    ASSUME IInv, [Next]_vars
    PROVE  Holding'
<1> USE Numbers, LockIsTurn
    DEF IInv, Types, Flags, Places, Counters, Rows, userVars, loopVars, taskVars, rowVars,
        Holding
<1>1. ASSUME NEW t \in Turn, Ask(t)
       PROVE  Holding'
  BY <1>1 DEF Ask
<1>2. ASSUME NEW t \in Turn, Acquire(t)
       PROVE  Holding'
  BY <1>2 DEF Acquire
<1>3. CASE Begin
  BY <1>3 DEF Begin, Say
<1>4. CASE OpenRecord
  BY <1>4 DEF OpenRecord, Opened
<1>5. CASE Stopped
  BY <1>5 DEF Stopped, EndTurn, Finish, Refine
<1>6. CASE Drain
  BY <1>6 DEF Drain, Inject, Say
<1>7. CASE Issue
  BY <1>7 DEF Issue
<1>8. CASE StreamBreaks
  BY <1>8 DEF StreamBreaks, Say, SayAsUser
<1>9. CASE ReEmit
  BY <1>9 DEF ReEmit, AskForMore, NextPass, Say, SayAsUser
<1>10. CASE Continue
  BY <1>10 DEF Continue, AskForMore, NextPass, Say, SayAsUser
<1>11. CASE Answer
  BY <1>11 DEF Answer, EndTurn, Finish, Refine, Say
<1>12. CASE LastPass
  BY <1>12 DEF LastPass, EndTurn, Finish, Refine, Say
<1>13. CASE Calls
  BY <1>13 DEF Calls, Say, SayAsUser
<1>14. CASE RunTools
  BY <1>14 DEF RunTools
<1>15. CASE ToolResult
  BY <1>15 DEF ToolResult, Result, NextPass
<1>16. CASE Crash
  BY <1>16 DEF Crash, EndTurn, Finish, Refine
<1>17. CASE Leave
  BY <1>17 DEF Leave
<1>18. CASE Interrupt
  BY <1>18 DEF Interrupt
<1>19. CASE Review
  BY <1>19 DEF Review
<1>20. CASE Verdict
  BY <1>20 DEF Verdict, Push
<1>21. CASE RefineEnds
  BY <1>21 DEF RefineEnds
<1>22. CASE UNCHANGED vars
  BY <1>22 DEF vars
<1> QED
  BY <1>1, <1>2, <1>3, <1>4, <1>5, <1>6, <1>7, <1>8, <1>9, <1>10, <1>11, <1>12, <1>13,
     <1>14, <1>15, <1>16, <1>17, <1>18, <1>19, <1>20, <1>21, <1>22 DEF Next, Loop

(* A pass that makes calls is not the last.                                 *)
LEMMA CountingStep ==
    ASSUME IInv, [Next]_vars
    PROVE  Counting'
<1> USE Numbers, LockIsTurn
    DEF IInv, Types, Flags, Places, Counters, Rows, userVars, loopVars, taskVars, rowVars,
        Counting
<1>1. ASSUME NEW t \in Turn, Ask(t)
       PROVE  Counting'
  BY <1>1 DEF Ask
<1>2. ASSUME NEW t \in Turn, Acquire(t)
       PROVE  Counting'
  BY <1>2 DEF Acquire
<1>3. CASE Begin
  BY <1>3 DEF Begin, Say
<1>4. CASE OpenRecord
  BY <1>4 DEF OpenRecord, Opened
<1>5. CASE Stopped
  BY <1>5 DEF Stopped, EndTurn, Finish, Refine
<1>6. CASE Drain
  BY <1>6 DEF Drain, Inject, Say
<1>7. CASE Issue
  BY <1>7 DEF Issue
<1>8. CASE StreamBreaks
  BY <1>8 DEF StreamBreaks, Say, SayAsUser
<1>9. CASE ReEmit
  BY <1>9 DEF ReEmit, AskForMore, NextPass, Say, SayAsUser
<1>10. CASE Continue
  BY <1>10 DEF Continue, AskForMore, NextPass, Say, SayAsUser
<1>11. CASE Answer
  BY <1>11 DEF Answer, EndTurn, Finish, Refine, Say
<1>12. CASE LastPass
  BY <1>12 DEF LastPass, EndTurn, Finish, Refine, Say
<1>13. CASE Calls
  BY <1>13 DEF Calls, Say, SayAsUser
<1>14. CASE RunTools
  BY <1>14 DEF RunTools
<1>15. CASE ToolResult
  BY <1>15 DEF ToolResult, Result, NextPass
<1>16. CASE Crash
  BY <1>16 DEF Crash, EndTurn, Finish, Refine
<1>17. CASE Leave
  BY <1>17 DEF Leave
<1>18. CASE Interrupt
  BY <1>18 DEF Interrupt
<1>19. CASE Review
  BY <1>19 DEF Review
<1>20. CASE Verdict
  BY <1>20 DEF Verdict, Push
<1>21. CASE RefineEnds
  BY <1>21 DEF RefineEnds
<1>22. CASE UNCHANGED vars
  BY <1>22 DEF vars
<1> QED
  BY <1>1, <1>2, <1>3, <1>4, <1>5, <1>6, <1>7, <1>8, <1>9, <1>10, <1>11, <1>12, <1>13,
     <1>14, <1>15, <1>16, <1>17, <1>18, <1>19, <1>20, <1>21, <1>22 DEF Next, Loop

(* Results are owed only between a message with calls and its last result.  *)
LEMMA PairingStep ==
    ASSUME IInv, [Next]_vars
    PROVE  Pairing'
<1> USE Numbers, LockIsTurn
    DEF IInv, Types, Flags, Places, Counters, Rows, userVars, loopVars, taskVars, rowVars,
        Pairing, Holding, Counting
<1>1. ASSUME NEW t \in Turn, Ask(t)
       PROVE  Pairing'
  BY <1>1 DEF Ask
<1>2. ASSUME NEW t \in Turn, Acquire(t)
       PROVE  Pairing'
  BY <1>2 DEF Acquire
<1>3. CASE Begin
  BY <1>3 DEF Begin, Say
<1>4. CASE OpenRecord
  BY <1>4 DEF OpenRecord, Opened
<1>5. CASE Stopped
  BY <1>5 DEF Stopped, EndTurn, Finish, Refine
<1>6. CASE Drain
  BY <1>6 DEF Drain, Inject, Say
<1>7. CASE Issue
  BY <1>7 DEF Issue
<1>8. CASE StreamBreaks
  BY <1>8 DEF StreamBreaks, Say, SayAsUser
<1>9. CASE ReEmit
  BY <1>9 DEF ReEmit, AskForMore, NextPass, Say, SayAsUser
<1>10. CASE Continue
  BY <1>10 DEF Continue, AskForMore, NextPass, Say, SayAsUser
<1>11. CASE Answer
  BY <1>11 DEF Answer, EndTurn, Finish, Refine, Say
<1>12. CASE LastPass
  BY <1>12 DEF LastPass, EndTurn, Finish, Refine, Say
<1>13. CASE Calls
  BY <1>13 DEF Calls, Say, SayAsUser
<1>14. CASE RunTools
  BY <1>14 DEF RunTools
<1>15. CASE ToolResult
  BY <1>15 DEF ToolResult, Result, NextPass
<1>16. CASE Crash
  BY <1>16 DEF Crash, EndTurn, Finish, Refine
<1>17. CASE Leave
  BY <1>17 DEF Leave
<1>18. CASE Interrupt
  BY <1>18 DEF Interrupt
<1>19. CASE Review
  BY <1>19 DEF Review
<1>20. CASE Verdict
  BY <1>20 DEF Verdict, Push
<1>21. CASE RefineEnds
  BY <1>21 DEF RefineEnds
<1>22. CASE UNCHANGED vars
  BY <1>22 DEF vars
<1> QED
  BY <1>1, <1>2, <1>3, <1>4, <1>5, <1>6, <1>7, <1>8, <1>9, <1>10, <1>11, <1>12, <1>13,
     <1>14, <1>15, <1>16, <1>17, <1>18, <1>19, <1>20, <1>21, <1>22 DEF Next, Loop

(* A record is closed by the turn whose loop opened it.                     *)
LEMMA RecordsStep ==
    ASSUME IInv, [Next]_vars
    PROVE  Records'
<1> USE Numbers, LockIsTurn
    DEF IInv, Types, Flags, Places, Counters, Rows, userVars, loopVars, taskVars, rowVars,
        Records, Holding, Counting, InPass, Closed, Opened, Interventions
<1>1. ASSUME NEW t \in Turn, Ask(t)
       PROVE  Records'
  BY <1>1 DEF Ask
<1>2. ASSUME NEW t \in Turn, Acquire(t)
       PROVE  Records'
  BY <1>2 DEF Acquire
<1>3. CASE Begin
  BY <1>3 DEF Begin, Say
<1>4. CASE OpenRecord
  BY <1>4 DEF OpenRecord, Opened
<1>5. CASE Stopped
  BY <1>5 DEF Stopped, EndTurn, Finish, Refine
<1>6. CASE Drain
  BY <1>6 DEF Drain, Inject, Say
<1>7. CASE Issue
  BY <1>7 DEF Issue
<1>8. CASE StreamBreaks
  BY <1>8 DEF StreamBreaks, Say, SayAsUser
<1>9. CASE ReEmit
  BY <1>9 DEF ReEmit, AskForMore, NextPass, Say, SayAsUser
<1>10. CASE Continue
  BY <1>10 DEF Continue, AskForMore, NextPass, Say, SayAsUser
<1>11. CASE Answer
  BY <1>11 DEF Answer, EndTurn, Finish, Refine, Say
<1>12. CASE LastPass
  BY <1>12 DEF LastPass, EndTurn, Finish, Refine, Say
<1>13. CASE Calls
  BY <1>13 DEF Calls, Say, SayAsUser
<1>14. CASE RunTools
  BY <1>14 DEF RunTools
<1>15. CASE ToolResult
  BY <1>15 DEF ToolResult, Result, NextPass
<1>16. CASE Crash
  BY <1>16 DEF Crash, EndTurn, Finish, Refine
<1>17. CASE Leave
  BY <1>17 DEF Leave
<1>18. CASE Interrupt
  BY <1>18 DEF Interrupt
<1>19. CASE Review
  BY <1>19 DEF Review
<1>20. CASE Verdict
  BY <1>20 DEF Verdict, Push
<1>21. CASE RefineEnds
  BY <1>21 DEF RefineEnds
<1>22. CASE UNCHANGED vars
  BY <1>22 DEF vars
<1> QED
  BY <1>1, <1>2, <1>3, <1>4, <1>5, <1>6, <1>7, <1>8, <1>9, <1>10, <1>11, <1>12, <1>13,
     <1>14, <1>15, <1>16, <1>17, <1>18, <1>19, <1>20, <1>21, <1>22 DEF Next, Loop

(* A record is reviewed when it is closed, or by a crash without a record.  *)
LEMMA ReviewsStep ==
    ASSUME IInv, [Next]_vars
    PROVE  Reviews'
<1> USE Numbers, LockIsTurn
    DEF IInv, Types, Flags, Places, Counters, Rows, userVars, loopVars, taskVars, rowVars,
        Reviews, Records, Holding, InPass, Closed, Opened, WorthReview
<1>1. ASSUME NEW t \in Turn, Ask(t)
       PROVE  Reviews'
  BY <1>1 DEF Ask
<1>2. ASSUME NEW t \in Turn, Acquire(t)
       PROVE  Reviews'
  BY <1>2 DEF Acquire
<1>3. CASE Begin
  BY <1>3 DEF Begin, Say
<1>4. CASE OpenRecord
  BY <1>4 DEF OpenRecord, Opened
<1>5. CASE Stopped
  BY <1>5 DEF Stopped, EndTurn, Finish, Refine
<1>6. CASE Drain
  BY <1>6 DEF Drain, Inject, Say
<1>7. CASE Issue
  BY <1>7 DEF Issue
<1>8. CASE StreamBreaks
  BY <1>8 DEF StreamBreaks, Say, SayAsUser
<1>9. CASE ReEmit
  BY <1>9 DEF ReEmit, AskForMore, NextPass, Say, SayAsUser
<1>10. CASE Continue
  BY <1>10 DEF Continue, AskForMore, NextPass, Say, SayAsUser
<1>11. CASE Answer
  BY <1>11 DEF Answer, EndTurn, Finish, Refine, Say
<1>12. CASE LastPass
  BY <1>12 DEF LastPass, EndTurn, Finish, Refine, Say
<1>13. CASE Calls
  BY <1>13 DEF Calls, Say, SayAsUser
<1>14. CASE RunTools
  BY <1>14 DEF RunTools
<1>15. CASE ToolResult
  BY <1>15 DEF ToolResult, Result, NextPass
<1>16. CASE Crash
  BY <1>16 DEF Crash, EndTurn, Finish, Refine
<1>17. CASE Leave
  BY <1>17 DEF Leave
<1>18. CASE Interrupt
  BY <1>18 DEF Interrupt
<1>19. CASE Review
  BY <1>19 DEF Review
<1>20. CASE Verdict
  BY <1>20 DEF Verdict, Push
<1>21. CASE RefineEnds
  BY <1>21 DEF RefineEnds
<1>22. CASE UNCHANGED vars
  BY <1>22 DEF vars
<1> QED
  BY <1>1, <1>2, <1>3, <1>4, <1>5, <1>6, <1>7, <1>8, <1>9, <1>10, <1>11, <1>12, <1>13,
     <1>14, <1>15, <1>16, <1>17, <1>18, <1>19, <1>20, <1>21, <1>22 DEF Next, Loop

(* A stop event is seen where the next pass begins.                         *)
LEMMA StoppingStep ==
    ASSUME IInv, [Next]_vars
    PROVE  Stopping'
<1> USE Numbers, LockIsTurn
    DEF IInv, Types, Flags, Places, Counters, Rows, userVars, loopVars, taskVars, rowVars,
        Stopping, Counting
<1>1. ASSUME NEW t \in Turn, Ask(t)
       PROVE  Stopping'
  BY <1>1 DEF Ask
<1>2. ASSUME NEW t \in Turn, Acquire(t)
       PROVE  Stopping'
  BY <1>2 DEF Acquire
<1>3. CASE Begin
  BY <1>3 DEF Begin, Say
<1>4. CASE OpenRecord
  BY <1>4 DEF OpenRecord, Opened
<1>5. CASE Stopped
  BY <1>5 DEF Stopped, EndTurn, Finish, Refine
<1>6. CASE Drain
  BY <1>6 DEF Drain, Inject, Say
<1>7. CASE Issue
  BY <1>7 DEF Issue
<1>8. CASE StreamBreaks
  BY <1>8 DEF StreamBreaks, Say, SayAsUser
<1>9. CASE ReEmit
  BY <1>9 DEF ReEmit, AskForMore, NextPass, Say, SayAsUser
<1>10. CASE Continue
  BY <1>10 DEF Continue, AskForMore, NextPass, Say, SayAsUser
<1>11. CASE Answer
  BY <1>11 DEF Answer, EndTurn, Finish, Refine, Say
<1>12. CASE LastPass
  BY <1>12 DEF LastPass, EndTurn, Finish, Refine, Say
<1>13. CASE Calls
  BY <1>13 DEF Calls, Say, SayAsUser
<1>14. CASE RunTools
  BY <1>14 DEF RunTools
<1>15. CASE ToolResult
  BY <1>15 DEF ToolResult, Result, NextPass
<1>16. CASE Crash
  BY <1>16 DEF Crash, EndTurn, Finish, Refine
<1>17. CASE Leave
  BY <1>17 DEF Leave
<1>18. CASE Interrupt
  BY <1>18 DEF Interrupt
<1>19. CASE Review
  BY <1>19 DEF Review
<1>20. CASE Verdict
  BY <1>20 DEF Verdict, Push
<1>21. CASE RefineEnds
  BY <1>21 DEF RefineEnds
<1>22. CASE UNCHANGED vars
  BY <1>22 DEF vars
<1> QED
  BY <1>1, <1>2, <1>3, <1>4, <1>5, <1>6, <1>7, <1>8, <1>9, <1>10, <1>11, <1>12, <1>13,
     <1>14, <1>15, <1>16, <1>17, <1>18, <1>19, <1>20, <1>21, <1>22 DEF Next, Loop
-----------------------------------------------------------------------------
LEMMA Invariance == Spec => []IInv
<1>1. IInv /\ [Next]_vars => IInv'
  BY FlagsStep, PlacesStep, CountersStep, RowsStep, HoldingStep, CountingStep,
     PairingStep, RecordsStep, ReviewsStep,
     StoppingStep
  DEF IInv, Types
<1> QED
  BY InitIInv, <1>1, PTL DEF Spec

(* The types of the agent's state: in particular the loop variable and the  *)
(* attempts stay within their limits, so no pass is left by the silent exit *)
(* that the loop's else clause guards against.                              *)
THEOREM TurnTypes == Spec => []TypeOK
<1>1. IInv => TypeOK
  BY TypesImplyTypeOK DEF IInv
<1> QED
  BY Invariance, <1>1, PTL

(* Every request to the LLM has each tool call answered by its result; only *)
(* a turn that crashed while it ran tools leaves calls unanswered behind.   *)
THEOREM TurnCallsAnswered == Spec => []CallsAnswered
<1>1. IInv => CallsAnswered
  BY DEF IInv, Pairing, CallsAnswered
<1> QED
  BY Invariance, <1>1, PTL

(* Only the turn whose loop runs has an open task record, and a closed one  *)
(* charges the user with the corrections injected into its turn and with    *)
(* none of the loop's own rows.                                             *)
THEOREM TurnRecordsClosed == Spec => []RecordsClosed
<1>1. IInv => RecordsClosed
  BY DEF IInv, Records, Holding, InPass, Closed, RecordsClosed
<1> QED
  BY Invariance, <1>1, PTL

(* A second refine round for one task record takes another turn that        *)
(* crashed before it had a record.                                          *)
THEOREM TurnReviewedOnce == Spec => []ReviewedOnce
<1>1. IInv => ReviewedOnce
  BY DEF IInv, Reviews, ReviewedOnce
<1> QED
  BY Invariance, <1>1, PTL

(* After an interrupt at most the attempts of one pass are still made.      *)
THEOREM TurnStopIsPrompt == Spec => []StopIsPrompt
<1>1. IInv => StopIsPrompt
  BY DEF IInv, Stopping, StopIsPrompt
<1> QED
  BY Invariance, <1>1, PTL

=============================================================================
